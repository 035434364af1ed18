---------------------------- MODULE UsbIoProofs ----------------------------
(***************************************************************************)
(* Proofs about UsbIo, for any callers, timeouts and bounds.  The          *)
(* inductive invariant says who holds the events lock and the lock of the  *)
(* list, and to whom each transfer belongs: to its caller, to the kernel,  *)
(* to the queue of completed transfers or to the thread that completes it. *)
(***************************************************************************)
EXTENDS UsbIo, TLAPS, SequenceTheorems, WellFoundedInduction

-----------------------------------------------------------------------------
(* The inductive invariant.                                                *)

CompletingPcs == {"cancelled", "complete", "callback"}
TimeoutPcs    == {"expire", "expiring", "timedout"}
CallerPcs     == {"idle", "submit", "unlist", "wait", "cancel", "try", "trylock", "waiters",
                  "active", "sleep", "woken", "after", "broadcast"}
                 \union TimeoutPcs \union HandlerPcs
CloserPcs     == {"idle", "lockevents", "broadcast", "closed"} \union ClosePcs
Pcs           == CallerPcs \union CloserPcs
Rets          == {"idle", "after", "unlock", "batch", "batchfailed", "reaping", "disconnect"}
Results       == {"none", "COMPLETED", "CANCELLED", "TIMED_OUT", "NO_DEVICE"}
Urbs          == {"none", "submitted", "finished", "killed", "shutdown"}
Readiness     == {"no", "error", "reap"}
Errors        == {"ok", "failed", "interrupted"}

Transfer == [alive : BOOLEAN, flight : BOOLEAN, cancelling : BOOLEAN, asked : BOOLEAN,
             gone : BOOLEAN, handled : BOOLEAN, timedOut : BOOLEAN, due : Nat,
             handle : BOOLEAN, status : Results, done : BOOLEAN, urb : Urbs, queued : BOOLEAN]

Doing == [pc : Pcs, ret : Rets, until : Nat, x : Callers \union {None}, st : Results,
          ready : Readiness, batch : Seq(Callers), err : Errors, left : Nat]

FlagsTyped == /\ unplugged \in BOOLEAN /\ source \in BOOLEAN /\ removed \in BOOLEAN
              /\ eventData \in BOOLEAN /\ handlerActive \in BOOLEAN /\ open \in BOOLEAN

TypeOK ==
  /\ clock \in Nat /\ backend \in {"poll", "signal"} /\ upsets \in Nat
  /\ eventFlags \subseteq Flags /\ pipe \in Int /\ deviceClose \in Int
  /\ FlagsTyped
  /\ {eventsLock, waitersLock, flyingLock, openDevsLock} \subseteq Threads \union {None}
  /\ lock \in [Callers -> Callers \union {None}]
  /\ flying \in Seq(Callers) /\ completedTransfers \in Seq(Callers)
  /\ xfer \in [Callers -> Transfer] /\ th \in [Threads -> Doing]

(* The transfers by what is true of them.                                  *)
Alive     == {x \in Callers : xfer[x].alive}
Done      == {x \in Callers : xfer[x].done}
InTheAir  == {x \in Callers : xfer[x].flight}
Attached  == {x \in Callers : xfer[x].handle}
Queued    == {x \in Callers : xfer[x].queued}
Requested == {x \in Callers : xfer[x].urb # "none"}
Flying    == Range(flying)
Waiting   == Range(completedTransfers)
Taken(t)  == Range(th[t].batch)

Injective(s) == \A i, j \in DOMAIN s : s[i] = s[j] => i = j

Completing(t) == th[t].pc \in CompletingPcs

PcInv ==
  /\ \A t \in Callers :
       /\ th[t].pc \in CallerPcs
       /\ th[t].pc \in TimeoutPcs => th[t].ret \in {"after", "unlock"}
       /\ Completing(t) => /\ th[t].ret \in {"batch", "batchfailed", "reaping", "disconnect"}
                           /\ th[t].x \in Callers
       /\ th[t].pc = "timedout" => th[t].x \in Callers
  /\ th[Closer].pc \in CloserPcs

(* The events lock, its flag, and what libusb_close leaves in the context. *)
Holds(t) == IF t = Closer THEN th[t].pc \in ClosePcs ELSE HandlesEvents(t)

EventsLockInv == \A t \in Threads : Holds(t) <=> eventsLock = t

HandlerFlagInv == handlerActive <=> eventsLock # None

Closing == th[Closer].pc \in {"lockevents", "sweep", "detach", "lowering"}

CloseInv ==
  /\ deviceClose = IF Closing THEN 1 ELSE 0
  /\ Closing => "close" \in eventFlags

(* The lock of the list is held between two steps only while timeouts are  *)
(* handled.                                                                *)
FlyingLockInv == \A t \in Threads : th[t].pc \in {"expiring", "timedout"} <=> flyingLock = t

(* A transfer lives from its submission until its caller returns.          *)
OwnerInv ==
  /\ \A x \in Callers : x \in Alive <=> th[x].pc # "idle"
  /\ Done \union InTheAir \union Attached \union Requested \subseteq Alive
  /\ \A t \in Callers : th[t].pc \in {"submit", "unlist"} =>
       t \in Flying \ (InTheAir \union Requested) /\ th[Closer].pc = "idle"

FlyingInv == Injective(flying) /\ Flying \subseteq Attached \ Done

(* Only libusb_close takes the handle from a transfer; a backend that      *)
(* signals is closed when there is none.                                   *)
AttachedInv ==
  /\ th[Closer].pc \in {"idle", "lockevents", "sweep"} => Alive \subseteq Attached
  /\ backend = "signal" /\ th[Closer].pc # "idle" => Alive = {}

(* What the kernel has of a transfer, it has of one that flies.            *)
RequestInv ==
  /\ Requested \subseteq InTheAir
  /\ th[Closer].pc # "detach" => Requested \subseteq Flying

(* A completed transfer waits in one place until a handler comes to it.    *)
QueueInv ==
  /\ Queued \subseteq Requested
  /\ Queued # {} => backend = "signal"
  /\ Injective(completedTransfers) /\ Waiting \subseteq Queued
  /\ \A t \in Threads :
       /\ Injective(th[t].batch) /\ Taken(t) \subseteq Queued
       /\ Taken(t) \intersect Waiting = {}
       /\ th[t].batch # <<>> => InBatch(t)

(* The transfer that a thread completes is its own until the callback.     *)
CompletingInv ==
  \A t \in Callers : Completing(t) =>
    /\ th[t].x \in (InTheAir \intersect Attached) \ (Done \union Requested)
    /\ th[t].x \in Flying <=> th[t].pc # "callback"

TimedOutInv == \A t \in Callers : th[t].pc = "timedout" => th[t].x \in Flying

(* The descriptor is handled with a backend that polls.                    *)
PollInv ==
  \A t \in Callers :
    \/ th[t].ready # "no" \/ th[t].pc \in {"reap", "reaping", "disconnect"}
    \/ Completing(t) /\ th[t].ret \in {"reaping", "disconnect"}
    => backend = "poll"

IoInv == /\ TypeOK /\ PcInv /\ EventsLockInv /\ HandlerFlagInv /\ CloseInv /\ FlyingLockInv /\ OwnerInv /\ FlyingInv
         /\ AttachedInv /\ RequestInv /\ QueueInv /\ CompletingInv /\ TimedOutInv /\ PollInv
         /\ EventPipe

-----------------------------------------------------------------------------
(* Sequences without repetition, and what the lists do to them.            *)

LEMMA RangeIs ==
  ASSUME NEW S, NEW s \in Seq(S)
  PROVE  /\ Len(s) \in Nat /\ DOMAIN s = 1..Len(s)
         /\ \A i \in 1..Len(s) : s[i] \in S /\ s[i] \in Range(s)
         /\ Range(s) \subseteq S
         /\ \A e : e \in Range(s) <=> \E i \in 1..Len(s) : s[i] = e
<1>1. Len(s) \in Nat /\ DOMAIN s = 1..Len(s) /\ \A i \in 1..Len(s) : s[i] \in S BY LenProperties, ElementOfSeq
<1> QED BY <1>1, Zenon DEF Range

LEMMA InsertAtIs ==
  ASSUME NEW S, NEW s \in Seq(S), NEW i \in 1..Len(s) + 1, NEW e \in S
  PROVE  /\ InsertAt(s, i, e) \in Seq(S)
         /\ Range(InsertAt(s, i, e)) = Range(s) \union {e}
         /\ Injective(s) /\ e \notin Range(s) => Injective(InsertAt(s, i, e))
<1> DEFINE a == SubSeq(s, 1, i - 1)
           b == SubSeq(s, i, Len(s))
           r == InsertAt(s, i, e)
<1>1. Len(s) \in Nat /\ i \in Int /\ \A j \in 1..Len(s) : s[j] \in S BY RangeIs, SMT
<1>2. a \in Seq(S) /\ Len(a) = i - 1 /\ \A j \in 1..i - 1 : a[j] = s[j]
  <2>1. \A j \in 1..i - 1 : s[j] \in S BY <1>1, SMT
  <2> QED BY <1>1, <2>1, SubSeqProperties, SMT
<1>3. b \in Seq(S) /\ Len(b) = Len(s) - i + 1 /\ \A j \in 1..Len(s) - i + 1 : b[j] = s[i + j - 1]
  <2>1. \A j \in i..Len(s) : s[j] \in S BY <1>1, SMT
  <2> QED BY <1>1, <2>1, SubSeqProperties, SMT
<1>4. <<e>> \in Seq(S) /\ Len(<<e>>) = 1 /\ <<e>>[1] = e BY SMT
<1> HIDE DEF a, b
<1>5. /\ a \o <<e>> \in Seq(S) /\ Len(a \o <<e>>) = i
      /\ \A j \in 1..i : (a \o <<e>>)[j] = IF j < i THEN s[j] ELSE e
  BY <1>1, <1>2, <1>4, ConcatProperties, SMT
<1>6. /\ r = (a \o <<e>>) \o b BY Zenon DEF InsertAt, a, b
<1>7. /\ r \in Seq(S) /\ Len(r) = Len(s) + 1
      /\ \A j \in 1..Len(s) + 1 : r[j] = IF j < i THEN s[j] ELSE IF j = i THEN e ELSE s[j - 1]
  <2> DEFINE c == a \o <<e>>
  <2>a. r = c \o b /\ c \in Seq(S) /\ Len(c) = i BY <1>5, <1>6
  <2>b. \A j \in 1..i : c[j] = IF j < i THEN s[j] ELSE e BY <1>5
  <2> HIDE DEF r, c
  <2>1. /\ r \in Seq(S) /\ Len(r) = Len(c) + Len(b)
        /\ \A j \in 1..Len(c) + Len(b) : r[j] = IF j <= Len(c) THEN c[j] ELSE b[j - Len(c)]
    BY <1>3, <2>a, ConcatProperties
  <2>c. Len(c) + Len(b) = Len(s) + 1 BY <2>a, <1>1, <1>3, SMT
  <2>2. /\ Len(r) = Len(s) + 1
        /\ \A j \in 1..Len(s) + 1 : r[j] = IF j <= i THEN c[j] ELSE b[j - i]
    BY <2>1, <2>a, <2>c
  <2>3. \A j \in 1..Len(s) + 1 : j > i => r[j] = s[j - 1]
    <3> SUFFICES ASSUME NEW j \in 1..Len(s) + 1, j > i PROVE r[j] = s[j - 1] OBVIOUS
    <3>1. j - i \in 1..Len(s) - i + 1 /\ i + (j - i) - 1 = j - 1 BY <1>1, SMT
    <3>2. r[j] = b[j - i] BY <2>2, <1>1, SMT
    <3> QED BY <3>1, <3>2, <1>3
  <2>4. \A j \in 1..Len(s) + 1 : j <= i => r[j] = IF j < i THEN s[j] ELSE e BY <2>2, <2>b, <1>1, SMT
  <2> QED BY <2>1, <2>2, <2>3, <2>4, <1>1, SMT
<1> HIDE DEF r
<1>8. Range(r) = Range(s) \union {e}
  <2>1. \A j \in 1..Len(s) + 1 : r[j] \in Range(s) \union {e}
    <3> SUFFICES ASSUME NEW j \in 1..Len(s) + 1 PROVE r[j] \in Range(s) \union {e} OBVIOUS
    <3>1. CASE j < i
      <4>1. j \in 1..Len(s) /\ r[j] = s[j] BY <3>1, <1>1, <1>7, SMT
      <4> QED BY <4>1, RangeIs
    <3>2. CASE j = i BY <3>2, <1>1, <1>7, SMT
    <3>3. CASE j > i
      <4>1. j - 1 \in 1..Len(s) /\ r[j] = s[j - 1] BY <3>3, <1>1, <1>7, SMT
      <4> QED BY <4>1, RangeIs
    <3> QED BY <3>1, <3>2, <3>3, <1>1, SMT
  <2>2. e \in Range(r)
    <3>1. i \in 1..Len(r) /\ r[i] = e BY <1>1, <1>7, SMT
    <3> QED BY <3>1, <1>7, RangeIs
  <2>3. \A j \in 1..Len(s) : s[j] \in Range(r)
    <3> SUFFICES ASSUME NEW j \in 1..Len(s) PROVE s[j] \in Range(r) OBVIOUS
    <3>1. \E k \in 1..Len(r) : r[k] = s[j]
      <4>1. CASE j < i BY <4>1, <1>1, <1>7, SMT
      <4>2. CASE j >= i
        <5>1. j + 1 \in 1..Len(r) /\ r[j + 1] = s[j] BY <4>2, <1>1, <1>7, SMT
        <5> QED BY <5>1
      <4> QED BY <4>1, <4>2, <1>1, SMT
    <3> QED BY <3>1, <1>7, RangeIs
  <2>4. \A d : d \in Range(r) <=> \E j \in 1..Len(s) + 1 : r[j] = d BY <1>7, RangeIs
  <2>5. \A d : d \in Range(s) <=> \E j \in 1..Len(s) : s[j] = d BY RangeIs
  <2> QED BY <2>1, <2>2, <2>3, <2>4, <2>5, Zenon
<1>9. ASSUME Injective(s), e \notin Range(s) PROVE Injective(r)
  <2>1. \A j \in 1..Len(s) : s[j] # e BY <1>9, RangeIs
  <2>2. \A j, k \in 1..Len(s) : s[j] = s[k] => j = k BY <1>9, RangeIs DEF Injective
  <2>3. DOMAIN r = 1..Len(s) + 1 BY <1>7, RangeIs
  <2>4. ASSUME NEW j \in 1..Len(s) + 1, NEW k \in 1..Len(s) + 1, r[j] = r[k], j < k PROVE FALSE
    <3>1. j < i => j \in 1..Len(s) /\ r[j] = s[j] BY <1>1, <1>7, SMT
    <3>2. k > i => k - 1 \in 1..Len(s) /\ r[k] = s[k - 1] BY <1>1, <1>7, SMT
    <3>3. j > i => j - 1 \in 1..Len(s) /\ r[j] = s[j - 1] BY <1>1, <1>7, SMT
    <3>4. k < i => k \in 1..Len(s) /\ r[k] = s[k] BY <1>1, <1>7, SMT
    <3>5. r[i] = e BY <1>1, <1>7, SMT
    <3> QED BY <2>1, <2>2, <2>4, <3>1, <3>2, <3>3, <3>4, <3>5, <1>1, SMT
  <2>5. \A j, k \in 1..Len(s) + 1 : r[j] = r[k] => j = k BY <2>4, <1>1, SMT
  <2> QED BY <2>3, <2>5 DEF Injective
<1> QED BY <1>7, <1>8, <1>9 DEF r

LEMMA RemoveAtIs ==
  ASSUME NEW S, NEW s \in Seq(S), NEW i \in 1..Len(s), Injective(s)
  PROVE  /\ RemoveAt(s, i) \in Seq(S)
         /\ Range(RemoveAt(s, i)) = Range(s) \ {s[i]}
         /\ Injective(RemoveAt(s, i))
<1> DEFINE a == SubSeq(s, 1, i - 1)
           b == SubSeq(s, i + 1, Len(s))
           r == RemoveAt(s, i)
<1>1. Len(s) \in Nat /\ i \in Int /\ \A j \in 1..Len(s) : s[j] \in S BY RangeIs, SMT
<1>2. a \in Seq(S) /\ Len(a) = i - 1 /\ \A j \in 1..i - 1 : a[j] = s[j]
  <2>1. \A j \in 1..i - 1 : s[j] \in S BY <1>1, SMT
  <2> QED BY <1>1, <2>1, SubSeqProperties, SMT
<1>3. b \in Seq(S) /\ Len(b) = Len(s) - i /\ \A j \in 1..Len(s) - i : b[j] = s[i + j]
  <2>1. \A j \in i + 1..Len(s) : s[j] \in S BY <1>1, SMT
  <2> QED BY <1>1, <2>1, SubSeqProperties, SMT
<1>4. r = a \o b BY Zenon DEF RemoveAt
<1> HIDE DEF a, b, r
<1>5. /\ r \in Seq(S) /\ Len(r) = Len(s) - 1
      /\ \A j \in 1..Len(s) - 1 : r[j] = IF j < i THEN s[j] ELSE s[j + 1]
  <2>1. /\ r \in Seq(S) /\ Len(r) = Len(a) + Len(b)
        /\ \A j \in 1..Len(a) + Len(b) : r[j] = IF j <= Len(a) THEN a[j] ELSE b[j - Len(a)]
    BY <1>2, <1>3, <1>4, ConcatProperties
  <2>2. \A j \in 1..Len(s) - 1 : j >= i => r[j] = s[j + 1]
    <3> SUFFICES ASSUME NEW j \in 1..Len(s) - 1, j >= i PROVE r[j] = s[j + 1] OBVIOUS
    <3>1. j - (i - 1) \in 1..Len(s) - i /\ i + (j - (i - 1)) = j + 1 BY <1>1, SMT
    <3>2. j \in 1..Len(a) + Len(b) /\ ~ (j <= Len(a)) BY <1>1, <1>2, <1>3, SMT
    <3>3. r[j] = b[j - (i - 1)] BY <2>1, <3>2, <1>2
    <3> QED BY <3>1, <3>3, <1>3
  <2>3. \A j \in 1..Len(s) - 1 : j < i => r[j] = s[j]
    <3> SUFFICES ASSUME NEW j \in 1..Len(s) - 1, j < i PROVE r[j] = s[j] OBVIOUS
    <3>1. j \in 1..Len(a) + Len(b) /\ j <= Len(a) /\ j \in 1..i - 1 BY <1>1, <1>2, <1>3, SMT
    <3> QED BY <2>1, <3>1, <1>2
  <2> QED BY <2>1, <2>2, <2>3, <1>1, <1>2, <1>3, SMT
<1>6. DOMAIN r = 1..Len(s) - 1 BY <1>5, RangeIs
<1>7. \A j, k \in 1..Len(s) : s[j] = s[k] => j = k BY RangeIs DEF Injective
<1>8. Injective(r)
  <2>1. \A j, k \in 1..Len(s) - 1 : r[j] = r[k] => j = k BY <1>7, <1>1, <1>5, SMT
  <2> QED BY <2>1, <1>6 DEF Injective
<1>9. Range(r) = Range(s) \ {s[i]}
  <2>1. \A j \in 1..Len(s) - 1 : r[j] \in Range(s) \ {s[i]}
    <3> SUFFICES ASSUME NEW j \in 1..Len(s) - 1 PROVE r[j] \in Range(s) \ {s[i]} OBVIOUS
    <3>1. \E k \in 1..Len(s) \ {i} : r[j] = s[k]
      <4>1. CASE j < i BY <4>1, <1>1, <1>5, SMT
      <4>2. CASE j >= i
        <5>1. j + 1 \in 1..Len(s) \ {i} /\ r[j] = s[j + 1] BY <4>2, <1>1, <1>5, SMT
        <5> QED BY <5>1
      <4> QED BY <4>1, <4>2, <1>1, SMT
    <3> QED BY <3>1, <1>7, RangeIs
  <2>2. \A j \in 1..Len(s) : j # i => s[j] \in Range(r)
    <3> SUFFICES ASSUME NEW j \in 1..Len(s), j # i PROVE s[j] \in Range(r) OBVIOUS
    <3>1. \E k \in 1..Len(r) : r[k] = s[j]
      <4>1. CASE j < i BY <4>1, <1>1, <1>5, SMT
      <4>2. CASE j > i
        <5>1. j - 1 \in 1..Len(r) /\ r[j - 1] = s[j] BY <4>2, <1>1, <1>5, SMT
        <5> QED BY <5>1
      <4> QED BY <4>1, <4>2, <1>1, SMT
    <3> QED BY <3>1, <1>5, RangeIs
  <2>3. \A d : d \in Range(r) <=> \E j \in 1..Len(r) : r[j] = d BY <1>5, RangeIs, Zenon
  <2>4. \A d : d \in Range(s) <=> \E j \in 1..Len(s) : s[j] = d BY RangeIs, Zenon
  <2>5. Len(r) = Len(s) - 1 BY <1>5
  <2>6. ASSUME NEW d \in Range(r) PROVE d \in Range(s) \ {s[i]}
    <3>1. \E j \in 1..Len(s) - 1 : r[j] = d BY <2>3, <2>5, <2>6, Zenon
    <3> QED BY <2>1, <3>1, Zenon
  <2>7. ASSUME NEW d \in Range(s) \ {s[i]} PROVE d \in Range(r)
    <3>1. \E j \in 1..Len(s) : s[j] = d BY <2>4, <2>7, Zenon
    <3> QED BY <2>2, <2>7, <3>1, Zenon
  <2> QED BY <2>6, <2>7, Zenon
<1> QED BY <1>5, <1>8, <1>9 DEF r

LEMMA AppendIs ==
  ASSUME NEW S, NEW s \in Seq(S), NEW e \in S
  PROVE  /\ Append(s, e) \in Seq(S)
         /\ Range(Append(s, e)) = Range(s) \union {e}
         /\ Injective(s) /\ e \notin Range(s) => Injective(Append(s, e))
<1> DEFINE r == Append(s, e)
<1>1. /\ r \in Seq(S) /\ Len(r) = Len(s) + 1 /\ r[Len(s) + 1] = e
      /\ \A j \in 1..Len(s) : r[j] = s[j]
  BY AppendProperties
<1>2. Len(s) \in Nat BY RangeIs
<1> HIDE DEF r
<1>3. \A j \in 1..Len(r) : j \in 1..Len(s) \/ j = Len(s) + 1 BY <1>1, <1>2, SMT
<1>4. \A j \in 1..Len(s) : j \in 1..Len(r) BY <1>1, <1>2, SMT
<1>5. Len(s) + 1 \in 1..Len(r) BY <1>1, <1>2, SMT
<1>6. Range(r) = Range(s) \union {e} BY <1>1, <1>3, <1>4, <1>5, RangeIs
<1>7. ASSUME Injective(s), e \notin Range(s) PROVE Injective(r)
  <2>1. \A j \in 1..Len(s) : s[j] # e BY <1>7, RangeIs
  <2>2. \A j, k \in 1..Len(s) : s[j] = s[k] => j = k BY <1>7, RangeIs DEF Injective
  <2>3. DOMAIN r = 1..Len(r) BY <1>1, RangeIs
  <2>4. \A j, k \in 1..Len(r) : r[j] = r[k] => j = k BY <2>1, <2>2, <1>1, <1>3, SMT
  <2> QED BY <2>3, <2>4 DEF Injective
<1> QED BY <1>1, <1>6, <1>7 DEF r

LEMMA TailIs ==
  ASSUME NEW S, NEW s \in Seq(S), s # <<>>, Injective(s)
  PROVE  /\ Tail(s) \in Seq(S) /\ Head(s) \in Range(s)
         /\ Range(Tail(s)) = Range(s) \ {Head(s)}
         /\ Injective(Tail(s))
<1> DEFINE r == Tail(s)
<1>1. r \in Seq(S) /\ Len(r) = Len(s) - 1 /\ \A j \in 1..Len(r) : r[j] = s[j + 1]
  BY HeadTailProperties
<1>2. Len(s) \in Nat \ {0} BY EmptySeq
<1>3. Head(s) = s[1] BY <1>2, SMT
<1> HIDE DEF r
<1>4. \A j, k \in 1..Len(s) : s[j] = s[k] => j = k BY RangeIs DEF Injective
<1>5. \A j \in 1..Len(r) : j + 1 \in 1..Len(s) /\ j + 1 # 1 BY <1>1, <1>2, SMT
<1>6. \A j \in 1..Len(s) : j # 1 => j - 1 \in 1..Len(r) /\ r[j - 1] = s[j] BY <1>1, <1>2, SMT
<1>7. 1 \in 1..Len(s) BY <1>2, SMT
<1>8. Range(r) = Range(s) \ {Head(s)}
  <2>1. \A j \in 1..Len(r) : r[j] \in Range(s) \ {s[1]} BY <1>1, <1>4, <1>5, <1>7, RangeIs
  <2>2. \A j \in 1..Len(s) : j # 1 => s[j] \in Range(r) BY <1>1, <1>6, RangeIs
  <2> QED BY <2>1, <2>2, <1>1, <1>3, RangeIs
<1>9. Injective(r)
  <2>1. DOMAIN r = 1..Len(r) BY <1>1, RangeIs
  <2>2. \A j, k \in 1..Len(r) : r[j] = r[k] => j = k BY <1>1, <1>2, <1>4, <1>5, SMT
  <2> QED BY <2>1, <2>2 DEF Injective
<1> QED BY <1>1, <1>3, <1>7, <1>8, <1>9, RangeIs DEF r

LEMMA ConcatIs ==
  ASSUME NEW S, NEW s \in Seq(S), NEW u \in Seq(S), Injective(s), Injective(u),
         Range(s) \intersect Range(u) = {}
  PROVE  /\ s \o u \in Seq(S)
         /\ Range(s \o u) = Range(s) \union Range(u)
         /\ Injective(s \o u)
<1> DEFINE r == s \o u
<1>1. /\ r \in Seq(S) /\ Len(r) = Len(s) + Len(u)
      /\ \A j \in 1..Len(s) + Len(u) : r[j] = IF j =< Len(s) THEN s[j] ELSE u[j - Len(s)]
  BY ConcatProperties
<1>2. Len(s) \in Nat /\ Len(u) \in Nat BY RangeIs
<1> HIDE DEF r
<1>3. \A j, k \in 1..Len(s) : s[j] = s[k] => j = k BY RangeIs DEF Injective
<1>4. \A j, k \in 1..Len(u) : u[j] = u[k] => j = k BY RangeIs DEF Injective
<1>5. \A j \in 1..Len(s), k \in 1..Len(u) : s[j] # u[k] BY RangeIs
<1>6. DOMAIN r = 1..Len(s) + Len(u) BY <1>1, RangeIs
<1>7. ASSUME NEW j \in 1..Len(s) + Len(u), NEW k \in 1..Len(s) + Len(u), r[j] = r[k], j < k PROVE FALSE
  <2>1. j <= Len(s) => j \in 1..Len(s) /\ r[j] = s[j] BY <1>1, <1>2, SMT
  <2>2. k <= Len(s) => k \in 1..Len(s) /\ r[k] = s[k] BY <1>1, <1>2, SMT
  <2>3. j > Len(s) => j - Len(s) \in 1..Len(u) /\ r[j] = u[j - Len(s)] BY <1>1, <1>2, SMT
  <2>4. k > Len(s) => k - Len(s) \in 1..Len(u) /\ r[k] = u[k - Len(s)] BY <1>1, <1>2, SMT
  <2> QED BY <1>2, <1>3, <1>4, <1>5, <1>7, <2>1, <2>2, <2>3, <2>4, SMT
<1>8. \A j, k \in 1..Len(s) + Len(u) : r[j] = r[k] => j = k BY <1>2, <1>7, SMT
<1> QED BY <1>1, <1>6, <1>8, RangeConcatenation DEF Injective, r

LEMMA NothingInEmpty == Injective(<<>>) /\ Range(<<>>) = {}
  BY SMT DEF Injective, Range

(* The first of the positions a list is searched for.                      *)
LEMMA FirstIn ==
  ASSUME NEW n \in Nat, NEW I \in SUBSET (1..n), I # {}
  PROVE  First(I) \in I
<1>1. I \subseteq Nat BY SMT
<1>2. PICK x \in I : \A y \in I : <<y, x>> \notin OpToRel(<, Nat)
  BY <1>1, WFMin, NatLessThanWellFounded
<1>3. \A y \in I : x =< y
  <2> SUFFICES ASSUME NEW y \in I, y < x PROVE FALSE BY <1>1, SMT
  <2>1. <<y, x>> \in Nat \X Nat /\ <<y, x>>[1] < <<y, x>>[2] BY <1>1
  <2>2. <<y, x>> \in OpToRel(<, Nat) BY <2>1, Zenon DEF OpToRel
  <2> QED BY <1>2, <2>2
<1>4. \E z \in I : \A y \in I : z =< y BY <1>3
<1> QED BY <1>4, Zenon DEF First


-----------------------------------------------------------------------------
(* What an assignment to fields of th[t] does: nothing to other threads,   *)
(* nothing to other fields, and the types stay.                            *)

Others(t) == \A u \in Threads \ {t} : th'[u] = th[u]

Moves(t, l) == /\ Others(t) /\ th'[t].pc = l /\ th'[t].ret = th[t].ret
               /\ th'[t].x = th[t].x /\ th'[t].st = th[t].st
               /\ th'[t].ready = th[t].ready /\ th'[t].batch = th[t].batch

MovesFor(t, l, r) == /\ Others(t) /\ th'[t].pc = l /\ th'[t].ret = r
                     /\ th'[t].x = th[t].x /\ th'[t].st = th[t].st
                     /\ th'[t].ready = th[t].ready /\ th'[t].batch = th[t].batch

Polled(t, l, d) == /\ Others(t) /\ th'[t].pc = l /\ th'[t].ret = th[t].ret
                   /\ th'[t].x = th[t].x /\ th'[t].st = th[t].st
                   /\ th'[t].ready = d /\ th'[t].batch = th[t].batch

Settled(t, l, s) == /\ Others(t) /\ th'[t].pc = l /\ th'[t].ret = th[t].ret
                    /\ th'[t].x = th[t].x /\ th'[t].st = s
                    /\ th'[t].ready = th[t].ready /\ th'[t].batch = th[t].batch

Batched(t, l, b) == /\ Others(t) /\ th'[t].pc = l /\ th'[t].ret = th[t].ret
                    /\ th'[t].x = th[t].x /\ th'[t].st = th[t].st
                    /\ th'[t].ready = th[t].ready /\ th'[t].batch = b

Turns(t, l, y) == /\ Others(t) /\ th'[t].pc = l /\ th'[t].ret = th[t].ret
                  /\ th'[t].x = y /\ th'[t].st = th[t].st
                  /\ th'[t].ready = th[t].ready /\ th'[t].batch = th[t].batch

LeavesOff(t, l, y, s) == /\ Others(t) /\ th'[t].pc = l /\ th'[t].ret = th[t].ret
                         /\ th'[t].x = y /\ th'[t].st = s
                         /\ th'[t].ready = th[t].ready /\ th'[t].batch = th[t].batch

(* It starts on transfer y with status s, and will go on with r.           *)
Starts(t, l, y, s, r, b) == /\ Others(t) /\ th'[t].pc = l /\ th'[t].ret = r
                            /\ th'[t].x = y /\ th'[t].st = s
                            /\ th'[t].ready = th[t].ready /\ th'[t].batch = b

LEMMA DoingWith ==
  ASSUME NEW r \in Doing
  PROVE  /\ \A v \in Pcs : [r EXCEPT !.pc = v] \in Doing
         /\ \A v \in Rets : [r EXCEPT !.ret = v] \in Doing
         /\ \A v \in Nat : [r EXCEPT !.until = v] \in Doing
         /\ \A v \in Callers \union {None} : [r EXCEPT !.x = v] \in Doing
         /\ \A v \in Results : [r EXCEPT !.st = v] \in Doing
         /\ \A v \in Readiness : [r EXCEPT !.ready = v] \in Doing
         /\ \A v \in Seq(Callers) : [r EXCEPT !.batch = v] \in Doing
         /\ \A v \in Errors : [r EXCEPT !.err = v] \in Doing
         /\ \A v \in Nat : [r EXCEPT !.left = v] \in Doing
<1>1. ASSUME NEW v \in Pcs PROVE [r EXCEPT !.pc = v] \in Doing BY SMT DEF Doing
<1>2. ASSUME NEW v \in Rets PROVE [r EXCEPT !.ret = v] \in Doing BY SMT DEF Doing
<1>3. ASSUME NEW v \in Nat PROVE [r EXCEPT !.until = v] \in Doing BY SMT DEF Doing
<1>4. ASSUME NEW v \in Callers \union {None} PROVE [r EXCEPT !.x = v] \in Doing BY SMT DEF Doing
<1>5. ASSUME NEW v \in Results PROVE [r EXCEPT !.st = v] \in Doing BY SMT DEF Doing
<1>6. ASSUME NEW v \in Readiness PROVE [r EXCEPT !.ready = v] \in Doing BY SMT DEF Doing
<1>7. ASSUME NEW v \in Seq(Callers) PROVE [r EXCEPT !.batch = v] \in Doing BY SMT DEF Doing
<1>8. ASSUME NEW v \in Errors PROVE [r EXCEPT !.err = v] \in Doing BY SMT DEF Doing
<1>9. ASSUME NEW v \in Nat PROVE [r EXCEPT !.left = v] \in Doing BY SMT DEF Doing
<1> QED BY <1>1, <1>2, <1>3, <1>4, <1>5, <1>6, <1>7, <1>8, <1>9, Zenon

LEMMA Goes ==
  ASSUME th \in [Threads -> Doing], NEW t \in Threads,
         NEW l \in Pcs,
         th' = [th EXCEPT ![t].pc = l]
  PROVE  th' \in [Threads -> Doing] /\ Moves(t, l)
<1>1. th' = [th EXCEPT ![t] = [th[t] EXCEPT !.pc = l]] OBVIOUS
<1>3. th[t] \in Doing OBVIOUS
<1>4. [th[t] EXCEPT !.pc = l] \in Doing BY <1>3, DoingWith, Zenon
<1>5. th' \in [Threads -> Doing] /\ Others(t) /\ th'[t] = [th[t] EXCEPT !.pc = l] BY <1>1, <1>4, SMT DEF Others
<1> QED BY <1>3, <1>5, SMT DEF Doing, Moves

LEMMA GoesFor ==
  ASSUME th \in [Threads -> Doing], NEW t \in Threads,
         NEW l \in Pcs, NEW r \in Rets,
         th' = [th EXCEPT ![t].pc = l, ![t].ret = r]
  PROVE  th' \in [Threads -> Doing] /\ MovesFor(t, l, r)
<1>1. th' = [th EXCEPT ![t] = [th[t] EXCEPT !.pc = l, !.ret = r]] OBVIOUS
<1>2. [th[t] EXCEPT !.pc = l, !.ret = r] =
      [[th[t] EXCEPT !.pc = l] EXCEPT !.ret = r]
  BY SMT DEF Doing
<1>3. th[t] \in Doing OBVIOUS
<1>4. [th[t] EXCEPT !.pc = l, !.ret = r] \in Doing BY <1>2, <1>3, DoingWith, Zenon
<1>5. th' \in [Threads -> Doing] /\ Others(t) /\ th'[t] = [th[t] EXCEPT !.pc = l, !.ret = r] BY <1>1, <1>4, SMT DEF Others
<1> QED BY <1>3, <1>5, SMT DEF Doing, MovesFor

LEMMA GoesTimed ==
  ASSUME th \in [Threads -> Doing], NEW t \in Threads,
         NEW l \in Pcs, NEW n \in Nat,
         th' = [th EXCEPT ![t].pc = l, ![t].until = n]
  PROVE  th' \in [Threads -> Doing] /\ Moves(t, l)
<1>1. th' = [th EXCEPT ![t] = [th[t] EXCEPT !.pc = l, !.until = n]] OBVIOUS
<1>2. [th[t] EXCEPT !.pc = l, !.until = n] =
      [[th[t] EXCEPT !.pc = l] EXCEPT !.until = n]
  BY SMT DEF Doing
<1>3. th[t] \in Doing OBVIOUS
<1>4. [th[t] EXCEPT !.pc = l, !.until = n] \in Doing BY <1>2, <1>3, DoingWith, Zenon
<1>5. th' \in [Threads -> Doing] /\ Others(t) /\ th'[t] = [th[t] EXCEPT !.pc = l, !.until = n] BY <1>1, <1>4, SMT DEF Others
<1> QED BY <1>3, <1>5, SMT DEF Doing, Moves

LEMMA Submits ==
  ASSUME th \in [Threads -> Doing], NEW t \in Threads,
         NEW l \in Pcs, NEW m \in Nat, NEW e \in Errors,
         th' = [th EXCEPT ![t].pc = l, ![t].left = m, ![t].err = e]
  PROVE  th' \in [Threads -> Doing] /\ Moves(t, l)
<1>1. th' = [th EXCEPT ![t] = [th[t] EXCEPT !.pc = l, !.left = m, !.err = e]] OBVIOUS
<1>2. [th[t] EXCEPT !.pc = l, !.left = m, !.err = e] =
      [[[th[t] EXCEPT !.pc = l] EXCEPT !.left = m] EXCEPT !.err = e]
  BY SMT DEF Doing
<1>3. th[t] \in Doing OBVIOUS
<1>4. [th[t] EXCEPT !.pc = l, !.left = m, !.err = e] \in Doing BY <1>2, <1>3, DoingWith, Zenon
<1>5. th' \in [Threads -> Doing] /\ Others(t) /\ th'[t] = [th[t] EXCEPT !.pc = l, !.left = m, !.err = e] BY <1>1, <1>4, SMT DEF Others
<1> QED BY <1>3, <1>5, SMT DEF Doing, Moves

LEMMA Waits ==
  ASSUME th \in [Threads -> Doing], NEW t \in Threads,
         NEW l \in Pcs, NEW r \in Rets, NEW n \in Nat, NEW e \in Errors,
         th' = [th EXCEPT ![t].pc = l, ![t].ret = r, ![t].until = n, ![t].err = e]
  PROVE  th' \in [Threads -> Doing] /\ MovesFor(t, l, r)
<1>1. th' = [th EXCEPT ![t] = [th[t] EXCEPT !.pc = l, !.ret = r, !.until = n, !.err = e]] OBVIOUS
<1>2. [th[t] EXCEPT !.pc = l, !.ret = r, !.until = n, !.err = e] =
      [[[[th[t] EXCEPT !.pc = l] EXCEPT !.ret = r] EXCEPT !.until = n] EXCEPT !.err = e]
  BY SMT DEF Doing
<1>3. th[t] \in Doing OBVIOUS
<1>4. [th[t] EXCEPT !.pc = l, !.ret = r, !.until = n, !.err = e] \in Doing BY <1>2, <1>3, DoingWith, Zenon
<1>5. th' \in [Threads -> Doing] /\ Others(t) /\ th'[t] = [th[t] EXCEPT !.pc = l, !.ret = r, !.until = n, !.err = e] BY <1>1, <1>4, SMT DEF Others
<1> QED BY <1>3, <1>5, SMT DEF Doing, MovesFor

LEMMA Polls ==
  ASSUME th \in [Threads -> Doing], NEW t \in Threads,
         NEW l \in Pcs, NEW d \in Readiness, NEW n \in Nat,
         th' = [th EXCEPT ![t].pc = l, ![t].ready = d, ![t].until = n]
  PROVE  th' \in [Threads -> Doing] /\ Polled(t, l, d)
<1>1. th' = [th EXCEPT ![t] = [th[t] EXCEPT !.pc = l, !.ready = d, !.until = n]] OBVIOUS
<1>2. [th[t] EXCEPT !.pc = l, !.ready = d, !.until = n] =
      [[[th[t] EXCEPT !.pc = l] EXCEPT !.ready = d] EXCEPT !.until = n]
  BY SMT DEF Doing
<1>3. th[t] \in Doing OBVIOUS
<1>4. [th[t] EXCEPT !.pc = l, !.ready = d, !.until = n] \in Doing BY <1>2, <1>3, DoingWith, Zenon
<1>5. th' \in [Threads -> Doing] /\ Others(t) /\ th'[t] = [th[t] EXCEPT !.pc = l, !.ready = d, !.until = n] BY <1>1, <1>4, SMT DEF Others
<1> QED BY <1>3, <1>5, SMT DEF Doing, Polled

LEMMA Stops ==
  ASSUME th \in [Threads -> Doing], NEW t \in Threads,
         NEW l \in Pcs, NEW e \in Errors, NEW n \in Nat,
         th' = [th EXCEPT ![t].pc = l, ![t].err = e, ![t].until = n]
  PROVE  th' \in [Threads -> Doing] /\ Moves(t, l)
<1>1. th' = [th EXCEPT ![t] = [th[t] EXCEPT !.pc = l, !.err = e, !.until = n]] OBVIOUS
<1>2. [th[t] EXCEPT !.pc = l, !.err = e, !.until = n] =
      [[[th[t] EXCEPT !.pc = l] EXCEPT !.err = e] EXCEPT !.until = n]
  BY SMT DEF Doing
<1>3. th[t] \in Doing OBVIOUS
<1>4. [th[t] EXCEPT !.pc = l, !.err = e, !.until = n] \in Doing BY <1>2, <1>3, DoingWith, Zenon
<1>5. th' \in [Threads -> Doing] /\ Others(t) /\ th'[t] = [th[t] EXCEPT !.pc = l, !.err = e, !.until = n] BY <1>1, <1>4, SMT DEF Others
<1> QED BY <1>3, <1>5, SMT DEF Doing, Moves

LEMMA TakesBatch ==
  ASSUME th \in [Threads -> Doing], NEW t \in Threads,
         NEW l \in Pcs, NEW b \in Seq(Callers),
         th' = [th EXCEPT ![t].pc = l, ![t].batch = b]
  PROVE  th' \in [Threads -> Doing] /\ Batched(t, l, b)
<1>1. th' = [th EXCEPT ![t] = [th[t] EXCEPT !.pc = l, !.batch = b]] OBVIOUS
<1>2. [th[t] EXCEPT !.pc = l, !.batch = b] =
      [[th[t] EXCEPT !.pc = l] EXCEPT !.batch = b]
  BY SMT DEF Doing
<1>3. th[t] \in Doing OBVIOUS
<1>4. [th[t] EXCEPT !.pc = l, !.batch = b] \in Doing BY <1>2, <1>3, DoingWith, Zenon
<1>5. th' \in [Threads -> Doing] /\ Others(t) /\ th'[t] = [th[t] EXCEPT !.pc = l, !.batch = b] BY <1>1, <1>4, SMT DEF Others
<1> QED BY <1>3, <1>5, SMT DEF Doing, Batched

LEMMA StartsOn ==
  ASSUME th \in [Threads -> Doing], NEW t \in Threads,
         NEW l \in Pcs, NEW y \in Callers \union {None}, NEW s \in Results, NEW r \in Rets, NEW b \in Seq(Callers),
         th' = [th EXCEPT ![t].pc = l, ![t].x = y, ![t].st = s, ![t].ret = r, ![t].batch = b]
  PROVE  th' \in [Threads -> Doing] /\ Starts(t, l, y, s, r, b)
<1>1. th' = [th EXCEPT ![t] = [th[t] EXCEPT !.pc = l, !.x = y, !.st = s, !.ret = r, !.batch = b]] OBVIOUS
<1>2. [th[t] EXCEPT !.pc = l, !.x = y, !.st = s, !.ret = r, !.batch = b] =
      [[[[[th[t] EXCEPT !.pc = l] EXCEPT !.x = y] EXCEPT !.st = s] EXCEPT !.ret = r] EXCEPT !.batch = b]
  BY SMT DEF Doing
<1>3. th[t] \in Doing OBVIOUS
<1>4. [th[t] EXCEPT !.pc = l, !.x = y, !.st = s, !.ret = r, !.batch = b] \in Doing BY <1>2, <1>3, DoingWith, Zenon
<1>5. th' \in [Threads -> Doing] /\ Others(t) /\ th'[t] = [th[t] EXCEPT !.pc = l, !.x = y, !.st = s, !.ret = r, !.batch = b] BY <1>1, <1>4, SMT DEF Others
<1> QED BY <1>3, <1>5, SMT DEF Doing, Starts

LEMMA EndsBatch ==
  ASSUME th \in [Threads -> Doing], NEW t \in Threads,
         NEW l \in Pcs, NEW e \in Errors, NEW b \in Seq(Callers),
         th' = [th EXCEPT ![t].pc = l, ![t].err = e, ![t].batch = b]
  PROVE  th' \in [Threads -> Doing] /\ Batched(t, l, b)
<1>1. th' = [th EXCEPT ![t] = [th[t] EXCEPT !.pc = l, !.err = e, !.batch = b]] OBVIOUS
<1>2. [th[t] EXCEPT !.pc = l, !.err = e, !.batch = b] =
      [[[th[t] EXCEPT !.pc = l] EXCEPT !.err = e] EXCEPT !.batch = b]
  BY SMT DEF Doing
<1>3. th[t] \in Doing OBVIOUS
<1>4. [th[t] EXCEPT !.pc = l, !.err = e, !.batch = b] \in Doing BY <1>2, <1>3, DoingWith, Zenon
<1>5. th' \in [Threads -> Doing] /\ Others(t) /\ th'[t] = [th[t] EXCEPT !.pc = l, !.err = e, !.batch = b] BY <1>1, <1>4, SMT DEF Others
<1> QED BY <1>3, <1>5, SMT DEF Doing, Batched

LEMMA Settles ==
  ASSUME th \in [Threads -> Doing], NEW t \in Threads,
         NEW l \in Pcs, NEW s \in Results,
         th' = [th EXCEPT ![t].pc = l, ![t].st = s]
  PROVE  th' \in [Threads -> Doing] /\ Settled(t, l, s)
<1>1. th' = [th EXCEPT ![t] = [th[t] EXCEPT !.pc = l, !.st = s]] OBVIOUS
<1>2. [th[t] EXCEPT !.pc = l, !.st = s] =
      [[th[t] EXCEPT !.pc = l] EXCEPT !.st = s]
  BY SMT DEF Doing
<1>3. th[t] \in Doing OBVIOUS
<1>4. [th[t] EXCEPT !.pc = l, !.st = s] \in Doing BY <1>2, <1>3, DoingWith, Zenon
<1>5. th' \in [Threads -> Doing] /\ Others(t) /\ th'[t] = [th[t] EXCEPT !.pc = l, !.st = s] BY <1>1, <1>4, SMT DEF Others
<1> QED BY <1>3, <1>5, SMT DEF Doing, Settled

LEMMA Finished ==
  ASSUME th \in [Threads -> Doing], NEW t \in Threads,
         NEW l \in Pcs, NEW y \in Callers \union {None}, NEW s \in Results,
         th' = [th EXCEPT ![t].pc = l, ![t].x = y, ![t].st = s]
  PROVE  th' \in [Threads -> Doing] /\ LeavesOff(t, l, y, s)
<1>1. th' = [th EXCEPT ![t] = [th[t] EXCEPT !.pc = l, !.x = y, !.st = s]] OBVIOUS
<1>2. [th[t] EXCEPT !.pc = l, !.x = y, !.st = s] =
      [[[th[t] EXCEPT !.pc = l] EXCEPT !.x = y] EXCEPT !.st = s]
  BY SMT DEF Doing
<1>3. th[t] \in Doing OBVIOUS
<1>4. [th[t] EXCEPT !.pc = l, !.x = y, !.st = s] \in Doing BY <1>2, <1>3, DoingWith, Zenon
<1>5. th' \in [Threads -> Doing] /\ Others(t) /\ th'[t] = [th[t] EXCEPT !.pc = l, !.x = y, !.st = s] BY <1>1, <1>4, SMT DEF Others
<1> QED BY <1>3, <1>5, SMT DEF Doing, LeavesOff

LEMMA Expires ==
  ASSUME th \in [Threads -> Doing], NEW t \in Threads,
         NEW l \in Pcs, NEW y \in Callers \union {None}, NEW n \in Nat,
         th' = [th EXCEPT ![t].pc = l, ![t].x = y, ![t].until = n]
  PROVE  th' \in [Threads -> Doing] /\ Turns(t, l, y)
<1>1. th' = [th EXCEPT ![t] = [th[t] EXCEPT !.pc = l, !.x = y, !.until = n]] OBVIOUS
<1>2. [th[t] EXCEPT !.pc = l, !.x = y, !.until = n] =
      [[[th[t] EXCEPT !.pc = l] EXCEPT !.x = y] EXCEPT !.until = n]
  BY SMT DEF Doing
<1>3. th[t] \in Doing OBVIOUS
<1>4. [th[t] EXCEPT !.pc = l, !.x = y, !.until = n] \in Doing BY <1>2, <1>3, DoingWith, Zenon
<1>5. th' \in [Threads -> Doing] /\ Others(t) /\ th'[t] = [th[t] EXCEPT !.pc = l, !.x = y, !.until = n] BY <1>1, <1>4, SMT DEF Others
<1> QED BY <1>3, <1>5, SMT DEF Doing, Turns

LEMMA Resumes ==
  ASSUME th \in [Threads -> Doing], NEW t \in Threads,
         NEW l \in Pcs, NEW n \in Nat, NEW y \in Callers \union {None},
         th' = [th EXCEPT ![t].pc = l, ![t].until = n, ![t].x = y]
  PROVE  th' \in [Threads -> Doing] /\ Turns(t, l, y)
<1>1. th' = [th EXCEPT ![t] = [th[t] EXCEPT !.pc = l, !.until = n, !.x = y]] OBVIOUS
<1>2. [th[t] EXCEPT !.pc = l, !.until = n, !.x = y] =
      [[[th[t] EXCEPT !.pc = l] EXCEPT !.until = n] EXCEPT !.x = y]
  BY SMT DEF Doing
<1>3. th[t] \in Doing OBVIOUS
<1>4. [th[t] EXCEPT !.pc = l, !.until = n, !.x = y] \in Doing BY <1>2, <1>3, DoingWith, Zenon
<1>5. th' \in [Threads -> Doing] /\ Others(t) /\ th'[t] = [th[t] EXCEPT !.pc = l, !.until = n, !.x = y] BY <1>1, <1>4, SMT DEF Others
<1> QED BY <1>3, <1>5, SMT DEF Doing, Turns


-----------------------------------------------------------------------------
(* What an assignment to fields of a transfer does to the sets of          *)
(* transfers.                                                              *)

LEMMA TransferWith ==
  ASSUME NEW r \in Transfer
  PROVE  /\ \A v \in BOOLEAN : [r EXCEPT !.alive = v] \in Transfer
         /\ \A v \in BOOLEAN : [r EXCEPT !.flight = v] \in Transfer
         /\ \A v \in BOOLEAN : [r EXCEPT !.cancelling = v] \in Transfer
         /\ \A v \in BOOLEAN : [r EXCEPT !.asked = v] \in Transfer
         /\ \A v \in BOOLEAN : [r EXCEPT !.gone = v] \in Transfer
         /\ \A v \in BOOLEAN : [r EXCEPT !.handled = v] \in Transfer
         /\ \A v \in BOOLEAN : [r EXCEPT !.timedOut = v] \in Transfer
         /\ \A v \in Nat : [r EXCEPT !.due = v] \in Transfer
         /\ \A v \in BOOLEAN : [r EXCEPT !.handle = v] \in Transfer
         /\ \A v \in Results : [r EXCEPT !.status = v] \in Transfer
         /\ \A v \in BOOLEAN : [r EXCEPT !.done = v] \in Transfer
         /\ \A v \in Urbs : [r EXCEPT !.urb = v] \in Transfer
         /\ \A v \in BOOLEAN : [r EXCEPT !.queued = v] \in Transfer
<1>1. ASSUME NEW v \in BOOLEAN PROVE [r EXCEPT !.alive = v] \in Transfer BY SMT DEF Transfer
<1>2. ASSUME NEW v \in BOOLEAN PROVE [r EXCEPT !.flight = v] \in Transfer BY SMT DEF Transfer
<1>3. ASSUME NEW v \in BOOLEAN PROVE [r EXCEPT !.cancelling = v] \in Transfer BY SMT DEF Transfer
<1>4. ASSUME NEW v \in BOOLEAN PROVE [r EXCEPT !.asked = v] \in Transfer BY SMT DEF Transfer
<1>5. ASSUME NEW v \in BOOLEAN PROVE [r EXCEPT !.gone = v] \in Transfer BY SMT DEF Transfer
<1>6. ASSUME NEW v \in BOOLEAN PROVE [r EXCEPT !.handled = v] \in Transfer BY SMT DEF Transfer
<1>7. ASSUME NEW v \in BOOLEAN PROVE [r EXCEPT !.timedOut = v] \in Transfer BY SMT DEF Transfer
<1>8. ASSUME NEW v \in Nat PROVE [r EXCEPT !.due = v] \in Transfer BY SMT DEF Transfer
<1>9. ASSUME NEW v \in BOOLEAN PROVE [r EXCEPT !.handle = v] \in Transfer BY SMT DEF Transfer
<1>10. ASSUME NEW v \in Results PROVE [r EXCEPT !.status = v] \in Transfer BY SMT DEF Transfer
<1>11. ASSUME NEW v \in BOOLEAN PROVE [r EXCEPT !.done = v] \in Transfer BY SMT DEF Transfer
<1>12. ASSUME NEW v \in Urbs PROVE [r EXCEPT !.urb = v] \in Transfer BY SMT DEF Transfer
<1>13. ASSUME NEW v \in BOOLEAN PROVE [r EXCEPT !.queued = v] \in Transfer BY SMT DEF Transfer
<1> QED BY <1>1, <1>2, <1>3, <1>4, <1>5, <1>6, <1>7, <1>8, <1>9, <1>10, <1>11, <1>12, <1>13, Zenon

LEMMA Accepted ==
  ASSUME xfer \in [Callers -> Transfer], NEW x \in Callers,
         xfer' = [xfer EXCEPT ![x].flight = TRUE, ![x].urb = "submitted"]
  PROVE  /\ xfer' \in [Callers -> Transfer]
         /\ \A y \in Callers \ {x} : xfer'[y] = xfer[y]
         /\ xfer'[x].alive = xfer[x].alive /\ xfer'[x].flight = TRUE
         /\ xfer'[x].cancelling = xfer[x].cancelling /\ xfer'[x].asked = xfer[x].asked
         /\ xfer'[x].gone = xfer[x].gone /\ xfer'[x].handled = xfer[x].handled
         /\ xfer'[x].timedOut = xfer[x].timedOut /\ xfer'[x].due = xfer[x].due
         /\ xfer'[x].handle = xfer[x].handle /\ xfer'[x].status = xfer[x].status
         /\ xfer'[x].done = xfer[x].done /\ xfer'[x].urb = "submitted"
         /\ xfer'[x].queued = xfer[x].queued
         /\ Alive' = Alive /\ Done' = Done /\ InTheAir' = InTheAir \union {x}
         /\ Attached' = Attached /\ Queued' = Queued /\ Requested' = Requested \union {x}
<1>1. xfer' = [xfer EXCEPT ![x] = [xfer[x] EXCEPT !.flight = TRUE, !.urb = "submitted"]] OBVIOUS
<1>2. [xfer[x] EXCEPT !.flight = TRUE, !.urb = "submitted"] =
      [[xfer[x] EXCEPT !.flight = TRUE] EXCEPT !.urb = "submitted"]
  BY SMT DEF Transfer
<1>3. xfer[x] \in Transfer OBVIOUS
<1>4. [xfer[x] EXCEPT !.flight = TRUE, !.urb = "submitted"] \in Transfer BY <1>2, <1>3, TransferWith, Zenon DEF Urbs, Results
<1>5. /\ xfer' \in [Callers -> Transfer] /\ xfer'[x] = [xfer[x] EXCEPT !.flight = TRUE, !.urb = "submitted"]
      /\ \A y \in Callers \ {x} : xfer'[y] = xfer[y]
  BY <1>1, <1>4, SMT
<1>6. /\ xfer'[x].alive = xfer[x].alive /\ xfer'[x].flight = TRUE
      /\ xfer'[x].cancelling = xfer[x].cancelling /\ xfer'[x].asked = xfer[x].asked
      /\ xfer'[x].gone = xfer[x].gone /\ xfer'[x].handled = xfer[x].handled
      /\ xfer'[x].timedOut = xfer[x].timedOut /\ xfer'[x].due = xfer[x].due
      /\ xfer'[x].handle = xfer[x].handle /\ xfer'[x].status = xfer[x].status
      /\ xfer'[x].done = xfer[x].done /\ xfer'[x].urb = "submitted"
      /\ xfer'[x].queued = xfer[x].queued
  BY <1>3, <1>5, SMT DEF Transfer
<1>7. /\ Alive' = Alive /\ Done' = Done /\ InTheAir' = InTheAir \union {x}
      /\ Attached' = Attached /\ Queued' = Queued /\ Requested' = Requested \union {x}
  BY <1>5, <1>6, SMT DEF Alive, Done, InTheAir, Attached, Queued, Requested
<1> QED BY <1>5, <1>6, <1>7

LEMMA MarkedTimedOut ==
  ASSUME xfer \in [Callers -> Transfer], NEW x \in Callers,
         xfer' = [xfer EXCEPT ![x].timedOut = TRUE]
  PROVE  /\ xfer' \in [Callers -> Transfer]
         /\ \A y \in Callers \ {x} : xfer'[y] = xfer[y]
         /\ xfer'[x].alive = xfer[x].alive /\ xfer'[x].flight = xfer[x].flight
         /\ xfer'[x].cancelling = xfer[x].cancelling /\ xfer'[x].asked = xfer[x].asked
         /\ xfer'[x].gone = xfer[x].gone /\ xfer'[x].handled = xfer[x].handled
         /\ xfer'[x].timedOut = TRUE /\ xfer'[x].due = xfer[x].due
         /\ xfer'[x].handle = xfer[x].handle /\ xfer'[x].status = xfer[x].status
         /\ xfer'[x].done = xfer[x].done /\ xfer'[x].urb = xfer[x].urb
         /\ xfer'[x].queued = xfer[x].queued
         /\ Alive' = Alive /\ Done' = Done /\ InTheAir' = InTheAir
         /\ Attached' = Attached /\ Queued' = Queued /\ Requested' = Requested
<1>1. xfer' = [xfer EXCEPT ![x] = [xfer[x] EXCEPT !.timedOut = TRUE]] OBVIOUS
<1>3. xfer[x] \in Transfer OBVIOUS
<1>4. [xfer[x] EXCEPT !.timedOut = TRUE] \in Transfer BY <1>3, TransferWith, Zenon DEF Urbs, Results
<1>5. /\ xfer' \in [Callers -> Transfer] /\ xfer'[x] = [xfer[x] EXCEPT !.timedOut = TRUE]
      /\ \A y \in Callers \ {x} : xfer'[y] = xfer[y]
  BY <1>1, <1>4, SMT
<1>6. /\ xfer'[x].alive = xfer[x].alive /\ xfer'[x].flight = xfer[x].flight
      /\ xfer'[x].cancelling = xfer[x].cancelling /\ xfer'[x].asked = xfer[x].asked
      /\ xfer'[x].gone = xfer[x].gone /\ xfer'[x].handled = xfer[x].handled
      /\ xfer'[x].timedOut = TRUE /\ xfer'[x].due = xfer[x].due
      /\ xfer'[x].handle = xfer[x].handle /\ xfer'[x].status = xfer[x].status
      /\ xfer'[x].done = xfer[x].done /\ xfer'[x].urb = xfer[x].urb
      /\ xfer'[x].queued = xfer[x].queued
  BY <1>3, <1>5, SMT DEF Transfer
<1>7. /\ Alive' = Alive /\ Done' = Done /\ InTheAir' = InTheAir
      /\ Attached' = Attached /\ Queued' = Queued /\ Requested' = Requested
  BY <1>5, <1>6, SMT DEF Alive, Done, InTheAir, Attached, Queued, Requested
<1> QED BY <1>5, <1>6, <1>7

LEMMA FoundClosed ==
  ASSUME xfer \in [Callers -> Transfer], NEW x \in Callers,
         xfer' = [xfer EXCEPT ![x].status = "NO_DEVICE", ![x].done = TRUE]
  PROVE  /\ xfer' \in [Callers -> Transfer]
         /\ \A y \in Callers \ {x} : xfer'[y] = xfer[y]
         /\ xfer'[x].alive = xfer[x].alive /\ xfer'[x].flight = xfer[x].flight
         /\ xfer'[x].cancelling = xfer[x].cancelling /\ xfer'[x].asked = xfer[x].asked
         /\ xfer'[x].gone = xfer[x].gone /\ xfer'[x].handled = xfer[x].handled
         /\ xfer'[x].timedOut = xfer[x].timedOut /\ xfer'[x].due = xfer[x].due
         /\ xfer'[x].handle = xfer[x].handle /\ xfer'[x].status = "NO_DEVICE"
         /\ xfer'[x].done = TRUE /\ xfer'[x].urb = xfer[x].urb
         /\ xfer'[x].queued = xfer[x].queued
         /\ Alive' = Alive /\ Done' = Done \union {x} /\ InTheAir' = InTheAir
         /\ Attached' = Attached /\ Queued' = Queued /\ Requested' = Requested
<1>1. xfer' = [xfer EXCEPT ![x] = [xfer[x] EXCEPT !.status = "NO_DEVICE", !.done = TRUE]] OBVIOUS
<1>2. [xfer[x] EXCEPT !.status = "NO_DEVICE", !.done = TRUE] =
      [[xfer[x] EXCEPT !.status = "NO_DEVICE"] EXCEPT !.done = TRUE]
  BY SMT DEF Transfer
<1>3. xfer[x] \in Transfer OBVIOUS
<1>4. [xfer[x] EXCEPT !.status = "NO_DEVICE", !.done = TRUE] \in Transfer BY <1>2, <1>3, TransferWith, Zenon DEF Urbs, Results
<1>5. /\ xfer' \in [Callers -> Transfer] /\ xfer'[x] = [xfer[x] EXCEPT !.status = "NO_DEVICE", !.done = TRUE]
      /\ \A y \in Callers \ {x} : xfer'[y] = xfer[y]
  BY <1>1, <1>4, SMT
<1>6. /\ xfer'[x].alive = xfer[x].alive /\ xfer'[x].flight = xfer[x].flight
      /\ xfer'[x].cancelling = xfer[x].cancelling /\ xfer'[x].asked = xfer[x].asked
      /\ xfer'[x].gone = xfer[x].gone /\ xfer'[x].handled = xfer[x].handled
      /\ xfer'[x].timedOut = xfer[x].timedOut /\ xfer'[x].due = xfer[x].due
      /\ xfer'[x].handle = xfer[x].handle /\ xfer'[x].status = "NO_DEVICE"
      /\ xfer'[x].done = TRUE /\ xfer'[x].urb = xfer[x].urb
      /\ xfer'[x].queued = xfer[x].queued
  BY <1>3, <1>5, SMT DEF Transfer
<1>7. /\ Alive' = Alive /\ Done' = Done \union {x} /\ InTheAir' = InTheAir
      /\ Attached' = Attached /\ Queued' = Queued /\ Requested' = Requested
  BY <1>5, <1>6, SMT DEF Alive, Done, InTheAir, Attached, Queued, Requested
<1> QED BY <1>5, <1>6, <1>7

LEMMA TakenFromQueue ==
  ASSUME xfer \in [Callers -> Transfer], NEW x \in Callers,
         xfer' = [xfer EXCEPT ![x].urb = "none", ![x].queued = FALSE]
  PROVE  /\ xfer' \in [Callers -> Transfer]
         /\ \A y \in Callers \ {x} : xfer'[y] = xfer[y]
         /\ xfer'[x].alive = xfer[x].alive /\ xfer'[x].flight = xfer[x].flight
         /\ xfer'[x].cancelling = xfer[x].cancelling /\ xfer'[x].asked = xfer[x].asked
         /\ xfer'[x].gone = xfer[x].gone /\ xfer'[x].handled = xfer[x].handled
         /\ xfer'[x].timedOut = xfer[x].timedOut /\ xfer'[x].due = xfer[x].due
         /\ xfer'[x].handle = xfer[x].handle /\ xfer'[x].status = xfer[x].status
         /\ xfer'[x].done = xfer[x].done /\ xfer'[x].urb = "none"
         /\ xfer'[x].queued = FALSE
         /\ Alive' = Alive /\ Done' = Done /\ InTheAir' = InTheAir
         /\ Attached' = Attached /\ Queued' = Queued \ {x} /\ Requested' = Requested \ {x}
<1>1. xfer' = [xfer EXCEPT ![x] = [xfer[x] EXCEPT !.urb = "none", !.queued = FALSE]] OBVIOUS
<1>2. [xfer[x] EXCEPT !.urb = "none", !.queued = FALSE] =
      [[xfer[x] EXCEPT !.urb = "none"] EXCEPT !.queued = FALSE]
  BY SMT DEF Transfer
<1>3. xfer[x] \in Transfer OBVIOUS
<1>4. [xfer[x] EXCEPT !.urb = "none", !.queued = FALSE] \in Transfer BY <1>2, <1>3, TransferWith, Zenon DEF Urbs, Results
<1>5. /\ xfer' \in [Callers -> Transfer] /\ xfer'[x] = [xfer[x] EXCEPT !.urb = "none", !.queued = FALSE]
      /\ \A y \in Callers \ {x} : xfer'[y] = xfer[y]
  BY <1>1, <1>4, SMT
<1>6. /\ xfer'[x].alive = xfer[x].alive /\ xfer'[x].flight = xfer[x].flight
      /\ xfer'[x].cancelling = xfer[x].cancelling /\ xfer'[x].asked = xfer[x].asked
      /\ xfer'[x].gone = xfer[x].gone /\ xfer'[x].handled = xfer[x].handled
      /\ xfer'[x].timedOut = xfer[x].timedOut /\ xfer'[x].due = xfer[x].due
      /\ xfer'[x].handle = xfer[x].handle /\ xfer'[x].status = xfer[x].status
      /\ xfer'[x].done = xfer[x].done /\ xfer'[x].urb = "none"
      /\ xfer'[x].queued = FALSE
  BY <1>3, <1>5, SMT DEF Transfer
<1>7. /\ Alive' = Alive /\ Done' = Done /\ InTheAir' = InTheAir
      /\ Attached' = Attached /\ Queued' = Queued \ {x} /\ Requested' = Requested \ {x}
  BY <1>5, <1>6, SMT DEF Alive, Done, InTheAir, Attached, Queued, Requested
<1> QED BY <1>5, <1>6, <1>7

LEMMA TakenFromKernel ==
  ASSUME xfer \in [Callers -> Transfer], NEW x \in Callers,
         xfer' = [xfer EXCEPT ![x].urb = "none"]
  PROVE  /\ xfer' \in [Callers -> Transfer]
         /\ \A y \in Callers \ {x} : xfer'[y] = xfer[y]
         /\ xfer'[x].alive = xfer[x].alive /\ xfer'[x].flight = xfer[x].flight
         /\ xfer'[x].cancelling = xfer[x].cancelling /\ xfer'[x].asked = xfer[x].asked
         /\ xfer'[x].gone = xfer[x].gone /\ xfer'[x].handled = xfer[x].handled
         /\ xfer'[x].timedOut = xfer[x].timedOut /\ xfer'[x].due = xfer[x].due
         /\ xfer'[x].handle = xfer[x].handle /\ xfer'[x].status = xfer[x].status
         /\ xfer'[x].done = xfer[x].done /\ xfer'[x].urb = "none"
         /\ xfer'[x].queued = xfer[x].queued
         /\ Alive' = Alive /\ Done' = Done /\ InTheAir' = InTheAir
         /\ Attached' = Attached /\ Queued' = Queued /\ Requested' = Requested \ {x}
<1>1. xfer' = [xfer EXCEPT ![x] = [xfer[x] EXCEPT !.urb = "none"]] OBVIOUS
<1>3. xfer[x] \in Transfer OBVIOUS
<1>4. [xfer[x] EXCEPT !.urb = "none"] \in Transfer BY <1>3, TransferWith, Zenon DEF Urbs, Results
<1>5. /\ xfer' \in [Callers -> Transfer] /\ xfer'[x] = [xfer[x] EXCEPT !.urb = "none"]
      /\ \A y \in Callers \ {x} : xfer'[y] = xfer[y]
  BY <1>1, <1>4, SMT
<1>6. /\ xfer'[x].alive = xfer[x].alive /\ xfer'[x].flight = xfer[x].flight
      /\ xfer'[x].cancelling = xfer[x].cancelling /\ xfer'[x].asked = xfer[x].asked
      /\ xfer'[x].gone = xfer[x].gone /\ xfer'[x].handled = xfer[x].handled
      /\ xfer'[x].timedOut = xfer[x].timedOut /\ xfer'[x].due = xfer[x].due
      /\ xfer'[x].handle = xfer[x].handle /\ xfer'[x].status = xfer[x].status
      /\ xfer'[x].done = xfer[x].done /\ xfer'[x].urb = "none"
      /\ xfer'[x].queued = xfer[x].queued
  BY <1>3, <1>5, SMT DEF Transfer
<1>7. /\ Alive' = Alive /\ Done' = Done /\ InTheAir' = InTheAir
      /\ Attached' = Attached /\ Queued' = Queued /\ Requested' = Requested \ {x}
  BY <1>5, <1>6, SMT DEF Alive, Done, InTheAir, Attached, Queued, Requested
<1> QED BY <1>5, <1>6, <1>7

LEMMA CalledBack ==
  ASSUME xfer \in [Callers -> Transfer], NEW x \in Callers,
         NEW s \in Results,
         xfer' = [xfer EXCEPT ![x].flight = FALSE, ![x].status = s, ![x].done = TRUE]
  PROVE  /\ xfer' \in [Callers -> Transfer]
         /\ \A y \in Callers \ {x} : xfer'[y] = xfer[y]
         /\ xfer'[x].alive = xfer[x].alive /\ xfer'[x].flight = FALSE
         /\ xfer'[x].cancelling = xfer[x].cancelling /\ xfer'[x].asked = xfer[x].asked
         /\ xfer'[x].gone = xfer[x].gone /\ xfer'[x].handled = xfer[x].handled
         /\ xfer'[x].timedOut = xfer[x].timedOut /\ xfer'[x].due = xfer[x].due
         /\ xfer'[x].handle = xfer[x].handle /\ xfer'[x].status = s
         /\ xfer'[x].done = TRUE /\ xfer'[x].urb = xfer[x].urb
         /\ xfer'[x].queued = xfer[x].queued
         /\ Alive' = Alive /\ Done' = Done \union {x} /\ InTheAir' = InTheAir \ {x}
         /\ Attached' = Attached /\ Queued' = Queued /\ Requested' = Requested
<1>1. xfer' = [xfer EXCEPT ![x] = [xfer[x] EXCEPT !.flight = FALSE, !.status = s, !.done = TRUE]] OBVIOUS
<1>2. [xfer[x] EXCEPT !.flight = FALSE, !.status = s, !.done = TRUE] =
      [[[xfer[x] EXCEPT !.flight = FALSE] EXCEPT !.status = s] EXCEPT !.done = TRUE]
  BY SMT DEF Transfer
<1>3. xfer[x] \in Transfer OBVIOUS
<1>4. [xfer[x] EXCEPT !.flight = FALSE, !.status = s, !.done = TRUE] \in Transfer BY <1>2, <1>3, TransferWith, Zenon DEF Urbs, Results
<1>5. /\ xfer' \in [Callers -> Transfer] /\ xfer'[x] = [xfer[x] EXCEPT !.flight = FALSE, !.status = s, !.done = TRUE]
      /\ \A y \in Callers \ {x} : xfer'[y] = xfer[y]
  BY <1>1, <1>4, SMT
<1>6. /\ xfer'[x].alive = xfer[x].alive /\ xfer'[x].flight = FALSE
      /\ xfer'[x].cancelling = xfer[x].cancelling /\ xfer'[x].asked = xfer[x].asked
      /\ xfer'[x].gone = xfer[x].gone /\ xfer'[x].handled = xfer[x].handled
      /\ xfer'[x].timedOut = xfer[x].timedOut /\ xfer'[x].due = xfer[x].due
      /\ xfer'[x].handle = xfer[x].handle /\ xfer'[x].status = s
      /\ xfer'[x].done = TRUE /\ xfer'[x].urb = xfer[x].urb
      /\ xfer'[x].queued = xfer[x].queued
  BY <1>3, <1>5, SMT DEF Transfer
<1>7. /\ Alive' = Alive /\ Done' = Done \union {x} /\ InTheAir' = InTheAir \ {x}
      /\ Attached' = Attached /\ Queued' = Queued /\ Requested' = Requested
  BY <1>5, <1>6, SMT DEF Alive, Done, InTheAir, Attached, Queued, Requested
<1> QED BY <1>5, <1>6, <1>7

LEMMA PutOnQueue ==
  ASSUME xfer \in [Callers -> Transfer], NEW x \in Callers,
         xfer' = [xfer EXCEPT ![x].queued = TRUE]
  PROVE  /\ xfer' \in [Callers -> Transfer]
         /\ \A y \in Callers \ {x} : xfer'[y] = xfer[y]
         /\ xfer'[x].alive = xfer[x].alive /\ xfer'[x].flight = xfer[x].flight
         /\ xfer'[x].cancelling = xfer[x].cancelling /\ xfer'[x].asked = xfer[x].asked
         /\ xfer'[x].gone = xfer[x].gone /\ xfer'[x].handled = xfer[x].handled
         /\ xfer'[x].timedOut = xfer[x].timedOut /\ xfer'[x].due = xfer[x].due
         /\ xfer'[x].handle = xfer[x].handle /\ xfer'[x].status = xfer[x].status
         /\ xfer'[x].done = xfer[x].done /\ xfer'[x].urb = xfer[x].urb
         /\ xfer'[x].queued = TRUE
         /\ Alive' = Alive /\ Done' = Done /\ InTheAir' = InTheAir
         /\ Attached' = Attached /\ Queued' = Queued \union {x} /\ Requested' = Requested
<1>1. xfer' = [xfer EXCEPT ![x] = [xfer[x] EXCEPT !.queued = TRUE]] OBVIOUS
<1>3. xfer[x] \in Transfer OBVIOUS
<1>4. [xfer[x] EXCEPT !.queued = TRUE] \in Transfer BY <1>3, TransferWith, Zenon DEF Urbs, Results
<1>5. /\ xfer' \in [Callers -> Transfer] /\ xfer'[x] = [xfer[x] EXCEPT !.queued = TRUE]
      /\ \A y \in Callers \ {x} : xfer'[y] = xfer[y]
  BY <1>1, <1>4, SMT
<1>6. /\ xfer'[x].alive = xfer[x].alive /\ xfer'[x].flight = xfer[x].flight
      /\ xfer'[x].cancelling = xfer[x].cancelling /\ xfer'[x].asked = xfer[x].asked
      /\ xfer'[x].gone = xfer[x].gone /\ xfer'[x].handled = xfer[x].handled
      /\ xfer'[x].timedOut = xfer[x].timedOut /\ xfer'[x].due = xfer[x].due
      /\ xfer'[x].handle = xfer[x].handle /\ xfer'[x].status = xfer[x].status
      /\ xfer'[x].done = xfer[x].done /\ xfer'[x].urb = xfer[x].urb
      /\ xfer'[x].queued = TRUE
  BY <1>3, <1>5, SMT DEF Transfer
<1>7. /\ Alive' = Alive /\ Done' = Done /\ InTheAir' = InTheAir
      /\ Attached' = Attached /\ Queued' = Queued \union {x} /\ Requested' = Requested
  BY <1>5, <1>6, SMT DEF Alive, Done, InTheAir, Attached, Queued, Requested
<1> QED BY <1>5, <1>6, <1>7

LEMMA KernelIsDone ==
  ASSUME xfer \in [Callers -> Transfer], NEW x \in Callers,
         xfer' = [xfer EXCEPT ![x].urb = "finished"]
  PROVE  /\ xfer' \in [Callers -> Transfer]
         /\ \A y \in Callers \ {x} : xfer'[y] = xfer[y]
         /\ xfer'[x].alive = xfer[x].alive /\ xfer'[x].flight = xfer[x].flight
         /\ xfer'[x].cancelling = xfer[x].cancelling /\ xfer'[x].asked = xfer[x].asked
         /\ xfer'[x].gone = xfer[x].gone /\ xfer'[x].handled = xfer[x].handled
         /\ xfer'[x].timedOut = xfer[x].timedOut /\ xfer'[x].due = xfer[x].due
         /\ xfer'[x].handle = xfer[x].handle /\ xfer'[x].status = xfer[x].status
         /\ xfer'[x].done = xfer[x].done /\ xfer'[x].urb = "finished"
         /\ xfer'[x].queued = xfer[x].queued
         /\ Alive' = Alive /\ Done' = Done /\ InTheAir' = InTheAir
         /\ Attached' = Attached /\ Queued' = Queued /\ Requested' = Requested \union {x}
<1>1. xfer' = [xfer EXCEPT ![x] = [xfer[x] EXCEPT !.urb = "finished"]] OBVIOUS
<1>3. xfer[x] \in Transfer OBVIOUS
<1>4. [xfer[x] EXCEPT !.urb = "finished"] \in Transfer BY <1>3, TransferWith, Zenon DEF Urbs, Results
<1>5. /\ xfer' \in [Callers -> Transfer] /\ xfer'[x] = [xfer[x] EXCEPT !.urb = "finished"]
      /\ \A y \in Callers \ {x} : xfer'[y] = xfer[y]
  BY <1>1, <1>4, SMT
<1>6. /\ xfer'[x].alive = xfer[x].alive /\ xfer'[x].flight = xfer[x].flight
      /\ xfer'[x].cancelling = xfer[x].cancelling /\ xfer'[x].asked = xfer[x].asked
      /\ xfer'[x].gone = xfer[x].gone /\ xfer'[x].handled = xfer[x].handled
      /\ xfer'[x].timedOut = xfer[x].timedOut /\ xfer'[x].due = xfer[x].due
      /\ xfer'[x].handle = xfer[x].handle /\ xfer'[x].status = xfer[x].status
      /\ xfer'[x].done = xfer[x].done /\ xfer'[x].urb = "finished"
      /\ xfer'[x].queued = xfer[x].queued
  BY <1>3, <1>5, SMT DEF Transfer
<1>7. /\ Alive' = Alive /\ Done' = Done /\ InTheAir' = InTheAir
      /\ Attached' = Attached /\ Queued' = Queued /\ Requested' = Requested \union {x}
  BY <1>5, <1>6, SMT DEF Alive, Done, InTheAir, Attached, Queued, Requested
<1> QED BY <1>5, <1>6, <1>7


(* Nothing that the sets of transfers tell apart changes.                  *)
SameSets == /\ Alive' = Alive /\ Done' = Done /\ InTheAir' = InTheAir
            /\ Attached' = Attached /\ Queued' = Queued /\ Requested' = Requested

LEMMA NoTransferTyped == NoTransfer \in Transfer
<1>1. Never \in Nat BY BoundsAssumption, SMT DEF Never
<1> QED BY <1>1, SMT DEF NoTransfer, Transfer, Results, Urbs

LEMMA Freed ==
  ASSUME xfer \in [Callers -> Transfer], NEW x \in Callers, xfer' = [xfer EXCEPT ![x] = NoTransfer]
  PROVE  /\ xfer' \in [Callers -> Transfer] /\ xfer'[x] = NoTransfer
         /\ \A y \in Callers \ {x} : xfer'[y] = xfer[y]
         /\ Alive' = Alive \ {x} /\ Done' = Done \ {x} /\ InTheAir' = InTheAir \ {x}
         /\ Attached' = Attached \ {x} /\ Queued' = Queued \ {x} /\ Requested' = Requested \ {x}
<1>1. /\ xfer' \in [Callers -> Transfer] /\ xfer'[x] = NoTransfer
      /\ \A y \in Callers \ {x} : xfer'[y] = xfer[y]
  BY NoTransferTyped, SMT
<1>2. /\ xfer'[x].alive = FALSE /\ xfer'[x].done = FALSE /\ xfer'[x].flight = FALSE
      /\ xfer'[x].handle = FALSE /\ xfer'[x].queued = FALSE /\ xfer'[x].urb = "none"
  BY <1>1, SMT DEF NoTransfer
<1>3. /\ Alive' = Alive \ {x} /\ Done' = Done \ {x} /\ InTheAir' = InTheAir \ {x}
      /\ Attached' = Attached \ {x} /\ Queued' = Queued \ {x} /\ Requested' = Requested \ {x}
  BY <1>1, <1>2, SMT DEF Alive, Done, InTheAir, Attached, Queued, Requested
<1> QED BY <1>1, <1>3

LEMMA Renewed ==
  ASSUME xfer \in [Callers -> Transfer], NEW x \in Callers, NEW d \in Nat, NEW z, z = NoTransfer,
         xfer' = [xfer EXCEPT ![x] = [z EXCEPT !.alive = TRUE, !.handle = TRUE, !.due = d]]
  PROVE  /\ xfer' \in [Callers -> Transfer]
         /\ \A y \in Callers \ {x} : xfer'[y] = xfer[y]
         /\ xfer'[x].asked = FALSE /\ xfer'[x].timedOut = FALSE /\ xfer'[x].gone = FALSE
         /\ xfer'[x].alive = TRUE /\ xfer'[x].done = FALSE /\ xfer'[x].handle = TRUE
         /\ xfer'[x].handled = FALSE /\ xfer'[x].due = d /\ xfer'[x].status = "none"
         /\ xfer'[x].urb = "none" /\ xfer'[x].cancelling = FALSE /\ xfer'[x].flight = FALSE
         /\ xfer'[x].queued = FALSE
         /\ Alive' = Alive \union {x} /\ Done' = Done \ {x} /\ InTheAir' = InTheAir \ {x}
         /\ Attached' = Attached \union {x} /\ Queued' = Queued \ {x} /\ Requested' = Requested \ {x}
<1>1. /\ NoTransfer.asked = FALSE /\ NoTransfer.timedOut = FALSE /\ NoTransfer.gone = FALSE
      /\ NoTransfer.done = FALSE /\ NoTransfer.handled = FALSE /\ NoTransfer.status = "none"
      /\ NoTransfer.urb = "none" /\ NoTransfer.cancelling = FALSE
      /\ NoTransfer.flight = FALSE /\ NoTransfer.queued = FALSE
  BY SMT DEF NoTransfer
<1>4. z \in Transfer BY NoTransferTyped, Zenon
<1>5. /\ xfer' \in [Callers -> Transfer]
      /\ \A y \in Callers \ {x} : xfer'[y] = xfer[y]
      /\ xfer'[x].asked = z.asked /\ xfer'[x].timedOut = z.timedOut /\ xfer'[x].gone = z.gone
      /\ xfer'[x].alive = TRUE /\ xfer'[x].done = z.done /\ xfer'[x].handle = TRUE
      /\ xfer'[x].handled = z.handled /\ xfer'[x].due = d /\ xfer'[x].status = z.status
      /\ xfer'[x].urb = z.urb /\ xfer'[x].cancelling = z.cancelling
      /\ xfer'[x].flight = z.flight /\ xfer'[x].queued = z.queued
  <2>1. [z EXCEPT !.alive = TRUE, !.handle = TRUE, !.due = d] =
        [[[z EXCEPT !.alive = TRUE] EXCEPT !.handle = TRUE] EXCEPT !.due = d]
    BY <1>4, SMT DEF Transfer
  <2>2. [z EXCEPT !.alive = TRUE, !.handle = TRUE, !.due = d] \in Transfer
    BY <1>4, <2>1, TransferWith, Zenon
  <2>3. /\ xfer' \in [Callers -> Transfer]
        /\ xfer'[x] = [z EXCEPT !.alive = TRUE, !.handle = TRUE, !.due = d]
        /\ \A y \in Callers \ {x} : xfer'[y] = xfer[y]
    BY <2>2, SMT
  <2> QED BY <1>4, <2>3, SMT DEF Transfer
<1>6. /\ xfer'[x].asked = FALSE /\ xfer'[x].timedOut = FALSE /\ xfer'[x].gone = FALSE
      /\ xfer'[x].alive = TRUE /\ xfer'[x].done = FALSE /\ xfer'[x].handle = TRUE
      /\ xfer'[x].handled = FALSE /\ xfer'[x].due = d /\ xfer'[x].status = "none"
      /\ xfer'[x].urb = "none" /\ xfer'[x].cancelling = FALSE /\ xfer'[x].flight = FALSE
      /\ xfer'[x].queued = FALSE
  BY <1>1, <1>5, Zenon
<1>7. /\ Alive' = Alive \union {x} /\ Done' = Done \ {x} /\ InTheAir' = InTheAir \ {x}
      /\ Attached' = Attached \union {x} /\ Queued' = Queued \ {x} /\ Requested' = Requested \ {x}
  BY <1>5, <1>6, SMT DEF Alive, Done, InTheAir, Attached, Queued, Requested
<1> QED BY <1>5, <1>6, <1>7

(* libusb_cancel_transfer on a transfer: its flags, and the request that   *)
(* the kernel gives back if it has it.                                     *)
LEMMA CancelledIs ==
  ASSUME xfer \in [Callers -> Transfer], NEW x \in Callers
  PROVE  /\ Cancelled(x) \in Transfer
         /\ Cancelled(x).alive = xfer[x].alive /\ Cancelled(x).done = xfer[x].done
         /\ Cancelled(x).flight = xfer[x].flight /\ Cancelled(x).handle = xfer[x].handle
         /\ Cancelled(x).queued = xfer[x].queued /\ Cancelled(x).due = xfer[x].due
         /\ Cancelled(x).asked = xfer[x].asked /\ Cancelled(x).timedOut = xfer[x].timedOut
         /\ Cancelled(x).status = xfer[x].status
         /\ Cancelled(x).urb = IF CancelSucceeds(x) THEN "killed" ELSE xfer[x].urb
         /\ CancelSucceeds(x) => xfer[x].urb = "submitted"
<1>1. CASE ~ CancelFinds(x)
  <2>1. Cancelled(x) = xfer[x] /\ ~ CancelSucceeds(x) BY <1>1, Zenon DEF Cancelled, CancelSucceeds
  <2> QED BY <2>1, SMT
<1>2. CASE CancelFinds(x)
  <2> DEFINE r == xfer[x]
             g == IF r.gone \/ unplugged THEN TRUE ELSE FALSE
             u == IF CancelSucceeds(x) THEN "killed" ELSE r.urb
  <2>1. Cancelled(x) = [r EXCEPT !.cancelling = TRUE, !.gone = r.gone \/ unplugged, !.urb = u]
    BY <1>2, Zenon DEF Cancelled
  <2>2. r \in Transfer OBVIOUS
  <2>3. u \in Urbs BY <2>2, SMT DEF Urbs, Transfer
  <2>4. CancelSucceeds(x) => r.urb = "submitted" BY Zenon DEF CancelSucceeds
  <2>5. (r.gone \/ unplugged) \in BOOLEAN OBVIOUS
  <2> HIDE DEF u, r
  <2>6. ASSUME NEW b \in BOOLEAN
        PROVE  /\ [r EXCEPT !.cancelling = TRUE, !.gone = b, !.urb = u] \in Transfer
               /\ [r EXCEPT !.cancelling = TRUE, !.gone = b, !.urb = u].alive = r.alive
               /\ [r EXCEPT !.cancelling = TRUE, !.gone = b, !.urb = u].done = r.done
               /\ [r EXCEPT !.cancelling = TRUE, !.gone = b, !.urb = u].flight = r.flight
               /\ [r EXCEPT !.cancelling = TRUE, !.gone = b, !.urb = u].handle = r.handle
               /\ [r EXCEPT !.cancelling = TRUE, !.gone = b, !.urb = u].queued = r.queued
               /\ [r EXCEPT !.cancelling = TRUE, !.gone = b, !.urb = u].due = r.due
               /\ [r EXCEPT !.cancelling = TRUE, !.gone = b, !.urb = u].asked = r.asked
               /\ [r EXCEPT !.cancelling = TRUE, !.gone = b, !.urb = u].timedOut = r.timedOut
               /\ [r EXCEPT !.cancelling = TRUE, !.gone = b, !.urb = u].status = r.status
               /\ [r EXCEPT !.cancelling = TRUE, !.gone = b, !.urb = u].urb = u
    <3>1. [r EXCEPT !.cancelling = TRUE, !.gone = b, !.urb = u]
            = [[[r EXCEPT !.cancelling = TRUE] EXCEPT !.gone = b] EXCEPT !.urb = u]
      BY <2>2, SMT DEF Transfer
    <3>2. [r EXCEPT !.cancelling = TRUE, !.gone = b, !.urb = u] \in Transfer
      BY <2>2, <2>3, <3>1, TransferWith, Zenon
    <3> QED BY <2>2, <3>2, SMT DEF Transfer
  <2> QED BY <2>1, <2>4, <2>5, <2>6, Zenon DEF r, u
<1> QED BY <1>1, <1>2

LEMMA CancelLeavesSets ==
  ASSUME xfer \in [Callers -> Transfer], NEW x \in Callers,
         \/ xfer' = [xfer EXCEPT ![x] = [Cancelled(x) EXCEPT !.asked = TRUE]]
         \/ xfer' = [xfer EXCEPT ![x] = [Cancelled(x) EXCEPT !.handled = TRUE]]
  PROVE  /\ xfer' \in [Callers -> Transfer] /\ SameSets
         /\ \A y \in Callers \ {x} : xfer'[y] = xfer[y]
         /\ xfer'[x].due = xfer[x].due /\ xfer'[x].timedOut = xfer[x].timedOut
         /\ xfer'[x].status = xfer[x].status
         /\ xfer'[x].alive = xfer[x].alive /\ xfer'[x].done = xfer[x].done
         /\ xfer'[x].handle = xfer[x].handle /\ xfer'[x].queued = xfer[x].queued
         /\ xfer'[x].asked = xfer[x].asked \/ xfer'[x].asked = TRUE
         /\ xfer'[x].urb = IF CancelSucceeds(x) THEN "killed" ELSE xfer[x].urb
<1> DEFINE c == Cancelled(x)
<1>1. c \in Transfer /\ xfer'[x] \in {[c EXCEPT !.asked = TRUE], [c EXCEPT !.handled = TRUE]}
  BY CancelledIs, SMT
<1>2. /\ xfer' = [xfer EXCEPT ![x] = xfer'[x]]
      /\ \A y \in Callers \ {x} : xfer'[y] = xfer[y]
  BY SMT
<1>3. xfer'[x] \in Transfer BY <1>1, TransferWith, Zenon
<1>4. xfer' \in [Callers -> Transfer] BY <1>2, <1>3, SMT
<1> HIDE DEF c
<1>5. /\ xfer'[x].alive = c.alive /\ xfer'[x].done = c.done /\ xfer'[x].flight = c.flight
      /\ xfer'[x].handle = c.handle /\ xfer'[x].queued = c.queued /\ xfer'[x].due = c.due
      /\ xfer'[x].timedOut = c.timedOut /\ xfer'[x].status = c.status /\ xfer'[x].urb = c.urb
      /\ xfer'[x].asked = c.asked \/ xfer'[x].asked = TRUE
  BY <1>1, SMT DEF Transfer
<1>6. /\ xfer'[x].alive = xfer[x].alive /\ xfer'[x].done = xfer[x].done /\ xfer'[x].flight = xfer[x].flight
      /\ xfer'[x].handle = xfer[x].handle /\ xfer'[x].queued = xfer[x].queued
      /\ xfer'[x].urb = IF CancelSucceeds(x) THEN "killed" ELSE xfer[x].urb
      /\ CancelSucceeds(x) => xfer[x].urb = "submitted"
  BY <1>5, CancelledIs, Zenon DEF c
<1>7. xfer'[x].urb # "none" <=> xfer[x].urb # "none" BY <1>6, SMT
<1>8. SameSets
  BY <1>2, <1>6, <1>7, SMT DEF SameSets, Alive, Done, InTheAir, Attached, Queued, Requested
<1> QED BY <1>2, <1>4, <1>5, <1>6, <1>8, CancelledIs, Zenon DEF c

(* The world acts on what the kernel has.                                  *)
LEMMA UrbsMove ==
  ASSUME xfer \in [Callers -> Transfer], NEW S \in SUBSET Callers, NEW v \in Urbs \ {"none"},
         \A x \in S : xfer[x].urb # "none",
         xfer' = [x \in Callers |-> IF x \in S THEN [xfer[x] EXCEPT !.urb = v] ELSE xfer[x]]
  PROVE  /\ xfer' \in [Callers -> Transfer] /\ SameSets
         /\ \A x \in Callers :
              /\ xfer'[x].alive = xfer[x].alive /\ xfer'[x].done = xfer[x].done
              /\ xfer'[x].handle = xfer[x].handle /\ xfer'[x].due = xfer[x].due
              /\ xfer'[x].asked = xfer[x].asked /\ xfer'[x].timedOut = xfer[x].timedOut
              /\ xfer'[x].status = xfer[x].status
              /\ xfer'[x].urb = IF x \in S THEN v ELSE xfer[x].urb
<1>1. \A x \in Callers : [xfer[x] EXCEPT !.urb = v] \in Transfer
  <2> SUFFICES ASSUME NEW x \in Callers PROVE [xfer[x] EXCEPT !.urb = v] \in Transfer OBVIOUS
  <2>1. xfer[x] \in Transfer OBVIOUS
  <2> QED BY <2>1, TransferWith, Zenon
<1>2. xfer' \in [Callers -> Transfer]
      /\ \A x \in Callers : xfer'[x] = IF x \in S THEN [xfer[x] EXCEPT !.urb = v] ELSE xfer[x]
  BY <1>1, SMT
<1>3. ASSUME NEW x \in Callers
      PROVE  /\ xfer'[x].alive = xfer[x].alive /\ xfer'[x].done = xfer[x].done
             /\ xfer'[x].flight = xfer[x].flight /\ xfer'[x].queued = xfer[x].queued
             /\ xfer'[x].handle = xfer[x].handle /\ xfer'[x].due = xfer[x].due
             /\ xfer'[x].asked = xfer[x].asked /\ xfer'[x].timedOut = xfer[x].timedOut
             /\ xfer'[x].status = xfer[x].status
             /\ xfer'[x].urb = IF x \in S THEN v ELSE xfer[x].urb
  <2>1. xfer[x] \in Transfer /\ xfer'[x] = IF x \in S THEN [xfer[x] EXCEPT !.urb = v] ELSE xfer[x] BY <1>2
  <2> QED BY <2>1, SMT DEF Transfer
<1>4. SameSets BY <1>3, SMT DEF SameSets, Alive, Done, InTheAir, Attached, Queued, Requested
<1> QED BY <1>2, <1>3, <1>4

-----------------------------------------------------------------------------
(* What libusb_close does to the transfers of its handle.                  *)

LEMMA SweepFrees ==
  ASSUME TypeOK, Sweep
  PROVE  /\ xfer' \in [Callers -> Transfer] /\ Attached' = Attached \ Flying
         /\ Alive' = Alive /\ Done' = Done /\ InTheAir' = InTheAir
         /\ Queued' = Queued /\ Requested' = Requested
         /\ \A x \in Callers : /\ xfer'[x].asked = xfer[x].asked /\ xfer'[x].due = xfer[x].due
                               /\ xfer'[x].timedOut = xfer[x].timedOut
                               /\ xfer'[x].status = xfer[x].status /\ xfer'[x].urb = xfer[x].urb
<1>1. xfer \in [Callers -> Transfer] BY DEF TypeOK
<1>2. xfer' = [x \in Callers |-> IF x \in Flying THEN [xfer[x] EXCEPT !.handle = FALSE] ELSE xfer[x]]
  BY DEF Sweep, Flying
<1>3. \A x \in Callers : [xfer[x] EXCEPT !.handle = FALSE] \in Transfer
  <2> SUFFICES ASSUME NEW x \in Callers PROVE [xfer[x] EXCEPT !.handle = FALSE] \in Transfer OBVIOUS
  <2>1. xfer[x] \in Transfer BY <1>1
  <2> QED BY <2>1, TransferWith, Zenon
<1>4. xfer' \in [Callers -> Transfer]
      /\ \A x \in Callers :
           xfer'[x] = IF x \in Flying THEN [xfer[x] EXCEPT !.handle = FALSE] ELSE xfer[x]
  BY <1>1, <1>2, <1>3, SMT
<1>5. ASSUME NEW x \in Callers
      PROVE  /\ xfer'[x].alive = xfer[x].alive /\ xfer'[x].done = xfer[x].done
             /\ xfer'[x].flight = xfer[x].flight /\ xfer'[x].queued = xfer[x].queued
             /\ xfer'[x].urb = xfer[x].urb /\ xfer'[x].due = xfer[x].due
             /\ xfer'[x].asked = xfer[x].asked /\ xfer'[x].timedOut = xfer[x].timedOut
             /\ xfer'[x].status = xfer[x].status
  <2>1. xfer[x] \in Transfer BY <1>1
  <2>2. CASE x \in Flying
    <3>1. xfer'[x] = [xfer[x] EXCEPT !.handle = FALSE] BY <1>4, <2>2
    <3> QED BY <2>1, <3>1, SMT DEF Transfer
  <2>3. CASE x \notin Flying
    <3>1. xfer'[x] = xfer[x] BY <1>4, <2>3
    <3> QED BY <3>1, SMT
  <2> QED BY <2>2, <2>3
<1>6. /\ Alive' = Alive /\ Done' = Done /\ InTheAir' = InTheAir
      /\ Queued' = Queued /\ Requested' = Requested
  BY <1>5, SMT DEF Alive, Done, InTheAir, Queued, Requested
<1>7. \A x \in Callers : x \in Attached' <=> x \in Attached \ Flying
  <2> SUFFICES ASSUME NEW x \in Callers PROVE x \in Attached' <=> x \in Attached \ Flying OBVIOUS
  <2>1. xfer[x] \in Transfer BY <1>1
  <2>2. CASE x \in Flying
    <3>1. xfer'[x] = [xfer[x] EXCEPT !.handle = FALSE] BY <1>4, <2>2
    <3>2. ~ xfer'[x].handle BY <2>1, <3>1, SMT DEF Transfer
    <3> QED BY <2>2, <3>2, Zenon DEF Attached
  <2>3. CASE x \notin Flying
    <3>1. xfer'[x] = xfer[x] BY <1>4, <2>3
    <3> QED BY <2>3, <3>1, Zenon DEF Attached
  <2> QED BY <2>2, <2>3
<1>8. Attached' = Attached \ Flying
  <2>1. Attached' \subseteq Callers /\ Attached \subseteq Callers BY Zenon DEF Attached
  <2> QED BY <1>7, <2>1, SMT
<1> QED BY <1>4, <1>5, <1>6, <1>8

LEMMA DetachKills ==
  ASSUME TypeOK, Detach
  PROVE  /\ xfer' \in [Callers -> Transfer] /\ Requested' = {}
         /\ Alive' = Alive /\ Done' = Done /\ InTheAir' = InTheAir
         /\ Queued' = Queued /\ Attached' = Attached
         /\ \A x \in Callers : /\ xfer'[x].asked = xfer[x].asked /\ xfer'[x].due = xfer[x].due
                               /\ xfer'[x].timedOut = xfer[x].timedOut
                               /\ xfer'[x].status = xfer[x].status /\ xfer'[x].urb = "none"
<1>1. xfer \in [Callers -> Transfer] BY DEF TypeOK
<1>2. xfer' = [x \in Callers |-> [xfer[x] EXCEPT !.urb = "none"]] BY DEF Detach
<1>3. \A x \in Callers : [xfer[x] EXCEPT !.urb = "none"] \in Transfer
  <2> SUFFICES ASSUME NEW x \in Callers PROVE [xfer[x] EXCEPT !.urb = "none"] \in Transfer OBVIOUS
  <2>1. xfer[x] \in Transfer BY <1>1
  <2> QED BY <2>1, TransferWith, Zenon DEF Urbs
<1>4. xfer' \in [Callers -> Transfer]
      /\ \A x \in Callers : xfer'[x] = [xfer[x] EXCEPT !.urb = "none"]
  BY <1>1, <1>2, <1>3, SMT
<1>5. ASSUME NEW x \in Callers
      PROVE  /\ xfer'[x].alive = xfer[x].alive /\ xfer'[x].done = xfer[x].done
             /\ xfer'[x].flight = xfer[x].flight /\ xfer'[x].queued = xfer[x].queued
             /\ xfer'[x].handle = xfer[x].handle
             /\ xfer'[x].urb = "none" /\ xfer'[x].due = xfer[x].due
             /\ xfer'[x].asked = xfer[x].asked /\ xfer'[x].timedOut = xfer[x].timedOut
             /\ xfer'[x].status = xfer[x].status
  <2>1. xfer[x] \in Transfer BY <1>1
  <2>2. xfer'[x] = [xfer[x] EXCEPT !.urb = "none"] BY <1>4
  <2> QED BY <2>1, <2>2, SMT DEF Transfer
<1>6. /\ Alive' = Alive /\ Done' = Done /\ InTheAir' = InTheAir
      /\ Queued' = Queued /\ Attached' = Attached
  BY <1>5, SMT DEF Alive, Done, InTheAir, Queued, Attached
<1>7. Requested' = {} BY <1>5, SMT DEF Requested
<1> QED BY <1>4, <1>5, <1>6, <1>7

-----------------------------------------------------------------------------
(* Steps that leave the transfers alone.                                   *)

TransfersInv == /\ OwnerInv /\ FlyingInv /\ AttachedInv /\ RequestInv /\ QueueInv
                /\ CompletingInv /\ TimedOutInv

LEMMA GotoMoves ==
  ASSUME TypeOK, NEW t \in Threads
  PROVE  \A l \in Pcs : Goto(t, l) => th' \in [Threads -> Doing] /\ Moves(t, l)
<1>1. th \in [Threads -> Doing] BY DEF TypeOK
<1>2. ASSUME NEW l \in Pcs, Goto(t, l) PROVE th' \in [Threads -> Doing] /\ Moves(t, l)
  <2>1. th' = [th EXCEPT ![t].pc = l] BY <1>2 DEF Goto
  <2> QED BY <1>1, <2>1, Goes
<1> QED BY <1>2

(* A thread goes on; what it completes and has taken stays its own.        *)
Quiet(t) ==
  /\ th'[t].batch = th[t].batch
  /\ InBatch(t) => InBatch(t)' \/ th[t].batch = <<>>
  /\ th[t].pc = "idle" <=> th'[t].pc = "idle"
  /\ th'[t].pc \in {"submit", "unlist"} => th[t].pc \in {"submit", "unlist"}
  /\ Completing(t)' => /\ Completing(t) /\ th'[t].x = th[t].x
                       /\ th'[t].pc = "callback" <=> th[t].pc = "callback"
  /\ th'[t].pc = "timedout" => th'[t].x \in Flying

QuietClose ==
  /\ th[Closer].pc = "idle" <=> th'[Closer].pc = "idle"
  /\ th'[Closer].pc \in {"lockevents", "sweep"} => th[Closer].pc \in {"lockevents", "sweep"}
  /\ th[Closer].pc = "detach" => th'[Closer].pc = "detach"
  /\ th'[Closer].batch = th[Closer].batch /\ (InBatch(Closer) => InBatch(Closer)')

(* What is queued, and who has taken it, stays as it is.                   *)
BatchKept(u) == /\ th'[u].batch = th[u].batch
                /\ InBatch(u) => InBatch(u)' \/ th[u].batch = <<>>

LEMMA QueueKept ==
  ASSUME QueueInv, Queued' = Queued, Queued \subseteq Requested',
         UNCHANGED <<completedTransfers, backend>>,
         \A u \in Threads : BatchKept(u)
  PROVE  QueueInv'
<1>1. Waiting' = Waiting BY DEF Waiting
<1>2. \A u \in Threads : Taken(u)' = Taken(u) BY Zenon DEF Taken, BatchKept
<1> QED BY <1>1, <1>2, SMT DEF QueueInv, BatchKept

LEMMA TransfersLeftAlone ==
  ASSUME TransfersInv, SameSets, UNCHANGED <<flying, completedTransfers, backend>>,
         \A t \in Callers : Quiet(t), QuietClose
  PROVE  TransfersInv'
<1> USE DEF SameSets
<1>1. Flying' = Flying /\ Waiting' = Waiting BY DEF Flying, Waiting
<1>2. OwnerInv' BY <1>1, SMT DEF TransfersInv, OwnerInv, Quiet, QuietClose
<1>3. FlyingInv' BY <1>1, Zenon DEF TransfersInv, FlyingInv
<1>4. AttachedInv' BY SMT DEF TransfersInv, AttachedInv, QuietClose
<1>5. RequestInv' BY <1>1, SMT DEF TransfersInv, RequestInv, QuietClose
<1>6. QueueInv'
  <2>1. \A t \in Threads : BatchKept(t) BY SMT DEF Quiet, QuietClose, Threads, BatchKept
  <2> QED BY <2>1, QueueKept DEF TransfersInv, QueueInv
<1>7. CompletingInv' BY <1>1, SMT DEF TransfersInv, CompletingInv, Quiet
<1>8. TimedOutInv' BY <1>1, SMT DEF TransfersInv, TimedOutInv, Quiet
<1> QED BY <1>2, <1>3, <1>4, <1>5, <1>6, <1>7, <1>8 DEF TransfersInv

LEMMA Places ==
  ASSUME TypeOK
  PROVE  /\ th \in [Threads -> Doing] /\ xfer \in [Callers -> Transfer]
         /\ flying \in Seq(Callers) /\ completedTransfers \in Seq(Callers)
         /\ Callers \subseteq Threads /\ Closer \in Threads
         /\ \A u \in Threads : /\ th[u] \in Doing /\ th[u].pc \in Pcs /\ th[u].ret \in Rets
                               /\ th[u].x \in Callers \union {None} /\ th[u].st \in Results
                               /\ th[u].ready \in Readiness /\ th[u].batch \in Seq(Callers)
                               /\ th[u].until \in Nat /\ th[u].left \in Nat /\ th[u].err \in Errors
         /\ \A x \in Callers : /\ xfer[x].due \in Nat /\ xfer[x].status \in Results
                               /\ xfer[x].urb \in Urbs
         /\ clock \in Nat /\ Never \in Nat
<1>1. /\ th \in [Threads -> Doing] /\ xfer \in [Callers -> Transfer]
      /\ flying \in Seq(Callers) /\ completedTransfers \in Seq(Callers) /\ clock \in Nat
  BY DEF TypeOK
<1>2. \A u \in Threads : th[u] \in Doing BY <1>1
<1>3. \A r \in Doing : /\ r.pc \in Pcs /\ r.ret \in Rets
                       /\ r.x \in Callers \union {None} /\ r.st \in Results
                       /\ r.ready \in Readiness /\ r.batch \in Seq(Callers)
                       /\ r.until \in Nat /\ r.left \in Nat /\ r.err \in Errors
  BY SMT DEF Doing
<1>4. \A r \in Transfer : r.due \in Nat /\ r.status \in Results /\ r.urb \in Urbs
  BY SMT DEF Transfer
<1>5. \A x \in Callers : xfer[x] \in Transfer BY <1>1
<1>6. Never \in Nat BY BoundsAssumption, SMT DEF Never
<1>7. Callers \subseteq Threads /\ Closer \in Threads BY DEF Threads
<1> QED BY <1>1, <1>2, <1>3, <1>4, <1>5, <1>6, <1>7, Zenon

(* The transfer whose timeout comes next is on the list.                   *)
LEMMA NextTimeoutIs ==
  ASSUME TypeOK
  PROVE  NextTimeout \in Flying \union {None}
<1> DEFINE I == {i \in DOMAIN flying : ~ xfer[flying[i]].handled}
<1>1. NextTimeout = None \/ (I # {} /\ NextTimeout = flying[First(I)]) BY Zenon DEF NextTimeout
<1>2. ASSUME I # {} PROVE flying[First(I)] \in Flying
  <2>1. Len(flying) \in Nat /\ DOMAIN flying = 1..Len(flying) BY Places, RangeIs
  <2>2. I \in SUBSET (1..Len(flying)) BY <2>1
  <2> HIDE DEF I
  <2>3. First(I) \in 1..Len(flying) BY <1>2, <2>1, <2>2, FirstIn, Zenon
  <2> QED BY <2>3, Places, RangeIs, Zenon DEF Flying
<1> QED BY <1>1, <1>2, Zenon



-----------------------------------------------------------------------------
(* What each step does.                                                    *)

SetsFlag   == handlerActive' = TRUE
ClearsFlag == handlerActive' = FALSE
SourceGone == source' = FALSE /\ removed' = TRUE /\ UNCHANGED eventData
Closed     == open' = FALSE
Unplugged  == unplugged' = TRUE

LEMMA TryEventsDoes ==
  ASSUME TypeOK, NEW t \in Callers, TryEvents(t)
  PROVE  /\ th' \in [Threads -> Doing]
         /\ th[t].pc = "try" /\ \E l \in {"waiters", "trylock"} : Moves(t, l)
         /\ UNCHANGED <<world, events, srcs, locks, lists, xfer>>
<1>1. \A l \in Pcs : Goto(t, l) => th' \in [Threads -> Doing] /\ Moves(t, l) BY Places, GotoMoves
<1>2. {"waiters", "trylock"} \subseteq Pcs BY SMT DEF Pcs, CallerPcs, CloserPcs, HandlerPcs, ClosePcs, TimeoutPcs
<1> QED BY <1>1, <1>2, Zenon DEF TryEvents, At

LEMMA TryLockEventsDoes ==
  ASSUME TypeOK, NEW t \in Callers, TryLockEvents(t)
  PROVE  /\ th' \in [Threads -> Doing]
         /\ th[t].pc = "trylock"
         /\ \/ eventsLock = None /\ Moves(t, "handle") /\ eventsLock' = t /\ SetsFlag
            \/ Moves(t, "waiters") /\ UNCHANGED <<eventsLock, handlerActive>>
         /\ UNCHANGED <<world, events, srcs, waitersLock, flyingLock, openDevsLock, lock,
                        lists, xfer>>
<1>1. \A l \in Pcs : Goto(t, l) => th' \in [Threads -> Doing] /\ Moves(t, l) BY Places, GotoMoves
<1>2. {"handle", "waiters"} \subseteq Pcs BY SMT DEF Pcs, CallerPcs, CloserPcs, HandlerPcs, ClosePcs, TimeoutPcs
<1> QED BY <1>1, <1>2, Zenon DEF TryLockEvents, At, SetsFlag

LEMMA LockWaitersDoes ==
  ASSUME TypeOK, NEW t \in Callers, LockWaiters(t)
  PROVE  /\ th' \in [Threads -> Doing]
         /\ th[t].pc = "waiters"
         /\ \/ Moves(t, "after") /\ UNCHANGED waitersLock
            \/ Moves(t, "active") /\ waitersLock' = t
         /\ UNCHANGED <<world, events, srcs, eventsLock, handlerActive, flyingLock,
                       openDevsLock, lock, lists, xfer>>
<1>1. \A l \in Pcs : Goto(t, l) => th' \in [Threads -> Doing] /\ Moves(t, l) BY Places, GotoMoves
<1>2. {"after", "active"} \subseteq Pcs BY SMT DEF Pcs, CallerPcs, CloserPcs, HandlerPcs, ClosePcs, TimeoutPcs
<1> QED BY <1>1, <1>2, Zenon DEF LockWaiters, At

LEMMA HandlerActiveDoes ==
  ASSUME TypeOK, NEW t \in Callers, HandlerActive(t)
  PROVE  /\ th' \in [Threads -> Doing]
         /\ th[t].pc = "active" /\ waitersLock' = None
         /\ \/ Moves(t, "sleep") /\ (deviceClose > 0 \/ handlerActive)
            \/ Moves(t, "try")
         /\ UNCHANGED <<world, events, srcs, eventsLock, handlerActive, flyingLock,
                       openDevsLock, lock, lists, xfer>>
<1>1. \A l \in Pcs : Goto(t, l) => th' \in [Threads -> Doing] /\ Moves(t, l) BY Places, GotoMoves
<1>2. {"sleep", "try"} \subseteq Pcs BY SMT DEF Pcs, CallerPcs, CloserPcs, HandlerPcs, ClosePcs, TimeoutPcs
<1> QED BY <1>1, <1>2, Zenon DEF HandlerActive, At

LEMMA SubmitAcceptedDoes ==
  ASSUME TypeOK, NEW t \in Callers, SubmitAccepted(t)
  PROVE  /\ th' \in [Threads -> Doing]
         /\ th[t].pc = "submit" /\ Moves(t, "wait")
         /\ lock' = [lock EXCEPT ![t] = None]
         /\ xfer' \in [Callers -> Transfer] /\ Alive' = Alive /\ Done' = Done /\ Attached' = Attached
            /\ InTheAir' = InTheAir \union {t} /\ Requested' = Requested \union {t} /\ Queued' = Queued
         /\ UNCHANGED <<world, events, srcs, eventsLock, handlerActive, waitersLock,
                       flyingLock, openDevsLock, lists>>
<1>1. \A l \in Pcs : Goto(t, l) => th' \in [Threads -> Doing] /\ Moves(t, l) BY Places, GotoMoves
<1>2. {"wait"} \subseteq Pcs BY SMT DEF Pcs, CallerPcs, CloserPcs, HandlerPcs, ClosePcs, TimeoutPcs
<1>3. xfer' = [xfer EXCEPT ![t].flight = TRUE, ![t].urb = "submitted"] BY Zenon DEF SubmitAccepted
<1>4. /\ xfer' \in [Callers -> Transfer] /\ Alive' = Alive /\ Done' = Done /\ Attached' = Attached
      /\ InTheAir' = InTheAir \union {t} /\ Requested' = Requested \union {t} /\ Queued' = Queued
  BY <1>3, Places, Accepted, Zenon
<1> QED BY <1>1, <1>2, <1>4, Zenon DEF SubmitAccepted, At

LEMMA SubmitRejectedDoes ==
  ASSUME TypeOK, NEW t \in Callers, SubmitRejected(t)
  PROVE  /\ th' \in [Threads -> Doing]
         /\ th[t].pc = "submit" /\ Moves(t, "unlist")
         /\ lock' = [lock EXCEPT ![t] = None]
         /\ UNCHANGED <<world, events, srcs, eventsLock, handlerActive, waitersLock,
                       flyingLock, openDevsLock, lists, xfer>>
<1>1. \A l \in Pcs : Goto(t, l) => th' \in [Threads -> Doing] /\ Moves(t, l) BY Places, GotoMoves
<1>2. {"unlist"} \subseteq Pcs BY SMT DEF Pcs, CallerPcs, CloserPcs, HandlerPcs, ClosePcs, TimeoutPcs
<1> QED BY <1>1, <1>2, Zenon DEF SubmitRejected, At

LEMMA SubmitFailedDoes ==
  ASSUME TypeOK, NEW t \in Callers, SubmitFailed(t)
  PROVE  /\ th' \in [Threads -> Doing]
         /\ th[t].pc = "unlist" /\ Moves(t, "idle") /\ flyingLock = None
         /\ RemoveFromFlyingList(t)
         /\ xfer' \in [Callers -> Transfer] /\ Alive' = Alive \ {t} /\ Done' = Done \ {t}
            /\ InTheAir' = InTheAir \ {t} /\ Attached' = Attached \ {t} /\ Queued' = Queued \ {t}
            /\ Requested' = Requested \ {t}
         /\ UNCHANGED <<world, events, srcs, locks, completedTransfers, open>>
<1>1. \A l \in Pcs : Goto(t, l) => th' \in [Threads -> Doing] /\ Moves(t, l) BY Places, GotoMoves
<1>2. {"idle"} \subseteq Pcs BY SMT DEF Pcs, CallerPcs, CloserPcs, HandlerPcs, ClosePcs, TimeoutPcs
<1>3. xfer' = [xfer EXCEPT ![t] = NoTransfer] BY Zenon DEF SubmitFailed
<1>4. /\ xfer' \in [Callers -> Transfer] /\ Alive' = Alive \ {t} /\ Done' = Done \ {t}
      /\ InTheAir' = InTheAir \ {t} /\ Attached' = Attached \ {t} /\ Queued' = Queued \ {t}
      /\ Requested' = Requested \ {t}
  BY <1>3, Places, Freed, Zenon
<1> QED BY <1>1, <1>2, <1>4, Zenon DEF SubmitFailed, At

LEMMA ReturnDoes ==
  ASSUME TypeOK, NEW t \in Callers, Return(t)
  PROVE  /\ th' \in [Threads -> Doing]
         /\ th[t].pc = "wait" /\ Moves(t, "idle") /\ t \in Done
         /\ xfer' \in [Callers -> Transfer] /\ Alive' = Alive \ {t} /\ Done' = Done \ {t}
            /\ InTheAir' = InTheAir \ {t} /\ Attached' = Attached \ {t} /\ Queued' = Queued \ {t}
            /\ Requested' = Requested \ {t}
         /\ UNCHANGED <<world, events, srcs, locks, lists>>
<1>1. \A l \in Pcs : Goto(t, l) => th' \in [Threads -> Doing] /\ Moves(t, l) BY Places, GotoMoves
<1>2. {"idle"} \subseteq Pcs BY SMT DEF Pcs, CallerPcs, CloserPcs, HandlerPcs, ClosePcs, TimeoutPcs
<1>3. xfer' = [xfer EXCEPT ![t] = NoTransfer] BY Zenon DEF Return
<1>4. /\ xfer' \in [Callers -> Transfer] /\ Alive' = Alive \ {t} /\ Done' = Done \ {t}
      /\ InTheAir' = InTheAir \ {t} /\ Attached' = Attached \ {t} /\ Queued' = Queued \ {t}
      /\ Requested' = Requested \ {t}
  BY <1>3, Places, Freed, Zenon
<1>5. xfer[t].done => t \in Done BY DEF Done
<1> QED BY <1>1, <1>2, <1>4, <1>5, Zenon DEF Return, At

LEMMA CancelDoes ==
  ASSUME TypeOK, NEW t \in Callers, Cancel(t)
  PROVE  /\ th' \in [Threads -> Doing]
         /\ th[t].pc \in {"wait", "cancel"} /\ Moves(t, "wait")
         /\ xfer' \in [Callers -> Transfer] /\ SameSets
         /\ upsets' \in Nat
         /\ UNCHANGED <<clock, unplugged, backend, events, srcs, locks, lists>>
<1>1. \A l \in Pcs : Goto(t, l) => th' \in [Threads -> Doing] /\ Moves(t, l) BY Places, GotoMoves
<1>2. {"wait"} \subseteq Pcs BY SMT DEF Pcs, CallerPcs, CloserPcs, HandlerPcs, ClosePcs, TimeoutPcs
<1>3. xfer' = [xfer EXCEPT ![t] = [Cancelled(t) EXCEPT !.asked = TRUE]] BY Zenon DEF Cancel
<1>4. xfer' \in [Callers -> Transfer] /\ SameSets BY <1>3, Places, CancelLeavesSets, Zenon
<1>5. upsets' \in Nat BY SMT DEF Cancel, Upset, TypeOK
<1> QED BY <1>1, <1>2, <1>4, <1>5, Zenon DEF Cancel, At

LEMMA MarkTimedOutDoes ==
  ASSUME TypeOK, NEW t \in Callers, MarkTimedOut(t)
  PROVE  /\ th' \in [Threads -> Doing]
         /\ th[t].pc = "timedout" /\ Moves(t, "expiring")
         /\ th[t].x \in Callers => xfer' \in [Callers -> Transfer] /\ SameSets
         /\ UNCHANGED <<world, events, srcs, locks, lists>>
<1>1. \A l \in Pcs : Goto(t, l) => th' \in [Threads -> Doing] /\ Moves(t, l) BY Places, GotoMoves
<1>2. {"expiring"} \subseteq Pcs BY SMT DEF Pcs, CallerPcs, CloserPcs, HandlerPcs, ClosePcs, TimeoutPcs
<1>3. xfer' = [xfer EXCEPT ![th[t].x].timedOut = TRUE] BY Zenon DEF MarkTimedOut
<1>4. th[t].x \in Callers => xfer' \in [Callers -> Transfer] /\ SameSets
  BY <1>3, Places, MarkedTimedOut, Zenon DEF SameSets
<1> QED BY <1>1, <1>2, <1>4, Zenon DEF MarkTimedOut, At

LEMMA AfterEventsDoes ==
  ASSUME TypeOK, NEW t \in Callers, AfterEvents(t)
  PROVE  /\ th' \in [Threads -> Doing]
         /\ th[t].pc = "after" /\ \E l \in {"cancel", "wait"} : Moves(t, l)
         /\ xfer' \in [Callers -> Transfer] /\ Alive' = Alive /\ InTheAir' = InTheAir
            /\ Attached' = Attached /\ Queued' = Queued /\ Requested' = Requested
         /\ Done' = Done \/ (t \notin Attached /\ Done' = Done \union {t})
         /\ UNCHANGED <<world, events, srcs, locks, lists>>
<1>1. \A l \in Pcs : Goto(t, l) => th' \in [Threads -> Doing] /\ Moves(t, l) BY Places, GotoMoves
<1>2. {"cancel", "wait"} \subseteq Pcs BY SMT DEF Pcs, CallerPcs, CloserPcs, HandlerPcs, ClosePcs, TimeoutPcs
<1>3. \/ xfer' = xfer
      \/ ~ xfer[t].handle /\ xfer' = [xfer EXCEPT ![t].status = "NO_DEVICE", ![t].done = TRUE]
  BY Zenon DEF AfterEvents
<1>4. /\ xfer' \in [Callers -> Transfer] /\ Alive' = Alive /\ InTheAir' = InTheAir
      /\ Attached' = Attached /\ Queued' = Queued /\ Requested' = Requested
      /\ Done' = Done \/ (t \notin Attached /\ Done' = Done \union {t})
  <2>1. CASE xfer' = xfer BY <2>1, Places, Zenon DEF Alive, InTheAir, Attached, Queued, Requested, Done
  <2>2. CASE ~ xfer[t].handle /\ xfer' = [xfer EXCEPT ![t].status = "NO_DEVICE", ![t].done = TRUE]
    <3>1. t \notin Attached BY <2>2, Zenon DEF Attached
    <3> QED BY <2>2, <3>1, Places, FoundClosed, Zenon
  <2> QED BY <1>3, <2>1, <2>2
<1> QED BY <1>1, <1>2, <1>4, Zenon DEF AfterEvents, At

LEMMA HandleEventsDoes ==
  ASSUME TypeOK, NEW t \in Callers, HandleEvents(t)
  PROVE  /\ th' \in [Threads -> Doing]
         /\ th[t].pc = "handle" /\ UNCHANGED deviceClose
         /\ \/ Moves(t, "unlock") /\ UNCHANGED <<events, srcs>>
            \/ /\ Moves(t, "poll") /\ "sources" \in eventFlags
               /\ AllocEventData /\ Lower(eventFlags \ {"sources"})
            \/ Moves(t, "poll") /\ UNCHANGED <<srcs, eventFlags, pipe>>
         /\ UNCHANGED <<world, locks, lists, xfer>>
<1>1. \A l \in Pcs : Goto(t, l) => th' \in [Threads -> Doing] /\ Moves(t, l) BY Places, GotoMoves
<1>2. {"unlock", "poll"} \subseteq Pcs BY SMT DEF Pcs, CallerPcs, CloserPcs, HandlerPcs, ClosePcs, TimeoutPcs
<1>3. UNCHANGED events => UNCHANGED deviceClose BY SMT DEF events
<1> QED BY <1>1, <1>2, <1>3, Zenon DEF HandleEvents, At

LEMMA HandleDescriptorDoes ==
  ASSUME TypeOK, NEW t \in Callers, HandleDescriptor(t)
  PROVE  /\ th' \in [Threads -> Doing]
         /\ th[t].pc = "reap" /\ openDevsLock' = t
         /\ \/ Moves(t, "reaping")
            \/ Moves(t, "disconnect") /\ th[t].ready = "error"
         /\ \/ th[t].ready = "error" /\ SourceGone /\ Raise("sources")
            \/ UNCHANGED <<srcs, eventFlags, pipe>>
         /\ UNCHANGED <<world, deviceClose, eventsLock, handlerActive, waitersLock,
                       flyingLock, lock, lists, xfer>>
<1>1. \A l \in Pcs : Goto(t, l) => th' \in [Threads -> Doing] /\ Moves(t, l) BY Places, GotoMoves
<1>2. {"reaping", "disconnect"} \subseteq Pcs BY SMT DEF Pcs, CallerPcs, CloserPcs, HandlerPcs, ClosePcs, TimeoutPcs
<1> QED BY <1>1, <1>2, Zenon DEF HandleDescriptor, At, SourceGone, RemoveSource, srcs

LEMMA ReapEndDoes ==
  ASSUME TypeOK, NEW t \in Callers, ReapEnd(t)
  PROVE  /\ th' \in [Threads -> Doing]
         /\ th[t].pc = "reaping"
         /\ \/ th[t].ready = "error" /\ Moves(t, "disconnect") /\ UNCHANGED openDevsLock
            \/ Moves(t, "unlock") /\ openDevsLock' = None
         /\ UNCHANGED <<world, events, srcs, eventsLock, handlerActive, waitersLock,
                       flyingLock, lock, lists, xfer>>
<1>1. \A l \in Pcs : Goto(t, l) => th' \in [Threads -> Doing] /\ Moves(t, l) BY Places, GotoMoves
<1>2. {"disconnect", "unlock"} \subseteq Pcs BY SMT DEF Pcs, CallerPcs, CloserPcs, HandlerPcs, ClosePcs, TimeoutPcs
<1> QED BY <1>1, <1>2, Zenon DEF ReapEnd, At

LEMMA LeaveFlyingListDoes ==
  ASSUME TypeOK, NEW t \in Callers, LeaveFlyingList(t)
  PROVE  /\ th' \in [Threads -> Doing]
         /\ th[t].pc = "complete" /\ flyingLock = None /\ Moves(t, "callback")
         /\ RemoveFromFlyingList(th[t].x)
         /\ UNCHANGED <<world, events, srcs, locks, completedTransfers, open, xfer>>
<1>1. \A l \in Pcs : Goto(t, l) => th' \in [Threads -> Doing] /\ Moves(t, l) BY Places, GotoMoves
<1>2. {"callback"} \subseteq Pcs BY SMT DEF Pcs, CallerPcs, CloserPcs, HandlerPcs, ClosePcs, TimeoutPcs
<1> QED BY <1>1, <1>2, Zenon DEF LeaveFlyingList, At

LEMMA UnlockEventsDoes ==
  ASSUME TypeOK, NEW t \in Threads, UnlockEvents(t)
  PROVE  /\ th' \in [Threads -> Doing]
         /\ th[t].pc = "unlock" /\ Moves(t, "broadcast")
         /\ ClearsFlag /\ eventsLock' = None
         /\ UNCHANGED <<world, events, srcs, waitersLock, flyingLock, openDevsLock, lock,
                       lists, xfer>>
<1>1. \A l \in Pcs : Goto(t, l) => th' \in [Threads -> Doing] /\ Moves(t, l) BY Places, GotoMoves
<1>2. {"broadcast"} \subseteq Pcs BY SMT DEF Pcs, CallerPcs, CloserPcs, HandlerPcs, ClosePcs, TimeoutPcs
<1> QED BY <1>1, <1>2, Zenon DEF UnlockEvents, At, ClearsFlag

LEMMA CloseBeginDoes ==
  ASSUME TypeOK, CloseBegin
  PROVE  /\ th' \in [Threads -> Doing]
         /\ th[Closer].pc = "idle" /\ Moves(Closer, "lockevents")
         /\ \A t \in Callers : th[t].pc \notin {"submit", "unlist"}
         /\ backend = "signal" => Alive = {}
         /\ deviceClose' = deviceClose + 1
         /\ \/ deviceClose = 0 /\ Raise("close")
            \/ deviceClose # 0 /\ UNCHANGED eventFlags
         /\ UNCHANGED <<world, srcs, locks, lists, xfer>>
<1>1. \A l \in Pcs : Goto(Closer, l) => th' \in [Threads -> Doing] /\ Moves(Closer, l) BY Places, GotoMoves
<1>2. {"lockevents"} \subseteq Pcs BY SMT DEF Pcs, CallerPcs, CloserPcs, HandlerPcs, ClosePcs, TimeoutPcs
<1>3. CloseBegin /\ backend = "signal" => Alive = {} BY Zenon DEF CloseBegin, Alive
<1> QED BY <1>1, <1>2, <1>3, Zenon DEF CloseBegin, At

LEMMA LockEventsDoes ==
  ASSUME TypeOK, LockEvents
  PROVE  /\ th' \in [Threads -> Doing]
         /\ th[Closer].pc = "lockevents" /\ Moves(Closer, "sweep")
         /\ eventsLock = None /\ eventsLock' = Closer /\ SetsFlag
         /\ UNCHANGED <<world, events, srcs, waitersLock, flyingLock, openDevsLock, lock,
                       lists, xfer>>
<1>1. \A l \in Pcs : Goto(Closer, l) => th' \in [Threads -> Doing] /\ Moves(Closer, l) BY Places, GotoMoves
<1>2. {"sweep"} \subseteq Pcs BY SMT DEF Pcs, CallerPcs, CloserPcs, HandlerPcs, ClosePcs, TimeoutPcs
<1> QED BY <1>1, <1>2, Zenon DEF LockEvents, At, SetsFlag

LEMMA SweepDoes ==
  ASSUME TypeOK, Sweep
  PROVE  /\ th' \in [Threads -> Doing]
         /\ th[Closer].pc = "sweep" /\ Moves(Closer, "detach")
         /\ flyingLock = None /\ flying' = <<>>
         /\ UNCHANGED <<world, events, srcs, locks, completedTransfers, open>>
<1>1. \A l \in Pcs : Goto(Closer, l) => th' \in [Threads -> Doing] /\ Moves(Closer, l) BY Places, GotoMoves
<1>2. {"detach"} \subseteq Pcs BY SMT DEF Pcs, CallerPcs, CloserPcs, HandlerPcs, ClosePcs, TimeoutPcs
<1> QED BY <1>1, <1>2, Zenon DEF Sweep, At

LEMMA DetachDoes ==
  ASSUME TypeOK, Detach
  PROVE  /\ th' \in [Threads -> Doing]
         /\ th[Closer].pc = "detach" /\ Moves(Closer, "lowering")
         /\ Closed
         /\ (SourceGone /\ Raise("sources")) \/ UNCHANGED <<source, removed, eventFlags, pipe>>
         /\ UNCHANGED <<world, deviceClose, eventData, locks, flying, completedTransfers>>
<1>1. \A l \in Pcs : Goto(Closer, l) => th' \in [Threads -> Doing] /\ Moves(Closer, l) BY Places, GotoMoves
<1>2. {"lowering"} \subseteq Pcs BY SMT DEF Pcs, CallerPcs, CloserPcs, HandlerPcs, ClosePcs, TimeoutPcs
<1> QED BY <1>1, <1>2, Zenon DEF Detach, At, Closed, SourceGone, RemoveSource, srcs

LEMMA CloseEndDoes ==
  ASSUME TypeOK, CloseEnd
  PROVE  /\ th' \in [Threads -> Doing]
         /\ th[Closer].pc = "lowering" /\ Moves(Closer, "unlock")
         /\ deviceClose' = deviceClose - 1
         /\ Lower(IF deviceClose = 1 THEN eventFlags \ {"close"} ELSE eventFlags)
         /\ UNCHANGED <<world, srcs, locks, lists, xfer>>
<1>1. \A l \in Pcs : Goto(Closer, l) => th' \in [Threads -> Doing] /\ Moves(Closer, l) BY Places, GotoMoves
<1>2. {"unlock"} \subseteq Pcs BY SMT DEF Pcs, CallerPcs, CloserPcs, HandlerPcs, ClosePcs, TimeoutPcs
<1> QED BY <1>1, <1>2, Zenon DEF CloseEnd, At


(* What the list of flying transfers becomes.                              *)
LEMMA AddedToList ==
  ASSUME TypeOK, NEW x \in Callers, NEW d \in Nat
  PROVE  /\ AddToFlyingList(x, d) \in Seq(Callers)
         /\ Range(AddToFlyingList(x, d)) = Flying \union {x}
         /\ Injective(flying) /\ x \notin Flying => Injective(AddToFlyingList(x, d))
<1> DEFINE later == {i \in DOMAIN flying : xfer[flying[i]].due > d}
           n == IF later = {} THEN Len(flying) + 1 ELSE First(later)
<1>1. flying \in Seq(Callers) BY Places
<1>2. Len(flying) \in Nat /\ DOMAIN flying = 1..Len(flying) BY <1>1, RangeIs
<1>3. later \in SUBSET (1..Len(flying)) BY <1>2
<1>4. AddToFlyingList(x, d) = InsertAt(flying, n, x) BY Zenon DEF AddToFlyingList
<1> HIDE DEF later
<1>5. later # {} => First(later) \in 1..Len(flying) BY <1>2, <1>3, FirstIn, Zenon
<1>6. n \in 1..Len(flying) + 1 BY <1>2, <1>5, SMT
<1> HIDE DEF n
<1> QED BY <1>1, <1>4, <1>6, InsertAtIs DEF Flying

LEMMA RemovedFromList ==
  ASSUME TypeOK, NEW x, Injective(flying), RemoveFromFlyingList(x)
  PROVE  x \in Flying /\ flying' \in Seq(Callers) /\ Flying' = Flying \ {x} /\ Injective(flying')
<1>1. PICK i \in DOMAIN flying : flying[i] = x /\ flying' = RemoveAt(flying, i)
  BY Zenon DEF RemoveFromFlyingList
<1>2. flying \in Seq(Callers) BY Places
<1>3. i \in 1..Len(flying) BY <1>2, RangeIs
<1>4. x \in Flying BY <1>1, <1>2, <1>3, RangeIs, Zenon DEF Flying
<1> QED BY <1>1, <1>2, <1>3, <1>4, RemoveAtIs, Zenon DEF Flying

LEMMA SubmitDoes ==
  ASSUME TypeOK, NEW t \in Callers, Submit(t)
  PROVE  /\ th' \in [Threads -> Doing]
         /\ th[t].pc = "idle" /\ Moves(t, "submit") /\ th[Closer].pc = "idle"
         /\ lock' = [lock EXCEPT ![t] = t] /\ flyingLock = None
         /\ \E d \in Nat : flying' = AddToFlyingList(t, d)
         /\ xfer' \in [Callers -> Transfer] /\ Alive' = Alive \union {t} /\ Done' = Done \ {t}
         /\ InTheAir' = InTheAir \ {t} /\ Attached' = Attached \union {t} /\ Queued' = Queued \ {t}
         /\ Requested' = Requested \ {t}
         /\ UNCHANGED <<world, events, srcs, eventsLock, handlerActive, waitersLock,
                        flyingLock, openDevsLock, completedTransfers, open>>
<1>0. th \in [Threads -> Doing] /\ t \in Threads BY Places
<1> DEFINE d == IF Timeout[t] = 0 THEN Never ELSE clock + Timeout[t]
           m == th[t].left - 1
<1>1. /\ th[t].pc = "idle" /\ th[Closer].pc = "idle" /\ th[t].left > 0
      /\ lock' = [lock EXCEPT ![t] = t] /\ flyingLock = None
      /\ flying' = AddToFlyingList(t, d)
      /\ UNCHANGED <<world, events, srcs, eventsLock, handlerActive, waitersLock,
                     flyingLock, openDevsLock, completedTransfers, open>>
  BY Zenon DEF Submit, At
<1>2. th' = [th EXCEPT ![t].pc = "submit", ![t].left = m, ![t].err = "ok"] BY DEF Submit
<1>3. PICK z : z = NoTransfer OBVIOUS
<1>4. xfer' = [xfer EXCEPT ![t] = [z EXCEPT !.alive = TRUE, !.handle = TRUE, !.due = d]]
  BY <1>3, Zenon DEF Submit
<1>5. d \in Nat
  <2>1. Timeout[t] \in Nat BY BoundsAssumption
  <2> QED BY <2>1, Places, SMT
<1>6. m \in Nat BY <1>1, Places, SMT
<1> HIDE DEF d, m
<1>7. th' \in [Threads -> Doing] /\ Moves(t, "submit")
  <2>1. "submit" \in Pcs /\ "ok" \in Errors BY SMT DEF Pcs, CallerPcs, Errors
  <2> QED BY <1>0, <1>2, <1>6, <2>1, Submits
<1>8. /\ xfer' \in [Callers -> Transfer] /\ Alive' = Alive \union {t} /\ Done' = Done \ {t}
      /\ InTheAir' = InTheAir \ {t} /\ Attached' = Attached \union {t} /\ Queued' = Queued \ {t}
      /\ Requested' = Requested \ {t}
  BY <1>3, <1>4, <1>5, Places, Renewed
<1> QED BY <1>1, <1>5, <1>7, <1>8

LEMMA GetNextTimeoutDoes ==
  ASSUME TypeOK, NEW t \in Callers, GetNextTimeout(t)
  PROVE  /\ th' \in [Threads -> Doing]
         /\ th[t].pc = "wait" /\ \E l \in {"expire", "try"} : MovesFor(t, l, "after")
         /\ UNCHANGED <<world, events, srcs, locks, lists, xfer>>
<1>0. th \in [Threads -> Doing] /\ t \in Threads BY Places
<1> DEFINE d == IF NextTimeout = None THEN Never ELSE xfer[NextTimeout].due
           l == IF d <= clock THEN "expire" ELSE "try"
<1>1. /\ th[t].pc = "wait"
      /\ th' = [th EXCEPT ![t].pc = l, ![t].ret = "after", ![t].until = d, ![t].err = "ok"]
      /\ UNCHANGED <<world, events, srcs, locks, lists, xfer>>
  BY Zenon DEF GetNextTimeout, At
<1>2. d \in Nat
  <2>1. NextTimeout # None => NextTimeout \in Callers BY NextTimeoutIs, Places, RangeIs, Zenon DEF Flying
  <2> QED BY <2>1, Places, Zenon
<1>3. l \in {"expire", "try"} BY Zenon
<1> HIDE DEF d, l
<1>4. l \in Pcs /\ "after" \in Rets /\ "ok" \in Errors
  BY <1>3, SMT DEF Pcs, CallerPcs, TimeoutPcs, Rets, Errors
<1>5. th' \in [Threads -> Doing] /\ MovesFor(t, l, "after")
  <2>1. th' = [th EXCEPT ![t].pc = l, ![t].ret = "after", ![t].until = d, ![t].err = "ok"] BY <1>1
  <2>2. d \in Nat /\ l \in Pcs /\ "after" \in Rets /\ "ok" \in Errors BY <1>2, <1>4
  <2> QED BY <1>0, <2>1, <2>2, Waits
<1> QED BY <1>1, <1>3, <1>5, Zenon

LEMMA WakeUpDoes ==
  ASSUME TypeOK, NEW t \in Callers, WakeUp(t)
  PROVE  /\ th' \in [Threads -> Doing]
         /\ \/ th[t].pc = "woken" /\ Moves(t, "after")
            \/ th[t].pc = "sleep" /\ MovesFor(t, "expire", "after")
         /\ UNCHANGED <<world, events, srcs, locks, lists, xfer>>
<1>0. th \in [Threads -> Doing] /\ t \in Threads BY Places
<1>1. UNCHANGED <<world, events, srcs, locks, lists, xfer>> BY Zenon DEF WakeUp
<1>2. {"after", "expire"} \subseteq Pcs /\ "after" \in Rets
  BY SMT DEF Pcs, CallerPcs, TimeoutPcs, Rets
<1>3. CASE th[t].pc = "woken" /\ th' = [th EXCEPT ![t].pc = "after", ![t].until = Never]
  BY <1>1, <1>2, <1>3, Places, GoesTimed
<1>4. CASE th[t].pc = "sleep" /\ th' = [th EXCEPT ![t].pc = "expire", ![t].ret = "after"]
  <2>1. th' = [th EXCEPT ![t].pc = "expire", ![t].ret = "after"] BY <1>4
  <2>2. "expire" \in Pcs /\ "after" \in Rets BY <1>2
  <2>3. th' \in [Threads -> Doing] /\ MovesFor(t, "expire", "after")
    BY <1>0, <2>1, <2>2, GoesFor
  <2> QED BY <1>1, <1>4, <2>3
<1> QED BY <1>3, <1>4, Zenon DEF WakeUp, At

LEMMA PollDoes ==
  ASSUME TypeOK, NEW t \in Callers, Poll(t)
  PROVE  /\ th' \in [Threads -> Doing] /\ th[t].pc = "poll"
         /\ \/ \E d \in Readiness :
                  /\ Polled(t, IF pipe > 0 THEN "trigger" ELSE "reap", d)
                  /\ d # "no" => backend = "poll"
                  /\ d = "error" => unplugged
                  /\ pipe > 0 \/ d # "no"
            \/ MovesFor(t, "expire", "unlock")
         /\ UNCHANGED <<world, events, srcs, locks, lists, xfer>>
<1>0. th \in [Threads -> Doing] /\ t \in Threads BY Places
<1> DEFINE l == IF pipe > 0 THEN "trigger" ELSE "reap"
<1>1. th[t].pc = "poll" /\ UNCHANGED <<world, events, srcs, locks, lists, xfer>> BY Zenon DEF Poll, At
<1>2. {"trigger", "reap", "expire"} \subseteq Pcs /\ "unlock" \in Rets
  BY SMT DEF Pcs, CallerPcs, HandlerPcs, TimeoutPcs, Rets
<1>3. CASE /\ pipe > 0 \/ DescriptorReady # "no"
           /\ th' = [th EXCEPT ![t].pc = l, ![t].ready = DescriptorReady, ![t].until = Never]
  <2>1. /\ DescriptorReady \in {"no", "error", "reap"}
        /\ DescriptorReady # "no" => backend = "poll"
        /\ DescriptorReady = "error" => unplugged
    BY Zenon DEF DescriptorReady
  <2>2. DescriptorReady \in Readiness BY <2>1, Zenon DEF Readiness
  <2>3. l \in Pcs BY <1>2, Zenon
  <2> HIDE DEF l
  <2>6. th' = [th EXCEPT ![t].pc = l, ![t].ready = DescriptorReady, ![t].until = Never] BY <1>3
  <2>7. Never \in Nat BY Places
  <2>5. th' \in [Threads -> Doing] /\ Polled(t, l, DescriptorReady)
    BY <1>0, <2>2, <2>3, <2>6, <2>7, Polls
  <2> QED BY <1>1, <1>3, <2>1, <2>2, <2>5, Zenon DEF l
<1>4. CASE th' = [th EXCEPT ![t].pc = "expire", ![t].ret = "unlock"]
  <2>2. "expire" \in Pcs /\ "unlock" \in Rets BY <1>2
  <2>3. th' \in [Threads -> Doing] /\ MovesFor(t, "expire", "unlock")
    BY <1>0, <1>4, <2>2, GoesFor
  <2> QED BY <1>1, <2>3
<1> QED BY <1>3, <1>4, Zenon DEF Poll

LEMMA PollInterruptedDoes ==
  ASSUME TypeOK, NEW t \in Callers, PollInterrupted(t)
  PROVE  /\ th' \in [Threads -> Doing] /\ th[t].pc = "poll" /\ Moves(t, "unlock")
         /\ upsets' \in Nat /\ UNCHANGED <<clock, unplugged, backend, events, srcs, locks, lists, xfer>>
<1>0. th \in [Threads -> Doing] /\ t \in Threads BY Places
<1>1. /\ th[t].pc = "poll" /\ UNCHANGED <<clock, unplugged, backend, events, srcs, locks, lists, xfer>>
      /\ th' = [th EXCEPT ![t].pc = "unlock", ![t].err = "interrupted", ![t].until = Never]
  BY Zenon DEF PollInterrupted, At
<1>2. upsets' \in Nat BY SMT DEF PollInterrupted, Upset, TypeOK
<1>3. "unlock" \in Pcs /\ "interrupted" \in Errors BY SMT DEF Pcs, CallerPcs, HandlerPcs, Errors
<1>4. th' = [th EXCEPT ![t].pc = "unlock", ![t].err = "interrupted", ![t].until = Never] BY <1>1
<1>5. Never \in Nat BY Places
<1>6. th' \in [Threads -> Doing] /\ Moves(t, "unlock") BY <1>0, <1>3, <1>4, <1>5, Stops
<1> QED BY <1>1, <1>2, <1>6


LEMMA HandleTimeoutDoes ==
  ASSUME TypeOK, NEW t \in Callers, HandleTimeout(t)
  PROVE  /\ th' \in [Threads -> Doing]
         /\ \/ th[t].pc = "expire" /\ flyingLock = None
            \/ th[t].pc = "expiring" /\ flyingLock = t
         /\ \E l \in {"timedout", "expiring"}, x \in Flying : x \in Callers /\ Turns(t, l, x)
         /\ flyingLock' = t /\ xfer' \in [Callers -> Transfer] /\ SameSets
         /\ UNCHANGED <<world, events, srcs, eventsLock, handlerActive, waitersLock,
                        openDevsLock, lock, lists>>
<1> DEFINE x   == NextTimeout
           now == IF th[t].pc = "expire" THEN clock ELSE th[t].until
           l   == IF CancelSucceeds(x) THEN "timedout" ELSE "expiring"
<1>0. th \in [Threads -> Doing] /\ t \in Threads BY Places
<1>1. /\ \/ th[t].pc = "expire" /\ flyingLock = None
         \/ th[t].pc = "expiring" /\ flyingLock = t
      /\ flyingLock' = t
      /\ UNCHANGED <<world, events, srcs, eventsLock, handlerActive, waitersLock,
                     openDevsLock, lock, lists>>
  BY Zenon DEF HandleTimeout, At
<1>2. x \in Flying /\ x \in Callers
  <2>1. NextTimeout # None BY Zenon DEF HandleTimeout, Expired
  <2> QED BY <2>1, NextTimeoutIs, Places, RangeIs, Zenon DEF Flying
<1>3. th' = [th EXCEPT ![t].pc = l, ![t].x = x, ![t].until = now] BY DEF HandleTimeout, At
<1>4. xfer' = [xfer EXCEPT ![x] = [Cancelled(x) EXCEPT !.handled = TRUE]] BY DEF HandleTimeout
<1>5. l \in {"timedout", "expiring"} BY Zenon
<1>6. now \in Nat BY Places, Zenon
<1> HIDE DEF x, now, l
<1>7. l \in Pcs /\ x \in Callers \union {None}
  BY <1>2, <1>5, SMT DEF Pcs, CallerPcs, TimeoutPcs
<1>8. th' \in [Threads -> Doing] /\ Turns(t, l, x) BY <1>0, <1>3, <1>6, <1>7, Expires
<1>9. xfer' \in [Callers -> Transfer] /\ SameSets BY <1>2, <1>4, Places, CancelLeavesSets, Zenon
<1> QED BY <1>1, <1>2, <1>5, <1>8, <1>9

LEMMA TimeoutsHandledDoes ==
  ASSUME TypeOK, NEW t \in Callers, TimeoutsHandled(t)
  PROVE  /\ th' \in [Threads -> Doing]
         /\ th[t].pc \in {"expire", "expiring"}
         /\ th[t].pc = "expire" => flyingLock = None
         /\ flyingLock' = None
         /\ th[t].ret \in Pcs => Turns(t, th[t].ret, None)
         /\ UNCHANGED <<world, events, srcs, eventsLock, handlerActive, waitersLock,
                        openDevsLock, lock, lists, xfer>>
<1> DEFINE r == th[t].ret
<1>0. th \in [Threads -> Doing] /\ t \in Threads BY Places
<1>1. /\ \/ th[t].pc = "expire" /\ flyingLock = None
         \/ th[t].pc = "expiring"
      /\ flyingLock' = None
      /\ th' = [th EXCEPT ![t].pc = r, ![t].until = Never, ![t].x = None]
      /\ UNCHANGED <<world, events, srcs, eventsLock, handlerActive, waitersLock,
                     openDevsLock, lock, lists, xfer>>
  BY Zenon DEF TimeoutsHandled, At
<1>2. th' = [th EXCEPT ![t].pc = r, ![t].until = Never, ![t].x = None] BY <1>1
<1>3. r \in Pcs
  <2>1. th[t].ret \in Rets BY Places
  <2> QED BY <2>1, SMT DEF Rets, Pcs, CallerPcs, HandlerPcs
<1>4. Never \in Nat /\ None \in Callers \union {None} BY Places
<1> HIDE DEF r
<1>5. th' \in [Threads -> Doing] /\ Turns(t, r, None) BY <1>0, <1>2, <1>3, <1>4, Resumes
<1> QED BY <1>1, <1>5, Zenon DEF r

LEMMA TransferCancellationDoes ==
  ASSUME TypeOK, NEW t \in Callers, HandleTransferCancellation(t)
  PROVE  /\ th' \in [Threads -> Doing] /\ th[t].pc = "cancelled" /\ flyingLock = None
         /\ Settled(t, "complete", IF xfer[th[t].x].timedOut THEN "TIMED_OUT" ELSE "CANCELLED")
         /\ UNCHANGED <<world, events, srcs, locks, lists, xfer>>
<1> DEFINE s == IF xfer[th[t].x].timedOut THEN "TIMED_OUT" ELSE "CANCELLED"
<1>0. th \in [Threads -> Doing] /\ t \in Threads BY Places
<1>1. /\ th[t].pc = "cancelled" /\ flyingLock = None
      /\ UNCHANGED <<world, events, srcs, locks, lists, xfer>>
  BY Zenon DEF HandleTransferCancellation, At
<1>2. th' = [th EXCEPT ![t].pc = "complete", ![t].st = s] BY DEF HandleTransferCancellation
<1>3. s \in Results BY Zenon DEF Results
<1> HIDE DEF s
<1>4. "complete" \in Pcs BY SMT DEF Pcs, CallerPcs, HandlerPcs
<1>5. th' \in [Threads -> Doing] /\ Settled(t, "complete", s) BY <1>0, <1>2, <1>3, <1>4, Settles
<1> QED BY <1>1, <1>5, Zenon DEF s

LEMMA HandleEventTriggerDoes ==
  ASSUME TypeOK, NEW t \in Callers, HandleEventTrigger(t)
  PROVE  /\ th' \in [Threads -> Doing] /\ th[t].pc = "trigger"
         /\ \/ /\ Batched(t, "batch", completedTransfers) /\ completedTransfers' = <<>>
               /\ "completed" \in eventFlags
               /\ eventFlags' = eventFlags \ {"interrupt"} /\ UNCHANGED pipe
            \/ /\ Moves(t, "unlock") \/ (Moves(t, "reap") /\ th[t].ready # "no")
               /\ "completed" \notin eventFlags
               /\ Lower(eventFlags \ {"interrupt"}) /\ UNCHANGED completedTransfers
         /\ UNCHANGED <<world, deviceClose, srcs, locks, flying, open, xfer>>
<1> DEFINE left == eventFlags \ {"interrupt"}
<1>0. th \in [Threads -> Doing] /\ t \in Threads BY Places
<1>1. th[t].pc = "trigger" /\ UNCHANGED <<world, deviceClose, srcs, locks, flying, open, xfer>>
  BY Zenon DEF HandleEventTrigger, At
<1>2. {"batch", "unlock", "reap"} \subseteq Pcs BY SMT DEF Pcs, CallerPcs, HandlerPcs
<1>3. "completed" \in left <=> "completed" \in eventFlags BY SMT
<1>4. CASE "completed" \in left
  <2>1. /\ completedTransfers' = <<>> /\ eventFlags' = left /\ UNCHANGED pipe
        /\ th' = [th EXCEPT ![t].pc = "batch", ![t].batch = completedTransfers]
    BY <1>4, Zenon DEF HandleEventTrigger
  <2>2. th' = [th EXCEPT ![t].pc = "batch", ![t].batch = completedTransfers] BY <2>1
  <2>3. "batch" \in Pcs /\ completedTransfers \in Seq(Callers) BY <1>2, Places
  <2>4. th' \in [Threads -> Doing] /\ Batched(t, "batch", completedTransfers)
    BY <1>0, <2>2, <2>3, TakesBatch
  <2> QED BY <1>1, <1>3, <1>4, <2>1, <2>4
<1>5. CASE "completed" \notin left
  <2>1. Goto(t, AfterTrigger(t)) /\ Lower(left) /\ UNCHANGED completedTransfers
    BY <1>5, Zenon DEF HandleEventTrigger
  <2>2. \A l \in Pcs : Goto(t, l) => th' \in [Threads -> Doing] /\ Moves(t, l) BY <1>0, GotoMoves
  <2>3. /\ th' \in [Threads -> Doing]
        /\ Moves(t, "unlock") \/ (Moves(t, "reap") /\ th[t].ready # "no")
    BY <1>2, <2>1, <2>2, Zenon DEF AfterTrigger
  <2> QED BY <1>1, <1>3, <1>5, <2>1, <2>3
<1> QED BY <1>4, <1>5

(* The status of a completion, and where it starts.                        *)
FirstStep(s) == IF s = "CANCELLED" THEN "cancelled" ELSE "complete"

LEMMA StartCompletionDoes ==
  ASSUME TypeOK, NEW t \in Callers, NEW x \in Callers, NEW s \in Results, NEW r \in Rets,
         NEW b \in Seq(Callers), StartCompletion(t, x, s, r, b)
  PROVE  th' \in [Threads -> Doing] /\ Starts(t, FirstStep(s), x, s, r, b)
<1> DEFINE l == FirstStep(s)
<1>1. th' = [th EXCEPT ![t].pc = l, ![t].x = x, ![t].st = s, ![t].ret = r, ![t].batch = b]
  BY DEF StartCompletion, FirstStep
<1>2. l \in {"cancelled", "complete"} BY Zenon DEF FirstStep
<1> HIDE DEF l
<1>3. l \in Pcs /\ x \in Callers \union {None} BY <1>2, SMT DEF Pcs, CallerPcs, HandlerPcs
<1>4. th \in [Threads -> Doing] /\ t \in Threads BY Places
<1>5. th' \in [Threads -> Doing] /\ Starts(t, l, x, s, r, b) BY <1>1, <1>3, <1>4, StartsOn
<1> QED BY <1>5 DEF l

LEMMA CompletionIs == \A x : CompletionOf(x) \in {"COMPLETED", "NO_DEVICE", "CANCELLED"}
  BY Zenon DEF CompletionOf

LEMMA CompleteNextDoes ==
  ASSUME TypeOK, NEW t \in Callers, CompleteNext(t)
  PROVE  /\ th' \in [Threads -> Doing] /\ th[t].pc = "batch" /\ th[t].batch # <<>>
         /\ Head(th[t].batch) \in Callers
         /\ \E r \in {"batch", "batchfailed"} :
              Starts(t, FirstStep(CompletionOf(Head(th[t].batch))), Head(th[t].batch),
                     CompletionOf(Head(th[t].batch)), r, Tail(th[t].batch))
         /\ xfer' \in [Callers -> Transfer] /\ Alive' = Alive /\ Done' = Done
         /\ InTheAir' = InTheAir /\ Attached' = Attached /\ Queued' = Queued \ {Head(th[t].batch)}
         /\ Requested' = Requested \ {Head(th[t].batch)}
         /\ UNCHANGED <<world, events, srcs, locks, lists>>
<1> DEFINE x == Head(th[t].batch)
           b == Tail(th[t].batch)
<1>1. /\ th[t].pc = "batch" /\ th[t].batch # <<>> /\ UNCHANGED <<world, events, srcs, locks, lists>>
      /\ xfer' = [xfer EXCEPT ![x].urb = "none", ![x].queued = FALSE]
  BY Zenon DEF CompleteNext, At
<1>2. PICK r \in {"batch", "batchfailed"} : StartCompletion(t, x, CompletionOf(x), r, b)
  BY Zenon DEF CompleteNext
<1>3. x \in Callers /\ b \in Seq(Callers)
  <2>1. th[t].batch \in Seq(Callers) BY Places
  <2> QED BY <1>1, <2>1, HeadTailProperties
<1> HIDE DEF x, b
<1>4. CompletionOf(x) \in Results BY CompletionIs, Zenon DEF Results
<1>5. r \in Rets BY SMT DEF Rets
<1>6. th' \in [Threads -> Doing] /\ Starts(t, FirstStep(CompletionOf(x)), x, CompletionOf(x), r, b)
  BY <1>2, <1>3, <1>4, <1>5, StartCompletionDoes
<1>7. /\ xfer' \in [Callers -> Transfer] /\ Alive' = Alive /\ Done' = Done
      /\ InTheAir' = InTheAir /\ Attached' = Attached /\ Queued' = Queued \ {x}
      /\ Requested' = Requested \ {x}
  BY <1>1, <1>3, Places, TakenFromQueue, Zenon
<1> QED BY <1>1, <1>3, <1>6, <1>7, Zenon DEF x, b

LEMMA CompletionsEndDoes ==
  ASSUME TypeOK, NEW t \in Callers, CompletionsEnd(t)
  PROVE  /\ th' \in [Threads -> Doing]
         /\ \/ /\ th[t].pc = "batch" /\ th[t].batch = <<>>
               /\ \/ Batched(t, "unlock", <<>>)
                  \/ Batched(t, "reap", <<>>) /\ th[t].ready # "no"
            \/ th[t].pc = "batchfailed" /\ Batched(t, "unlock", <<>>)
         /\ completedTransfers' = th[t].batch \o completedTransfers
         /\ Lower(IF completedTransfers = <<>> /\ th[t].batch = <<>> THEN eventFlags \ {"completed"}
                  ELSE eventFlags)
         /\ UNCHANGED <<world, deviceClose, srcs, locks, flying, open, xfer>>
<1> DEFINE l == IF th[t].pc = "batch" THEN AfterTrigger(t) ELSE "unlock"
           e == IF th[t].pc = "batch" THEN "ok" ELSE "failed"
<1>0. th \in [Threads -> Doing] /\ t \in Threads BY Places
<1>1. /\ (th[t].pc = "batch" /\ th[t].batch = <<>>) \/ th[t].pc = "batchfailed"
      /\ completedTransfers' = th[t].batch \o completedTransfers
      /\ Lower(IF completedTransfers = <<>> /\ th[t].batch = <<>> THEN eventFlags \ {"completed"}
               ELSE eventFlags)
      /\ UNCHANGED <<world, deviceClose, srcs, locks, flying, open, xfer>>
  BY Zenon DEF CompletionsEnd, At
<1>2. th' = [th EXCEPT ![t].pc = l, ![t].err = e, ![t].batch = <<>>] BY DEF CompletionsEnd, At
<1>3. \/ th[t].pc = "batch" /\ (l = "unlock" \/ (l = "reap" /\ th[t].ready # "no"))
      \/ th[t].pc # "batch" /\ l = "unlock"
  BY Zenon DEF AfterTrigger
<1>4. e \in Errors BY Zenon DEF Errors
<1> HIDE DEF l, e
<1>5. l \in Pcs BY <1>3, SMT DEF Pcs, CallerPcs, HandlerPcs
<1>6. <<>> \in Seq(Callers) BY EmptySeq
<1>7. th' \in [Threads -> Doing] /\ Batched(t, l, <<>>) BY <1>0, <1>2, <1>4, <1>5, <1>6, EndsBatch
<1>8. "batch" # "batchfailed" OBVIOUS
<1> QED BY <1>1, <1>3, <1>7, <1>8, Zenon


LEMMA ReapDoes ==
  ASSUME TypeOK, NEW t \in Callers, Reap(t)
  PROVE  /\ th' \in [Threads -> Doing] /\ th[t].pc = "reaping"
         /\ \E x \in Reapable \intersect Requested :
              /\ Starts(t, FirstStep(CompletionOf(x)), x, CompletionOf(x), "reaping", <<>>)
              /\ xfer' \in [Callers -> Transfer] /\ Alive' = Alive /\ Done' = Done
              /\ InTheAir' = InTheAir /\ Attached' = Attached /\ Queued' = Queued
              /\ Requested' = Requested \ {x}
         /\ UNCHANGED <<world, events, srcs, locks, lists>>
<1>1. th[t].pc = "reaping" /\ UNCHANGED <<world, events, srcs, locks, lists>> BY Zenon DEF Reap, At
<1>2. PICK x \in Reapable : /\ StartCompletion(t, x, CompletionOf(x), "reaping", <<>>)
                            /\ xfer' = [xfer EXCEPT ![x].urb = "none"]
  BY Zenon DEF Reap
<1>3. x \in Callers /\ x \in Reapable /\ x \in Requested BY <1>2, SMT DEF Reapable, Requested
<1>4. CompletionOf(x) \in Results /\ "reaping" \in Rets /\ <<>> \in Seq(Callers)
  BY CompletionIs, EmptySeq, Zenon DEF Results, Rets
<1>5. th' \in [Threads -> Doing] /\ Starts(t, FirstStep(CompletionOf(x)), x, CompletionOf(x), "reaping", <<>>)
  BY <1>2, <1>3, <1>4, StartCompletionDoes
<1>6. /\ xfer' \in [Callers -> Transfer] /\ Alive' = Alive /\ Done' = Done
      /\ InTheAir' = InTheAir /\ Attached' = Attached /\ Queued' = Queued
      /\ Requested' = Requested \ {x}
  BY <1>2, <1>3, Places, TakenFromKernel, Zenon
<1> QED BY <1>1, <1>3, <1>5, <1>6

LEMMA HandleDisconnectDoes ==
  ASSUME TypeOK, NEW t \in Callers, HandleDisconnect(t)
  PROVE  /\ th' \in [Threads -> Doing] /\ th[t].pc = "disconnect"
         /\ \/ Moves(t, "unlock") /\ openDevsLock' = None /\ UNCHANGED xfer
            \/ \E x \in Flying :
                 /\ x \in Callers /\ x \in Attached /\ x \in InTheAir
                 /\ Starts(t, "complete", x, "NO_DEVICE", "disconnect", <<>>)
                 /\ xfer' \in [Callers -> Transfer] /\ Alive' = Alive /\ Done' = Done
                 /\ InTheAir' = InTheAir /\ Attached' = Attached /\ Queued' = Queued
                 /\ Requested' = Requested \ {x} /\ UNCHANGED openDevsLock
         /\ UNCHANGED <<world, events, srcs, eventsLock, handlerActive, waitersLock, flyingLock,
                        lock, lists>>
<1> DEFINE left == {i \in DOMAIN flying : xfer[flying[i]].handle /\ xfer[flying[i]].flight}
           x    == flying[First(left)]
<1>1. /\ th[t].pc = "disconnect"
      /\ UNCHANGED <<world, events, srcs, eventsLock, handlerActive, waitersLock, flyingLock,
                     lock, lists>>
  BY Zenon DEF HandleDisconnect, At
<1>2. CASE left = {}
  <2>1. Goto(t, "unlock") /\ openDevsLock' = None /\ UNCHANGED xfer BY <1>2, Zenon DEF HandleDisconnect
  <2>2. "unlock" \in Pcs BY SMT DEF Pcs, CallerPcs, HandlerPcs
  <2>3. th' \in [Threads -> Doing] /\ Moves(t, "unlock") BY <2>1, <2>2, Places, GotoMoves
  <2> QED BY <1>1, <2>1, <2>3
<1>3. CASE left # {}
  <2>1. /\ StartCompletion(t, x, "NO_DEVICE", "disconnect", <<>>)
        /\ xfer' = [xfer EXCEPT ![x].urb = "none"] /\ UNCHANGED openDevsLock
    BY <1>3, Zenon DEF HandleDisconnect
  <2>2. x \in Callers /\ x \in Flying /\ x \in Attached /\ x \in InTheAir
    <3>1. Len(flying) \in Nat /\ DOMAIN flying = 1..Len(flying) BY Places, RangeIs
    <3>2. left \in SUBSET (1..Len(flying)) BY <3>1
    <3>3. First(left) \in left
      <4> HIDE DEF left
      <4> QED BY <1>3, <3>1, <3>2, FirstIn, Zenon
    <3>4. First(left) \in 1..Len(flying) /\ xfer[x].handle /\ xfer[x].flight BY <3>1, <3>3, Zenon
    <3> HIDE DEF left
    <3>5. x \in Callers /\ x \in Flying BY <3>4, Places, RangeIs, Zenon DEF Flying
    <3> QED BY <3>4, <3>5, Zenon DEF Attached, InTheAir
  <2> HIDE DEF left, x
  <2>3. "NO_DEVICE" \in Results /\ "disconnect" \in Rets /\ <<>> \in Seq(Callers)
    BY EmptySeq, Zenon DEF Results, Rets
  <2>4. th' \in [Threads -> Doing] /\ Starts(t, "complete", x, "NO_DEVICE", "disconnect", <<>>)
    <3>1. FirstStep("NO_DEVICE") = "complete" BY SMT DEF FirstStep
    <3>2. th' \in [Threads -> Doing] /\ Starts(t, FirstStep("NO_DEVICE"), x, "NO_DEVICE", "disconnect", <<>>)
      BY <2>1, <2>2, <2>3, StartCompletionDoes
    <3> QED BY <3>1, <3>2, Zenon
  <2>5. /\ xfer' \in [Callers -> Transfer] /\ Alive' = Alive /\ Done' = Done
        /\ InTheAir' = InTheAir /\ Attached' = Attached /\ Queued' = Queued
        /\ Requested' = Requested \ {x}
    BY <2>1, <2>2, Places, TakenFromKernel, Zenon
  <2> QED BY <1>1, <2>1, <2>2, <2>4, <2>5
<1> QED BY <1>2, <1>3

LEMMA CallbackDoes ==
  ASSUME TypeOK, NEW t \in Callers, Callback(t), NEW x \in Callers, x = th[t].x
  PROVE  /\ th' \in [Threads -> Doing] /\ th[t].pc = "callback"
         /\ LeavesOff(t, th[t].ret, None, "none")
         /\ xfer' \in [Callers -> Transfer] /\ Alive' = Alive /\ Done' = Done \union {x}
         /\ InTheAir' = InTheAir \ {x} /\ Attached' = Attached /\ Queued' = Queued
         /\ Requested' = Requested
         /\ UNCHANGED <<world, events, srcs, locks, lists>>
<1> DEFINE r == th[t].ret
           s == th[t].st
<1>0. th \in [Threads -> Doing] /\ t \in Threads BY Places
<1>1. th[t].pc = "callback" /\ UNCHANGED <<world, events, srcs, locks, lists>> BY Zenon DEF Callback, At
<1>2. /\ th' = [th EXCEPT ![t].pc = r, ![t].x = None, ![t].st = "none"]
      /\ xfer' = [xfer EXCEPT ![x].flight = FALSE, ![x].status = s, ![x].done = TRUE]
  BY Zenon DEF Callback
<1>3. th' = [th EXCEPT ![t].pc = r, ![t].x = None, ![t].st = "none"] BY <1>2
<1>4. r \in Pcs
  <2>1. th[t].ret \in Rets BY Places
  <2> QED BY <2>1, SMT DEF Rets, Pcs, CallerPcs, HandlerPcs
<1>5. s \in Results BY Places
<1> HIDE DEF r, s
<1>6. None \in Callers \union {None} /\ "none" \in Results BY Zenon DEF Results
<1>7. th' \in [Threads -> Doing] /\ LeavesOff(t, r, None, "none") BY <1>0, <1>3, <1>4, <1>6, Finished
<1>8. /\ xfer' \in [Callers -> Transfer] /\ Alive' = Alive /\ Done' = Done \union {x}
      /\ InTheAir' = InTheAir \ {x} /\ Attached' = Attached /\ Queued' = Queued
      /\ Requested' = Requested
  BY <1>2, <1>5, Places, CalledBack, Zenon
<1> QED BY <1>1, <1>7, <1>8 DEF r

LEMMA RestingTyped ==
  /\ Resting \in Doing /\ Resting.ret = "idle" /\ Resting.x = None /\ Resting.st = "none"
  /\ Resting.ready = "no" /\ Resting.batch = <<>> /\ Resting.pc = "idle" /\ Resting.until = Never
<1>1. Never \in Nat /\ Rounds \in Nat BY BoundsAssumption, SMT DEF Never
<1>2. <<>> \in Seq(Callers) BY EmptySeq
<1>3. /\ "idle" \in Pcs /\ "idle" \in Rets /\ "none" \in Results /\ "no" \in Readiness /\ "ok" \in Errors
  BY SMT DEF Pcs, CallerPcs, Rets, Results, Readiness, Errors
<1> QED BY <1>1, <1>2, <1>3, SMT DEF Resting, Doing

(* The thread rests, or goes on to look at its transfer; sleepers wake up. *)
Wakes(t) ==
  /\ th'[t].pc = (IF t = Closer THEN "closed" ELSE "after")
  /\ th'[t].batch = <<>> /\ th'[t].ready = "no" /\ th'[t].ret = "idle" /\ th'[t].x = None
  /\ \A u \in Threads \ {t} :
       /\ th'[u].pc = (IF th[u].pc = "sleep" THEN "woken" ELSE th[u].pc)
       /\ th'[u].batch = th[u].batch /\ th'[u].ready = th[u].ready
       /\ th'[u].ret = th[u].ret /\ th'[u].x = th[u].x /\ th'[u].st = th[u].st

LEMMA BroadcastDoes ==
  ASSUME TypeOK, NEW t \in Threads, Broadcast(t)
  PROVE  /\ th' \in [Threads -> Doing] /\ th[t].pc = "broadcast" /\ Wakes(t)
         /\ UNCHANGED <<world, events, srcs, locks, lists, xfer>>
<1> DEFINE l == IF t = Closer THEN "closed" ELSE "after"
           mine == [Resting EXCEPT !.pc = l, !.err = th[t].err, !.left = th[t].left]
           woken(u) == [th[u] EXCEPT !.pc = "woken", !.until = Never]
<1>0. th \in [Threads -> Doing] /\ \A u \in Threads : th[u] \in Doing BY Places
<1>1. th[t].pc = "broadcast" /\ UNCHANGED <<world, events, srcs, locks, lists, xfer>>
  BY Zenon DEF Broadcast, At
<1>2. th' = [u \in Threads |-> IF u = t THEN mine ELSE IF th[u].pc = "sleep" THEN woken(u) ELSE th[u]]
  BY DEF Broadcast, At
<1>3. {"closed", "after", "woken"} \subseteq Pcs BY SMT DEF Pcs, CallerPcs, CloserPcs
<1>4. l \in Pcs BY <1>3
<1>5. /\ mine \in Doing /\ mine.pc = l /\ mine.batch = <<>> /\ mine.ready = "no"
      /\ mine.ret = "idle" /\ mine.x = None
  <2> HIDE DEF l
  <2>1. PICK z : z = Resting OBVIOUS
  <2>2. z \in Doing /\ z.ret = "idle" /\ z.x = None /\ z.ready = "no" /\ z.batch = <<>>
    BY <2>1, RestingTyped, Zenon
  <2>3. mine = [z EXCEPT !.pc = l, !.err = th[t].err, !.left = th[t].left] BY <2>1, Zenon
  <2>4. th[t].err \in Errors /\ th[t].left \in Nat BY Places
  <2> HIDE DEF mine
  <2>5. mine = [[[z EXCEPT !.pc = l] EXCEPT !.err = th[t].err] EXCEPT !.left = th[t].left]
    BY <2>2, <2>3, SMT DEF Doing
  <2>6. mine \in Doing BY <1>4, <2>2, <2>4, <2>5, DoingWith, Zenon
  <2> QED BY <2>2, <2>3, <2>6, SMT DEF Doing
<1>6. ASSUME NEW u \in Threads
      PROVE  /\ woken(u) \in Doing /\ woken(u).pc = "woken" /\ woken(u).batch = th[u].batch
             /\ woken(u).ready = th[u].ready /\ woken(u).ret = th[u].ret
             /\ woken(u).x = th[u].x /\ woken(u).st = th[u].st
  <2> DEFINE z == th[u]
             w == [z EXCEPT !.pc = "woken", !.until = Never]
  <2>1. z \in Doing /\ Never \in Nat /\ "woken" \in Pcs BY <1>0, <1>3, Places
  <2> HIDE DEF z
  <2>2. w = [[z EXCEPT !.pc = "woken"] EXCEPT !.until = Never] BY <2>1, SMT DEF Doing
  <2>3. w \in Doing BY <2>1, <2>2, DoingWith, Zenon
  <2>4. /\ w.pc = "woken" /\ w.batch = z.batch /\ w.ready = z.ready /\ w.ret = z.ret
        /\ w.x = z.x /\ w.st = z.st
    BY <2>1, <2>3, SMT DEF Doing
  <2> QED BY <2>3, <2>4 DEF z
<1> HIDE DEF mine, woken
<1>7. /\ th' \in [Threads -> Doing] /\ th'[t] = mine
      /\ \A u \in Threads \ {t} : th'[u] = IF th[u].pc = "sleep" THEN woken(u) ELSE th[u]
  BY <1>0, <1>2, <1>5, <1>6, SMT
<1>8. Wakes(t) BY <1>5, <1>6, <1>7, SMT DEF Wakes
<1> QED BY <1>1, <1>7, <1>8

-----------------------------------------------------------------------------
(* What the world does.                                                    *)

LEMMA FinishesDoes ==
  ASSUME TypeOK, NEW x \in Callers, Finishes(x)
  PROVE  /\ xfer' \in [Callers -> Transfer] /\ SameSets
         /\ UNCHANGED <<world, events, srcs, locks, lists, th>>
<1>1. /\ xfer[x].urb = "submitted" /\ xfer' = [xfer EXCEPT ![x].urb = "finished"]
      /\ UNCHANGED <<world, events, srcs, locks, lists, th>>
  BY Zenon DEF Finishes
<1>2. xfer \in [Callers -> Transfer] BY Places
<1>3. x \in Requested BY <1>1, SMT DEF Requested
<1>4. /\ xfer' \in [Callers -> Transfer] /\ Alive' = Alive /\ Done' = Done
      /\ InTheAir' = InTheAir /\ Attached' = Attached /\ Queued' = Queued
      /\ Requested' = Requested \union {x}
  BY <1>1, <1>2, KernelIsDone, Zenon
<1>5. Requested' = Requested BY <1>3, <1>4, SMT
<1> QED BY <1>1, <1>4, <1>5 DEF SameSets

LEMMA UnplugDoes ==
  ASSUME TypeOK, Unplug
  PROVE  /\ xfer' \in [Callers -> Transfer] /\ SameSets /\ Unplugged /\ upsets' \in Nat
         /\ UNCHANGED <<clock, backend, events, srcs, locks, lists, th>>
<1> DEFINE S == {x \in Callers : xfer[x].urb = "submitted"}
<1>1. /\ Unplugged /\ UNCHANGED <<clock, backend, events, srcs, locks, lists, th>>
      /\ xfer' = [x \in Callers |-> IF xfer[x].urb = "submitted"
                                    THEN [xfer[x] EXCEPT !.urb = "shutdown"] ELSE xfer[x]]
  BY Zenon DEF Unplug, Unplugged
<1>2. upsets' \in Nat BY SMT DEF Unplug, Upset, TypeOK
<1>3. xfer \in [Callers -> Transfer] BY Places
<1>4. xfer' = [x \in Callers |-> IF x \in S THEN [xfer[x] EXCEPT !.urb = "shutdown"] ELSE xfer[x]]
  BY <1>1, Zenon
<1>5. S \in SUBSET Callers /\ "shutdown" \in Urbs \ {"none"} /\ \A y \in S : xfer[y].urb # "none"
  BY SMT DEF Urbs
<1> HIDE DEF S
<1>6. xfer' \in [Callers -> Transfer] /\ SameSets BY <1>3, <1>4, <1>5, UrbsMove
<1> QED BY <1>1, <1>2, <1>6

LEMMA SignalCompletionDoes ==
  ASSUME TypeOK, NEW x \in Callers, SignalCompletion(x)
  PROVE  /\ backend = "signal" /\ x \notin Queued /\ x \in Requested
         /\ completedTransfers' = Append(completedTransfers, x) /\ Raise("completed")
         /\ xfer' \in [Callers -> Transfer] /\ Alive' = Alive /\ Done' = Done
         /\ InTheAir' = InTheAir /\ Attached' = Attached /\ Queued' = Queued \union {x}
         /\ Requested' = Requested
         /\ UNCHANGED <<world, deviceClose, srcs, locks, flying, open, th>>
<1>1. /\ backend = "signal" /\ xfer[x].urb \in {"finished", "killed", "shutdown"}
      /\ completedTransfers' = Append(completedTransfers, x) /\ Raise("completed")
      /\ xfer' = [xfer EXCEPT ![x].queued = TRUE]
      /\ UNCHANGED <<world, deviceClose, srcs, locks, flying, open, th>>
  BY Zenon DEF SignalCompletion
<1>2. x \notin Queued BY Zenon DEF SignalCompletion, Queued
<1>3. x \in Requested BY <1>1, SMT DEF Requested
<1>4. /\ xfer' \in [Callers -> Transfer] /\ Alive' = Alive /\ Done' = Done
      /\ InTheAir' = InTheAir /\ Attached' = Attached /\ Queued' = Queued \union {x}
      /\ Requested' = Requested
  BY <1>1, Places, PutOnQueue, Zenon
<1> QED BY <1>1, <1>2, <1>3, <1>4



-----------------------------------------------------------------------------
(* Every step keeps the invariant.                                         *)

ControlInv == /\ PcInv /\ EventsLockInv /\ HandlerFlagInv /\ CloseInv /\ FlyingLockInv
              /\ PollInv


(* A raised event is signalled once, and the last to be lowered empties    *)
(* the pipe.                                                               *)
LEMMA RaiseKeeps ==
  ASSUME EventPipe, NEW f, Raise(f)
  PROVE  eventFlags' = eventFlags \union {f} /\ pipe' = 1
<1>1. eventFlags' = eventFlags \union {f} /\ pipe' = IF eventFlags = {} THEN pipe + 1 ELSE pipe
  BY DEF Raise
<1>2. pipe = IF eventFlags = {} THEN 0 ELSE 1 BY DEF EventPipe
<1> QED BY <1>1, <1>2, SMT

LEMMA LowerKeeps ==
  ASSUME EventPipe, NEW left, left \subseteq eventFlags, Lower(left)
  PROVE  eventFlags' = left /\ pipe' = IF left = {} THEN 0 ELSE 1
<1>1. eventFlags' = left /\ IF left = {} THEN pipe > 0 /\ pipe' = pipe - 1 ELSE pipe' = pipe
  BY DEF Lower, ClearEvent
<1>2. pipe = IF eventFlags = {} THEN 0 ELSE 1 BY DEF EventPipe
<1> QED BY <1>1, <1>2, SMT

LEMMA FlagsAre == {"sources", "interrupt", "completed", "close"} \subseteq Flags
  BY Zenon DEF Flags

(* The places of the threads are looked at one by one from here on.        *)
USE DEF CallerPcs, CloserPcs, HandlerPcs, ClosePcs, TimeoutPcs, CompletingPcs,
        Holds, HandlesEvents, Completing, InBatch, Closing, Threads


(* Who handles events, or closes, is alone in it.                          *)
LEMMA AloneWithEvents ==
  ASSUME IoInv, NEW t \in Threads, Holds(t)
  PROVE  \A u \in Threads \ {t} : /\ ~ Holds(u) /\ th[u].pc \notin {"trigger", "lowering"}
                                  /\ ~ InBatch(u) /\ ~ Completing(u)
  BY ThreadsAssumption, SMT DEF IoInv, PcInv, EventsLockInv

LEMMA TryEventsKeeps ==
  ASSUME IoInv, NEW t \in Callers, TryEvents(t)
  PROVE  IoInv'
<1>0. TypeOK BY DEF IoInv
<1>1. TypeOK' BY <1>0, TryEventsDoes, SMT DEF TypeOK, FlagsTyped, world, events, srcs, locks, lists
<1>2. ControlInv'
  BY <1>0, TryEventsDoes, ThreadsAssumption, SMT
  DEF IoInv, ControlInv, PcInv, EventsLockInv, HandlerFlagInv, CloseInv, FlyingLockInv, PollInv,
      Moves, Others, world, events, locks
<1>3. EventPipe' BY <1>0, TryEventsDoes, SMT DEF IoInv, EventPipe, CloseInv, QueueInv, Moves, Others, events, lists
<1>4. TransfersInv'
  <2>1. SameSets /\ UNCHANGED <<flying, completedTransfers, backend>>
    BY <1>0, TryEventsDoes, SMT DEF SameSets, Alive, Done, InTheAir, Attached, Queued, Requested, lists, world
  <2>2. (\A u \in Callers : Quiet(u)) /\ QuietClose
    BY <1>0, TryEventsDoes, ThreadsAssumption, SMT
    DEF Quiet, QuietClose, IoInv, TimedOutInv, Moves, Others
  <2> QED BY <2>1, <2>2, TransfersLeftAlone DEF IoInv, TransfersInv
<1> QED BY <1>1, <1>2, <1>3, <1>4 DEF IoInv, ControlInv, TransfersInv

LEMMA LockWaitersKeeps ==
  ASSUME IoInv, NEW t \in Callers, LockWaiters(t)
  PROVE  IoInv'
<1>0. TypeOK BY DEF IoInv
<1>1. TypeOK' BY <1>0, LockWaitersDoes, SMT DEF TypeOK, FlagsTyped, world, events, srcs, locks, lists
<1>2. ControlInv'
  BY <1>0, LockWaitersDoes, ThreadsAssumption, SMT
  DEF IoInv, ControlInv, PcInv, EventsLockInv, HandlerFlagInv, CloseInv, FlyingLockInv, PollInv,
      Moves, Others, world, events, locks
<1>3. EventPipe' BY <1>0, LockWaitersDoes, SMT DEF IoInv, EventPipe, CloseInv, QueueInv, Moves, Others, events, lists
<1>4. TransfersInv'
  <2>1. SameSets /\ UNCHANGED <<flying, completedTransfers, backend>>
    BY <1>0, LockWaitersDoes, SMT DEF SameSets, Alive, Done, InTheAir, Attached, Queued, Requested, lists, world
  <2>2. (\A u \in Callers : Quiet(u)) /\ QuietClose
    BY <1>0, LockWaitersDoes, ThreadsAssumption, SMT
    DEF Quiet, QuietClose, IoInv, TimedOutInv, Moves, Others
  <2> QED BY <2>1, <2>2, TransfersLeftAlone DEF IoInv, TransfersInv
<1> QED BY <1>1, <1>2, <1>3, <1>4 DEF IoInv, ControlInv, TransfersInv

LEMMA HandlerActiveKeeps ==
  ASSUME IoInv, NEW t \in Callers, HandlerActive(t)
  PROVE  IoInv'
<1>0. TypeOK BY DEF IoInv
<1>1. TypeOK' BY <1>0, HandlerActiveDoes, SMT DEF TypeOK, FlagsTyped, world, events, srcs, locks, lists
<1>2. ControlInv'
  BY <1>0, HandlerActiveDoes, ThreadsAssumption, SMT
  DEF IoInv, ControlInv, PcInv, EventsLockInv, HandlerFlagInv, CloseInv, FlyingLockInv, PollInv,
      Moves, Others, world, events, locks
<1>3. EventPipe' BY <1>0, HandlerActiveDoes, SMT DEF IoInv, EventPipe, CloseInv, QueueInv, Moves, Others, events, lists
<1>4. TransfersInv'
  <2>1. SameSets /\ UNCHANGED <<flying, completedTransfers, backend>>
    BY <1>0, HandlerActiveDoes, SMT DEF SameSets, Alive, Done, InTheAir, Attached, Queued, Requested, lists, world
  <2>2. (\A u \in Callers : Quiet(u)) /\ QuietClose
    BY <1>0, HandlerActiveDoes, ThreadsAssumption, SMT
    DEF Quiet, QuietClose, IoInv, TimedOutInv, Moves, Others
  <2> QED BY <2>1, <2>2, TransfersLeftAlone DEF IoInv, TransfersInv
<1> QED BY <1>1, <1>2, <1>3, <1>4 DEF IoInv, ControlInv, TransfersInv

LEMMA PollInterruptedKeeps ==
  ASSUME IoInv, NEW t \in Callers, PollInterrupted(t)
  PROVE  IoInv'
<1>0. TypeOK BY DEF IoInv
<1>1. TypeOK' BY <1>0, PollInterruptedDoes, SMT DEF TypeOK, FlagsTyped, world, events, srcs, locks, lists
<1>2. ControlInv'
  BY <1>0, PollInterruptedDoes, ThreadsAssumption, SMT
  DEF IoInv, ControlInv, PcInv, EventsLockInv, HandlerFlagInv, CloseInv, FlyingLockInv, PollInv,
      Moves, Others, world, events, locks
<1>3. EventPipe' BY <1>0, PollInterruptedDoes, SMT DEF IoInv, EventPipe, CloseInv, QueueInv, Moves, Others, events, lists
<1>4. TransfersInv'
  <2>1. SameSets /\ UNCHANGED <<flying, completedTransfers, backend>>
    BY <1>0, PollInterruptedDoes, SMT DEF SameSets, Alive, Done, InTheAir, Attached, Queued, Requested, lists, world
  <2>2. (\A u \in Callers : Quiet(u)) /\ QuietClose
    BY <1>0, PollInterruptedDoes, ThreadsAssumption, SMT
    DEF Quiet, QuietClose, IoInv, TimedOutInv, Moves, Others
  <2> QED BY <2>1, <2>2, TransfersLeftAlone DEF IoInv, TransfersInv
<1> QED BY <1>1, <1>2, <1>3, <1>4 DEF IoInv, ControlInv, TransfersInv

LEMMA SubmitRejectedKeeps ==
  ASSUME IoInv, NEW t \in Callers, SubmitRejected(t)
  PROVE  IoInv'
<1>0. TypeOK BY DEF IoInv
<1>1. TypeOK' BY <1>0, SubmitRejectedDoes, SMT DEF TypeOK, FlagsTyped, world, events, srcs, locks, lists
<1>2. ControlInv'
  BY <1>0, SubmitRejectedDoes, ThreadsAssumption, SMT
  DEF IoInv, ControlInv, PcInv, EventsLockInv, HandlerFlagInv, CloseInv, FlyingLockInv, PollInv,
      Moves, Others, world, events, locks
<1>3. EventPipe' BY <1>0, SubmitRejectedDoes, SMT DEF IoInv, EventPipe, CloseInv, QueueInv, Moves, Others, events, lists
<1>4. TransfersInv'
  <2>1. SameSets /\ UNCHANGED <<flying, completedTransfers, backend>>
    BY <1>0, SubmitRejectedDoes, SMT DEF SameSets, Alive, Done, InTheAir, Attached, Queued, Requested, lists, world
  <2>2. (\A u \in Callers : Quiet(u)) /\ QuietClose
    BY <1>0, SubmitRejectedDoes, ThreadsAssumption, SMT
    DEF Quiet, QuietClose, IoInv, TimedOutInv, Moves, Others
  <2> QED BY <2>1, <2>2, TransfersLeftAlone DEF IoInv, TransfersInv
<1> QED BY <1>1, <1>2, <1>3, <1>4 DEF IoInv, ControlInv, TransfersInv

LEMMA TryLockEventsKeeps ==
  ASSUME IoInv, NEW t \in Callers, TryLockEvents(t)
  PROVE  IoInv'
<1>0. TypeOK BY DEF IoInv
<1>1. TypeOK'
  <2>1. FlagsTyped'
    BY <1>0, TryLockEventsDoes, Zenon DEF TypeOK, FlagsTyped, world, events, srcs, locks, lists, SetsFlag
  <2> QED BY <1>0, TryLockEventsDoes, <2>1, SMT DEF TypeOK, world, events, locks, lists
<1>2. ControlInv'
  <2>1. HandlerFlagInv' BY <1>0, TryLockEventsDoes, ThreadsAssumption, Zenon DEF IoInv, HandlerFlagInv, SetsFlag
  <2>2. PcInv' /\ EventsLockInv' /\ CloseInv' /\ FlyingLockInv' /\ PollInv'
    BY <1>0, TryLockEventsDoes, ThreadsAssumption, SMT
    DEF IoInv, PcInv, EventsLockInv, CloseInv, FlyingLockInv, PollInv, Moves, Others, world,
        events, locks
  <2> QED BY <2>1, <2>2 DEF ControlInv
<1>3. EventPipe' BY <1>0, TryLockEventsDoes, SMT DEF IoInv, EventPipe, CloseInv, QueueInv, Moves, Others, events, lists
<1>4. TransfersInv'
  <2>1. SameSets /\ UNCHANGED <<flying, completedTransfers, backend>>
    BY <1>0, TryLockEventsDoes, SMT DEF SameSets, Alive, Done, InTheAir, Attached, Queued, Requested, lists, world
  <2>2. (\A u \in Callers : Quiet(u)) /\ QuietClose
    BY <1>0, TryLockEventsDoes, ThreadsAssumption, SMT
    DEF Quiet, QuietClose, IoInv, TimedOutInv, Moves, Others
  <2> QED BY <2>1, <2>2, TransfersLeftAlone DEF IoInv, TransfersInv
<1> QED BY <1>1, <1>2, <1>3, <1>4 DEF IoInv, ControlInv, TransfersInv

LEMMA GetNextTimeoutKeeps ==
  ASSUME IoInv, NEW t \in Callers, GetNextTimeout(t)
  PROVE  IoInv'
<1>0. TypeOK BY DEF IoInv
<1>1. TypeOK' BY <1>0, GetNextTimeoutDoes, SMT DEF TypeOK, FlagsTyped, world, events, srcs, locks, lists
<1>2. ControlInv'
  BY <1>0, GetNextTimeoutDoes, ThreadsAssumption, SMT
  DEF IoInv, ControlInv, PcInv, EventsLockInv, HandlerFlagInv, CloseInv, FlyingLockInv, PollInv,
      MovesFor, Others, world, events, locks
<1>3. EventPipe' BY <1>0, GetNextTimeoutDoes, SMT DEF IoInv, EventPipe, CloseInv, QueueInv, MovesFor, Others, events, lists
<1>4. TransfersInv'
  <2>1. SameSets /\ UNCHANGED <<flying, completedTransfers, backend>>
    BY <1>0, GetNextTimeoutDoes, SMT DEF SameSets, Alive, Done, InTheAir, Attached, Queued, Requested, lists, world
  <2>2. (\A u \in Callers : Quiet(u)) /\ QuietClose
    BY <1>0, GetNextTimeoutDoes, ThreadsAssumption, SMT
    DEF Quiet, QuietClose, IoInv, TimedOutInv, MovesFor, Others
  <2> QED BY <2>1, <2>2, TransfersLeftAlone DEF IoInv, TransfersInv
<1> QED BY <1>1, <1>2, <1>3, <1>4 DEF IoInv, ControlInv, TransfersInv

LEMMA WakeUpKeeps ==
  ASSUME IoInv, NEW t \in Callers, WakeUp(t)
  PROVE  IoInv'
<1>0. TypeOK BY DEF IoInv
<1>1. TypeOK' BY <1>0, WakeUpDoes, SMT DEF TypeOK, FlagsTyped, world, events, srcs, locks, lists
<1>2. ControlInv'
  BY <1>0, WakeUpDoes, ThreadsAssumption, SMT
  DEF IoInv, ControlInv, PcInv, EventsLockInv, HandlerFlagInv, CloseInv, FlyingLockInv, PollInv,
      Moves, MovesFor, Others, world, events, locks
<1>3. EventPipe' BY <1>0, WakeUpDoes, SMT DEF IoInv, EventPipe, CloseInv, QueueInv, Moves, MovesFor, Others, events, lists
<1>4. TransfersInv'
  <2>1. SameSets /\ UNCHANGED <<flying, completedTransfers, backend>>
    BY <1>0, WakeUpDoes, SMT DEF SameSets, Alive, Done, InTheAir, Attached, Queued, Requested, lists, world
  <2>2. (\A u \in Callers : Quiet(u)) /\ QuietClose
    BY <1>0, WakeUpDoes, ThreadsAssumption, SMT
    DEF Quiet, QuietClose, IoInv, TimedOutInv, Moves, MovesFor, Others
  <2> QED BY <2>1, <2>2, TransfersLeftAlone DEF IoInv, TransfersInv
<1> QED BY <1>1, <1>2, <1>3, <1>4 DEF IoInv, ControlInv, TransfersInv

LEMMA PollKeeps ==
  ASSUME IoInv, NEW t \in Callers, Poll(t)
  PROVE  IoInv'
<1>0. TypeOK BY DEF IoInv
<1>1. TypeOK' BY <1>0, PollDoes, SMT DEF TypeOK, FlagsTyped, world, events, srcs, locks, lists
<1>2. ControlInv'
  BY <1>0, PollDoes, ThreadsAssumption, SMT
  DEF IoInv, ControlInv, PcInv, EventsLockInv, HandlerFlagInv, CloseInv, FlyingLockInv, PollInv,
      Polled, MovesFor, Others, world, events, locks
<1>3. EventPipe' BY <1>0, PollDoes, SMT DEF IoInv, EventPipe, CloseInv, QueueInv, Polled, MovesFor, Others, events, lists
<1>4. TransfersInv'
  <2>1. SameSets /\ UNCHANGED <<flying, completedTransfers, backend>>
    BY <1>0, PollDoes, SMT DEF SameSets, Alive, Done, InTheAir, Attached, Queued, Requested, lists, world
  <2>2. (\A u \in Callers : Quiet(u)) /\ QuietClose
    BY <1>0, PollDoes, ThreadsAssumption, SMT
    DEF Quiet, QuietClose, IoInv, TimedOutInv, Polled, MovesFor, Others
  <2> QED BY <2>1, <2>2, TransfersLeftAlone DEF IoInv, TransfersInv
<1> QED BY <1>1, <1>2, <1>3, <1>4 DEF IoInv, ControlInv, TransfersInv

LEMMA CancelKeeps ==
  ASSUME IoInv, NEW t \in Callers, Cancel(t)
  PROVE  IoInv'
<1>0. TypeOK BY DEF IoInv
<1>1. TypeOK' BY <1>0, CancelDoes, SMT DEF TypeOK, FlagsTyped, world, events, srcs, locks, lists
<1>2. ControlInv'
  BY <1>0, CancelDoes, ThreadsAssumption, SMT
  DEF IoInv, ControlInv, PcInv, EventsLockInv, HandlerFlagInv, CloseInv, FlyingLockInv, PollInv,
      Moves, Others, world, events, locks
<1>3. EventPipe' BY <1>0, CancelDoes, SMT DEF IoInv, EventPipe, CloseInv, QueueInv, Moves, Others, events, lists
<1>4. TransfersInv'
  <2>1. SameSets /\ UNCHANGED <<flying, completedTransfers, backend>>
    BY <1>0, CancelDoes, SMT DEF SameSets, Alive, Done, InTheAir, Attached, Queued, Requested, lists, world
  <2>2. (\A u \in Callers : Quiet(u)) /\ QuietClose
    BY <1>0, CancelDoes, ThreadsAssumption, SMT
    DEF Quiet, QuietClose, IoInv, TimedOutInv, Moves, Others
  <2> QED BY <2>1, <2>2, TransfersLeftAlone DEF IoInv, TransfersInv
<1> QED BY <1>1, <1>2, <1>3, <1>4 DEF IoInv, ControlInv, TransfersInv

LEMMA MarkTimedOutKeeps ==
  ASSUME IoInv, NEW t \in Callers, MarkTimedOut(t)
  PROVE  IoInv'
<1>0. TypeOK BY DEF IoInv
<1>a. th[t].pc = "timedout" => th[t].x \in Callers BY DEF IoInv, PcInv
<1>1. TypeOK' BY <1>0, <1>a, MarkTimedOutDoes, SMT DEF TypeOK, FlagsTyped, world, events, srcs, locks, lists
<1>2. ControlInv'
  BY <1>0, <1>a, MarkTimedOutDoes, ThreadsAssumption, SMT
  DEF IoInv, ControlInv, PcInv, EventsLockInv, HandlerFlagInv, CloseInv, FlyingLockInv, PollInv,
      Moves, Others, world, events, locks
<1>3. EventPipe' BY <1>0, <1>a, MarkTimedOutDoes, SMT DEF IoInv, EventPipe, CloseInv, QueueInv, Moves, Others, events, lists
<1>4. TransfersInv'
  <2>1. SameSets /\ UNCHANGED <<flying, completedTransfers, backend>>
    BY <1>0, <1>a, MarkTimedOutDoes, SMT DEF SameSets, Alive, Done, InTheAir, Attached, Queued, Requested, lists, world
  <2>2. (\A u \in Callers : Quiet(u)) /\ QuietClose
    BY <1>0, <1>a, MarkTimedOutDoes, ThreadsAssumption, SMT
    DEF Quiet, QuietClose, IoInv, TimedOutInv, Moves, Others
  <2> QED BY <2>1, <2>2, TransfersLeftAlone DEF IoInv, TransfersInv
<1> QED BY <1>1, <1>2, <1>3, <1>4 DEF IoInv, ControlInv, TransfersInv

LEMMA HandleEventsKeeps ==
  ASSUME IoInv, NEW t \in Callers, HandleEvents(t)
  PROVE  IoInv'
<1>0. TypeOK BY DEF IoInv
<1>a. Lower(eventFlags \ {"sources"}) =>
        eventFlags' = eventFlags \ {"sources"} /\ (pipe' = IF eventFlags' = {} THEN 0 ELSE 1)
  BY LowerKeeps, eventFlags \ {"sources"} \subseteq eventFlags DEF IoInv
<1>b. /\ th' \in [Threads -> Doing] /\ th[t].pc = "handle" /\ UNCHANGED deviceClose
      /\ \/ Moves(t, "unlock") /\ UNCHANGED <<events, srcs>>
         \/ /\ Moves(t, "poll") /\ AllocEventData
            /\ eventFlags' = eventFlags \ {"sources"} /\ (pipe' = IF eventFlags' = {} THEN 0 ELSE 1)
         \/ Moves(t, "poll") /\ UNCHANGED <<srcs, eventFlags, pipe>>
      /\ UNCHANGED <<world, locks, lists, xfer>>
  BY <1>0, <1>a, HandleEventsDoes, Zenon
<1>1. TypeOK'
  <2>1. FlagsTyped'
    BY <1>0, <1>b, Zenon DEF TypeOK, FlagsTyped, world, events, srcs, locks, lists, AllocEventData
  <2>2. eventFlags' \subseteq Flags /\ pipe' \in Int /\ deviceClose' \in Int
    <3>1. eventFlags \subseteq Flags /\ pipe \in Int /\ deviceClose \in Int BY <1>0 DEF TypeOK
    <3> QED BY <3>1, <1>b, FlagsAre DEF events
  <2> QED BY <1>0, <1>b, <2>1, <2>2, Zenon DEF TypeOK, world, locks, lists
<1>2. ControlInv'
  BY <1>0, <1>b, ThreadsAssumption, SMT
  DEF IoInv, ControlInv, PcInv, EventsLockInv, HandlerFlagInv, CloseInv, FlyingLockInv, PollInv,
      Moves, Others, world, events, locks
<1>3. EventPipe'
  <2>1. \A u \in Threads \ {t} : th[u].pc \notin {"trigger", "lowering"} /\ ~ InBatch(u)
    BY <1>b, ThreadsAssumption, AloneWithEvents
  <2> QED BY <1>0, <1>b, <2>1, SMT DEF IoInv, EventPipe, QueueInv, Moves, Others, events, lists
<1>4. TransfersInv'
  <2>1. SameSets /\ UNCHANGED <<flying, completedTransfers, backend>>
    BY <1>0, <1>b, SMT DEF SameSets, Alive, Done, InTheAir, Attached, Queued, Requested, lists, world
  <2>2. (\A u \in Callers : Quiet(u)) /\ QuietClose
    BY <1>0, <1>b, ThreadsAssumption, SMT
    DEF Quiet, QuietClose, IoInv, TimedOutInv, Moves, Others
  <2> QED BY <2>1, <2>2, TransfersLeftAlone DEF IoInv, TransfersInv
<1> QED BY <1>1, <1>2, <1>3, <1>4 DEF IoInv, ControlInv, TransfersInv

LEMMA HandleDescriptorKeeps ==
  ASSUME IoInv, NEW t \in Callers, HandleDescriptor(t)
  PROVE  IoInv'
<1>0. TypeOK BY DEF IoInv
<1>a. Raise("sources") => eventFlags' = eventFlags \union {"sources"} /\ pipe' = 1
  BY RaiseKeeps, Zenon DEF IoInv
<1>b. /\ th' \in [Threads -> Doing] /\ th[t].pc = "reap" /\ openDevsLock' = t
      /\ \/ Moves(t, "reaping")
         \/ Moves(t, "disconnect") /\ th[t].ready = "error"
      /\ \/ SourceGone /\ eventFlags' = eventFlags \union {"sources"} /\ pipe' = 1
         \/ UNCHANGED <<srcs, eventFlags, pipe>>
      /\ UNCHANGED <<world, deviceClose, eventsLock, handlerActive, waitersLock,
                    flyingLock, lock, lists, xfer>>
  BY <1>0, <1>a, HandleDescriptorDoes, Zenon
<1>1. TypeOK'
  <2>1. FlagsTyped'
    BY <1>0, <1>b, Zenon DEF TypeOK, FlagsTyped, world, events, srcs, locks, lists, SourceGone
  <2>2. eventFlags' \subseteq Flags /\ pipe' \in Int /\ deviceClose' \in Int
    <3>1. eventFlags \subseteq Flags /\ pipe \in Int /\ deviceClose \in Int BY <1>0 DEF TypeOK
    <3> QED BY <3>1, <1>b, FlagsAre DEF events
  <2> QED BY <1>0, <1>b, <2>1, <2>2, Zenon DEF TypeOK, world, locks, lists
<1>2. ControlInv'
  BY <1>0, <1>b, ThreadsAssumption, SMT
  DEF IoInv, ControlInv, PcInv, EventsLockInv, HandlerFlagInv, CloseInv, FlyingLockInv, PollInv,
      Moves, Others, world, events, locks
<1>3. EventPipe' BY <1>0, <1>b, SMT DEF IoInv, EventPipe, CloseInv, QueueInv, Moves, Others, events, lists
<1>4. TransfersInv'
  <2>1. SameSets /\ UNCHANGED <<flying, completedTransfers, backend>>
    BY <1>0, <1>b, SMT DEF SameSets, Alive, Done, InTheAir, Attached, Queued, Requested, lists, world
  <2>2. (\A u \in Callers : Quiet(u)) /\ QuietClose
    BY <1>0, <1>b, ThreadsAssumption, SMT
    DEF Quiet, QuietClose, IoInv, TimedOutInv, Moves, Others
  <2> QED BY <2>1, <2>2, TransfersLeftAlone DEF IoInv, TransfersInv
<1> QED BY <1>1, <1>2, <1>3, <1>4 DEF IoInv, ControlInv, TransfersInv

LEMMA ReapEndKeeps ==
  ASSUME IoInv, NEW t \in Callers, ReapEnd(t)
  PROVE  IoInv'
<1>0. TypeOK BY DEF IoInv
<1>1. TypeOK' BY <1>0, ReapEndDoes, SMT DEF TypeOK, FlagsTyped, world, events, srcs, locks, lists
<1>2. ControlInv'
  BY <1>0, ReapEndDoes, ThreadsAssumption, SMT
  DEF IoInv, ControlInv, PcInv, EventsLockInv, HandlerFlagInv, CloseInv, FlyingLockInv, PollInv,
      Moves, Others, world, events, locks
<1>3. EventPipe' BY <1>0, ReapEndDoes, SMT DEF IoInv, EventPipe, CloseInv, QueueInv, Moves, Others, events, lists
<1>4. TransfersInv'
  <2>1. SameSets /\ UNCHANGED <<flying, completedTransfers, backend>>
    BY <1>0, ReapEndDoes, SMT DEF SameSets, Alive, Done, InTheAir, Attached, Queued, Requested, lists, world
  <2>2. (\A u \in Callers : Quiet(u)) /\ QuietClose
    BY <1>0, ReapEndDoes, ThreadsAssumption, SMT
    DEF Quiet, QuietClose, IoInv, TimedOutInv, Moves, Others
  <2> QED BY <2>1, <2>2, TransfersLeftAlone DEF IoInv, TransfersInv
<1> QED BY <1>1, <1>2, <1>3, <1>4 DEF IoInv, ControlInv, TransfersInv

LEMMA HandleTransferCancellationKeeps ==
  ASSUME IoInv, NEW t \in Callers, HandleTransferCancellation(t)
  PROVE  IoInv'
<1>0. TypeOK BY DEF IoInv
<1>1. TypeOK' BY <1>0, TransferCancellationDoes, SMT DEF TypeOK, FlagsTyped, world, events, srcs, locks, lists
<1>2. ControlInv'
  BY <1>0, TransferCancellationDoes, ThreadsAssumption, SMT
  DEF IoInv, ControlInv, PcInv, EventsLockInv, HandlerFlagInv, CloseInv, FlyingLockInv, PollInv,
      Settled, Others, world, events, locks
<1>3. EventPipe' BY <1>0, TransferCancellationDoes, SMT DEF IoInv, EventPipe, CloseInv, QueueInv, Settled, Others, events, lists
<1>4. TransfersInv'
  <2>1. SameSets /\ UNCHANGED <<flying, completedTransfers, backend>>
    BY <1>0, TransferCancellationDoes, SMT DEF SameSets, Alive, Done, InTheAir, Attached, Queued, Requested, lists, world
  <2>2. (\A u \in Callers : Quiet(u)) /\ QuietClose
    BY <1>0, TransferCancellationDoes, ThreadsAssumption, SMT
    DEF Quiet, QuietClose, IoInv, TimedOutInv, Settled, Others
  <2> QED BY <2>1, <2>2, TransfersLeftAlone DEF IoInv, TransfersInv
<1> QED BY <1>1, <1>2, <1>3, <1>4 DEF IoInv, ControlInv, TransfersInv

LEMMA HandleTimeoutKeeps ==
  ASSUME IoInv, NEW t \in Callers, HandleTimeout(t)
  PROVE  IoInv'
<1>0. TypeOK BY DEF IoInv
<1>1. TypeOK' BY <1>0, HandleTimeoutDoes, SMT DEF TypeOK, FlagsTyped, world, events, srcs, locks, lists
<1>2. ControlInv'
  BY <1>0, HandleTimeoutDoes, ThreadsAssumption, SMT
  DEF IoInv, ControlInv, PcInv, EventsLockInv, HandlerFlagInv, CloseInv, FlyingLockInv, PollInv,
      Turns, Others, world, events, locks
<1>3. EventPipe' BY <1>0, HandleTimeoutDoes, SMT DEF IoInv, EventPipe, CloseInv, QueueInv, Turns, Others, events, lists
<1>4. TransfersInv'
  <2>1. SameSets /\ UNCHANGED <<flying, completedTransfers, backend>>
    BY <1>0, HandleTimeoutDoes, SMT DEF SameSets, Alive, Done, InTheAir, Attached, Queued, Requested, lists, world
  <2>2. (\A u \in Callers : Quiet(u)) /\ QuietClose
    BY <1>0, HandleTimeoutDoes, ThreadsAssumption, SMT
    DEF Quiet, QuietClose, IoInv, TimedOutInv, Turns, Others
  <2> QED BY <2>1, <2>2, TransfersLeftAlone DEF IoInv, TransfersInv
<1> QED BY <1>1, <1>2, <1>3, <1>4 DEF IoInv, ControlInv, TransfersInv

LEMMA TimeoutsHandledKeeps ==
  ASSUME IoInv, NEW t \in Callers, TimeoutsHandled(t)
  PROVE  IoInv'
<1>0. TypeOK BY DEF IoInv
<1>a. th[t].ret \in {"after", "unlock"} BY <1>0, TimeoutsHandledDoes, SMT DEF IoInv, PcInv
<1>b. th[t].ret \in Pcs BY <1>a, SMT DEF Pcs
<1>1. TypeOK' BY <1>0, <1>a, <1>b, TimeoutsHandledDoes, SMT DEF TypeOK, FlagsTyped, world, events, srcs, locks, lists
<1>2. ControlInv'
  BY <1>0, <1>a, <1>b, TimeoutsHandledDoes, ThreadsAssumption, SMT
  DEF IoInv, ControlInv, PcInv, EventsLockInv, HandlerFlagInv, CloseInv, FlyingLockInv, PollInv,
      Turns, Others, world, events, locks
<1>3. EventPipe' BY <1>0, <1>a, <1>b, TimeoutsHandledDoes, SMT DEF IoInv, EventPipe, CloseInv, QueueInv, Turns, Others, events, lists
<1>4. TransfersInv'
  <2>1. SameSets /\ UNCHANGED <<flying, completedTransfers, backend>>
    BY <1>0, <1>a, <1>b, TimeoutsHandledDoes, SMT DEF SameSets, Alive, Done, InTheAir, Attached, Queued, Requested, lists, world
  <2>2. (\A u \in Callers : Quiet(u)) /\ QuietClose
    BY <1>0, <1>a, <1>b, TimeoutsHandledDoes, ThreadsAssumption, SMT
    DEF Quiet, QuietClose, IoInv, TimedOutInv, Turns, Others
  <2> QED BY <2>1, <2>2, TransfersLeftAlone DEF IoInv, TransfersInv
<1> QED BY <1>1, <1>2, <1>3, <1>4 DEF IoInv, ControlInv, TransfersInv

LEMMA UnlockEventsKeeps ==
  ASSUME IoInv, NEW t \in Threads, UnlockEvents(t)
  PROVE  IoInv'
<1>0. TypeOK BY DEF IoInv
<1>1. TypeOK'
  <2>1. FlagsTyped'
    BY <1>0, UnlockEventsDoes, Zenon DEF TypeOK, FlagsTyped, world, events, srcs, locks, lists, ClearsFlag
  <2> QED BY <1>0, UnlockEventsDoes, <2>1, SMT DEF TypeOK, world, events, locks, lists
<1>2. ControlInv'
  <2>1. HandlerFlagInv' BY <1>0, UnlockEventsDoes, ThreadsAssumption, Zenon DEF IoInv, HandlerFlagInv, ClearsFlag
  <2>2. PcInv' /\ EventsLockInv' /\ CloseInv' /\ FlyingLockInv' /\ PollInv'
    BY <1>0, UnlockEventsDoes, ThreadsAssumption, SMT
    DEF IoInv, PcInv, EventsLockInv, CloseInv, FlyingLockInv, PollInv, Moves, Others, world,
        events, locks
  <2> QED BY <2>1, <2>2 DEF ControlInv
<1>3. EventPipe' BY <1>0, UnlockEventsDoes, SMT DEF IoInv, EventPipe, CloseInv, QueueInv, Moves, Others, events, lists
<1>4. TransfersInv'
  <2>1. SameSets /\ UNCHANGED <<flying, completedTransfers, backend>>
    BY <1>0, UnlockEventsDoes, SMT DEF SameSets, Alive, Done, InTheAir, Attached, Queued, Requested, lists, world
  <2>2. (\A u \in Callers : Quiet(u)) /\ QuietClose
    BY <1>0, UnlockEventsDoes, ThreadsAssumption, SMT
    DEF Quiet, QuietClose, IoInv, TimedOutInv, Moves, Others
  <2> QED BY <2>1, <2>2, TransfersLeftAlone DEF IoInv, TransfersInv
<1> QED BY <1>1, <1>2, <1>3, <1>4 DEF IoInv, ControlInv, TransfersInv

LEMMA LockEventsKeeps ==
  ASSUME IoInv, LockEvents
  PROVE  IoInv'
<1>0. TypeOK BY DEF IoInv
<1>1. TypeOK'
  <2>1. FlagsTyped'
    BY <1>0, LockEventsDoes, Zenon DEF TypeOK, FlagsTyped, world, events, srcs, locks, lists, SetsFlag
  <2> QED BY <1>0, LockEventsDoes, <2>1, SMT DEF TypeOK, world, events, locks, lists
<1>2. ControlInv'
  <2>1. HandlerFlagInv' BY <1>0, LockEventsDoes, ThreadsAssumption, Zenon DEF IoInv, HandlerFlagInv, SetsFlag
  <2>2. PcInv' /\ EventsLockInv' /\ CloseInv' /\ FlyingLockInv' /\ PollInv'
    BY <1>0, LockEventsDoes, ThreadsAssumption, SMT
    DEF IoInv, PcInv, EventsLockInv, CloseInv, FlyingLockInv, PollInv, Moves, Others, world,
        events, locks
  <2> QED BY <2>1, <2>2 DEF ControlInv
<1>3. EventPipe' BY <1>0, LockEventsDoes, SMT DEF IoInv, EventPipe, CloseInv, QueueInv, Moves, Others, events, lists
<1>4. TransfersInv'
  <2>1. SameSets /\ UNCHANGED <<flying, completedTransfers, backend>>
    BY <1>0, LockEventsDoes, SMT DEF SameSets, Alive, Done, InTheAir, Attached, Queued, Requested, lists, world
  <2>2. (\A u \in Callers : Quiet(u)) /\ QuietClose
    BY <1>0, LockEventsDoes, ThreadsAssumption, SMT
    DEF Quiet, QuietClose, IoInv, TimedOutInv, Moves, Others
  <2> QED BY <2>1, <2>2, TransfersLeftAlone DEF IoInv, TransfersInv
<1> QED BY <1>1, <1>2, <1>3, <1>4 DEF IoInv, ControlInv, TransfersInv

LEMMA CloseEndKeeps ==
  ASSUME IoInv, CloseEnd
  PROVE  IoInv'
<1>0. TypeOK BY DEF IoInv
<1>a. deviceClose = 1 BY <1>0, CloseEndDoes, SMT DEF IoInv, CloseInv
<1>b. /\ th' \in [Threads -> Doing]
      /\ th[Closer].pc = "lowering" /\ Moves(Closer, "unlock") /\ deviceClose' = 0
      /\ eventFlags' = eventFlags \ {"close"} /\ (pipe' = IF eventFlags' = {} THEN 0 ELSE 1)
      /\ UNCHANGED <<world, srcs, locks, lists, xfer>>
  <2>1. Lower(eventFlags \ {"close"}) BY <1>0, <1>a, CloseEndDoes, Zenon
  <2>2. eventFlags' = eventFlags \ {"close"} /\ (pipe' = IF eventFlags' = {} THEN 0 ELSE 1)
    BY <2>1, LowerKeeps, eventFlags \ {"close"} \subseteq eventFlags DEF IoInv
  <2>3. deviceClose' = 0 BY <1>0, <1>a, CloseEndDoes, SMT
  <2> QED BY <1>0, <2>2, <2>3, CloseEndDoes, Zenon
<1>1. TypeOK' BY <1>0, <1>b, SMT DEF TypeOK, FlagsTyped, world, events, srcs, locks, lists
<1>2. ControlInv'
  BY <1>0, <1>b, ThreadsAssumption, SMT
  DEF IoInv, ControlInv, PcInv, EventsLockInv, HandlerFlagInv, CloseInv, FlyingLockInv, PollInv,
      Moves, Others, world, events, locks
<1>3. EventPipe'
  <2>1. \A u \in Threads \ {Closer} : th[u].pc \notin {"trigger", "lowering"} /\ ~ InBatch(u)
    BY <1>b, AloneWithEvents
  <2> QED BY <1>0, <1>b, <2>1, SMT DEF IoInv, EventPipe, QueueInv, Moves, Others, lists
<1>4. TransfersInv'
  <2>1. SameSets /\ UNCHANGED <<flying, completedTransfers, backend>>
    BY <1>0, <1>b, SMT DEF SameSets, Alive, Done, InTheAir, Attached, Queued, Requested, lists, world
  <2>2. (\A u \in Callers : Quiet(u)) /\ QuietClose
    BY <1>0, <1>b, ThreadsAssumption, SMT
    DEF Quiet, QuietClose, IoInv, TimedOutInv, Moves, Others
  <2> QED BY <2>1, <2>2, TransfersLeftAlone DEF IoInv, TransfersInv
<1> QED BY <1>1, <1>2, <1>3, <1>4 DEF IoInv, ControlInv, TransfersInv

LEMMA BroadcastKeeps ==
  ASSUME IoInv, NEW t \in Threads, Broadcast(t)
  PROVE  IoInv'
<1>0. TypeOK BY DEF IoInv
<1>a. th[t].pc = "broadcast" => th[t].batch = <<>> BY SMT DEF IoInv, QueueInv
<1>1. TypeOK' BY <1>0, <1>a, BroadcastDoes, SMT DEF TypeOK, FlagsTyped, world, events, srcs, locks, lists
<1>2. ControlInv'
  BY <1>0, <1>a, BroadcastDoes, ThreadsAssumption, SMT
  DEF IoInv, ControlInv, PcInv, EventsLockInv, HandlerFlagInv, CloseInv, FlyingLockInv, PollInv,
      Wakes, Others, world, events, locks
<1>3. EventPipe' BY <1>0, <1>a, BroadcastDoes, SMT DEF IoInv, EventPipe, CloseInv, QueueInv, Wakes, Others, events, lists
<1>4. TransfersInv'
  <2>1. SameSets /\ UNCHANGED <<flying, completedTransfers, backend>>
    BY <1>0, <1>a, BroadcastDoes, SMT DEF SameSets, Alive, Done, InTheAir, Attached, Queued, Requested, lists, world
  <2>2. (\A u \in Callers : Quiet(u)) /\ QuietClose
    BY <1>0, <1>a, BroadcastDoes, ThreadsAssumption, SMT
    DEF Quiet, QuietClose, IoInv, TimedOutInv, Wakes, Others
  <2> QED BY <2>1, <2>2, TransfersLeftAlone DEF IoInv, TransfersInv
<1> QED BY <1>1, <1>2, <1>3, <1>4 DEF IoInv, ControlInv, TransfersInv



LEMMA SubmitAcceptedKeeps ==
  ASSUME IoInv, NEW t \in Callers, SubmitAccepted(t)
  PROVE  IoInv'
<1>0. TypeOK BY DEF IoInv
<1>s. Flying' = Flying /\ Waiting' = Waiting /\ UNCHANGED <<flying, completedTransfers>>
  BY <1>0, SubmitAcceptedDoes DEF Flying, Waiting, lists
<1>1. TypeOK'
  <2>1. FlagsTyped' BY <1>0, SubmitAcceptedDoes, Zenon DEF TypeOK, FlagsTyped, world, events, srcs, locks, lists
  <2>2. lock' \in [Callers -> Callers \union {None}]
    <3>1. lock' = [lock EXCEPT ![t] = None] BY <1>0, SubmitAcceptedDoes, Zenon
    <3> QED BY <3>1, <1>0 DEF TypeOK
  <2> QED BY <1>0, SubmitAcceptedDoes, <2>1, <2>2, SMT DEF TypeOK, world, events, locks, lists
<1>2. ControlInv'
  BY <1>0, SubmitAcceptedDoes, ThreadsAssumption, SMT
  DEF IoInv, ControlInv, PcInv, EventsLockInv, HandlerFlagInv, CloseInv, FlyingLockInv, PollInv,
      Moves, Others, world, events, locks
<1>3. EventPipe' BY <1>0, SubmitAcceptedDoes, SMT DEF IoInv, EventPipe, CloseInv, QueueInv, Moves, Others, events, lists
<1>4. TransfersInv'
  <2>1. OwnerInv'
    BY <1>0, SubmitAcceptedDoes, <1>s, ThreadsAssumption, SMT
    DEF IoInv, OwnerInv, FlyingInv, Moves, Others, world, lists
  <2>2. FlyingInv'
    BY <1>0, SubmitAcceptedDoes, <1>s, ThreadsAssumption, SMT
    DEF IoInv, FlyingInv, OwnerInv, CompletingInv, Moves, Others, world, lists
  <2>3. AttachedInv'
    BY <1>0, SubmitAcceptedDoes, <1>s, ThreadsAssumption, SMT
    DEF IoInv, AttachedInv, Moves, Others, world, lists
  <2>4. RequestInv'
    BY <1>0, SubmitAcceptedDoes, <1>s, ThreadsAssumption, SMT
    DEF IoInv, RequestInv, OwnerInv, CompletingInv, Moves, Others, world, lists
  <2>5. QueueInv'
    <3>1. Queued' = Queued /\ Queued \subseteq Requested' /\ UNCHANGED <<completedTransfers, backend>>
      BY <1>0, SubmitAcceptedDoes, <1>s, SMT DEF IoInv, QueueInv, world, lists
    <3>2. \A u \in Threads : BatchKept(u)
      BY <1>0, SubmitAcceptedDoes, ThreadsAssumption, SMT DEF IoInv, QueueInv, PcInv, BatchKept, Moves, Others
    <3> HIDE DEF Threads
    <3>3. QueueInv BY DEF IoInv
    <3> QED BY <3>1, <3>2, <3>3, QueueKept
  <2>6. CompletingInv'
    BY <1>0, SubmitAcceptedDoes, <1>s, ThreadsAssumption, SMT
    DEF IoInv, CompletingInv, OwnerInv, FlyingInv, Moves, Others, world, lists
  <2>7. TimedOutInv'
    BY <1>0, SubmitAcceptedDoes, <1>s, ThreadsAssumption, SMT
    DEF IoInv, TimedOutInv, FlyingLockInv, PcInv, OwnerInv, Moves, Others, world, lists
  <2> QED BY <2>1, <2>2, <2>3, <2>4, <2>5, <2>6, <2>7 DEF TransfersInv
<1> QED BY <1>1, <1>2, <1>3, <1>4 DEF IoInv, ControlInv, TransfersInv

LEMMA ReturnKeeps ==
  ASSUME IoInv, NEW t \in Callers, Return(t)
  PROVE  IoInv'
<1>0. TypeOK BY DEF IoInv
<1>a. t \notin Queued \union Flying
  BY <1>0, ReturnDoes, SMT DEF IoInv, FlyingInv, OwnerInv, AttachedInv, RequestInv, QueueInv, locks
<1>b. Queued' = Queued
  <2>1. Queued' = Queued \ {t} BY <1>0, ReturnDoes
  <2> QED BY <1>a, <2>1
<1>s. Flying' = Flying /\ Waiting' = Waiting /\ UNCHANGED <<flying, completedTransfers>>
  BY <1>0, ReturnDoes DEF Flying, Waiting, lists, locks
<1>1. TypeOK' BY <1>0, <1>a, <1>b, ReturnDoes, SMT DEF TypeOK, FlagsTyped, world, events, srcs, locks, lists
<1>2. ControlInv'
  BY <1>0, <1>a, <1>b, ReturnDoes, ThreadsAssumption, SMT
  DEF IoInv, ControlInv, PcInv, EventsLockInv, HandlerFlagInv, CloseInv, FlyingLockInv, PollInv,
      Moves, Others, world, events, locks
<1>3. EventPipe' BY <1>0, <1>a, <1>b, ReturnDoes, SMT DEF IoInv, EventPipe, CloseInv, QueueInv, Moves, Others, events, lists
<1>4. TransfersInv'
  <2>1. OwnerInv'
    BY <1>0, <1>a, <1>b, ReturnDoes, <1>s, ThreadsAssumption, SMT
    DEF IoInv, OwnerInv, FlyingInv, Moves, Others, world, lists
  <2>2. FlyingInv'
    BY <1>0, <1>a, <1>b, ReturnDoes, <1>s, ThreadsAssumption, SMT
    DEF IoInv, FlyingInv, OwnerInv, CompletingInv, Moves, Others, world, lists
  <2>3. AttachedInv'
    BY <1>0, <1>a, <1>b, ReturnDoes, <1>s, ThreadsAssumption, SMT
    DEF IoInv, AttachedInv, Moves, Others, world, lists
  <2>4. RequestInv'
    BY <1>0, <1>a, <1>b, ReturnDoes, <1>s, ThreadsAssumption, SMT
    DEF IoInv, RequestInv, OwnerInv, CompletingInv, Moves, Others, world, lists
  <2>5. QueueInv'
    <3>1. Queued' = Queued /\ Queued \subseteq Requested' /\ UNCHANGED <<completedTransfers, backend>>
      BY <1>0, <1>a, <1>b, ReturnDoes, <1>s, SMT DEF IoInv, QueueInv, world, lists
    <3>2. \A u \in Threads : BatchKept(u)
      BY <1>0, <1>a, <1>b, ReturnDoes, ThreadsAssumption, SMT DEF IoInv, QueueInv, PcInv, BatchKept, Moves, Others
    <3> HIDE DEF Threads
    <3>3. QueueInv BY DEF IoInv
    <3> QED BY <3>1, <3>2, <3>3, QueueKept
  <2>6. CompletingInv'
    BY <1>0, <1>a, <1>b, ReturnDoes, <1>s, ThreadsAssumption, SMT
    DEF IoInv, CompletingInv, OwnerInv, FlyingInv, Moves, Others, world, lists
  <2>7. TimedOutInv'
    BY <1>0, <1>a, <1>b, ReturnDoes, <1>s, ThreadsAssumption, SMT
    DEF IoInv, TimedOutInv, FlyingLockInv, PcInv, OwnerInv, Moves, Others, world, lists
  <2> QED BY <2>1, <2>2, <2>3, <2>4, <2>5, <2>6, <2>7 DEF TransfersInv
<1> QED BY <1>1, <1>2, <1>3, <1>4 DEF IoInv, ControlInv, TransfersInv

LEMMA AfterEventsKeeps ==
  ASSUME IoInv, NEW t \in Callers, AfterEvents(t)
  PROVE  IoInv'
<1>0. TypeOK BY DEF IoInv
<1>s. Flying' = Flying /\ Waiting' = Waiting /\ UNCHANGED <<flying, completedTransfers>>
  BY <1>0, AfterEventsDoes DEF Flying, Waiting, lists
<1>1. TypeOK' BY <1>0, AfterEventsDoes, SMT DEF TypeOK, FlagsTyped, world, events, srcs, locks, lists
<1>2. ControlInv'
  BY <1>0, AfterEventsDoes, ThreadsAssumption, SMT
  DEF IoInv, ControlInv, PcInv, EventsLockInv, HandlerFlagInv, CloseInv, FlyingLockInv, PollInv,
      Moves, Others, world, events, locks
<1>3. EventPipe' BY <1>0, AfterEventsDoes, SMT DEF IoInv, EventPipe, CloseInv, QueueInv, Moves, Others, events, lists
<1>4. TransfersInv'
  <2>1. OwnerInv'
    BY <1>0, AfterEventsDoes, <1>s, ThreadsAssumption, SMT
    DEF IoInv, OwnerInv, FlyingInv, Moves, Others, world, lists
  <2>2. FlyingInv'
    BY <1>0, AfterEventsDoes, <1>s, ThreadsAssumption, SMT
    DEF IoInv, FlyingInv, OwnerInv, CompletingInv, Moves, Others, world, lists
  <2>3. AttachedInv'
    BY <1>0, AfterEventsDoes, <1>s, ThreadsAssumption, SMT
    DEF IoInv, AttachedInv, Moves, Others, world, lists
  <2>4. RequestInv'
    BY <1>0, AfterEventsDoes, <1>s, ThreadsAssumption, SMT
    DEF IoInv, RequestInv, OwnerInv, CompletingInv, Moves, Others, world, lists
  <2>5. QueueInv'
    <3>1. Queued' = Queued /\ Queued \subseteq Requested' /\ UNCHANGED <<completedTransfers, backend>>
      BY <1>0, AfterEventsDoes, <1>s, SMT DEF IoInv, QueueInv, world, lists
    <3>2. \A u \in Threads : BatchKept(u)
      BY <1>0, AfterEventsDoes, ThreadsAssumption, SMT DEF IoInv, QueueInv, PcInv, BatchKept, Moves, Others
    <3> HIDE DEF Threads
    <3>3. QueueInv BY DEF IoInv
    <3> QED BY <3>1, <3>2, <3>3, QueueKept
  <2>6. CompletingInv'
    BY <1>0, AfterEventsDoes, <1>s, ThreadsAssumption, SMT
    DEF IoInv, CompletingInv, OwnerInv, FlyingInv, Moves, Others, world, lists
  <2>7. TimedOutInv'
    BY <1>0, AfterEventsDoes, <1>s, ThreadsAssumption, SMT
    DEF IoInv, TimedOutInv, FlyingLockInv, PcInv, OwnerInv, Moves, Others, world, lists
  <2> QED BY <2>1, <2>2, <2>3, <2>4, <2>5, <2>6, <2>7 DEF TransfersInv
<1> QED BY <1>1, <1>2, <1>3, <1>4 DEF IoInv, ControlInv, TransfersInv

LEMMA SubmitKeeps ==
  ASSUME IoInv, NEW t \in Callers, Submit(t)
  PROVE  IoInv'
<1>0. TypeOK BY DEF IoInv
<1>s. /\ t \notin Flying \union Alive \union Queued /\ Flying' = Flying \union {t} /\ Injective(flying')
      /\ flying' \in Seq(Callers) /\ Waiting' = Waiting /\ UNCHANGED completedTransfers
      /\ Queued' = Queued
  <2>1. t \notin Alive BY <1>0, SubmitDoes, SMT DEF IoInv, OwnerInv
  <2>2. t \notin Flying \union Queued BY <2>1, SMT DEF IoInv, OwnerInv, FlyingInv, QueueInv
  <2>3. PICK d \in Nat : flying' = AddToFlyingList(t, d) BY <1>0, SubmitDoes, Zenon
  <2>4. Injective(flying) BY DEF IoInv, FlyingInv
  <2>5. flying' \in Seq(Callers) /\ Flying' = Flying \union {t} /\ Injective(flying')
    BY <1>0, <2>2, <2>3, <2>4, AddedToList, Zenon DEF Flying
  <2>6. Queued' = Queued BY <1>0, <2>2, SubmitDoes
  <2> QED BY <1>0, <2>1, <2>2, <2>5, <2>6, SubmitDoes DEF Waiting
<1>1. TypeOK'
  <2>1. FlagsTyped' BY <1>0, <1>s, SubmitDoes, Zenon DEF TypeOK, FlagsTyped, world, events, srcs, locks, lists
  <2>2. lock' \in [Callers -> Callers \union {None}]
    <3>1. lock' = [lock EXCEPT ![t] = t] BY <1>0, <1>s, SubmitDoes, Zenon
    <3> QED BY <3>1, <1>0 DEF TypeOK
  <2> QED BY <1>0, <1>s, SubmitDoes, <2>1, <2>2, SMT DEF TypeOK, world, events, locks, lists
<1>2. ControlInv'
  BY <1>0, SubmitDoes, ThreadsAssumption, SMT
  DEF IoInv, ControlInv, PcInv, EventsLockInv, HandlerFlagInv, CloseInv, FlyingLockInv, PollInv,
      Moves, Others, world, events, locks
<1>3. EventPipe' BY <1>0, SubmitDoes, SMT DEF IoInv, EventPipe, CloseInv, QueueInv, Moves, Others, events, lists
<1>4. TransfersInv'
  <2>1. OwnerInv'
    BY <1>0, <1>s, SubmitDoes, <1>s, ThreadsAssumption, SMT
    DEF IoInv, OwnerInv, FlyingInv, Moves, Others, world, lists
  <2>2. FlyingInv'
    BY <1>0, <1>s, SubmitDoes, <1>s, ThreadsAssumption, SMT
    DEF IoInv, FlyingInv, OwnerInv, CompletingInv, Moves, Others, world, lists
  <2>3. AttachedInv'
    BY <1>0, <1>s, SubmitDoes, <1>s, ThreadsAssumption, SMT
    DEF IoInv, AttachedInv, Moves, Others, world, lists
  <2>4. RequestInv'
    BY <1>0, <1>s, SubmitDoes, <1>s, ThreadsAssumption, SMT
    DEF IoInv, RequestInv, OwnerInv, CompletingInv, Moves, Others, world, lists
  <2>5. QueueInv'
    <3>1. Queued' = Queued /\ Queued \subseteq Requested' /\ UNCHANGED <<completedTransfers, backend>>
      BY <1>0, <1>s, SubmitDoes, <1>s, SMT DEF IoInv, QueueInv, world, lists
    <3>2. \A u \in Threads : BatchKept(u)
      BY <1>0, <1>s, SubmitDoes, ThreadsAssumption, SMT DEF IoInv, QueueInv, PcInv, BatchKept, Moves, Others
    <3> HIDE DEF Threads
    <3>3. QueueInv BY DEF IoInv
    <3> QED BY <3>1, <3>2, <3>3, QueueKept
  <2>6. CompletingInv'
    BY <1>0, <1>s, SubmitDoes, <1>s, ThreadsAssumption, SMT
    DEF IoInv, CompletingInv, OwnerInv, FlyingInv, Moves, Others, world, lists
  <2>7. TimedOutInv'
    BY <1>0, <1>s, SubmitDoes, <1>s, ThreadsAssumption, SMT
    DEF IoInv, TimedOutInv, FlyingLockInv, PcInv, OwnerInv, Moves, Others, world, lists
  <2> QED BY <2>1, <2>2, <2>3, <2>4, <2>5, <2>6, <2>7 DEF TransfersInv
<1> QED BY <1>1, <1>2, <1>3, <1>4 DEF IoInv, ControlInv, TransfersInv

LEMMA SubmitFailedKeeps ==
  ASSUME IoInv, NEW t \in Callers, SubmitFailed(t)
  PROVE  IoInv'
<1>0. TypeOK BY DEF IoInv
<1>s. /\ t \in Flying /\ Flying' = Flying \ {t} /\ Injective(flying')
      /\ flying' \in Seq(Callers) /\ Waiting' = Waiting /\ UNCHANGED completedTransfers
      /\ Queued' = Queued
      /\ t \notin InTheAir \union Queued
  <2>1. /\ t \in Flying /\ Flying' = Flying \ {t} /\ Injective(flying')
        /\ flying' \in Seq(Callers)
    BY <1>0, SubmitFailedDoes, RemovedFromList DEF IoInv, FlyingInv
  <2>2. t \notin InTheAir \union Queued
    BY <1>0, SubmitFailedDoes, SMT DEF IoInv, OwnerInv, RequestInv, QueueInv
  <2>3. Queued' = Queued BY <1>0, <2>2, SubmitFailedDoes
  <2> QED BY <1>0, <2>1, <2>2, <2>3, SubmitFailedDoes DEF Waiting
<1>1. TypeOK' BY <1>0, <1>s, SubmitFailedDoes, SMT DEF TypeOK, FlagsTyped, world, events, srcs, locks, lists
<1>2. ControlInv'
  BY <1>0, SubmitFailedDoes, ThreadsAssumption, SMT
  DEF IoInv, ControlInv, PcInv, EventsLockInv, HandlerFlagInv, CloseInv, FlyingLockInv, PollInv,
      Moves, Others, world, events, locks
<1>3. EventPipe' BY <1>0, SubmitFailedDoes, SMT DEF IoInv, EventPipe, CloseInv, QueueInv, Moves, Others, events, lists
<1>4. TransfersInv'
  <2>1. OwnerInv'
    BY <1>0, <1>s, SubmitFailedDoes, <1>s, ThreadsAssumption, SMT
    DEF IoInv, OwnerInv, FlyingInv, Moves, Others, world, lists
  <2>2. FlyingInv'
    BY <1>0, <1>s, SubmitFailedDoes, <1>s, ThreadsAssumption, SMT
    DEF IoInv, FlyingInv, OwnerInv, CompletingInv, Moves, Others, world, lists
  <2>3. AttachedInv'
    BY <1>0, <1>s, SubmitFailedDoes, <1>s, ThreadsAssumption, SMT
    DEF IoInv, AttachedInv, Moves, Others, world, lists
  <2>4. RequestInv'
    BY <1>0, <1>s, SubmitFailedDoes, <1>s, ThreadsAssumption, SMT
    DEF IoInv, RequestInv, OwnerInv, CompletingInv, Moves, Others, world, lists
  <2>5. QueueInv'
    <3>1. Queued' = Queued /\ Queued \subseteq Requested' /\ UNCHANGED <<completedTransfers, backend>>
      BY <1>0, <1>s, SubmitFailedDoes, <1>s, SMT DEF IoInv, QueueInv, world, lists
    <3>2. \A u \in Threads : BatchKept(u)
      BY <1>0, <1>s, SubmitFailedDoes, ThreadsAssumption, SMT DEF IoInv, QueueInv, PcInv, BatchKept, Moves, Others
    <3> HIDE DEF Threads
    <3>3. QueueInv BY DEF IoInv
    <3> QED BY <3>1, <3>2, <3>3, QueueKept
  <2>6. CompletingInv'
    BY <1>0, <1>s, SubmitFailedDoes, <1>s, ThreadsAssumption, SMT
    DEF IoInv, CompletingInv, OwnerInv, FlyingInv, Moves, Others, world, lists
  <2>7. TimedOutInv'
    BY <1>0, <1>s, SubmitFailedDoes, <1>s, ThreadsAssumption, SMT
    DEF IoInv, TimedOutInv, FlyingLockInv, PcInv, OwnerInv, Moves, Others, world, lists
  <2> QED BY <2>1, <2>2, <2>3, <2>4, <2>5, <2>6, <2>7 DEF TransfersInv
<1> QED BY <1>1, <1>2, <1>3, <1>4 DEF IoInv, ControlInv, TransfersInv


LEMMA LeaveFlyingListKeeps ==
  ASSUME IoInv, NEW t \in Callers, LeaveFlyingList(t)
  PROVE  IoInv'
<1>0. TypeOK BY DEF IoInv
<1>n. \A u \in Callers \ {t} : ~ Completing(u)
  BY <1>0, LeaveFlyingListDoes, ThreadsAssumption, AloneWithEvents
<1>s. /\ th[t].x \in Flying /\ Flying' = Flying \ {th[t].x} /\ Injective(flying')
      /\ flying' \in Seq(Callers) /\ Waiting' = Waiting /\ UNCHANGED <<completedTransfers, xfer>>
      /\ Alive' = Alive /\ Done' = Done /\ InTheAir' = InTheAir /\ Attached' = Attached
      /\ Queued' = Queued /\ Requested' = Requested
  <2>1. /\ th[t].x \in Flying /\ Flying' = Flying \ {th[t].x} /\ Injective(flying')
        /\ flying' \in Seq(Callers)
    BY <1>0, LeaveFlyingListDoes, RemovedFromList DEF IoInv, FlyingInv
  <2>2. UNCHANGED <<completedTransfers, xfer>> BY <1>0, LeaveFlyingListDoes
  <2> QED BY <2>1, <2>2 DEF Waiting, Alive, Done, InTheAir, Attached, Queued, Requested
<1>1. TypeOK' BY <1>0, <1>s, <1>n, LeaveFlyingListDoes, SMT DEF TypeOK, FlagsTyped, world, events, srcs, locks, lists
<1>2. ControlInv'
  BY <1>0, LeaveFlyingListDoes, ThreadsAssumption, SMT
  DEF IoInv, ControlInv, PcInv, EventsLockInv, HandlerFlagInv, CloseInv, FlyingLockInv, PollInv,
      Moves, Others, world, events, locks
<1>3. EventPipe' BY <1>0, LeaveFlyingListDoes, SMT DEF IoInv, EventPipe, CloseInv, QueueInv, Moves, Others, events, lists
<1>4. TransfersInv'
  <2>1. OwnerInv'
    BY <1>0, <1>s, <1>n, LeaveFlyingListDoes, <1>s, ThreadsAssumption, SMT
    DEF IoInv, OwnerInv, FlyingInv, CompletingInv, Moves, Others, world, lists
  <2>2. FlyingInv'
    BY <1>0, <1>s, <1>n, LeaveFlyingListDoes, <1>s, ThreadsAssumption, SMT
    DEF IoInv, FlyingInv, OwnerInv, CompletingInv, Moves, Others, world, lists
  <2>3. AttachedInv'
    BY <1>0, <1>s, <1>n, LeaveFlyingListDoes, <1>s, ThreadsAssumption, SMT
    DEF IoInv, AttachedInv, Moves, Others, world, lists
  <2>4. RequestInv'
    BY <1>0, <1>s, <1>n, LeaveFlyingListDoes, <1>s, ThreadsAssumption, SMT
    DEF IoInv, RequestInv, OwnerInv, CompletingInv, Moves, Others, world, lists
  <2>5. QueueInv'
    <3>1. Queued' = Queued /\ Queued \subseteq Requested' /\ UNCHANGED <<completedTransfers, backend>>
      BY <1>0, <1>s, <1>n, LeaveFlyingListDoes, <1>s, SMT DEF IoInv, QueueInv, world, lists
    <3>2. \A u \in Threads : BatchKept(u)
      BY <1>0, <1>s, <1>n, LeaveFlyingListDoes, ThreadsAssumption, SMT DEF IoInv, QueueInv, PcInv, BatchKept, Moves, Others
    <3> HIDE DEF Threads
    <3>3. QueueInv BY DEF IoInv
    <3> QED BY <3>1, <3>2, <3>3, QueueKept
  <2>6. CompletingInv'
    BY <1>0, <1>s, <1>n, LeaveFlyingListDoes, <1>s, ThreadsAssumption, SMT
    DEF IoInv, CompletingInv, OwnerInv, FlyingInv, Moves, Others, world, lists
  <2>7. TimedOutInv'
    BY <1>0, <1>s, <1>n, LeaveFlyingListDoes, <1>s, ThreadsAssumption, SMT
    DEF IoInv, TimedOutInv, FlyingLockInv, PcInv, OwnerInv, Moves, Others, world, lists
  <2> QED BY <2>1, <2>2, <2>3, <2>4, <2>5, <2>6, <2>7 DEF TransfersInv
<1> QED BY <1>1, <1>2, <1>3, <1>4 DEF IoInv, ControlInv, TransfersInv

LEMMA CallbackKeeps ==
  ASSUME IoInv, NEW t \in Callers, Callback(t)
  PROVE  IoInv'
<1>0. TypeOK BY DEF IoInv
<1>a. th[t].x \in Callers /\ th[t].ret \in {"batch", "batchfailed", "reaping", "disconnect"}
  BY SMT DEF IoInv, PcInv, Callback, At
<1> DEFINE x == th[t].x
           r == th[t].ret
<1>b. /\ th' \in [Threads -> Doing] /\ th[t].pc = "callback" /\ LeavesOff(t, r, None, "none")
      /\ xfer' \in [Callers -> Transfer] /\ Alive' = Alive /\ Done' = Done \union {x}
      /\ InTheAir' = InTheAir \ {x} /\ Attached' = Attached /\ Queued' = Queued
      /\ Requested' = Requested /\ UNCHANGED <<world, events, srcs, locks, lists>>
  BY <1>0, <1>a, CallbackDoes
<1>n. \A u \in Callers \ {t} : ~ Completing(u) BY <1>b, ThreadsAssumption, AloneWithEvents
<1>c. x \in (InTheAir \intersect Attached) \ (Done \union Requested) /\ x \notin Flying
  BY <1>b, SMT DEF IoInv, CompletingInv
<1>s. Flying' = Flying /\ Waiting' = Waiting /\ UNCHANGED <<flying, completedTransfers>>
  BY <1>b DEF Flying, Waiting, lists
<1>1. TypeOK' BY <1>0, <1>a, <1>c, <1>n, <1>b, SMT DEF TypeOK, FlagsTyped, world, events, srcs, locks, lists
<1>2. ControlInv'
  BY <1>0, <1>a, <1>b, ThreadsAssumption, SMT
  DEF IoInv, ControlInv, PcInv, EventsLockInv, HandlerFlagInv, CloseInv, FlyingLockInv, PollInv,
      LeavesOff, Others, world, events, locks
<1>3. EventPipe' BY <1>0, <1>a, <1>b, SMT DEF IoInv, EventPipe, CloseInv, QueueInv, LeavesOff, Others, events, lists
<1>4. TransfersInv'
  <2>1. OwnerInv'
    BY <1>0, <1>a, <1>c, <1>n, <1>b, <1>s, ThreadsAssumption, SMT
    DEF IoInv, OwnerInv, FlyingInv, LeavesOff, Others, world, lists
  <2>2. FlyingInv'
    BY <1>0, <1>a, <1>c, <1>n, <1>b, <1>s, ThreadsAssumption, SMT
    DEF IoInv, FlyingInv, OwnerInv, CompletingInv, LeavesOff, Others, world, lists
  <2>3. AttachedInv'
    BY <1>0, <1>a, <1>c, <1>n, <1>b, <1>s, ThreadsAssumption, SMT
    DEF IoInv, AttachedInv, LeavesOff, Others, world, lists
  <2>4. RequestInv'
    BY <1>0, <1>a, <1>c, <1>n, <1>b, <1>s, ThreadsAssumption, SMT
    DEF IoInv, RequestInv, OwnerInv, CompletingInv, LeavesOff, Others, world, lists
  <2>5. QueueInv'
    <3>1. Queued' = Queued /\ Queued \subseteq Requested' /\ UNCHANGED <<completedTransfers, backend>>
      BY <1>0, <1>a, <1>c, <1>n, <1>b, <1>s, SMT DEF IoInv, QueueInv, world, lists
    <3>2. \A u \in Threads : BatchKept(u)
      BY <1>0, <1>a, <1>c, <1>n, <1>b, ThreadsAssumption, SMT DEF IoInv, QueueInv, PcInv, BatchKept, LeavesOff, Others
    <3> HIDE DEF Threads
    <3>3. QueueInv BY DEF IoInv
    <3> QED BY <3>1, <3>2, <3>3, QueueKept
  <2>6. CompletingInv'
    BY <1>0, <1>a, <1>c, <1>n, <1>b, <1>s, ThreadsAssumption, SMT
    DEF IoInv, CompletingInv, OwnerInv, FlyingInv, LeavesOff, Others, world, lists
  <2>7. TimedOutInv'
    BY <1>0, <1>a, <1>c, <1>n, <1>b, <1>s, ThreadsAssumption, SMT
    DEF IoInv, TimedOutInv, FlyingLockInv, PcInv, OwnerInv, LeavesOff, Others, world, lists
  <2> QED BY <2>1, <2>2, <2>3, <2>4, <2>5, <2>6, <2>7 DEF TransfersInv
<1> QED BY <1>1, <1>2, <1>3, <1>4 DEF IoInv, ControlInv, TransfersInv


LEMMA HandleEventTriggerKeeps ==
  ASSUME IoInv, NEW t \in Callers, HandleEventTrigger(t)
  PROVE  IoInv'
<1>0. TypeOK BY DEF IoInv
<1>a. Lower(eventFlags \ {"interrupt"}) =>
        eventFlags' = eventFlags \ {"interrupt"} /\ (pipe' = IF eventFlags' = {} THEN 0 ELSE 1)
  BY LowerKeeps, eventFlags \ {"interrupt"} \subseteq eventFlags DEF IoInv
<1>b. /\ th' \in [Threads -> Doing] /\ th[t].pc = "trigger"
      /\ \/ /\ Batched(t, "batch", completedTransfers) /\ completedTransfers' = <<>>
            /\ "completed" \in eventFlags
            /\ eventFlags' = eventFlags \ {"interrupt"} /\ UNCHANGED pipe
         \/ /\ Moves(t, "unlock") \/ (Moves(t, "reap") /\ th[t].ready # "no")
            /\ "completed" \notin eventFlags
            /\ eventFlags' = eventFlags \ {"interrupt"} /\ (pipe' = IF eventFlags' = {} THEN 0 ELSE 1)
            /\ UNCHANGED completedTransfers
      /\ UNCHANGED <<world, deviceClose, srcs, locks, flying, open, xfer>>
  BY <1>0, <1>a, HandleEventTriggerDoes, Zenon
<1>n. \A u \in Threads \ {t} : /\ ~ Holds(u) /\ th[u].pc \notin {"trigger", "lowering"}
                               /\ ~ InBatch(u) /\ ~ Completing(u)
  BY <1>b, ThreadsAssumption, AloneWithEvents
<1>c. <<>> \in Seq(Callers) /\ Injective(<<>>) /\ Range(<<>>) = {} BY EmptySeq, NothingInEmpty
<1>s. Flying' = Flying /\ Alive' = Alive /\ Done' = Done /\ InTheAir' = InTheAir
      /\ Attached' = Attached /\ Queued' = Queued /\ Requested' = Requested
  BY <1>b DEF Flying, Alive, Done, InTheAir, Attached, Queued, Requested
<1>1. TypeOK'
  <2>1. FlagsTyped' BY <1>0, <1>b, Zenon DEF TypeOK, FlagsTyped, world, events, srcs, locks, lists
  <2>2. eventFlags' \subseteq Flags /\ pipe' \in Int /\ deviceClose' \in Int
    <3>1. eventFlags \subseteq Flags /\ pipe \in Int /\ deviceClose \in Int BY <1>0 DEF TypeOK
    <3> QED BY <3>1, <1>b, FlagsAre, SMT DEF events
  <2>3. completedTransfers' \in Seq(Callers) BY <1>0, <1>b, <1>c DEF TypeOK
  <2> QED BY <1>0, <1>b, <2>1, <2>2, <2>3, SMT DEF TypeOK, world, locks, lists
<1>2. ControlInv'
  BY <1>0, <1>b, ThreadsAssumption, SMT
  DEF IoInv, ControlInv, PcInv, EventsLockInv, HandlerFlagInv, CloseInv, FlyingLockInv, PollInv,
      Moves, Batched, Others, world, events, locks
<1>3. EventPipe' BY <1>b, <1>n, SMT DEF IoInv, EventPipe, QueueInv, Moves, Batched, Others
<1>4. TransfersInv'
  <2>1. OwnerInv'
    BY <1>0, <1>b, <1>s, ThreadsAssumption, SMT
    DEF IoInv, OwnerInv, FlyingInv, Moves, Batched, Others, world, lists
  <2>2. FlyingInv'
    BY <1>0, <1>b, <1>s, ThreadsAssumption, SMT
    DEF IoInv, FlyingInv, OwnerInv, CompletingInv, Moves, Batched, Others, world, lists
  <2>3. AttachedInv'
    BY <1>0, <1>b, <1>s, ThreadsAssumption, SMT
    DEF IoInv, AttachedInv, Moves, Batched, Others, world, lists
  <2>4. RequestInv'
    BY <1>0, <1>b, <1>s, ThreadsAssumption, SMT
    DEF IoInv, RequestInv, OwnerInv, CompletingInv, Moves, Batched, Others, world, lists
  <2>5. QueueInv'
    <3>1. th[t].batch = <<>> BY <1>b, ThreadsAssumption, SMT DEF IoInv, QueueInv
    <3>2. Queued' \subseteq Requested' /\ (Queued' # {} => backend' = "signal")
      BY <1>b, <1>s, SMT DEF IoInv, QueueInv, world
    <3>3. Injective(completedTransfers') /\ Waiting' \subseteq Queued'
      BY <1>b, <1>c, <1>s, SMT DEF IoInv, QueueInv, Waiting
    <3>4. \A u \in Threads \ {t} : th'[u] = th[u] BY <1>b, Zenon DEF Moves, Batched, Others
    <3>5. /\ Injective(th'[t].batch) /\ Taken(t)' \subseteq Queued'
          /\ Taken(t)' \intersect Waiting' = {} /\ (th'[t].batch # <<>> => InBatch(t)')
      BY <1>b, <1>c, <1>s, <3>1, SMT DEF IoInv, QueueInv, Waiting, Taken, Moves, Batched
    <3>6. ASSUME NEW u \in Threads \ {t}
          PROVE  /\ Injective(th'[u].batch) /\ Taken(u)' \subseteq Queued'
                 /\ Taken(u)' \intersect Waiting' = {} /\ th'[u].batch = <<>>
      <4>1. th[u].batch = <<>> BY <1>n, Zenon DEF IoInv, QueueInv
      <4> QED BY <1>c, <3>4, <4>1, SMT DEF Taken
    <3> QED BY <3>2, <3>3, <3>5, <3>6, Zenon DEF QueueInv
  <2>6. CompletingInv'
    BY <1>0, <1>b, <1>s, ThreadsAssumption, SMT
    DEF IoInv, CompletingInv, OwnerInv, FlyingInv, Moves, Batched, Others, world, lists
  <2>7. TimedOutInv'
    BY <1>0, <1>b, <1>s, ThreadsAssumption, SMT
    DEF IoInv, TimedOutInv, FlyingLockInv, PcInv, OwnerInv, Moves, Batched, Others, world, lists
  <2> QED BY <2>1, <2>2, <2>3, <2>4, <2>5, <2>6, <2>7 DEF TransfersInv
<1> QED BY <1>1, <1>2, <1>3, <1>4 DEF IoInv, ControlInv, TransfersInv


LEMMA CompleteNextKeeps ==
  ASSUME IoInv, NEW t \in Callers, CompleteNext(t)
  PROVE  IoInv'
<1>0. TypeOK BY DEF IoInv
<1> DEFINE x == Head(th[t].batch)
           s == CompletionOf(x)
           l == FirstStep(s)
<1>a. l \in {"cancelled", "complete"} BY Zenon DEF FirstStep
<1>b. /\ th' \in [Threads -> Doing] /\ th[t].pc = "batch" /\ th[t].batch # <<>> /\ x \in Callers
      /\ \E r \in {"batch", "batchfailed"} : Starts(t, l, x, s, r, Tail(th[t].batch))
      /\ xfer' \in [Callers -> Transfer] /\ Alive' = Alive /\ Done' = Done
      /\ InTheAir' = InTheAir /\ Attached' = Attached /\ Queued' = Queued \ {x}
      /\ Requested' = Requested \ {x} /\ UNCHANGED <<world, events, srcs, locks, lists>>
  BY <1>0, CompleteNextDoes
<1>c. /\ x \in Taken(t) /\ Range(Tail(th[t].batch)) = Taken(t) \ {x}
      /\ Injective(Tail(th[t].batch))
  <2>1. th[t].batch \in Seq(Callers) /\ Injective(th[t].batch)
    BY <1>0, Places, Zenon DEF IoInv, QueueInv, Threads
  <2> QED BY <1>b, <2>1, TailIs DEF Taken
<1> HIDE DEF s, l, x
<1>d. x \in (InTheAir \intersect Attached \intersect Flying) \ (Done \union Waiting)
  <2>1. x \in Queued /\ x \notin Waiting /\ backend = "signal"
    BY <1>c, SMT DEF IoInv, QueueInv, Threads
  <2>2. x \in Requested /\ x \in InTheAir /\ x \in Alive
    BY <2>1, SMT DEF IoInv, QueueInv, RequestInv, OwnerInv
  <2>3. th[Closer].pc = "idle" BY <2>1, <2>2, SMT DEF IoInv, AttachedInv
  <2>4. x \in Flying BY <2>2, <2>3, SMT DEF IoInv, RequestInv
  <2> QED BY <2>1, <2>2, <2>4, SMT DEF IoInv, FlyingInv
<1>n. \A u \in Threads \ {t} : /\ ~ Holds(u) /\ th[u].pc \notin {"trigger", "lowering"}
                               /\ ~ InBatch(u) /\ ~ Completing(u)
  BY <1>b, ThreadsAssumption, AloneWithEvents
<1>e. <<>> \in Seq(Callers) /\ Injective(<<>>) /\ Range(<<>>) = {} BY EmptySeq, NothingInEmpty
<1>s. Flying' = Flying /\ Waiting' = Waiting /\ UNCHANGED <<flying, completedTransfers>>
  BY <1>b DEF Flying, Waiting, lists
<1>1. TypeOK' BY <1>0, <1>a, <1>d, <1>n, <1>b, SMT DEF TypeOK, FlagsTyped, world, events, srcs, locks, lists
<1>2. ControlInv'
  BY <1>0, <1>a, <1>d, <1>n, <1>b, ThreadsAssumption, SMT
  DEF IoInv, ControlInv, PcInv, EventsLockInv, HandlerFlagInv, CloseInv, FlyingLockInv, PollInv,
      Starts, Others, world, events, locks
<1>3. EventPipe' BY <1>a, <1>b, <1>n, SMT DEF IoInv, EventPipe, Starts, Others, events, lists
<1>4. TransfersInv'
  <2>1. OwnerInv'
    BY <1>0, <1>a, <1>d, <1>n, <1>b, <1>s, ThreadsAssumption, SMT
    DEF IoInv, OwnerInv, FlyingInv, Starts, Others, world, lists
  <2>2. FlyingInv'
    BY <1>0, <1>a, <1>d, <1>n, <1>b, <1>s, ThreadsAssumption, SMT
    DEF IoInv, FlyingInv, OwnerInv, CompletingInv, Starts, Others, world, lists
  <2>3. AttachedInv'
    BY <1>0, <1>a, <1>d, <1>n, <1>b, <1>s, ThreadsAssumption, SMT
    DEF IoInv, AttachedInv, Starts, Others, world, lists
  <2>4. RequestInv'
    BY <1>0, <1>a, <1>d, <1>n, <1>b, <1>s, ThreadsAssumption, SMT
    DEF IoInv, RequestInv, OwnerInv, CompletingInv, Starts, Others, world, lists
  <2>5. QueueInv'
    <3>2. Queued' \subseteq Requested' /\ (Queued' # {} => backend' = "signal")
      BY <1>b, <1>s, SMT DEF IoInv, QueueInv, world
    <3>3. Injective(completedTransfers') /\ Waiting' \subseteq Queued'
      BY <1>b, <1>d, <1>s, SMT DEF IoInv, QueueInv
    <3>4. \A u \in Threads \ {t} : th'[u] = th[u] BY <1>b, Zenon DEF Starts, Others
    <3>5. /\ Injective(th'[t].batch) /\ Taken(t)' \subseteq Queued'
          /\ Taken(t)' \intersect Waiting' = {} /\ (th'[t].batch # <<>> => InBatch(t)')
      BY <1>a, <1>b, <1>c, <1>s, SMT DEF IoInv, QueueInv, Taken, Starts
    <3>6. ASSUME NEW u \in Threads \ {t}
          PROVE  /\ Injective(th'[u].batch) /\ Taken(u)' \subseteq Queued'
                 /\ Taken(u)' \intersect Waiting' = {} /\ th'[u].batch = <<>>
      <4>1. th[u].batch = <<>> BY <1>n, Zenon DEF IoInv, QueueInv
      <4> QED BY <1>e, <3>4, <4>1, SMT DEF Taken
    <3> QED BY <3>2, <3>3, <3>5, <3>6, Zenon DEF QueueInv
  <2>6. CompletingInv'
    BY <1>0, <1>a, <1>d, <1>n, <1>b, <1>s, ThreadsAssumption, SMT
    DEF IoInv, CompletingInv, OwnerInv, FlyingInv, Starts, Others, world, lists
  <2>7. TimedOutInv'
    BY <1>0, <1>a, <1>d, <1>n, <1>b, <1>s, ThreadsAssumption, SMT
    DEF IoInv, TimedOutInv, FlyingLockInv, PcInv, OwnerInv, Starts, Others, world, lists
  <2> QED BY <2>1, <2>2, <2>3, <2>4, <2>5, <2>6, <2>7 DEF TransfersInv
<1> QED BY <1>1, <1>2, <1>3, <1>4 DEF IoInv, ControlInv, TransfersInv



LEMMA ConcatEmpty ==
  ASSUME NEW S, NEW s \in Seq(S), NEW u \in Seq(S)
  PROVE  s \o u = <<>> <=> u = <<>> /\ s = <<>>
<1>1. Len(s \o u) = Len(s) + Len(u) /\ s \o u \in Seq(S) BY ConcatProperties
<1>2. Len(s) \in Nat /\ Len(u) \in Nat BY LenProperties
<1>3. \A r \in Seq(S) : Len(r) = 0 <=> r = <<>> BY EmptySeq
<1> QED BY <1>1, <1>2, <1>3, SMT

LEMMA CompletionsEndKeeps ==
  ASSUME IoInv, NEW t \in Callers, CompletionsEnd(t)
  PROVE  IoInv'
<1>0. TypeOK BY DEF IoInv
<1> DEFINE left == IF completedTransfers = <<>> /\ th[t].batch = <<>> THEN eventFlags \ {"completed"}
                   ELSE eventFlags
<1>a. Lower(left) => eventFlags' = left /\ (pipe' = IF eventFlags' = {} THEN 0 ELSE 1)
  BY LowerKeeps, left \subseteq eventFlags DEF IoInv
<1>b. /\ th' \in [Threads -> Doing]
      /\ \/ /\ th[t].pc = "batch" /\ th[t].batch = <<>>
            /\ \/ Batched(t, "unlock", <<>>)
               \/ Batched(t, "reap", <<>>) /\ th[t].ready # "no"
         \/ th[t].pc = "batchfailed" /\ Batched(t, "unlock", <<>>)
      /\ completedTransfers' = th[t].batch \o completedTransfers
      /\ eventFlags' = left /\ (pipe' = IF eventFlags' = {} THEN 0 ELSE 1)
      /\ UNCHANGED <<world, deviceClose, srcs, locks, flying, open, xfer>>
  BY <1>0, <1>a, CompletionsEndDoes, Zenon
<1>w. /\ th[t].pc \in {"batch", "batchfailed"} /\ th'[t].pc \in {"unlock", "reap"}
      /\ Others(t) /\ UNCHANGED <<world, flying, flyingLock>>
  BY <1>b, SMT DEF Batched, locks
<1>n. \A u \in Threads \ {t} : /\ ~ Holds(u) /\ th[u].pc \notin {"trigger", "lowering"}
                               /\ ~ InBatch(u) /\ ~ Completing(u)
  BY <1>b, ThreadsAssumption, AloneWithEvents
<1>e. <<>> \in Seq(Callers) /\ Injective(<<>>) /\ Range(<<>>) = {} BY EmptySeq, NothingInEmpty
<1>c. /\ completedTransfers' \in Seq(Callers) /\ Injective(completedTransfers')
      /\ Waiting' = Waiting \union Taken(t)
      /\ completedTransfers' = <<>> <=> completedTransfers = <<>> /\ th[t].batch = <<>>
  <2>1. th[t].batch \in Seq(Callers) /\ completedTransfers \in Seq(Callers)
    BY <1>0, Places, Zenon DEF Threads
  <2>2. /\ Injective(th[t].batch) /\ Injective(completedTransfers)
        /\ Range(th[t].batch) \intersect Range(completedTransfers) = {}
    BY Zenon DEF IoInv, QueueInv, Taken, Waiting, Threads
  <2>3. /\ completedTransfers' \in Seq(Callers) /\ Injective(completedTransfers')
        /\ Range(completedTransfers') = Range(th[t].batch) \union Range(completedTransfers)
    BY <1>b, <2>1, <2>2, ConcatIs
  <2>4. completedTransfers' = <<>> <=> completedTransfers = <<>> /\ th[t].batch = <<>>
    BY <1>b, <2>1, ConcatEmpty
  <2> QED BY <2>3, <2>4 DEF Waiting, Taken
<1>s. Flying' = Flying /\ Alive' = Alive /\ Done' = Done /\ InTheAir' = InTheAir
      /\ Attached' = Attached /\ Queued' = Queued /\ Requested' = Requested
  BY <1>b DEF Flying, Alive, Done, InTheAir, Attached, Queued, Requested
<1>1. TypeOK'
  <2>1. FlagsTyped' BY <1>0, <1>b, Zenon DEF TypeOK, FlagsTyped, world, events, srcs, locks, lists
  <2>2. eventFlags' \subseteq Flags /\ pipe' \in Int /\ deviceClose' \in Int
    <3>1. eventFlags \subseteq Flags /\ pipe \in Int /\ deviceClose \in Int BY <1>0 DEF TypeOK
    <3> QED BY <3>1, <1>b, FlagsAre, SMT DEF events
  <2>3. completedTransfers' \in Seq(Callers) BY <1>c
  <2> QED BY <1>0, <1>b, <2>1, <2>2, <2>3, SMT DEF TypeOK, world, locks, lists
<1>2. ControlInv'
  BY <1>0, <1>b, ThreadsAssumption, SMT
  DEF IoInv, ControlInv, PcInv, EventsLockInv, HandlerFlagInv, CloseInv, FlyingLockInv, PollInv,
      Batched, Others, world, events, locks
<1>3. EventPipe'
  <2>1. "completed" \in eventFlags' <=> ~ (completedTransfers = <<>> /\ th[t].batch = <<>>)
    BY <1>b, SMT DEF IoInv, EventPipe
  <2>2. \A u \in Threads : ~ InBatch(u)' /\ th'[u].pc \notin {"trigger", "lowering"}
    BY <1>b, <1>n, SMT DEF Batched, Others
  <2> QED BY <1>b, <1>c, <2>1, <2>2, Zenon DEF EventPipe
<1>4. TransfersInv'
  <2>1. OwnerInv'
    BY <1>w, <1>s, ThreadsAssumption, SMT
    DEF IoInv, OwnerInv, FlyingInv, Batched, Others, world, lists
  <2>2. FlyingInv'
    BY <1>w, <1>s, ThreadsAssumption, SMT
    DEF IoInv, FlyingInv, OwnerInv, CompletingInv, Batched, Others, world, lists
  <2>3. AttachedInv'
    BY <1>w, <1>s, ThreadsAssumption, SMT
    DEF IoInv, AttachedInv, Batched, Others, world, lists
  <2>4. RequestInv'
    BY <1>w, <1>s, ThreadsAssumption, SMT
    DEF IoInv, RequestInv, OwnerInv, CompletingInv, Batched, Others, world, lists
  <2>5. QueueInv'
    <3>2. Queued' \subseteq Requested' /\ (Queued' # {} => backend' = "signal")
      BY <1>b, <1>s, SMT DEF IoInv, QueueInv, world
    <3>3. Injective(completedTransfers') /\ Waiting' \subseteq Queued'
      BY <1>b, <1>c, <1>s, SMT DEF IoInv, QueueInv
    <3>4. \A u \in Threads \ {t} : th'[u] = th[u] BY <1>b, Zenon DEF Batched, Others
    <3>5. /\ Injective(th'[t].batch) /\ Taken(t)' \subseteq Queued'
          /\ Taken(t)' \intersect Waiting' = {} /\ (th'[t].batch # <<>> => InBatch(t)')
      BY <1>b, <1>e, SMT DEF Taken, Batched
    <3>6. ASSUME NEW u \in Threads \ {t}
          PROVE  /\ Injective(th'[u].batch) /\ Taken(u)' \subseteq Queued'
                 /\ Taken(u)' \intersect Waiting' = {} /\ th'[u].batch = <<>>
      <4>1. th[u].batch = <<>> BY <1>n, Zenon DEF IoInv, QueueInv
      <4> QED BY <1>e, <3>4, <4>1, SMT DEF Taken
    <3> QED BY <3>2, <3>3, <3>5, <3>6, Zenon DEF QueueInv
  <2>6. CompletingInv'
    BY <1>w, <1>s, ThreadsAssumption, SMT
    DEF IoInv, CompletingInv, OwnerInv, FlyingInv, Batched, Others, world, lists
  <2>7. TimedOutInv'
    BY <1>w, <1>s, ThreadsAssumption, SMT
    DEF IoInv, TimedOutInv, FlyingLockInv, PcInv, OwnerInv, Batched, Others, world, lists
  <2> QED BY <2>1, <2>2, <2>3, <2>4, <2>5, <2>6, <2>7 DEF TransfersInv
<1> QED BY <1>1, <1>2, <1>3, <1>4 DEF IoInv, ControlInv, TransfersInv


LEMMA ReapKeeps ==
  ASSUME IoInv, NEW t \in Callers, Reap(t)
  PROVE  IoInv'
<1>0. TypeOK BY DEF IoInv
<1>a. PICK x \in Reapable \intersect Requested :
        /\ Starts(t, FirstStep(CompletionOf(x)), x, CompletionOf(x), "reaping", <<>>)
        /\ xfer' \in [Callers -> Transfer] /\ Alive' = Alive /\ Done' = Done
        /\ InTheAir' = InTheAir /\ Attached' = Attached /\ Queued' = Queued
        /\ Requested' = Requested \ {x}
  BY <1>0, ReapDoes, Zenon
<1> DEFINE s == CompletionOf(x)
           l == FirstStep(s)
<1>f. l \in {"cancelled", "complete"} BY Zenon DEF FirstStep
<1>b. /\ th' \in [Threads -> Doing] /\ th[t].pc = "reaping" /\ x \in Requested /\ x \in Callers
      /\ Starts(t, l, x, s, "reaping", <<>>)
      /\ xfer' \in [Callers -> Transfer] /\ Alive' = Alive /\ Done' = Done
      /\ InTheAir' = InTheAir /\ Attached' = Attached /\ Queued' = Queued
      /\ Requested' = Requested \ {x} /\ UNCHANGED <<world, events, srcs, locks, lists>>
  <2>1. x \in Requested /\ x \in Callers BY DEF Requested
  <2> QED BY <1>0, <1>a, <2>1, ReapDoes, Zenon
<1> HIDE DEF s, l
<1>c. eventsLock = t /\ backend = "poll" /\ th[Closer].pc # "detach"
  BY <1>b, ThreadsAssumption, SMT DEF IoInv, EventsLockInv, PollInv
<1>d. x \in (InTheAir \intersect Attached \intersect Flying) \ Done /\ Queued = {} /\ backend = "poll"
  <2>1. x \in Flying /\ x \in InTheAir BY <1>b, <1>c, SMT DEF IoInv, RequestInv
  <2>2. x \in Attached \ Done BY <2>1, SMT DEF IoInv, FlyingInv
  <2>3. Queued = {} BY <1>c, SMT DEF IoInv, QueueInv
  <2> QED BY <1>c, <2>1, <2>2, <2>3
<1>n. \A u \in Threads \ {t} : /\ ~ Holds(u) /\ th[u].pc \notin {"trigger", "lowering"}
                               /\ ~ InBatch(u) /\ ~ Completing(u)
  BY <1>b, ThreadsAssumption, AloneWithEvents
<1>e. <<>> \in Seq(Callers) /\ Injective(<<>>) /\ Range(<<>>) = {} BY EmptySeq, NothingInEmpty
<1>s. Flying' = Flying /\ Waiting' = Waiting /\ UNCHANGED <<flying, completedTransfers>>
  BY <1>b DEF Flying, Waiting, lists
<1>1. TypeOK' BY <1>0, <1>f, <1>d, <1>n, <1>b, SMT DEF TypeOK, FlagsTyped, world, events, srcs, locks, lists
<1>2. ControlInv'
  BY <1>0, <1>f, <1>c, <1>b, ThreadsAssumption, SMT
  DEF IoInv, ControlInv, PcInv, EventsLockInv, HandlerFlagInv, CloseInv, FlyingLockInv, PollInv,
      Starts, Others, world, events, locks
<1>3. EventPipe' BY <1>f, <1>b, <1>n, SMT DEF IoInv, EventPipe, Starts, Others, events, lists
<1>4. TransfersInv'
  <2>1. OwnerInv'
    BY <1>0, <1>f, <1>d, <1>n, <1>b, <1>s, ThreadsAssumption, SMT
    DEF IoInv, OwnerInv, FlyingInv, Starts, Others, world, lists
  <2>2. FlyingInv'
    BY <1>0, <1>f, <1>d, <1>n, <1>b, <1>s, ThreadsAssumption, SMT
    DEF IoInv, FlyingInv, OwnerInv, CompletingInv, Starts, Others, world, lists
  <2>3. AttachedInv'
    BY <1>0, <1>f, <1>d, <1>n, <1>b, <1>s, ThreadsAssumption, SMT
    DEF IoInv, AttachedInv, Starts, Others, world, lists
  <2>4. RequestInv'
    BY <1>0, <1>f, <1>d, <1>n, <1>b, <1>s, ThreadsAssumption, SMT
    DEF IoInv, RequestInv, OwnerInv, CompletingInv, Starts, Others, world, lists
  <2>5. QueueInv'
    <3>2. Queued' \subseteq Requested' /\ (Queued' # {} => backend' = "signal")
      BY <1>b, <1>d, <1>s, SMT
    <3>3. Injective(completedTransfers') /\ Waiting' \subseteq Queued'
      BY <1>b, <1>s, SMT DEF IoInv, QueueInv
    <3>4. \A u \in Threads \ {t} : th'[u] = th[u] BY <1>b, Zenon DEF Starts, Others
    <3>5. /\ Injective(th'[t].batch) /\ Taken(t)' \subseteq Queued'
          /\ Taken(t)' \intersect Waiting' = {} /\ (th'[t].batch # <<>> => InBatch(t)')
      <4>1. th'[t].batch = <<>>
        BY <1>b, ThreadsAssumption, SMT DEF IoInv, QueueInv, Starts
      <4> QED BY <1>e, <4>1, SMT DEF Taken
    <3>6. ASSUME NEW u \in Threads \ {t}
          PROVE  /\ Injective(th'[u].batch) /\ Taken(u)' \subseteq Queued'
                 /\ Taken(u)' \intersect Waiting' = {} /\ th'[u].batch = <<>>
      <4>1. th[u].batch = <<>> BY <1>n, Zenon DEF IoInv, QueueInv
      <4> QED BY <1>e, <3>4, <4>1, SMT DEF Taken
    <3> QED BY <3>2, <3>3, <3>5, <3>6, Zenon DEF QueueInv
  <2>6. CompletingInv'
    BY <1>0, <1>f, <1>d, <1>n, <1>b, <1>s, ThreadsAssumption, SMT
    DEF IoInv, CompletingInv, OwnerInv, FlyingInv, Starts, Others, world, lists
  <2>7. TimedOutInv'
    BY <1>0, <1>f, <1>d, <1>n, <1>b, <1>s, ThreadsAssumption, SMT
    DEF IoInv, TimedOutInv, FlyingLockInv, PcInv, OwnerInv, Starts, Others, world, lists
  <2> QED BY <2>1, <2>2, <2>3, <2>4, <2>5, <2>6, <2>7 DEF TransfersInv
<1> QED BY <1>1, <1>2, <1>3, <1>4 DEF IoInv, ControlInv, TransfersInv

LEMMA HandleDisconnectKeeps ==
  ASSUME IoInv, NEW t \in Callers, HandleDisconnect(t)
  PROVE  IoInv'
<1>0. TypeOK BY DEF IoInv
<1>a. /\ th' \in [Threads -> Doing] /\ th[t].pc = "disconnect"
      /\ UNCHANGED <<world, events, srcs, eventsLock, handlerActive, waitersLock, flyingLock,
                     lock, lists>>
  BY <1>0, HandleDisconnectDoes
<1>w. PICK x \in Callers :
        /\ \/ Moves(t, "unlock") /\ openDevsLock' = None /\ Requested' = Requested
           \/ /\ x \in Flying \intersect Attached \intersect InTheAir
              /\ Starts(t, "complete", x, "NO_DEVICE", "disconnect", <<>>)
              /\ Requested' = Requested \ {x} /\ UNCHANGED openDevsLock
        /\ xfer' \in [Callers -> Transfer] /\ Alive' = Alive /\ Done' = Done
        /\ InTheAir' = InTheAir /\ Attached' = Attached /\ Queued' = Queued
  <2>1. CASE Moves(t, "unlock") /\ openDevsLock' = None /\ UNCHANGED xfer
    <3>1. /\ xfer' \in [Callers -> Transfer] /\ Alive' = Alive /\ Done' = Done
          /\ InTheAir' = InTheAir /\ Attached' = Attached /\ Queued' = Queued
          /\ Requested' = Requested
      BY <1>0, <2>1, Places DEF Alive, Done, InTheAir, Attached, Queued, Requested
    <3> QED BY <2>1, <3>1
  <2>2. CASE \E x \in Flying :
               /\ x \in Callers /\ x \in Attached /\ x \in InTheAir
               /\ Starts(t, "complete", x, "NO_DEVICE", "disconnect", <<>>)
               /\ xfer' \in [Callers -> Transfer] /\ Alive' = Alive /\ Done' = Done
               /\ InTheAir' = InTheAir /\ Attached' = Attached /\ Queued' = Queued
               /\ Requested' = Requested \ {x} /\ UNCHANGED openDevsLock
    BY <2>2
  <2> QED BY <1>0, <2>1, <2>2, HandleDisconnectDoes, Zenon
<1>b. /\ th' \in [Threads -> Doing] /\ th[t].pc = "disconnect"
      /\ \/ Moves(t, "unlock") /\ openDevsLock' = None /\ Requested' = Requested
         \/ /\ x \in Flying \intersect Attached \intersect InTheAir
            /\ Starts(t, "complete", x, "NO_DEVICE", "disconnect", <<>>)
            /\ Requested' = Requested \ {x} /\ UNCHANGED openDevsLock
      /\ xfer' \in [Callers -> Transfer] /\ Alive' = Alive /\ Done' = Done
      /\ InTheAir' = InTheAir /\ Attached' = Attached /\ Queued' = Queued
      /\ UNCHANGED <<world, events, srcs, eventsLock, handlerActive, waitersLock, flyingLock,
                     lock, lists>>
  BY <1>a, <1>w, Zenon
<1>c. eventsLock = t /\ backend = "poll" /\ th[Closer].pc # "detach"
  BY <1>b, ThreadsAssumption, SMT DEF IoInv, EventsLockInv, PollInv
<1>d. x \in Callers /\ Queued = {} /\ backend = "poll"
  BY <1>c, <1>w, SMT DEF IoInv, QueueInv
<1>f. x \in Flying => x \notin Done BY SMT DEF IoInv, FlyingInv
<1>n. \A u \in Threads \ {t} : /\ ~ Holds(u) /\ th[u].pc \notin {"trigger", "lowering"}
                               /\ ~ InBatch(u) /\ ~ Completing(u)
  BY <1>b, ThreadsAssumption, AloneWithEvents
<1>e. <<>> \in Seq(Callers) /\ Injective(<<>>) /\ Range(<<>>) = {} BY EmptySeq, NothingInEmpty
<1>s. Flying' = Flying /\ Waiting' = Waiting /\ UNCHANGED <<flying, completedTransfers>>
  BY <1>b DEF Flying, Waiting, lists
<1>1. TypeOK' BY <1>0, <1>f, <1>d, <1>n, <1>b, SMT DEF TypeOK, FlagsTyped, world, events, srcs, locks, lists
<1>2. ControlInv'
  BY <1>0, <1>d, <1>c, <1>b, ThreadsAssumption, SMT
  DEF IoInv, ControlInv, PcInv, EventsLockInv, HandlerFlagInv, CloseInv, FlyingLockInv, PollInv,
      Starts, Moves, Others, world, events, locks
<1>3. EventPipe' BY <1>b, <1>n, SMT DEF IoInv, EventPipe, Starts, Moves, Others, events, lists
<1>4. TransfersInv'
  <2>1. OwnerInv'
    BY <1>0, <1>f, <1>d, <1>n, <1>b, <1>s, ThreadsAssumption, SMT
    DEF IoInv, OwnerInv, FlyingInv, Starts, Moves, Others, world, lists
  <2>2. FlyingInv'
    BY <1>0, <1>f, <1>d, <1>n, <1>b, <1>s, ThreadsAssumption, SMT
    DEF IoInv, FlyingInv, OwnerInv, CompletingInv, Starts, Moves, Others, world, lists
  <2>3. AttachedInv'
    BY <1>0, <1>f, <1>d, <1>n, <1>b, <1>s, ThreadsAssumption, SMT
    DEF IoInv, AttachedInv, Starts, Moves, Others, world, lists
  <2>4. RequestInv'
    BY <1>0, <1>f, <1>d, <1>n, <1>b, <1>s, ThreadsAssumption, SMT
    DEF IoInv, RequestInv, OwnerInv, CompletingInv, Starts, Moves, Others, world, lists
  <2>5. QueueInv'
    <3>2. Queued' \subseteq Requested' /\ (Queued' # {} => backend' = "signal")
      BY <1>b, <1>d, <1>s, SMT
    <3>3. Injective(completedTransfers') /\ Waiting' \subseteq Queued'
      BY <1>b, <1>s, SMT DEF IoInv, QueueInv
    <3>4. \A u \in Threads \ {t} : th'[u] = th[u] BY <1>b, Zenon DEF Starts, Moves, Others
    <3>5. /\ Injective(th'[t].batch) /\ Taken(t)' \subseteq Queued'
          /\ Taken(t)' \intersect Waiting' = {} /\ (th'[t].batch # <<>> => InBatch(t)')
      <4>1. th'[t].batch = <<>>
        BY <1>b, ThreadsAssumption, SMT DEF IoInv, QueueInv, Starts, Moves
      <4> QED BY <1>e, <4>1, SMT DEF Taken
    <3>6. ASSUME NEW u \in Threads \ {t}
          PROVE  /\ Injective(th'[u].batch) /\ Taken(u)' \subseteq Queued'
                 /\ Taken(u)' \intersect Waiting' = {} /\ th'[u].batch = <<>>
      <4>1. th[u].batch = <<>> BY <1>n, Zenon DEF IoInv, QueueInv
      <4> QED BY <1>e, <3>4, <4>1, SMT DEF Taken
    <3> QED BY <3>2, <3>3, <3>5, <3>6, Zenon DEF QueueInv
  <2>6. CompletingInv'
    BY <1>0, <1>f, <1>d, <1>n, <1>b, <1>s, ThreadsAssumption, SMT
    DEF IoInv, CompletingInv, OwnerInv, FlyingInv, Starts, Moves, Others, world, lists
  <2>7. TimedOutInv'
    BY <1>0, <1>f, <1>d, <1>n, <1>b, <1>s, ThreadsAssumption, SMT
    DEF IoInv, TimedOutInv, FlyingLockInv, PcInv, OwnerInv, Starts, Moves, Others, world, lists
  <2> QED BY <2>1, <2>2, <2>3, <2>4, <2>5, <2>6, <2>7 DEF TransfersInv
<1> QED BY <1>1, <1>2, <1>3, <1>4 DEF IoInv, ControlInv, TransfersInv


LEMMA CloseBeginKeeps ==
  ASSUME IoInv, CloseBegin
  PROVE  IoInv'
<1>0. TypeOK BY DEF IoInv
<1>a. deviceClose = 0 BY <1>0, CloseBeginDoes, SMT DEF IoInv, CloseInv
<1>b. /\ th' \in [Threads -> Doing] /\ th[Closer].pc = "idle" /\ Moves(Closer, "lockevents")
      /\ \A t \in Callers : th[t].pc \notin {"submit", "unlist"}
      /\ backend = "signal" => Alive = {}
      /\ deviceClose' = 1 /\ eventFlags' = eventFlags \union {"close"} /\ pipe' = 1
      /\ UNCHANGED <<world, srcs, locks, lists, xfer>>
  <2>1. Raise("close") BY <1>0, <1>a, CloseBeginDoes, Zenon
  <2>2. eventFlags' = eventFlags \union {"close"} /\ pipe' = 1 BY <2>1, RaiseKeeps DEF IoInv
  <2>3. deviceClose' = 1 BY <1>0, <1>a, CloseBeginDoes, SMT
  <2> QED BY <1>0, <2>2, <2>3, CloseBeginDoes, Zenon
<1>s. /\ Flying' = Flying /\ Waiting' = Waiting /\ Alive' = Alive /\ Done' = Done
      /\ InTheAir' = InTheAir /\ Attached' = Attached /\ Queued' = Queued /\ Requested' = Requested
  BY <1>b DEF Flying, Waiting, lists, Alive, Done, InTheAir, Attached, Queued, Requested
<1>1. TypeOK'
  <2>1. FlagsTyped' BY <1>0, <1>b, Zenon DEF TypeOK, FlagsTyped, world, events, srcs, locks, lists
  <2>2. eventFlags' \subseteq Flags /\ pipe' \in Int /\ deviceClose' \in Int
    <3>1. eventFlags \subseteq Flags /\ pipe \in Int /\ deviceClose \in Int BY <1>0 DEF TypeOK
    <3> QED BY <3>1, <1>b, FlagsAre, SMT DEF events
  <2> QED BY <1>0, <1>b, <2>1, <2>2, SMT DEF TypeOK, world, locks, lists
<1>2. ControlInv'
  BY <1>0, <1>b, ThreadsAssumption, SMT
  DEF IoInv, ControlInv, PcInv, EventsLockInv, HandlerFlagInv, CloseInv, FlyingLockInv, PollInv,
      Moves, Others, world, events, locks
<1>3. EventPipe' BY <1>b, SMT DEF IoInv, EventPipe, Moves, Others, lists
<1>4. TransfersInv'
  <2>1. OwnerInv'
    BY <1>0, <1>b, <1>s, ThreadsAssumption, SMT
    DEF IoInv, OwnerInv, FlyingInv, Moves, Others, world, lists
  <2>2. FlyingInv'
    BY <1>0, <1>b, <1>s, ThreadsAssumption, SMT
    DEF IoInv, FlyingInv, OwnerInv, CompletingInv, Moves, Others, world, lists
  <2>3. AttachedInv'
    BY <1>0, <1>b, <1>s, ThreadsAssumption, SMT
    DEF IoInv, AttachedInv, Moves, Others, world, lists
  <2>4. RequestInv'
    BY <1>0, <1>b, <1>s, ThreadsAssumption, SMT
    DEF IoInv, RequestInv, OwnerInv, CompletingInv, Moves, Others, world, lists
  <2>5. QueueInv'
    <3>1. Queued' = Queued /\ Queued \subseteq Requested' /\ UNCHANGED <<completedTransfers, backend>>
      BY <1>0, <1>b, <1>s, SMT DEF IoInv, QueueInv, world, lists
    <3>2. \A u \in Threads : BatchKept(u)
      BY <1>0, <1>b, ThreadsAssumption, SMT DEF IoInv, QueueInv, PcInv, BatchKept, Moves, Others
    <3> HIDE DEF Threads
    <3>3. QueueInv BY DEF IoInv
    <3> QED BY <3>1, <3>2, <3>3, QueueKept
  <2>6. CompletingInv'
    BY <1>0, <1>b, <1>s, ThreadsAssumption, SMT
    DEF IoInv, CompletingInv, OwnerInv, FlyingInv, Moves, Others, world, lists
  <2>7. TimedOutInv'
    BY <1>0, <1>b, <1>s, ThreadsAssumption, SMT
    DEF IoInv, TimedOutInv, FlyingLockInv, PcInv, OwnerInv, Moves, Others, world, lists
  <2> QED BY <2>1, <2>2, <2>3, <2>4, <2>5, <2>6, <2>7 DEF TransfersInv
<1> QED BY <1>1, <1>2, <1>3, <1>4 DEF IoInv, ControlInv, TransfersInv

LEMMA SweepKeeps ==
  ASSUME IoInv, Sweep
  PROVE  IoInv'
<1>0. TypeOK BY DEF IoInv
<1>b. /\ th' \in [Threads -> Doing] /\ th[Closer].pc = "sweep" /\ Moves(Closer, "detach")
      /\ flyingLock = None /\ flying' = <<>>
      /\ UNCHANGED <<world, events, srcs, locks, completedTransfers, open>>
  BY <1>0, SweepDoes
<1>c. /\ xfer' \in [Callers -> Transfer] /\ Attached' = Attached \ Flying
      /\ Alive' = Alive /\ Done' = Done /\ InTheAir' = InTheAir
      /\ Queued' = Queued /\ Requested' = Requested
  BY <1>0, SweepFrees
<1>n. \A u \in Callers : ~ Holds(u) /\ th[u].pc \notin {"trigger", "lowering"} /\ ~ InBatch(u) /\ ~ Completing(u)
  BY <1>b, ThreadsAssumption, AloneWithEvents
<1>e. <<>> \in Seq(Callers) /\ Injective(<<>>) /\ Range(<<>>) = {} BY EmptySeq, NothingInEmpty
<1>s. Flying' = {} /\ Injective(flying') /\ flying' \in Seq(Callers)
      /\ Waiting' = Waiting /\ UNCHANGED completedTransfers
  BY <1>b, <1>e DEF Flying, Waiting
<1>1. TypeOK' BY <1>0, <1>c, <1>n, <1>s, <1>b, SMT DEF TypeOK, FlagsTyped, world, events, srcs, locks, lists
<1>2. ControlInv'
  BY <1>0, <1>b, ThreadsAssumption, SMT
  DEF IoInv, ControlInv, PcInv, EventsLockInv, HandlerFlagInv, CloseInv, FlyingLockInv, PollInv,
      Moves, Others, world, events, locks
<1>3. EventPipe' BY <1>0, <1>b, SMT DEF IoInv, EventPipe, CloseInv, QueueInv, Moves, Others, events, lists
<1>4. TransfersInv'
  <2>1. OwnerInv'
    BY <1>0, <1>c, <1>n, <1>s, <1>b, <1>s, ThreadsAssumption, SMT
    DEF IoInv, OwnerInv, FlyingInv, Moves, Others, world, lists
  <2>2. FlyingInv'
    BY <1>0, <1>c, <1>n, <1>s, <1>b, <1>s, ThreadsAssumption, SMT
    DEF IoInv, FlyingInv, OwnerInv, CompletingInv, Moves, Others, world, lists
  <2>3. AttachedInv'
    BY <1>0, <1>c, <1>n, <1>s, <1>b, <1>s, ThreadsAssumption, SMT
    DEF IoInv, AttachedInv, Moves, Others, world, lists
  <2>4. RequestInv'
    BY <1>0, <1>c, <1>n, <1>s, <1>b, <1>s, ThreadsAssumption, SMT
    DEF IoInv, RequestInv, OwnerInv, CompletingInv, Moves, Others, world, lists
  <2>5. QueueInv'
    <3>1. Queued' = Queued /\ Queued \subseteq Requested' /\ UNCHANGED <<completedTransfers, backend>>
      BY <1>0, <1>c, <1>n, <1>s, <1>b, <1>s, SMT DEF IoInv, QueueInv, world, lists
    <3>2. \A u \in Threads : BatchKept(u)
      BY <1>0, <1>c, <1>n, <1>s, <1>b, ThreadsAssumption, SMT DEF IoInv, QueueInv, PcInv, BatchKept, Moves, Others
    <3> HIDE DEF Threads
    <3>3. QueueInv BY DEF IoInv
    <3> QED BY <3>1, <3>2, <3>3, QueueKept
  <2>6. CompletingInv'
    BY <1>0, <1>c, <1>n, <1>s, <1>b, <1>s, ThreadsAssumption, SMT
    DEF IoInv, CompletingInv, OwnerInv, FlyingInv, Moves, Others, world, lists
  <2>7. TimedOutInv'
    BY <1>0, <1>c, <1>n, <1>s, <1>b, <1>s, ThreadsAssumption, SMT
    DEF IoInv, TimedOutInv, FlyingLockInv, PcInv, OwnerInv, Moves, Others, world, lists
  <2> QED BY <2>1, <2>2, <2>3, <2>4, <2>5, <2>6, <2>7 DEF TransfersInv
<1> QED BY <1>1, <1>2, <1>3, <1>4 DEF IoInv, ControlInv, TransfersInv

LEMMA DetachKeeps ==
  ASSUME IoInv, Detach
  PROVE  IoInv'
<1>0. TypeOK BY DEF IoInv
<1>a. Raise("sources") => eventFlags' = eventFlags \union {"sources"} /\ pipe' = 1
  BY RaiseKeeps, Zenon DEF IoInv
<1>b. /\ th' \in [Threads -> Doing] /\ th[Closer].pc = "detach" /\ Moves(Closer, "lowering")
      /\ Closed
      /\ \/ SourceGone /\ eventFlags' = eventFlags \union {"sources"} /\ pipe' = 1
         \/ UNCHANGED <<source, removed, eventFlags, pipe>>
      /\ UNCHANGED <<world, deviceClose, eventData, locks, flying, completedTransfers>>
  BY <1>0, <1>a, DetachDoes, Zenon
<1>c. /\ xfer' \in [Callers -> Transfer] /\ Requested' = {}
      /\ Alive' = Alive /\ Done' = Done /\ InTheAir' = InTheAir
      /\ Queued' = Queued /\ Attached' = Attached
  BY <1>0, DetachKills
<1>d. Queued = {}
  <2>1. Queued # {} => Alive = {} BY <1>b, SMT DEF IoInv, QueueInv, AttachedInv
  <2>2. Queued \subseteq Alive BY SMT DEF IoInv, QueueInv, OwnerInv
  <2> QED BY <2>1, <2>2
<1>n. \A u \in Callers : ~ Holds(u) /\ th[u].pc \notin {"trigger", "lowering"} /\ ~ InBatch(u) /\ ~ Completing(u)
  BY <1>b, ThreadsAssumption, AloneWithEvents
<1>s. Flying' = Flying /\ Waiting' = Waiting BY <1>b DEF Flying, Waiting
<1>1. TypeOK'
  <2>1. FlagsTyped' BY <1>0, <1>b, Zenon DEF TypeOK, FlagsTyped, world, events, srcs, locks, lists, SourceGone, Closed
  <2>2. eventFlags' \subseteq Flags /\ pipe' \in Int /\ deviceClose' \in Int
    <3>1. eventFlags \subseteq Flags /\ pipe \in Int /\ deviceClose \in Int BY <1>0 DEF TypeOK
    <3> QED BY <3>1, <1>b, FlagsAre, SMT DEF events
  <2> QED BY <1>0, <1>c, <1>d, <1>n, <1>b, <2>1, <2>2, SMT DEF TypeOK, world, locks, lists
<1>2. ControlInv'
  BY <1>0, <1>b, ThreadsAssumption, SMT
  DEF IoInv, ControlInv, PcInv, EventsLockInv, HandlerFlagInv, CloseInv, FlyingLockInv, PollInv,
      Moves, Others, world, events, locks
<1>3. EventPipe'
  <2>1. "close" \in eventFlags BY <1>b, SMT DEF IoInv, CloseInv
  <2> QED BY <1>b, <1>n, <2>1, SMT DEF IoInv, EventPipe, Moves, Others
<1>4. TransfersInv'
  <2>1. OwnerInv'
    BY <1>0, <1>c, <1>d, <1>n, <1>b, <1>s, ThreadsAssumption, SMT
    DEF IoInv, OwnerInv, FlyingInv, Moves, Others, world, lists
  <2>2. FlyingInv'
    BY <1>0, <1>c, <1>d, <1>n, <1>b, <1>s, ThreadsAssumption, SMT
    DEF IoInv, FlyingInv, OwnerInv, CompletingInv, Moves, Others, world, lists
  <2>3. AttachedInv'
    BY <1>0, <1>c, <1>d, <1>n, <1>b, <1>s, ThreadsAssumption, SMT
    DEF IoInv, AttachedInv, Moves, Others, world, lists
  <2>4. RequestInv'
    BY <1>0, <1>c, <1>d, <1>n, <1>b, <1>s, ThreadsAssumption, SMT
    DEF IoInv, RequestInv, OwnerInv, CompletingInv, Moves, Others, world, lists
  <2>5. QueueInv'
    <3>1. Queued' = Queued /\ Queued \subseteq Requested' /\ UNCHANGED <<completedTransfers, backend>>
      BY <1>0, <1>c, <1>d, <1>n, <1>b, <1>s, SMT DEF IoInv, QueueInv, world, lists
    <3>2. \A u \in Threads : BatchKept(u)
      BY <1>0, <1>c, <1>d, <1>n, <1>b, ThreadsAssumption, SMT DEF IoInv, QueueInv, PcInv, BatchKept, Moves, Others
    <3> HIDE DEF Threads
    <3>3. QueueInv BY DEF IoInv
    <3> QED BY <3>1, <3>2, <3>3, QueueKept
  <2>6. CompletingInv'
    BY <1>0, <1>c, <1>d, <1>n, <1>b, <1>s, ThreadsAssumption, SMT
    DEF IoInv, CompletingInv, OwnerInv, FlyingInv, Moves, Others, world, lists
  <2>7. TimedOutInv'
    BY <1>0, <1>c, <1>d, <1>n, <1>b, <1>s, ThreadsAssumption, SMT
    DEF IoInv, TimedOutInv, FlyingLockInv, PcInv, OwnerInv, Moves, Others, world, lists
  <2> QED BY <2>1, <2>2, <2>3, <2>4, <2>5, <2>6, <2>7 DEF TransfersInv
<1> QED BY <1>1, <1>2, <1>3, <1>4 DEF IoInv, ControlInv, TransfersInv


LEMMA FinishesKeeps ==
  ASSUME IoInv, NEW x \in Callers, Finishes(x)
  PROVE  IoInv'
<1>0. TypeOK BY DEF IoInv
<1>1. TypeOK' BY <1>0, FinishesDoes, SMT DEF TypeOK, FlagsTyped, world, events, srcs, locks, lists
<1>2. ControlInv'
  BY <1>0, FinishesDoes, SMT
  DEF IoInv, ControlInv, PcInv, EventsLockInv, HandlerFlagInv, CloseInv, FlyingLockInv, PollInv,
      world, events, locks
<1>3. EventPipe' BY <1>0, FinishesDoes, SMT DEF IoInv, EventPipe, events, lists
<1>4. TransfersInv'
  <2>1. SameSets /\ UNCHANGED <<flying, completedTransfers, backend>>
    BY <1>0, FinishesDoes, SMT DEF SameSets, Alive, Done, InTheAir, Attached, Queued, Requested, lists, world
  <2>2. (\A u \in Callers : Quiet(u)) /\ QuietClose
    BY <1>0, FinishesDoes, ThreadsAssumption, SMT DEF Quiet, QuietClose, IoInv, TimedOutInv
  <2> QED BY <2>1, <2>2, TransfersLeftAlone DEF IoInv, TransfersInv
<1> QED BY <1>1, <1>2, <1>3, <1>4 DEF IoInv, ControlInv, TransfersInv

LEMMA UnplugKeeps ==
  ASSUME IoInv, Unplug
  PROVE  IoInv'
<1>0. TypeOK BY DEF IoInv
<1>1. TypeOK'
  <2>1. FlagsTyped' BY <1>0, UnplugDoes, Zenon DEF TypeOK, FlagsTyped, world, events, srcs, locks, lists, Unplugged
  <2> QED BY <1>0, UnplugDoes, <2>1, SMT DEF TypeOK, world, events, locks, lists
<1>2. ControlInv'
  BY <1>0, UnplugDoes, SMT
  DEF IoInv, ControlInv, PcInv, EventsLockInv, HandlerFlagInv, CloseInv, FlyingLockInv, PollInv,
      world, events, locks
<1>3. EventPipe' BY <1>0, UnplugDoes, SMT DEF IoInv, EventPipe, events, lists
<1>4. TransfersInv'
  <2>1. SameSets /\ UNCHANGED <<flying, completedTransfers, backend>>
    BY <1>0, UnplugDoes, SMT DEF SameSets, Alive, Done, InTheAir, Attached, Queued, Requested, lists, world
  <2>2. (\A u \in Callers : Quiet(u)) /\ QuietClose
    BY <1>0, UnplugDoes, ThreadsAssumption, SMT DEF Quiet, QuietClose, IoInv, TimedOutInv
  <2> QED BY <2>1, <2>2, TransfersLeftAlone DEF IoInv, TransfersInv
<1> QED BY <1>1, <1>2, <1>3, <1>4 DEF IoInv, ControlInv, TransfersInv

LEMMA TickKeeps ==
  ASSUME IoInv, Tick
  PROVE  IoInv'
<1>0. TypeOK BY DEF IoInv
<1>a. clock' \in Nat /\ UNCHANGED <<unplugged, backend, upsets, events, srcs, locks, lists, xfer, th>>
  <2>1. clock \in Nat BY <1>0, Places
  <2> QED BY <2>1, SMT DEF Tick
<1>1. TypeOK' BY <1>0, <1>a, SMT DEF TypeOK, FlagsTyped, world, events, srcs, locks, lists
<1>2. ControlInv'
  BY <1>0, <1>a, SMT
  DEF IoInv, ControlInv, PcInv, EventsLockInv, HandlerFlagInv, CloseInv, FlyingLockInv, PollInv,
      world, events, locks
<1>3. EventPipe' BY <1>0, <1>a, SMT DEF IoInv, EventPipe, events, lists
<1>4. TransfersInv'
  <2>1. SameSets /\ UNCHANGED <<flying, completedTransfers, backend>>
    BY <1>0, <1>a, SMT DEF SameSets, Alive, Done, InTheAir, Attached, Queued, Requested, lists, world
  <2>2. (\A u \in Callers : Quiet(u)) /\ QuietClose
    BY <1>0, <1>a, ThreadsAssumption, SMT DEF Quiet, QuietClose, IoInv, TimedOutInv
  <2> QED BY <2>1, <2>2, TransfersLeftAlone DEF IoInv, TransfersInv
<1> QED BY <1>1, <1>2, <1>3, <1>4 DEF IoInv, ControlInv, TransfersInv

LEMMA InterruptKeeps ==
  ASSUME IoInv, Interrupt
  PROVE  IoInv'
<1>0. TypeOK BY DEF IoInv
<1>a. /\ upsets' \in Nat /\ eventFlags' = eventFlags \union {"interrupt"} /\ pipe' = 1
      /\ "interrupt" \in Flags
      /\ UNCHANGED <<clock, unplugged, backend, deviceClose, srcs, locks, lists, xfer, th>>
  <2>1. Raise("interrupt") /\ UNCHANGED <<clock, unplugged, backend, deviceClose, srcs, locks, lists, xfer, th>>
    BY Zenon DEF Interrupt
  <2>2. eventFlags' = eventFlags \union {"interrupt"} /\ pipe' = 1 BY <2>1, RaiseKeeps DEF IoInv
  <2>3. upsets' \in Nat BY <1>0, SMT DEF Interrupt, Upset, TypeOK
  <2> QED BY <2>1, <2>2, <2>3, FlagsAre, Zenon
<1>1. TypeOK' BY <1>0, <1>a, SMT DEF TypeOK, FlagsTyped, world, events, srcs, locks, lists
<1>2. ControlInv'
  BY <1>0, <1>a, SMT
  DEF IoInv, ControlInv, PcInv, EventsLockInv, HandlerFlagInv, CloseInv, FlyingLockInv, PollInv,
      world, events, locks
<1>3. EventPipe' BY <1>0, <1>a, SMT DEF IoInv, EventPipe, events, lists
<1>4. TransfersInv'
  <2>1. SameSets /\ UNCHANGED <<flying, completedTransfers, backend>>
    BY <1>0, <1>a, SMT DEF SameSets, Alive, Done, InTheAir, Attached, Queued, Requested, lists, world
  <2>2. (\A u \in Callers : Quiet(u)) /\ QuietClose
    BY <1>0, <1>a, ThreadsAssumption, SMT DEF Quiet, QuietClose, IoInv, TimedOutInv
  <2> QED BY <2>1, <2>2, TransfersLeftAlone DEF IoInv, TransfersInv
<1> QED BY <1>1, <1>2, <1>3, <1>4 DEF IoInv, ControlInv, TransfersInv


LEMMA SignalCompletionKeeps ==
  ASSUME IoInv, NEW x \in Callers, SignalCompletion(x)
  PROVE  IoInv'
<1>0. TypeOK BY DEF IoInv
<1>a. Raise("completed") => eventFlags' = eventFlags \union {"completed"} /\ pipe' = 1
  BY RaiseKeeps, Zenon DEF IoInv
<1>b. /\ backend = "signal" /\ x \notin Queued /\ x \in Requested
      /\ completedTransfers' = Append(completedTransfers, x)
      /\ eventFlags' = eventFlags \union {"completed"} /\ pipe' = 1
      /\ xfer' \in [Callers -> Transfer] /\ Alive' = Alive /\ Done' = Done
      /\ InTheAir' = InTheAir /\ Attached' = Attached /\ Queued' = Queued \union {x}
      /\ Requested' = Requested
      /\ UNCHANGED <<world, deviceClose, srcs, locks, flying, open, th>>
  BY <1>0, <1>a, SignalCompletionDoes, Zenon
<1>c. x \notin Waiting /\ \A u \in Threads : x \notin Taken(u)
  BY <1>b, SMT DEF IoInv, QueueInv
<1>d. /\ completedTransfers' \in Seq(Callers) /\ Injective(completedTransfers')
      /\ Waiting' = Waiting \union {x} /\ completedTransfers' # <<>>
  <2>1. completedTransfers \in Seq(Callers) BY <1>0, Places
  <2>2. Injective(completedTransfers) BY DEF IoInv, QueueInv
  <2>3. /\ completedTransfers' \in Seq(Callers) /\ Injective(completedTransfers')
        /\ Range(completedTransfers') = Range(completedTransfers) \union {x}
    BY <1>b, <1>c, <2>1, <2>2, AppendIs DEF Waiting
  <2>4. completedTransfers' # <<>> BY <2>3, NothingInEmpty
  <2> QED BY <2>3, <2>4 DEF Waiting
<1>s. /\ Flying' = Flying /\ \A u \in Threads : Taken(u)' = Taken(u) BY <1>b DEF Flying, Taken
<1>1. TypeOK'
  <2>1. FlagsTyped' BY <1>0, <1>d, <1>b, Zenon DEF TypeOK, FlagsTyped, world, events, srcs, locks, lists
  <2>2. eventFlags' \subseteq Flags /\ pipe' \in Int /\ deviceClose' \in Int
    <3>1. eventFlags \subseteq Flags /\ pipe \in Int /\ deviceClose \in Int BY <1>0 DEF TypeOK
    <3> QED BY <3>1, <1>b, FlagsAre, SMT DEF events
  <2>3. completedTransfers' \in Seq(Callers) BY <1>d
  <2> QED BY <1>0, <1>d, <1>b, <2>1, <2>2, <2>3, SMT DEF TypeOK, world, locks, lists
<1>2. ControlInv'
  BY <1>0, <1>b, ThreadsAssumption, SMT
  DEF IoInv, ControlInv, PcInv, EventsLockInv, HandlerFlagInv, CloseInv, FlyingLockInv, PollInv,
      Others, world, events, locks
<1>3. EventPipe' BY <1>b, <1>d, SMT DEF IoInv, EventPipe
<1>4. TransfersInv'
  <2>1. OwnerInv'
    BY <1>0, <1>d, <1>b, <1>s, ThreadsAssumption, SMT
    DEF IoInv, OwnerInv, FlyingInv, Others, world, lists
  <2>2. FlyingInv'
    BY <1>0, <1>d, <1>b, <1>s, ThreadsAssumption, SMT
    DEF IoInv, FlyingInv, OwnerInv, CompletingInv, Others, world, lists
  <2>3. AttachedInv'
    BY <1>0, <1>d, <1>b, <1>s, ThreadsAssumption, SMT
    DEF IoInv, AttachedInv, Others, world, lists
  <2>4. RequestInv'
    BY <1>0, <1>d, <1>b, <1>s, ThreadsAssumption, SMT
    DEF IoInv, RequestInv, OwnerInv, CompletingInv, Others, world, lists
  <2>5. QueueInv'
    <3>1. Queued' \subseteq Requested' /\ (Queued' # {} => backend' = "signal")
      BY <1>b, SMT DEF IoInv, QueueInv, world
    <3>2. Injective(completedTransfers') /\ Waiting' \subseteq Queued'
      BY <1>b, <1>d, SMT DEF IoInv, QueueInv
    <3>3. ASSUME NEW u \in Threads
          PROVE  /\ Injective(th'[u].batch) /\ Taken(u)' \subseteq Queued'
                 /\ Taken(u)' \intersect Waiting' = {} /\ (th'[u].batch # <<>> => InBatch(u)')
      BY <1>b, <1>c, <1>d, <1>s, SMT DEF IoInv, QueueInv
    <3> QED BY <3>1, <3>2, <3>3, Zenon DEF QueueInv
  <2>6. CompletingInv'
    BY <1>0, <1>d, <1>b, <1>s, ThreadsAssumption, SMT
    DEF IoInv, CompletingInv, OwnerInv, FlyingInv, Others, world, lists
  <2>7. TimedOutInv'
    BY <1>0, <1>d, <1>b, <1>s, ThreadsAssumption, SMT
    DEF IoInv, TimedOutInv, FlyingLockInv, PcInv, OwnerInv, Others, world, lists
  <2> QED BY <2>1, <2>2, <2>3, <2>4, <2>5, <2>6, <2>7 DEF TransfersInv
<1> QED BY <1>1, <1>2, <1>3, <1>4 DEF IoInv, ControlInv, TransfersInv


LEMMA StutterKeeps ==
  ASSUME IoInv, UNCHANGED vars
  PROVE  IoInv'
<1>1. UNCHANGED <<clock, unplugged, backend, upsets, eventFlags, pipe, deviceClose, source, removed,
                  eventData, eventsLock, handlerActive, waitersLock, flyingLock, openDevsLock, lock,
                  flying, completedTransfers, open, xfer, th>>
  BY DEF vars, world, events, srcs, locks, lists
<1> QED BY <1>1 DEF IoInv, TypeOK, FlagsTyped, PcInv, EventsLockInv, HandlerFlagInv, CloseInv,
  FlyingLockInv, OwnerInv, FlyingInv, AttachedInv, RequestInv, QueueInv, CompletingInv, TimedOutInv,
  PollInv, EventPipe, Alive, Done, InTheAir, Attached, Queued, Requested, Flying, Waiting, Taken

LEMMA AllIdleKeeps ==
  ASSUME IoInv, AllIdle
  PROVE  IoInv'
  BY StutterKeeps DEF AllIdle

-----------------------------------------------------------------------------
(* The invariant holds in every state of the specification.                *)

LEMMA InitInv == Init => IoInv
<1> SUFFICES ASSUME Init PROVE IoInv
  OBVIOUS
<1>1. /\ clock = 0 /\ upsets = 0 /\ backend \in {"poll", "signal"}
      /\ eventFlags = {"sources"} /\ pipe = 1 /\ deviceClose = 0
      /\ eventsLock = None /\ waitersLock = None /\ flyingLock = None /\ openDevsLock = None
      /\ lock = [x \in Callers |-> None] /\ flying = <<>> /\ completedTransfers = <<>>
      /\ xfer = [x \in Callers |-> NoTransfer] /\ th = [t \in Threads |-> Resting]
  BY Zenon DEF Init
<1>2. FlagsTyped /\ ~ handlerActive BY Zenon DEF Init, FlagsTyped
<1>3. <<>> \in Seq(Callers) /\ Injective(<<>>) /\ Range(<<>>) = {} BY EmptySeq, NothingInEmpty
<1>4. \A t \in Threads : /\ th[t] \in Doing /\ th[t].pc = "idle" /\ th[t].ret = "idle"
                         /\ th[t].ready = "no" /\ th[t].batch = <<>>
  <2>1. PICK z : z = Resting OBVIOUS
  <2>2. z \in Doing /\ z.pc = "idle" /\ z.ret = "idle" /\ z.ready = "no" /\ z.batch = <<>>
    BY <2>1, RestingTyped, Zenon
  <2> QED BY <1>1, <2>1, <2>2
<1>5. \A x \in Callers : /\ xfer[x] \in Transfer /\ xfer[x].urb = "none"
                         /\ ~ xfer[x].alive /\ ~ xfer[x].done /\ ~ xfer[x].flight
                         /\ ~ xfer[x].handle /\ ~ xfer[x].queued
  <2>1. PICK z : z = NoTransfer OBVIOUS
  <2>2. z \in Transfer BY <2>1, NoTransferTyped
  <2>3. z.urb = "none" /\ ~ z.alive /\ ~ z.done /\ ~ z.flight /\ ~ z.handle /\ ~ z.queued
    BY <2>1, Zenon DEF NoTransfer
  <2> QED BY <1>1, <2>1, <2>2, <2>3
<1>6. xfer \in [Callers -> Transfer] /\ th \in [Threads -> Doing]
  BY <1>1, <1>4, <1>5
<1>7. /\ Alive = {} /\ Done = {} /\ InTheAir = {} /\ Attached = {} /\ Queued = {}
      /\ Requested = {} /\ Flying = {} /\ Waiting = {} /\ \A t \in Threads : Taken(t) = {}
  BY <1>1, <1>3, <1>4, <1>5, SMT
  DEF Alive, Done, InTheAir, Attached, Queued, Requested, Flying, Waiting, Taken
<1>8. TypeOK
  <2>1. lock \in [Callers -> Callers \union {None}] BY <1>1
  <2>2. eventFlags \subseteq Flags BY <1>1, FlagsAre
  <2> QED BY <1>1, <1>2, <1>3, <1>6, <2>1, <2>2, SMT DEF TypeOK
<1>9. ControlInv
  <2>1. HandlerFlagInv BY <1>1, <1>2, Zenon DEF HandlerFlagInv
  <2>2. PcInv /\ EventsLockInv /\ CloseInv /\ FlyingLockInv /\ PollInv
    BY <1>1, <1>4, ThreadsAssumption, SMT DEF PcInv, EventsLockInv, CloseInv, FlyingLockInv, PollInv
  <2> QED BY <2>1, <2>2 DEF ControlInv
<1>10. EventPipe BY <1>1, <1>4, SMT DEF EventPipe
<1>11. OwnerInv BY <1>4, <1>7, SMT DEF OwnerInv
<1>12. FlyingInv /\ RequestInv BY <1>1, <1>3, <1>7, SMT DEF FlyingInv, RequestInv
<1>13. AttachedInv BY <1>7, Zenon DEF AttachedInv
<1>14. QueueInv BY <1>1, <1>3, <1>4, <1>7, SMT DEF QueueInv
<1>15. CompletingInv /\ TimedOutInv BY <1>4, SMT DEF CompletingInv, TimedOutInv
<1> QED BY <1>8, <1>9, <1>10, <1>11, <1>12, <1>13, <1>14, <1>15 DEF IoInv, ControlInv

LEMMA NextKeeps == IoInv /\ [Next]_vars => IoInv'
<1> SUFFICES ASSUME IoInv, [Next]_vars PROVE IoInv'
  OBVIOUS
<1> HIDE DEF Threads
<1>0. Callers \subseteq Threads /\ Closer \in Threads BY DEF Threads
<1>1. ASSUME NEW t \in Callers, EventStep(t) PROVE IoInv'
  BY <1>1, HandleEventsKeeps, PollKeeps, HandleEventTriggerKeeps, CompleteNextKeeps,
     CompletionsEndKeeps, HandleDescriptorKeeps, ReapKeeps, ReapEndKeeps, HandleDisconnectKeeps,
     HandleTransferCancellationKeeps, LeaveFlyingListKeeps, CallbackKeeps
  DEF EventStep
<1>2. ASSUME NEW t \in Callers, WaitStep(t) PROVE IoInv'
  BY <1>2, SubmitAcceptedKeeps, SubmitRejectedKeeps, SubmitFailedKeeps, ReturnKeeps,
     GetNextTimeoutKeeps, TryEventsKeeps, TryLockEventsKeeps, LockWaitersKeeps,
     HandlerActiveKeeps, WakeUpKeeps, AfterEventsKeeps, CancelKeeps
  DEF WaitStep
<1>3. ASSUME NEW t \in Callers, TimeoutStep(t) PROVE IoInv'
  BY <1>3, HandleTimeoutKeeps, MarkTimedOutKeeps, TimeoutsHandledKeeps DEF TimeoutStep
<1>4. ASSUME NEW t \in Callers, CallStep(t) PROVE IoInv'
  BY <1>0, <1>1, <1>2, <1>3, <1>4, UnlockEventsKeeps, BroadcastKeeps DEF CallStep
<1>5. ASSUME CloseStep PROVE IoInv'
  BY <1>0, <1>5, LockEventsKeeps, SweepKeeps, DetachKeeps, CloseEndKeeps, UnlockEventsKeeps,
     BroadcastKeeps
  DEF CloseStep
<1>6. ASSUME NEW t \in Callers, Submit(t) \/ Cancel(t) \/ PollInterrupted(t) PROVE IoInv'
  BY <1>6, SubmitKeeps, CancelKeeps, PollInterruptedKeeps
<1>7. ASSUME NEW x \in Callers, Finishes(x) \/ SignalCompletion(x) PROVE IoInv'
  BY <1>7, FinishesKeeps, SignalCompletionKeeps
<1>8. CASE Next
  BY <1>4, <1>5, <1>6, <1>7, <1>8, CloseBeginKeeps, UnplugKeeps, InterruptKeeps, TickKeeps, AllIdleKeeps
  DEF Next
<1>9. CASE UNCHANGED vars BY <1>9, StutterKeeps
<1> QED BY <1>8, <1>9

(* The inductive invariant: who holds the locks, and where each transfer   *)
(* is.                                                                     *)
THEOREM IoInvariant == Spec => []IoInv
<1>1. Init => IoInv BY InitInv
<1>2. IoInv /\ [Next]_vars => IoInv' BY NextKeeps
<1> QED BY <1>1, <1>2, PTL DEF Spec


-----------------------------------------------------------------------------
(* No wakeup is lost: whoever is bound to broadcast stays so until it has. *)

Bound(u) == Holds(u) \/ th[u].pc = "broadcast" \/ (u = Closer /\ th[u].pc = "lockevents")

StaysBound(t) == /\ Others(t) /\ (Bound(t) => Bound(t)')
                 /\ (th'[t].pc = "sleep" => th[t].pc = "sleep")

LEMMA WakersAre ==
  ASSUME PcInv
  PROVE  SleepersHaveWaker <=> ((\E t \in Callers : th[t].pc = "sleep") => \E u \in Threads : Bound(u))
  BY ThreadsAssumption, SMT DEF PcInv, SleepersHaveWaker, At, Bound

LEMMA StaysBoundKeeps ==
  ASSUME PcInv, PcInv', SleepersHaveWaker, NEW t \in Threads, StaysBound(t)
  PROVE  SleepersHaveWaker'
<1>1. SUFFICES ASSUME NEW v \in Callers, th'[v].pc = "sleep" PROVE \E u \in Threads : Bound(u)'
  BY ThreadsAssumption, SMT DEF PcInv, SleepersHaveWaker, At, Bound
<1> HIDE DEF Holds
<1>2. \A u \in Threads \ {t} : th'[u] = th[u] BY Zenon DEF StaysBound, Others
<1>3. th[v].pc = "sleep"
  BY <1>1, <1>2, SMT DEF StaysBound
<1>4. PICK u \in Threads : Bound(u) BY <1>3, WakersAre, Zenon
<1>5. CASE u = t BY <1>4, <1>5, Zenon DEF StaysBound
<1>6. CASE u # t
  <2>1. th'[u] = th[u] BY <1>2, <1>6
  <2>2. Bound(u)' BY <1>4, <2>1, SMT DEF Bound, Holds
  <2> QED BY <2>2
<1> QED BY <1>5, <1>6

LEMMA HandleEventsStaysBound ==
  ASSUME IoInv, NEW t \in Callers, HandleEvents(t)
  PROVE  StaysBound(t)
<1>0. TypeOK /\ PcInv BY DEF IoInv
<1> QED BY <1>0, HandleEventsDoes, ThreadsAssumption, SMT DEF PcInv, StaysBound, Bound, Others, Moves

LEMMA ReapEndStaysBound ==
  ASSUME IoInv, NEW t \in Callers, ReapEnd(t)
  PROVE  StaysBound(t)
<1>0. TypeOK /\ PcInv BY DEF IoInv
<1> QED BY <1>0, ReapEndDoes, ThreadsAssumption, SMT DEF PcInv, StaysBound, Bound, Others, Moves

LEMMA LeaveFlyingListStaysBound ==
  ASSUME IoInv, NEW t \in Callers, LeaveFlyingList(t)
  PROVE  StaysBound(t)
<1>0. TypeOK /\ PcInv BY DEF IoInv
<1> QED BY <1>0, LeaveFlyingListDoes, ThreadsAssumption, SMT DEF PcInv, StaysBound, Bound, Others, Moves

LEMMA SubmitAcceptedStaysBound ==
  ASSUME IoInv, NEW t \in Callers, SubmitAccepted(t)
  PROVE  StaysBound(t)
<1>0. TypeOK /\ PcInv BY DEF IoInv
<1> QED BY <1>0, SubmitAcceptedDoes, ThreadsAssumption, SMT DEF PcInv, StaysBound, Bound, Others, Moves

LEMMA SubmitRejectedStaysBound ==
  ASSUME IoInv, NEW t \in Callers, SubmitRejected(t)
  PROVE  StaysBound(t)
<1>0. TypeOK /\ PcInv BY DEF IoInv
<1> QED BY <1>0, SubmitRejectedDoes, ThreadsAssumption, SMT DEF PcInv, StaysBound, Bound, Others, Moves

LEMMA SubmitFailedStaysBound ==
  ASSUME IoInv, NEW t \in Callers, SubmitFailed(t)
  PROVE  StaysBound(t)
<1>0. TypeOK /\ PcInv BY DEF IoInv
<1> QED BY <1>0, SubmitFailedDoes, ThreadsAssumption, SMT DEF PcInv, StaysBound, Bound, Others, Moves

LEMMA ReturnStaysBound ==
  ASSUME IoInv, NEW t \in Callers, Return(t)
  PROVE  StaysBound(t)
<1>0. TypeOK /\ PcInv BY DEF IoInv
<1> QED BY <1>0, ReturnDoes, ThreadsAssumption, SMT DEF PcInv, StaysBound, Bound, Others, Moves

LEMMA TryEventsStaysBound ==
  ASSUME IoInv, NEW t \in Callers, TryEvents(t)
  PROVE  StaysBound(t)
<1>0. TypeOK /\ PcInv BY DEF IoInv
<1> QED BY <1>0, TryEventsDoes, ThreadsAssumption, SMT DEF PcInv, StaysBound, Bound, Others, Moves

LEMMA TryLockEventsStaysBound ==
  ASSUME IoInv, NEW t \in Callers, TryLockEvents(t)
  PROVE  StaysBound(t)
<1>0. TypeOK /\ PcInv BY DEF IoInv
<1> QED BY <1>0, TryLockEventsDoes, ThreadsAssumption, SMT DEF PcInv, StaysBound, Bound, Others, Moves

LEMMA LockWaitersStaysBound ==
  ASSUME IoInv, NEW t \in Callers, LockWaiters(t)
  PROVE  StaysBound(t)
<1>0. TypeOK /\ PcInv BY DEF IoInv
<1> QED BY <1>0, LockWaitersDoes, ThreadsAssumption, SMT DEF PcInv, StaysBound, Bound, Others, Moves

LEMMA AfterEventsStaysBound ==
  ASSUME IoInv, NEW t \in Callers, AfterEvents(t)
  PROVE  StaysBound(t)
<1>0. TypeOK /\ PcInv BY DEF IoInv
<1> QED BY <1>0, AfterEventsDoes, ThreadsAssumption, SMT DEF PcInv, StaysBound, Bound, Others, Moves

LEMMA CancelStaysBound ==
  ASSUME IoInv, NEW t \in Callers, Cancel(t)
  PROVE  StaysBound(t)
<1>0. TypeOK /\ PcInv BY DEF IoInv
<1> QED BY <1>0, CancelDoes, ThreadsAssumption, SMT DEF PcInv, StaysBound, Bound, Others, Moves

LEMMA MarkTimedOutStaysBound ==
  ASSUME IoInv, NEW t \in Callers, MarkTimedOut(t)
  PROVE  StaysBound(t)
<1>0. TypeOK /\ PcInv BY DEF IoInv
<1> QED BY <1>0, MarkTimedOutDoes, ThreadsAssumption, SMT DEF PcInv, StaysBound, Bound, Others, Moves

LEMMA PollInterruptedStaysBound ==
  ASSUME IoInv, NEW t \in Callers, PollInterrupted(t)
  PROVE  StaysBound(t)
<1>0. TypeOK /\ PcInv BY DEF IoInv
<1> QED BY <1>0, PollInterruptedDoes, ThreadsAssumption, SMT DEF PcInv, StaysBound, Bound, Others, Moves

LEMMA HandleDescriptorStaysBound ==
  ASSUME IoInv, NEW t \in Callers, HandleDescriptor(t)
  PROVE  StaysBound(t)
<1>0. TypeOK /\ PcInv BY DEF IoInv
<1> QED BY <1>0, HandleDescriptorDoes, ThreadsAssumption, SMT DEF PcInv, StaysBound, Bound, Others, Moves

LEMMA SubmitStaysBound ==
  ASSUME IoInv, NEW t \in Callers, Submit(t)
  PROVE  StaysBound(t)
<1>0. TypeOK /\ PcInv BY DEF IoInv
<1> QED BY <1>0, SubmitDoes, ThreadsAssumption, SMT DEF PcInv, StaysBound, Bound, Others, Moves

LEMMA PollStaysBound ==
  ASSUME IoInv, NEW t \in Callers, Poll(t)
  PROVE  StaysBound(t)
<1>0. TypeOK /\ PcInv BY DEF IoInv
<1> QED BY <1>0, PollDoes, ThreadsAssumption, SMT DEF PcInv, StaysBound, Bound, Others, Polled, MovesFor

LEMMA HandleEventTriggerStaysBound ==
  ASSUME IoInv, NEW t \in Callers, HandleEventTrigger(t)
  PROVE  StaysBound(t)
<1>0. TypeOK /\ PcInv BY DEF IoInv
<1> QED BY <1>0, HandleEventTriggerDoes, ThreadsAssumption, SMT DEF PcInv, StaysBound, Bound, Others, Moves, Batched

LEMMA CompleteNextStaysBound ==
  ASSUME IoInv, NEW t \in Callers, CompleteNext(t)
  PROVE  StaysBound(t)
<1>0. TypeOK /\ PcInv BY DEF IoInv
<1> QED BY <1>0, CompleteNextDoes, ThreadsAssumption, SMT DEF PcInv, StaysBound, Bound, Others, Starts, FirstStep

LEMMA CompletionsEndStaysBound ==
  ASSUME IoInv, NEW t \in Callers, CompletionsEnd(t)
  PROVE  StaysBound(t)
<1>0. TypeOK /\ PcInv BY DEF IoInv
<1> QED BY <1>0, CompletionsEndDoes, ThreadsAssumption, SMT DEF PcInv, StaysBound, Bound, Others, Batched

LEMMA ReapStaysBound ==
  ASSUME IoInv, NEW t \in Callers, Reap(t)
  PROVE  StaysBound(t)
<1>0. TypeOK /\ PcInv BY DEF IoInv
<1> QED BY <1>0, ReapDoes, ThreadsAssumption, SMT DEF PcInv, StaysBound, Bound, Others, Starts, FirstStep

LEMMA HandleDisconnectStaysBound ==
  ASSUME IoInv, NEW t \in Callers, HandleDisconnect(t)
  PROVE  StaysBound(t)
<1>0. TypeOK /\ PcInv BY DEF IoInv
<1> QED BY <1>0, HandleDisconnectDoes, ThreadsAssumption, SMT DEF PcInv, StaysBound, Bound, Others, Starts, Moves

LEMMA HandleTransferCancellationStaysBound ==
  ASSUME IoInv, NEW t \in Callers, HandleTransferCancellation(t)
  PROVE  StaysBound(t)
<1>0. TypeOK /\ PcInv BY DEF IoInv
<1> QED BY <1>0, TransferCancellationDoes, ThreadsAssumption, SMT DEF PcInv, StaysBound, Bound, Others, Settled

LEMMA CallbackStaysBound ==
  ASSUME IoInv, NEW t \in Callers, Callback(t)
  PROVE  StaysBound(t)
<1>0. TypeOK /\ PcInv BY DEF IoInv
<1>1. th[t].pc = "callback" /\ LeavesOff(t, th[t].ret, None, "none")
      /\ th[t].ret \in {"batch", "batchfailed", "reaping", "disconnect"}
  <2>1. th[t].x \in Callers /\ th[t].ret \in {"batch", "batchfailed", "reaping", "disconnect"}
    BY SMT DEF IoInv, PcInv, Callback, At
  <2> QED BY <1>0, <2>1, CallbackDoes
<1> QED BY <1>0, <1>1, ThreadsAssumption, SMT DEF PcInv, StaysBound, Bound, Others, LeavesOff

LEMMA GetNextTimeoutStaysBound ==
  ASSUME IoInv, NEW t \in Callers, GetNextTimeout(t)
  PROVE  StaysBound(t)
<1>0. TypeOK /\ PcInv BY DEF IoInv
<1> QED BY <1>0, GetNextTimeoutDoes, ThreadsAssumption, SMT DEF PcInv, StaysBound, Bound, Others, MovesFor

LEMMA WakeUpStaysBound ==
  ASSUME IoInv, NEW t \in Callers, WakeUp(t)
  PROVE  StaysBound(t)
<1>0. TypeOK /\ PcInv BY DEF IoInv
<1> QED BY <1>0, WakeUpDoes, ThreadsAssumption, SMT DEF PcInv, StaysBound, Bound, Others, Moves, MovesFor

LEMMA HandleTimeoutStaysBound ==
  ASSUME IoInv, NEW t \in Callers, HandleTimeout(t)
  PROVE  StaysBound(t)
<1>0. TypeOK /\ PcInv BY DEF IoInv
<1> QED BY <1>0, HandleTimeoutDoes, ThreadsAssumption, SMT DEF PcInv, StaysBound, Bound, Others, Turns

LEMMA TimeoutsHandledStaysBound ==
  ASSUME IoInv, NEW t \in Callers, TimeoutsHandled(t)
  PROVE  StaysBound(t)
<1>0. TypeOK /\ PcInv BY DEF IoInv
<1>1. th[t].ret \in Pcs /\ th[t].ret \in {"after", "unlock"}
  <2>1. th[t].ret \in {"after", "unlock"} BY <1>0, TimeoutsHandledDoes, SMT DEF PcInv
  <2> QED BY <2>1, SMT DEF Pcs
<1> QED BY <1>0, TimeoutsHandledDoes, <1>1, ThreadsAssumption, SMT DEF PcInv, StaysBound, Bound, Others, Turns

LEMMA UnlockEventsStaysBound ==
  ASSUME IoInv, NEW t \in Threads, UnlockEvents(t)
  PROVE  StaysBound(t)
<1>0. TypeOK /\ PcInv BY DEF IoInv
<1> QED BY <1>0, UnlockEventsDoes, ThreadsAssumption, SMT DEF PcInv, StaysBound, Bound, Others, Moves

LEMMA CloseBeginStaysBound ==
  ASSUME IoInv, CloseBegin
  PROVE  StaysBound(Closer)
<1>0. TypeOK /\ PcInv BY DEF IoInv
<1> QED BY <1>0, CloseBeginDoes, ThreadsAssumption, SMT DEF PcInv, StaysBound, Bound, Others, Moves

LEMMA LockEventsStaysBound ==
  ASSUME IoInv, LockEvents
  PROVE  StaysBound(Closer)
<1>0. TypeOK /\ PcInv BY DEF IoInv
<1> QED BY <1>0, LockEventsDoes, ThreadsAssumption, SMT DEF PcInv, StaysBound, Bound, Others, Moves

LEMMA SweepStaysBound ==
  ASSUME IoInv, Sweep
  PROVE  StaysBound(Closer)
<1>0. TypeOK /\ PcInv BY DEF IoInv
<1> QED BY <1>0, SweepDoes, ThreadsAssumption, SMT DEF PcInv, StaysBound, Bound, Others, Moves

LEMMA DetachStaysBound ==
  ASSUME IoInv, Detach
  PROVE  StaysBound(Closer)
<1>0. TypeOK /\ PcInv BY DEF IoInv
<1> QED BY <1>0, DetachDoes, ThreadsAssumption, SMT DEF PcInv, StaysBound, Bound, Others, Moves

LEMMA CloseEndStaysBound ==
  ASSUME IoInv, CloseEnd
  PROVE  StaysBound(Closer)
<1>0. TypeOK /\ PcInv BY DEF IoInv
<1> QED BY <1>0, CloseEndDoes, ThreadsAssumption, SMT DEF PcInv, StaysBound, Bound, Others, Moves


(* A caller sleeps only if it has seen a handler or a close under way.     *)
LEMMA HandlerActiveWakes ==
  ASSUME IoInv, SleepersHaveWaker, PcInv', NEW t \in Callers, HandlerActive(t)
  PROVE  SleepersHaveWaker'
<1>0. TypeOK /\ PcInv /\ t \in Threads BY DEF IoInv
<1>1. th[t].pc = "active" /\ UNCHANGED <<eventsLock, handlerActive>>
      /\ \/ Moves(t, "sleep") /\ (deviceClose > 0 \/ handlerActive)
         \/ Moves(t, "try")
  BY <1>0, HandlerActiveDoes, Zenon
<1>2. CASE Moves(t, "try")
  <2>1. StaysBound(t) BY <1>0, <1>1, <1>2, ThreadsAssumption, SMT DEF StaysBound, Bound, Moves, Others
  <2> QED BY <1>0, <2>1, StaysBoundKeeps
<1>3. CASE Moves(t, "sleep") /\ (deviceClose > 0 \/ handlerActive)
  <2>1. deviceClose > 0 => Bound(Closer) BY SMT DEF IoInv, CloseInv, Bound
  <2>2. handlerActive => eventsLock \in Threads
    <3>1. handlerActive => eventsLock # None BY DEF IoInv, HandlerFlagInv
    <3>2. eventsLock \in Threads \union {None} BY <1>0 DEF TypeOK
    <3> QED BY <3>1, <3>2
  <2>3. eventsLock \in Threads => Bound(eventsLock) BY Zenon DEF IoInv, EventsLockInv, Bound
  <2>4. PICK u \in Threads : Bound(u) BY <1>3, <2>1, <2>2, <2>3
  <2>5. u # t /\ th'[u] = th[u]
    BY <1>1, <1>3, <2>4, ThreadsAssumption, SMT DEF Bound, Moves, Others
  <2>6. Bound(u)' BY <2>4, <2>5, SMT DEF Bound
  <2> QED BY <2>6, ThreadsAssumption, SMT DEF PcInv, SleepersHaveWaker, At, Bound
<1> QED BY <1>1, <1>2, <1>3

(* The broadcast leaves no sleeper.                                        *)
LEMMA BroadcastWakes ==
  ASSUME IoInv, NEW t \in Threads, Broadcast(t)
  PROVE  SleepersHaveWaker'
<1>0. TypeOK BY DEF IoInv
<1>1. Wakes(t) BY <1>0, BroadcastDoes
<1>2. \A u \in Threads : th'[u].pc # "sleep" BY <1>1, SMT DEF Wakes
<1> QED BY <1>2, SMT DEF SleepersHaveWaker, At

LEMMA NextWakes == IoInv /\ SleepersHaveWaker /\ [Next]_vars => SleepersHaveWaker'
<1> SUFFICES ASSUME IoInv, SleepersHaveWaker, [Next]_vars PROVE SleepersHaveWaker'
  OBVIOUS
<1> HIDE DEF Threads
<1>0. Callers \subseteq Threads /\ Closer \in Threads BY DEF Threads
<1>a. PcInv /\ PcInv' BY NextKeeps DEF IoInv
<1>b. \A t \in Threads : StaysBound(t) => SleepersHaveWaker' BY <1>a, StaysBoundKeeps
<1>1. ASSUME NEW t \in Callers, EventStep(t) PROVE StaysBound(t)
  BY <1>1, HandleEventsStaysBound, PollStaysBound, HandleEventTriggerStaysBound,
     CompleteNextStaysBound, CompletionsEndStaysBound, HandleDescriptorStaysBound, ReapStaysBound,
     ReapEndStaysBound, HandleDisconnectStaysBound, HandleTransferCancellationStaysBound,
     LeaveFlyingListStaysBound, CallbackStaysBound
  DEF EventStep
<1>2. ASSUME NEW t \in Callers, WaitStep(t) PROVE SleepersHaveWaker'
  <2>1. HandlerActive(t) => SleepersHaveWaker' BY <1>a, HandlerActiveWakes
  <2>2. ~ HandlerActive(t) => StaysBound(t)
    BY <1>2, SubmitAcceptedStaysBound, SubmitRejectedStaysBound, SubmitFailedStaysBound,
       ReturnStaysBound, GetNextTimeoutStaysBound, TryEventsStaysBound, TryLockEventsStaysBound,
       LockWaitersStaysBound, WakeUpStaysBound, AfterEventsStaysBound, CancelStaysBound
    DEF WaitStep
  <2> QED BY <1>0, <1>b, <2>1, <2>2
<1>3. ASSUME NEW t \in Callers, TimeoutStep(t) PROVE StaysBound(t)
  BY <1>3, HandleTimeoutStaysBound, MarkTimedOutStaysBound, TimeoutsHandledStaysBound DEF TimeoutStep
<1>4. ASSUME NEW t \in Callers, CallStep(t) PROVE SleepersHaveWaker'
  BY <1>0, <1>b, <1>1, <1>2, <1>3, <1>4, UnlockEventsStaysBound, BroadcastWakes DEF CallStep
<1>5. ASSUME CloseStep PROVE SleepersHaveWaker'
  BY <1>0, <1>b, <1>5, LockEventsStaysBound, SweepStaysBound, DetachStaysBound, CloseEndStaysBound,
     UnlockEventsStaysBound, BroadcastWakes
  DEF CloseStep
<1>6. ASSUME NEW t \in Callers, Submit(t) \/ Cancel(t) \/ PollInterrupted(t) PROVE SleepersHaveWaker'
  BY <1>0, <1>b, <1>6, SubmitStaysBound, CancelStaysBound, PollInterruptedStaysBound
<1>7. UNCHANGED th => SleepersHaveWaker' BY Zenon DEF SleepersHaveWaker, HandlesEvents, At
<1>8. CloseBegin => SleepersHaveWaker' BY <1>0, <1>b, CloseBeginStaysBound
<1>9. ASSUME NEW x \in Callers, Finishes(x) \/ SignalCompletion(x) PROVE UNCHANGED th
  BY <1>9, Zenon DEF Finishes, SignalCompletion
<1>10. Unplug \/ Interrupt \/ Tick => UNCHANGED th BY Zenon DEF Unplug, Interrupt, Tick
<1>11. AllIdle \/ UNCHANGED vars => UNCHANGED th BY DEF AllIdle, vars
<1> QED BY <1>4, <1>5, <1>6, <1>7, <1>8, <1>9, <1>10, <1>11 DEF Next

-----------------------------------------------------------------------------
(* The theorems.                                                           *)

(* Every variable has its type, whatever the threads, the device and the   *)
(* user do.                                                                *)
THEOREM TypeCorrect == Spec => []TypeOK
<1>1. IoInv => TypeOK BY DEF IoInv
<1> QED BY <1>1, IoInvariant, PTL

(* The pipe holds a signal exactly while an event is pending, no reader of *)
(* it ever blocks, and no completed transfer is forgotten                  *)
(* (usbi_signal_event and usbi_clear_event, handle_event_trigger).         *)
THEOREM EventsAreSignalled == Spec => []EventPipe
<1>1. IoInv => EventPipe BY DEF IoInv
<1> QED BY <1>1, IoInvariant, PTL

(* libusb never touches a transfer after its caller was told it may free   *)
(* it: not from the flying list, not from the queue of completed transfers *)
(* and not on behalf of a thread that completes it or times it out.        *)
THEOREM FreedIsNotUsed == Spec => []NoUseAfterFree
<1>1. IoInv => NoUseAfterFree
  <2> SUFFICES ASSUME IoInv PROVE NoUseAfterFree
    OBVIOUS
  <2>1. Flying \subseteq Alive \ Done /\ Waiting \subseteq Alive
        /\ \A t \in Threads : Taken(t) \subseteq Alive
    BY SMT DEF IoInv, OwnerInv, FlyingInv, QueueInv
  <2>2. \A x \in Range(flying) \union Range(completedTransfers) : xfer[x].alive
    BY <2>1, Zenon DEF Flying, Waiting, Alive
  <2>3. ASSUME NEW t \in Threads PROVE \A x \in Range(th[t].batch) : xfer[x].alive
    BY <2>1, Zenon DEF Taken, Alive
  <2>4. ASSUME NEW t \in Threads
        PROVE  /\ th[t].pc \in {"cancelled", "complete", "callback", "timedout"} =>
                    th[t].x \in Alive \ Done
               /\ th[t].pc \in {"cancelled", "complete"} => th[t].x \in Flying
               /\ th[t].pc = "unlist" => t \in Flying
    BY <2>1, ThreadsAssumption, SMT
    DEF IoInv, PcInv, OwnerInv, CompletingInv, TimedOutInv
  <2>5. \A x \in Alive \ Done : xfer[x].alive /\ ~ xfer[x].done BY DEF Alive, Done
  <2> HIDE DEF Threads
  <2> QED BY <2>2, <2>3, <2>4, <2>5, Zenon DEF NoUseAfterFree, At, Flying
<1> QED BY <1>1, IoInvariant, PTL

(* A caller asleep on the condition is always going to be woken: a handler *)
(* of events, or a thread in libusb_close, is still to broadcast it.       *)
THEOREM NoWakeupLost == Spec => []SleepersHaveWaker
<1>1. Init => SleepersHaveWaker
  <2> SUFFICES ASSUME Init PROVE SleepersHaveWaker
    OBVIOUS
  <2>1. th = [t \in Threads |-> Resting] BY Zenon DEF Init
  <2>2. PICK z : z = Resting OBVIOUS
  <2>3. z.pc = "idle" BY <2>2, RestingTyped, Zenon
  <2>4. \A t \in Callers : th[t].pc = "idle" BY <2>1, <2>2, <2>3
  <2> QED BY <2>4, SMT DEF SleepersHaveWaker, At
<1>2. IoInv /\ SleepersHaveWaker /\ [Next]_vars => SleepersHaveWaker' BY NextWakes
<1> QED BY <1>1, <1>2, IoInvariant, PTL DEF Spec


=============================================================================
