------------------------------- MODULE Usbfs -------------------------------
(***************************************************************************)
(* Transfers of the Linux backend (os/linux_usbfs.c): one transfer is      *)
(* split into requests (URBs) that are submitted to the kernel, discarded, *)
(* reaped and put together again by three threads: the one that submits,   *)
(* one that cancels and the event handler.  The lock of the transfer       *)
(* (itransfer->lock) is held by the first two from beginning to end, and   *)
(* by the handler from the moment it has reaped a request.                 *)
(*                                                                         *)
(* The kernel serves the requests of an endpoint in order; a request that  *)
(* is discarded is over at once.  Data is counted in bytes, numbered in    *)
(* the order in which the device sends them; for an isochronous transfer a *)
(* byte stands for the result of a packet.                                 *)
(***************************************************************************)
EXTENDS Integers, Sequences, FiniteSets

CONSTANTS BlockSize,     \* MAX_BULK_BUFFER_LENGTH, MAX_ISO_PACKETS_PER_URB
          MaxLength,     \* longest transfer
          Rounds         \* how many transfers are made, one after the other

ASSUME SizesAssumption == /\ BlockSize \in Nat \ {0}
                          /\ {MaxLength, Rounds} \subseteq Nat

Kinds  == {"bulk", "interrupt", "iso", "control"}
Splits == {"whole", "continuation", "blocks"}    \* what the kernel's caps allow

VARIABLES
  plugged, reapAfter, removed,   \* the device, USBFS_CAP_REAP_AFTER_DISCONNECT, fd_removed
  kind, split, length,           \* the transfer
  phase, status, cancelling,     \* its state_flags, and what it was reported with
  urbs,                          \* its requests; <<>> is tpriv->urbs = NULL
  retired, action, reapStatus, transferred, offset,   \* linux_transfer_priv
  done,                          \* requests the kernel has finished, oldest first
  sent, buffer, short, broken,   \* bytes the device sent, where they are, what it did
  lock, next, reaped, disc,      \* the three threads
  rounds

kernel   == <<plugged, reapAfter, removed>>
request  == <<kind, split, length, rounds>>
private  == <<retired, action, reapStatus, transferred, offset>>
device   == <<sent, buffer, short, broken>>
vars == <<kernel, request, phase, status, cancelling, urbs, private, done, device,
          lock, next, reaped, disc>>

NoDiscard == [i |-> 0, first |-> 1, last |-> 0, ret |-> "ok"]

Init == /\ plugged = TRUE /\ reapAfter \in BOOLEAN /\ removed = FALSE
        /\ kind = "control" /\ split = "whole" /\ length = 0 /\ rounds = Rounds
        /\ phase = "idle" /\ status = "none" /\ cancelling = FALSE
        /\ urbs = <<>> /\ done = <<>>
        /\ retired = 0 /\ action = "NORMAL" /\ reapStatus = "COMPLETED"
        /\ transferred = 0 /\ offset = 0
        /\ sent = 0 /\ buffer = <<>> /\ short = FALSE /\ broken = FALSE
        /\ lock = "free" /\ next = 0 /\ reaped = 0 /\ disc = NoDiscard

NumUrbs   == Len(urbs)
Pending   == {u \in DOMAIN urbs : urbs[u].at = "kernel"}
Continued == kind = "bulk" /\ split = "continuation"

---------------------------------------------------------------------------
(* Splitting.  A whole transfer is one request of its length; the others   *)
(* are blocks, of which the last may be partial; an empty transfer is one  *)
(* empty request.                                                          *)
BlockLength(k, sp, n) == IF k = "control" \/ (k # "iso" /\ sp = "whole")
                         THEN IF n = 0 THEN 1 ELSE n
                         ELSE BlockSize

UrbsNeeded(block, n) == IF n = 0 THEN 1 ELSE (n + block - 1) \div block

UrbLength(block, n, u) ==
    IF n = 0 THEN 0
    ELSE IF u = UrbsNeeded(block, n) /\ n % block > 0 THEN n % block ELSE block

AllUrbs(block, n) ==
    [u \in 1..UrbsNeeded(block, n) |->
        [at |-> "none", size |-> UrbLength(block, n, u), start |-> (u - 1) * block,
         len |-> 0, st |-> "ok"]]

(* submit_bulk_transfer, submit_iso_transfer, submit_control_transfer      *)
SubmitBegin(k, sp, n) ==
    /\ phase = "idle" /\ lock = "free" /\ rounds > 0
    /\ k = "iso" => n > 0
    /\ k \in {"iso", "control"} => sp = "whole"
    /\ kind' = k /\ split' = sp /\ length' = n /\ rounds' = rounds - 1
    /\ phase' = "submitting" /\ lock' = "submit" /\ next' = 1
    /\ status' = "none" /\ cancelling' = FALSE
    /\ urbs' = AllUrbs(BlockLength(k, sp, n), n)
    /\ retired' = 0 /\ action' = "NORMAL" /\ reapStatus' = "COMPLETED"
    /\ transferred' = 0 /\ offset' = 0
    /\ sent' = 0 /\ buffer' = [i \in 1..n |-> 0] /\ short' = FALSE /\ broken' = FALSE
    /\ UNCHANGED <<kernel, done, reaped, disc>>

SubmitUrb ==
    /\ lock = "submit" /\ disc.i = 0 /\ next \in 1..NumUrbs
    /\ plugged /\ ~ (Continued /\ next > 1 /\ (short \/ broken))
    /\ urbs' = [urbs EXCEPT ![next].at = "kernel"]
    /\ next' = next + 1
    /\ UNCHANGED <<kernel, request, phase, status, cancelling, private, done, device,
                   lock, reaped, disc>>

SubmitEnd ==
    /\ lock = "submit" /\ disc.i = 0 /\ next > NumUrbs
    /\ phase' = "pending" /\ lock' = "free" /\ next' = 0 /\ disc' = NoDiscard
    /\ UNCHANGED <<kernel, request, status, cancelling, urbs, private, done, device,
                   reaped>>

(* Nothing was submitted: free and fail.                                   *)
FirstUrbFails ==
    /\ lock = "submit" /\ disc.i = 0 /\ next = 1
    /\ phase' = "idle" /\ lock' = "free" /\ next' = 0 /\ urbs' = <<>>
    /\ UNCHANGED <<kernel, request, status, cancelling, private, done, device, reaped, disc>>

NotSubmitted == NumUrbs - next + 1

(* The requests not submitted count as retired; the ones that were must    *)
(* be discarded, unless the transfer just did not need any more.           *)
LaterUrbFails ==
    LET early == kind # "iso" /\ Continued /\ plugged /\ (short \/ broken) IN
    /\ lock = "submit" /\ disc.i = 0 /\ next \in 2..NumUrbs
    /\ action' = IF early THEN "COMPLETED_EARLY" ELSE "SUBMIT_FAILED"
    /\ retired' = IF kind = "iso" THEN NotSubmitted ELSE retired + NotSubmitted
    /\ disc' = IF early THEN disc
               ELSE [i |-> next - 1, first |-> 1, last |-> next - 1, ret |-> "ok"]
    /\ next' = NumUrbs + 1
    /\ UNCHANGED <<kernel, request, phase, status, cancelling, urbs, reapStatus,
                   transferred, offset, done, device, lock, reaped>>

---------------------------------------------------------------------------
(* discard_urbs, in reverse order of submission, one ioctl at a time.      *)

DiscardUrb ==
    LET u == disc.i IN
    /\ u > 0
    /\ disc' = [disc EXCEPT !.i = IF u > disc.first THEN u - 1 ELSE 0,
                            !.ret = IF ~ plugged THEN "NO_DEVICE"
                                    ELSE IF u \notin Pending /\ u = disc.last
                                    THEN "NOT_FOUND" ELSE @]
    /\ IF plugged /\ u \in Pending
       THEN /\ urbs' = [urbs EXCEPT ![u].at = "done", ![u].st = "killed"]
            /\ done' = Append(done, u)
       ELSE UNCHANGED <<urbs, done>>
    /\ UNCHANGED <<kernel, request, phase, status, cancelling, private, device, lock,
                   next, reaped>>

(* libusb_cancel_transfer and op_cancel_transfer                           *)
CancelBegin ==
    /\ phase = "pending" /\ ~ cancelling /\ lock \in {"free", "report"}
    /\ cancelling' = TRUE
    /\ IF urbs = <<>>
       THEN UNCHANGED <<lock, disc>>
       ELSE /\ lock' = "cancel"
            /\ disc' = [i |-> NumUrbs, first |-> 1, last |-> NumUrbs, ret |-> "ok"]
    /\ UNCHANGED <<kernel, request, phase, status, urbs, private, done, device, next, reaped>>

(* An error that was seen first is what a bulk transfer is reported with.  *)
ActionCancelled == IF kind = "bulk" /\ action = "ERROR" THEN action ELSE "CANCELLED"

CancelEnd ==
    /\ lock = "cancel" /\ disc.i = 0
    /\ action' = IF disc.ret = "ok" THEN ActionCancelled ELSE action
    /\ lock' = "free" /\ disc' = NoDiscard
    /\ UNCHANGED <<kernel, request, phase, status, cancelling, urbs, retired, reapStatus,
                   transferred, offset, done, device, next, reaped>>

---------------------------------------------------------------------------
(* reap_for_handle: the request leaves the kernel, then the lock is taken. *)

Reap ==
    /\ reaped = 0 /\ lock \notin {"handler", "report"} /\ done # <<>> /\ ~ removed
    /\ plugged \/ reapAfter
    /\ reaped' = Head(done) /\ done' = Tail(done)
    /\ urbs' = [urbs EXCEPT ![Head(done)].at = "reaped"]
    /\ UNCHANGED <<kernel, request, phase, status, cancelling, private, device,
                   lock, next, disc>>

(* Mutant: later parts are left where they were received.                  *)
NotMoved(u, to) == buffer

(* Where the bytes of request u are put once it is reaped: a later part of *)
(* an interrupted transfer is moved to the end of what came before.        *)
Moved(u, to) == [i \in DOMAIN buffer |->
                    IF i \in to + 1..to + urbs[u].len
                    THEN buffer[urbs[u].start + i - to] ELSE buffer[i]]

IsoResults(u) == [i \in DOMAIN buffer |->
                    IF i \in offset + 1..offset + urbs[u].size
                    THEN urbs[u].start + i - offset ELSE buffer[i]]

(* Mutant: the transfer is over one request too early.                     *)
LastRetired == retired + 2 >= NumUrbs

AllRetired == retired + 1 = NumUrbs

(* The three ends of handling a request: wait for more, discard what is    *)
(* left, or report the transfer.                                           *)
WaitForMore == lock' = "free" /\ UNCHANGED <<urbs, disc>>

(* Mutant: the request after the failed one is not discarded.              *)
RemainingButOne(u) == IF u = NumUrbs THEN WaitForMore
                ELSE /\ lock' = "handler" /\ UNCHANGED urbs
                     /\ disc' = [i |-> NumUrbs, first |-> u + 2, last |-> NumUrbs,
                                 ret |-> "ok"]

Remaining(u) == IF u = NumUrbs THEN WaitForMore
                ELSE /\ lock' = "handler" /\ UNCHANGED urbs
                     /\ disc' = [i |-> NumUrbs, first |-> u + 1, last |-> NumUrbs,
                                 ret |-> "ok"]

Completed == lock' = "report" /\ urbs' = <<>> /\ UNCHANGED disc

(* handle_bulk_completion, for a transfer that is cancelled or over.       *)
BulkAbnormal(u) ==
    /\ action # "NORMAL"
    /\ buffer' = Moved(u, transferred)
    /\ reapStatus' = IF AllRetired /\ action # "COMPLETED_EARLY" /\ reapStatus = "COMPLETED"
                     THEN "ERROR" ELSE reapStatus
    /\ IF AllRetired THEN Completed ELSE WaitForMore
    /\ UNCHANGED action

(* Mutant: a stall is not remembered.                                      *)
FailureForgotten(st) == IF st = "shutdown" THEN "NO_DEVICE" ELSE reapStatus

(* The first request of a transfer that fails decides its status.          *)
FirstFailure(st) ==
    CASE st = "shutdown"                             -> "NO_DEVICE"
      [] st = "stall"    /\ reapStatus = "COMPLETED" -> "STALL"
      [] st = "overflow" /\ reapStatus = "COMPLETED" -> "OVERFLOW"
      [] st = "error"    /\ reapStatus = "COMPLETED" -> "ERROR"
      [] OTHER                                       -> reapStatus

BulkNormal(u) ==
    LET st    == urbs[u].st
        fails == st \in {"shutdown", "stall", "error"}
        ended == ~ fails /\ urbs[u].len < urbs[u].size IN
    /\ action = "NORMAL"
    /\ reapStatus' = FirstFailure(st)
    /\ action' = CASE st = "error" -> "ERROR"
                   [] ended /\ ~ AllRetired /\ st # "overflow" -> "COMPLETED_EARLY"
                   [] OTHER -> action
    /\ CASE AllRetired \/ st = "overflow" -> Completed
         [] ~ AllRetired /\ (fails \/ ended) /\ st # "overflow" -> Remaining(u)
         [] OTHER -> WaitForMore
    /\ UNCHANGED buffer

HandleBulk(u) ==
    /\ kind \in {"bulk", "interrupt"}
    /\ transferred' = transferred + urbs[u].len
    /\ UNCHANGED offset
    /\ BulkAbnormal(u) \/ BulkNormal(u)

(* handle_iso_completion: the results of the packets are copied in the     *)
(* order in which the requests are reaped.                                 *)
HandleIso(u) ==
    /\ kind = "iso"
    /\ buffer' = IsoResults(u)
    /\ offset' = offset + urbs[u].size
    /\ reapStatus' = IF action \notin {"NORMAL", "CANCELLED"} THEN "ERROR"
                     ELSE CASE urbs[u].st \in {"ok", "killed"} -> "COMPLETED"
                            [] urbs[u].st = "shutdown"         -> "NO_DEVICE"
                            [] OTHER                           -> "ERROR"
    /\ IF AllRetired THEN Completed ELSE WaitForMore
    /\ UNCHANGED <<action, transferred>>

(* handle_control_completion                                               *)
HandleControl(u) ==
    /\ kind = "control"
    /\ transferred' = transferred + urbs[u].len
    /\ reapStatus' = IF urbs[u].st = "killed" THEN "CANCELLED" ELSE FirstFailure(urbs[u].st)
    /\ Completed
    /\ UNCHANGED <<action, offset, buffer>>

HandleUrb ==
    /\ reaped > 0 /\ lock = "free"
    /\ HandleBulk(reaped) \/ HandleIso(reaped) \/ HandleControl(reaped)
    /\ retired' = IF kind = "control" THEN retired ELSE retired + 1
    /\ reaped' = 0
    /\ UNCHANGED <<kernel, request, phase, status, cancelling, done, sent, short, broken, next>>

HandlerDiscarded ==
    /\ lock = "handler" /\ disc.i = 0
    /\ lock' = "free" /\ disc' = NoDiscard
    /\ UNCHANGED <<kernel, request, phase, status, cancelling, urbs, private, done, device,
                   next, reaped>>

(* usbi_handle_transfer_cancellation or usbi_handle_transfer_completion    *)
Report ==
    /\ lock = "report"
    /\ phase' = "finished" /\ lock' = "free"
    /\ status' = IF action = "CANCELLED" THEN "CANCELLED" ELSE reapStatus
    /\ UNCHANGED <<kernel, request, cancelling, urbs, private, done, device, next, reaped, disc>>

InFlight == phase = "pending"

(* op_handle_events on a vanished device, when all that can be reaped has  *)
(* been: usbi_handle_disconnect finishes the transfer if it is in flight.  *)
Disconnect ==
    /\ ~ plugged /\ ~ removed /\ reaped = 0 /\ lock = "free"
    /\ reapAfter => done = <<>>
    /\ removed' = TRUE /\ done' = <<>>
    /\ IF InFlight
       THEN phase' = "finished" /\ status' = "NO_DEVICE" /\ urbs' = <<>>
       ELSE UNCHANGED <<phase, status, urbs>>
    /\ UNCHANGED <<plugged, reapAfter, request, cancelling, private, device, lock, next,
                   reaped, disc>>

(* The owner looks at the transfer and may submit it again.                *)
Take == /\ phase = "finished" /\ phase' = "idle" /\ status' = "none" /\ cancelling' = FALSE
        /\ UNCHANGED <<kernel, request, urbs, private, done, device, lock, next, reaped, disc>>

---------------------------------------------------------------------------
(* The device and the kernel.                                              *)

Current == CHOOSE u \in Pending : \A v \in Pending : u <= v
Stalled == \E u \in DOMAIN urbs : urbs[u].st = "stall"

(* A byte arrives for the oldest request; for isochronous transfers and    *)
(* for an empty request there is none to wait for.                         *)
Deliver ==
    /\ Pending # {} /\ plugged /\ ~ Stalled
    /\ LET u == Current IN
       /\ kind # "iso" /\ urbs[u].len < urbs[u].size
       /\ sent' = sent + 1
       /\ buffer' = [buffer EXCEPT ![urbs[u].start + urbs[u].len + 1] = sent + 1]
       /\ urbs' = [urbs EXCEPT ![u].len = @ + 1]
    /\ UNCHANGED <<kernel, request, phase, status, cancelling, private, done, short, broken,
                   lock, next, reaped, disc>>

(* The sequences that list each request of S once.                         *)
Listings(S)   == {q \in [1..Cardinality(S) -> S] : {q[i] : i \in DOMAIN q} = S}
Ascending(q)  == \A i, j \in DOMAIN q : i < j => q[i] < q[j]
Descending(q) == \A i, j \in DOMAIN q : i < j => q[i] > q[j]

(* Requests that continue one that ended early are killed with it.         *)
Ends(u, st, early) ==
    LET killed == IF Continued /\ early THEN Pending \ {u} ELSE {} IN
    /\ urbs' = [v \in DOMAIN urbs |->
                  IF v = u THEN [urbs[v] EXCEPT !.at = "done", !.st = st]
                  ELSE IF v \in killed THEN [urbs[v] EXCEPT !.at = "done", !.st = "killed"]
                  ELSE urbs[v]]
    /\ \E q \in Listings(killed) : Ascending(q) /\ done' = done \o <<u>> \o q
    /\ UNCHANGED <<kernel, request, phase, status, cancelling, private, sent, buffer,
                   lock, next, reaped, disc>>

(* A request is full, or the device ends it with a short packet.           *)
UrbEnds ==
    /\ Pending # {} /\ plugged /\ ~ Stalled
    /\ LET u == Current
           early == kind # "iso" /\ urbs[u].len < urbs[u].size IN
       /\ Ends(u, "ok", early)
       /\ short' = (short \/ early)
    /\ UNCHANGED broken

(* A stalled endpoint serves nothing until it is cleared; an overflow only *)
(* occurs in the last request (the other ones are whole packets).          *)
UrbFails ==
    /\ Pending # {} /\ plugged /\ ~ broken
    /\ \E st \in {"stall", "error", "overflow"} :
          /\ st = "overflow" => Current = NumUrbs
          /\ kind = "iso" => st = "error"
          /\ Ends(Current, st, TRUE)
    /\ broken' = TRUE
    /\ UNCHANGED short

(* The device vanishes: what is pending is over, in either order.          *)
Unplug ==
    /\ plugged /\ plugged' = FALSE
    /\ urbs' = [v \in DOMAIN urbs |-> IF v \in Pending
                   THEN [urbs[v] EXCEPT !.at = "done", !.st = "shutdown"] ELSE urbs[v]]
    /\ \E q \in Listings(Pending) : /\ Ascending(q) \/ Descending(q)
                                    /\ done' = done \o q
    /\ UNCHANGED <<reapAfter, removed, request, phase, status, cancelling, private, device,
                   lock, next, reaped, disc>>

---------------------------------------------------------------------------
Over == phase = "idle" /\ rounds = 0 /\ UNCHANGED vars

SubmitStep  == \/ SubmitUrb \/ SubmitEnd \/ FirstUrbFails \/ LaterUrbFails
               \/ lock = "submit" /\ DiscardUrb
CancelStep  == CancelEnd \/ (lock = "cancel" /\ DiscardUrb)
HandlerStep == \/ Reap \/ HandleUrb \/ HandlerDiscarded \/ Report \/ Disconnect
               \/ lock = "handler" /\ DiscardUrb
WorldStep   == Deliver \/ UrbEnds \/ UrbFails \/ Unplug

Next == \/ \E k \in Kinds, sp \in Splits, n \in 0..MaxLength : SubmitBegin(k, sp, n)
        \/ CancelBegin \/ Take
        \/ SubmitStep \/ CancelStep \/ HandlerStep \/ WorldStep
        \/ Over

(* The three threads run; the device need not answer.                      *)
Fairness == WF_vars(SubmitStep) /\ WF_vars(CancelStep) /\ WF_vars(HandlerStep)

Spec == Init /\ [][Next]_vars /\ Fairness

---------------------------------------------------------------------------
(* The requests are freed only when the kernel will not use them again and *)
(* none is still to be reaped: it is over, or its descriptor is.           *)
FreedWhenOver ==
    [][urbs # <<>> /\ urbs' = <<>> /\ ~ removed' =>
          \A u \in DOMAIN urbs : urbs[u].at \in {"none", "reaped"}]_vars

(* Every byte the device sent is in the buffer, in order and without a     *)
(* hole, and is counted, however the transfer ended (unless the kernel     *)
(* does not hand out the requests of a vanished device).                   *)
NoDataLost ==
    phase = "finished" /\ kind \in {"bulk", "interrupt"}
                       /\ (status = "NO_DEVICE" => reapAfter) =>
        transferred = sent /\ \A i \in 1..sent : buffer[i] = i

(* A transfer is completed when all of it was transferred or the device    *)
(* ended it, never because of an error.  Two races are left out, in which  *)
(* the code does report a failed transfer as completed: the device         *)
(* vanishes while the transfer is being cancelled, and a request fails     *)
(* while the ones that continue it are still being submitted (the kernel   *)
(* then refuses them, which is taken for the end of a short transfer).     *)
CompletedMeansComplete ==
    phase = "finished" /\ status = "COMPLETED"
        /\ (plugged \/ ~ cancelling) /\ ~ (Continued /\ action = "COMPLETED_EARLY") =>
    IF kind = "iso" THEN \A i \in DOMAIN buffer : buffer[i] = i
    ELSE short \/ (transferred = length /\ ~ broken)

(* A transfer that is cancelled, that could not be submitted as a whole,   *)
(* that failed, or whose device is gone, is reported.                      *)
EndsWhenOver ==
    phase = "pending" /\ (cancelling \/ ~ plugged \/ action # "NORMAL") ~> phase = "finished"
=============================================================================
