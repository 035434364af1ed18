------------------------------- MODULE UsbIo -------------------------------
(***************************************************************************)
(* libusb's asynchronous I/O and event handling (io.c), the synchronous    *)
(* calls built on it (sync.c), the internal event pipe (events_posix.c)    *)
(* and libusb_close (core.c).                                              *)
(*                                                                         *)
(* Each thread of Callers makes synchronous transfers on one device        *)
(* handle; the thread owns one transfer, named after it.  Closer calls     *)
(* libusb_close on the handle.  A thread runs until the next lock it needs *)
(* or the next shared word it reads: each such stretch is one action, and  *)
(* a critical section under event_data_lock, which never waits for another *)
(* lock, is part of one.                                                   *)
(*                                                                         *)
(* backend = "poll": completions are reaped by the event handler when the  *)
(* handle's file descriptor is ready (linux_usbfs.c).  backend = "signal": *)
(* a thread of the backend queues them with usbi_signal_transfer_completion*)
(* (darwin_usb.c, windows_common.c).                                       *)
(***************************************************************************)
EXTENDS Integers, Sequences, FiniteSets, SequencesExt

CONSTANTS Callers,   \* threads that make synchronous transfers
          Closer,    \* the thread that closes the handle
          None,      \* no thread
          Timeout,   \* [Callers -> Nat]: the timeout of each caller's transfers, 0 = none
          Rounds,    \* how many transfers each caller makes
          Upsets,    \* how many upsets: the device unplugged, a call cancelled,
                     \* event handling interrupted by a signal or by the user
          MaxTime    \* bound on the clock

ASSUME ThreadsAssumption == Closer \notin Callers /\ None \notin Callers \union {Closer}
ASSUME BoundsAssumption == /\ Timeout \in [Callers -> Nat]
                           /\ {Rounds, Upsets, MaxTime} \subseteq Nat

Threads == Callers \union {Closer}
Never   == MaxTime + 1    \* an unset timeout

Flags == {"sources", "interrupt", "completed", "close"}

VARIABLES
  clock, unplugged, backend, upsets,      \* the world
  eventFlags, pipe, deviceClose,                      \* under event_data_lock
  source, removed, eventData,                         \* the handle's descriptor in the lists
  eventsLock, handlerActive, waitersLock, flyingLock, openDevsLock, lock,
  flying, completedTransfers, open,                   \* lists of the context
  xfer,                                               \* struct usbi_transfer, by owner
  th                                                  \* what each thread is doing

world  == <<clock, unplugged, backend, upsets>>
events == <<eventFlags, pipe, deviceClose>>
srcs   == <<source, removed, eventData>>
locks  == <<eventsLock, handlerActive, waitersLock, flyingLock, openDevsLock, lock>>
lists  == <<flying, completedTransfers, open>>
vars   == <<world, events, srcs, locks, lists, xfer, th>>

(* A transfer that is not allocated; urb is its request in the kernel.     *)
NoTransfer == [alive |-> FALSE, flight |-> FALSE, cancelling |-> FALSE, asked |-> FALSE,
               gone |-> FALSE, handled |-> FALSE, timedOut |-> FALSE, due |-> Never,
               handle |-> FALSE, status |-> "none", done |-> FALSE,
               urb |-> "none", queued |-> FALSE]

Resting == [pc |-> "idle", ret |-> "idle", until |-> Never, x |-> None, st |-> "none",
            ready |-> "no", batch |-> <<>>, err |-> "ok", left |-> Rounds]

Upset == upsets < Upsets /\ upsets' = upsets + 1

At(t, l)   == th[t].pc = l
Goto(t, l) == th' = [th EXCEPT ![t].pc = l]

---------------------------------------------------------------------------
(* usbi_io_init leaves the event pipe as a source, so the flag is raised   *)
(* and the pipe holds one signal; the handle is open and is a source too.  *)
Init == /\ clock = 0 /\ unplugged = FALSE /\ upsets = 0
        /\ backend \in {"poll", "signal"}
        /\ eventFlags = {"sources"} /\ pipe = 1 /\ deviceClose = 0
        /\ source = (backend = "poll") /\ removed = FALSE /\ eventData = FALSE
        /\ eventsLock = None /\ handlerActive = FALSE /\ waitersLock = None
        /\ flyingLock = None /\ openDevsLock = None
        /\ lock = [x \in Callers |-> None]
        /\ flying = <<>> /\ completedTransfers = <<>> /\ open = TRUE
        /\ xfer = [x \in Callers |-> NoTransfer]
        /\ th = [t \in Threads |-> Resting]

(* Mutant: it signals whether or not an event was pending.                 *)
RaiseAlways(f) == /\ eventFlags' = eventFlags \union {f}
            /\ pipe' = pipe + 1

(* Record an event and signal the pipe if none was pending.                *)
Raise(f) == /\ eventFlags' = eventFlags \union {f}
            /\ pipe' = IF eventFlags = {} THEN pipe + 1 ELSE pipe

(* usbi_clear_event: reading an empty pipe would block the reader.         *)
ClearEvent == pipe > 0 /\ pipe' = pipe - 1

(* usbi_remove_event_source: the handler is told that the sources changed. *)
RemoveSource == source' = FALSE /\ removed' = TRUE /\ Raise("sources")

(* usbi_alloc_event_data: the handler takes over the sources there are.    *)
AllocEventData == eventData' = source /\ removed' = FALSE /\ UNCHANGED source

(* Events were dealt with; the pipe is emptied when none is left.          *)
Lower(left) == /\ eventFlags' = left
               /\ IF left = {} THEN ClearEvent ELSE pipe' = pipe

---------------------------------------------------------------------------
(* The list of flying transfers, sorted by deadline.                       *)

First(I) == CHOOSE i \in I : \A j \in I : i <= j

(* Mutant: new transfers go last, whatever their deadline.                 *)
AppendToFlyingList(x, due) == Append(flying, x)

AddToFlyingList(x, due) ==
    LET later == {i \in DOMAIN flying : xfer[flying[i]].due > due}
    IN  InsertAt(flying, IF later = {} THEN Len(flying) + 1 ELSE First(later), x)

(* Mutant: the transfer stays on the list.                                 *)
KeepOnFlyingList(x) == flying' = flying

RemoveFromFlyingList(x) ==
    \E i \in DOMAIN flying : flying[i] = x /\ flying' = RemoveAt(flying, i)

(* The first transfer whose timeout is still to be handled, if it has one. *)
NextTimeout ==
    LET unhandled == {i \in DOMAIN flying : ~ xfer[flying[i]].handled}
    IN  IF unhandled = {} \/ xfer[flying[First(unhandled)]].due = Never THEN None
        ELSE flying[First(unhandled)]

(* libusb_submit_transfer: on the list first, then to the backend.         *)
Submit(t) ==
    LET due == IF Timeout[t] = 0 THEN Never ELSE clock + Timeout[t]
    IN  /\ At(t, "idle") /\ th[t].left > 0
        /\ open /\ At(Closer, "idle")
        /\ Timeout[t] # 0 => due <= MaxTime
        /\ flyingLock = None /\ lock[t] = None
        /\ lock' = [lock EXCEPT ![t] = t]
        /\ xfer' = [xfer EXCEPT ![t] = [NoTransfer EXCEPT
                        !.alive = TRUE, !.handle = TRUE, !.due = due]]
        /\ flying' = AddToFlyingList(t, due)
        /\ th' = [th EXCEPT ![t].pc = "submit", ![t].left = @ - 1, ![t].err = "ok"]
        /\ UNCHANGED <<world, events, srcs, eventsLock, handlerActive, waitersLock,
                       flyingLock, openDevsLock, completedTransfers, open>>

SubmitAccepted(t) ==
    /\ At(t, "submit") /\ ~ unplugged
    /\ xfer' = [xfer EXCEPT ![t].flight = TRUE, ![t].urb = "submitted"]
    /\ lock' = [lock EXCEPT ![t] = None]
    /\ Goto(t, "wait")
    /\ UNCHANGED <<world, events, srcs, eventsLock, handlerActive, waitersLock,
                   flyingLock, openDevsLock, lists>>

SubmitRejected(t) ==
    /\ At(t, "submit")
    /\ lock' = [lock EXCEPT ![t] = None]
    /\ Goto(t, "unlist")
    /\ UNCHANGED <<world, events, srcs, eventsLock, handlerActive, waitersLock,
                   flyingLock, openDevsLock, lists, xfer>>

(* The lock of the transfer is released before the list's is taken again.  *)
SubmitFailed(t) ==
    /\ At(t, "unlist") /\ flyingLock = None
    /\ RemoveFromFlyingList(t)
    /\ xfer' = [xfer EXCEPT ![t] = NoTransfer]
    /\ Goto(t, "idle")
    /\ UNCHANGED <<world, events, srcs, locks, completedTransfers, open>>

---------------------------------------------------------------------------
(* libusb_cancel_transfer, under the lock of the transfer.                 *)

CancelFinds(x) == xfer[x].flight /\ ~ xfer[x].cancelling

CancelSucceeds(x) == CancelFinds(x) /\ ~ unplugged /\ xfer[x].urb = "submitted"

Cancelled(x) ==
    IF ~ CancelFinds(x) THEN xfer[x]
    ELSE [xfer[x] EXCEPT !.cancelling = TRUE,
                         !.gone = @ \/ unplugged,
                         !.urb = IF CancelSucceeds(x) THEN "killed" ELSE @]

(* The owner cancels: an application that does not wait, or the waiting    *)
(* loop after event handling failed.                                       *)
Cancel(t) ==
    /\ \/ At(t, "wait") /\ ~ xfer[t].done /\ Upset
       \/ At(t, "cancel") /\ UNCHANGED upsets
    /\ lock[t] = None /\ xfer[t].handle
    /\ xfer' = [xfer EXCEPT ![t] = [Cancelled(t) EXCEPT !.asked = TRUE]]
    /\ Goto(t, "wait")
    /\ UNCHANGED <<clock, unplugged, backend, events, srcs, locks, lists>>

---------------------------------------------------------------------------
(* handle_timeouts: every expired transfer of the list is cancelled.       *)

Expired(now) == NextTimeout # None /\ xfer[NextTimeout].due <= now

(* The lock of the list is held from the first transfer to the last: a     *)
(* cancelled transfer cannot be reported before it is marked timed out.    *)
HandleTimeout(t) ==
    LET x   == NextTimeout
        now == IF At(t, "expire") THEN clock ELSE th[t].until IN
    /\ \/ At(t, "expire") /\ flyingLock = None
       \/ At(t, "expiring") /\ flyingLock = t
    /\ Expired(now)
    /\ lock[x] = None
    /\ flyingLock' = t
    /\ xfer' = [xfer EXCEPT ![x] = [Cancelled(x) EXCEPT !.handled = TRUE]]
    /\ th' = [th EXCEPT ![t].pc = IF CancelSucceeds(x) THEN "timedout" ELSE "expiring",
                        ![t].x = x, ![t].until = now]
    /\ UNCHANGED <<world, events, srcs, eventsLock, handlerActive, waitersLock,
                   openDevsLock, lock, lists>>

MarkTimedOut(t) ==
    /\ At(t, "timedout")
    /\ xfer' = [xfer EXCEPT ![th[t].x].timedOut = TRUE]
    /\ Goto(t, "expiring")
    /\ UNCHANGED <<world, events, srcs, locks, lists>>

TimeoutsHandled(t) ==
    /\ \/ At(t, "expire") /\ flyingLock = None /\ ~ Expired(clock)
       \/ At(t, "expiring") /\ ~ Expired(th[t].until)
    /\ flyingLock' = None
    /\ th' = [th EXCEPT ![t].pc = th[t].ret, ![t].until = Never, ![t].x = None]
    /\ UNCHANGED <<world, events, srcs, eventsLock, handlerActive, waitersLock,
                   openDevsLock, lock, lists, xfer>>

---------------------------------------------------------------------------
(* sync_transfer_wait_for_completion and                                   *)
(* libusb_handle_events_timeout_completed.                                 *)

(* The transfer is done: the caller takes its status and frees it.         *)
Return(t) ==
    /\ At(t, "wait") /\ xfer[t].done
    /\ xfer' = [xfer EXCEPT ![t] = NoTransfer]
    /\ Goto(t, "idle")
    /\ UNCHANGED <<world, events, srcs, locks, lists>>

(* libusb_get_next_timeout bounds how long the thread will wait.           *)
GetNextTimeout(t) ==
    /\ At(t, "wait") /\ ~ xfer[t].done
    /\ flyingLock = None
    /\ LET due == IF NextTimeout = None THEN Never ELSE xfer[NextTimeout].due IN
       th' = [th EXCEPT ![t].pc = IF due <= clock THEN "expire" ELSE "try",
                        ![t].ret = "after", ![t].until = due, ![t].err = "ok"]
    /\ UNCHANGED <<world, events, srcs, locks, lists, xfer>>

(* Mutant: a device that is being closed does not matter.                  *)
TryEventsAnyway(t) ==
    /\ At(t, "try")
    /\ Goto(t, "trylock")
    /\ UNCHANGED <<world, events, srcs, locks, lists, xfer>>

(* libusb_try_lock_events: first whether a device is being closed ...      *)
TryEvents(t) ==
    /\ At(t, "try")
    /\ Goto(t, IF deviceClose > 0 THEN "waiters" ELSE "trylock")
    /\ UNCHANGED <<world, events, srcs, locks, lists, xfer>>

(* ... then whether another thread handles events.                         *)
TryLockEvents(t) ==
    /\ At(t, "trylock")
    /\ IF eventsLock = None
       THEN /\ eventsLock' = t /\ handlerActive' = TRUE
            /\ Goto(t, "handle")
       ELSE /\ Goto(t, "waiters")
            /\ UNCHANGED <<eventsLock, handlerActive>>
    /\ UNCHANGED <<world, events, srcs, waitersLock, flyingLock, openDevsLock, lock,
                   lists, xfer>>

LockWaiters(t) ==
    /\ At(t, "waiters") /\ waitersLock = None
    /\ IF xfer[t].done
       THEN Goto(t, "after") /\ UNCHANGED waitersLock
       ELSE Goto(t, "active") /\ waitersLock' = t
    /\ UNCHANGED <<world, events, srcs, eventsLock, handlerActive, flyingLock,
                   openDevsLock, lock, lists, xfer>>

(* Mutant: it waits without asking whether anyone still handles events.    *)
HandlerActiveAnyway(t) ==
    /\ At(t, "active")
    /\ Goto(t, "sleep")
    /\ waitersLock' = None
    /\ UNCHANGED <<world, events, srcs, eventsLock, handlerActive, flyingLock,
                   openDevsLock, lock, lists, xfer>>

(* libusb_event_handler_active, where a closing device counts as a handler.*)
(* If nobody handles events any more, try again; else wait.                *)
HandlerActive(t) ==
    /\ At(t, "active")
    /\ Goto(t, IF deviceClose > 0 \/ handlerActive THEN "sleep" ELSE "try")
    /\ waitersLock' = None
    /\ UNCHANGED <<world, events, srcs, eventsLock, handlerActive, flyingLock,
                   openDevsLock, lock, lists, xfer>>

(* A wait ends with the deadline it was given, or after the 60 s of        *)
(* libusb_handle_events_completed: much later than anything under way.     *)
WaitOver(t) ==
    \/ th[t].until <= clock
    \/ clock = MaxTime /\ \A u \in Threads : th[u].pc \in {"idle", "closed", "sleep", "poll"}

(* The condition was broadcast, or the wait timed out.                     *)
WakeUp(t) ==
    /\ waitersLock = None
    /\ \/ At(t, "woken") /\ th' = [th EXCEPT ![t].pc = "after", ![t].until = Never]
       \/ /\ At(t, "sleep") /\ WaitOver(t)
          /\ th' = [th EXCEPT ![t].pc = "expire", ![t].ret = "after"]
    /\ UNCHANGED <<world, events, srcs, locks, lists, xfer>>

(* Back in the waiting loop: an error cancels the transfer, a closed       *)
(* handle ends the wait.                                                   *)
AfterEvents(t) ==
    /\ At(t, "after")
    /\ Goto(t, IF th[t].err = "failed" /\ xfer[t].handle THEN "cancel" ELSE "wait")
    /\ xfer' = IF th[t].err = "ok" /\ ~ xfer[t].handle
               THEN [xfer EXCEPT ![t].status = "NO_DEVICE", ![t].done = TRUE] ELSE xfer
    /\ UNCHANGED <<world, events, srcs, locks, lists>>

---------------------------------------------------------------------------
(* handle_events, by the thread that holds the events lock.                *)

(* The sources changed: the handler waits on the new ones.                 *)
HandleEvents(t) ==
    /\ At(t, "handle")
    /\ IF xfer[t].done THEN Goto(t, "unlock") /\ UNCHANGED <<events, srcs>>
       ELSE /\ Goto(t, "poll")
            /\ UNCHANGED deviceClose
            /\ IF "sources" \in eventFlags
               THEN /\ AllocEventData
                    /\ Lower(eventFlags \ {"sources"})
               ELSE UNCHANGED <<srcs, eventFlags, pipe>>
    /\ UNCHANGED <<world, locks, lists, xfer>>

(* Requests the kernel has finished with and hands out.                    *)
Reapable == {x \in Callers : xfer[x].urb \in {"finished", "killed", "shutdown"}}

DescriptorReady ==
    IF ~ eventData \/ removed \/ backend # "poll" THEN "no"
    ELSE IF unplugged THEN "error" ELSE IF Reapable # {} THEN "reap" ELSE "no"

(* usbi_wait_for_events: an event, a deadline or a signal ends the wait.   *)
Poll(t) ==
    /\ At(t, "poll")
    /\ \/ /\ pipe > 0 \/ DescriptorReady # "no"
          /\ th' = [th EXCEPT ![t].pc = IF pipe > 0 THEN "trigger" ELSE "reap",
                              ![t].ready = DescriptorReady, ![t].until = Never]
       \/ /\ pipe = 0 /\ DescriptorReady = "no" /\ WaitOver(t)
          /\ th' = [th EXCEPT ![t].pc = "expire", ![t].ret = "unlock"]
    /\ UNCHANGED <<world, events, srcs, locks, lists, xfer>>

PollInterrupted(t) ==
    /\ At(t, "poll")
    /\ Upset
    /\ th' = [th EXCEPT ![t].pc = "unlock", ![t].err = "interrupted", ![t].until = Never]
    /\ UNCHANGED <<clock, unplugged, backend, events, srcs, locks, lists, xfer>>

AfterTrigger(t) == IF th[t].ready = "no" THEN "unlock" ELSE "reap"

(* handle_event_trigger: completed transfers are taken off their list and  *)
(* completed without event_data_lock.                                      *)
HandleEventTrigger(t) ==
    LET left == eventFlags \ {"interrupt"} IN
    /\ At(t, "trigger")
    /\ IF "completed" \in left
       THEN /\ th' = [th EXCEPT ![t].pc = "batch", ![t].batch = completedTransfers]
            /\ completedTransfers' = <<>>
            /\ eventFlags' = left /\ UNCHANGED pipe
       ELSE /\ Goto(t, AfterTrigger(t))
            /\ Lower(left) /\ UNCHANGED completedTransfers
    /\ UNCHANGED <<world, deviceClose, srcs, locks, flying, open, xfer>>

(* The status the backend derives from a request the kernel is done with.  *)
CompletionOf(x) == IF xfer[x].urb = "finished" THEN "COMPLETED"
                   ELSE IF xfer[x].urb = "shutdown" THEN "NO_DEVICE" ELSE "CANCELLED"

(* The thread starts completing x and will go on with ret.                 *)
StartCompletion(t, x, st, ret, batch) ==
    th' = [th EXCEPT ![t].pc = IF st = "CANCELLED" THEN "cancelled" ELSE "complete",
                     ![t].x = x, ![t].st = st, ![t].ret = ret, ![t].batch = batch]

(* The last completion may report an error: re-arming a timer failed.      *)
CompleteNext(t) ==
    /\ At(t, "batch") /\ th[t].batch # <<>>
    /\ LET x == Head(th[t].batch) IN
       /\ lock[x] = None
       /\ \E ret \in {"batch", "batchfailed"} :
             StartCompletion(t, x, CompletionOf(x), ret, Tail(th[t].batch))
       /\ xfer' = [xfer EXCEPT ![x].urb = "none", ![x].queued = FALSE]
    /\ UNCHANGED <<world, events, srcs, locks, lists>>

CompletionsEnd(t) ==
    LET left == completedTransfers = <<>> /\ th[t].batch = <<>> IN
    /\ \/ At(t, "batch") /\ th[t].batch = <<>>
       \/ At(t, "batchfailed")
    /\ completedTransfers' = th[t].batch \o completedTransfers
    /\ Lower(IF left THEN eventFlags \ {"completed"} ELSE eventFlags)
    /\ th' = [th EXCEPT ![t].pc = IF At(t, "batch") THEN AfterTrigger(t) ELSE "unlock",
                        ![t].err = IF At(t, "batch") THEN "ok" ELSE "failed",
                        ![t].batch = <<>>]
    /\ UNCHANGED <<world, deviceClose, srcs, locks, flying, open, xfer>>

---------------------------------------------------------------------------
(* op_handle_events: the handle's descriptor is ready.                     *)

(* A vanished device: its descriptor leaves the sources for good; not      *)
(* every kernel lets its requests be reaped after that.                    *)
HandleDescriptor(t) ==
    /\ At(t, "reap") /\ openDevsLock = None
    /\ openDevsLock' = t
    /\ \/ Goto(t, "reaping")
       \/ th[t].ready = "error" /\ Goto(t, "disconnect")
    /\ IF th[t].ready = "error"
       THEN RemoveSource /\ UNCHANGED eventData
       ELSE UNCHANGED <<srcs, eventFlags, pipe>>
    /\ UNCHANGED <<world, deviceClose, eventsLock, handlerActive, waitersLock, flyingLock,
                   lock, lists, xfer>>

Reap(t) ==
    /\ At(t, "reaping")
    /\ \E x \in Reapable :
          /\ lock[x] = None
          /\ StartCompletion(t, x, CompletionOf(x), "reaping", <<>>)
          /\ xfer' = [xfer EXCEPT ![x].urb = "none"]
    /\ UNCHANGED <<world, events, srcs, locks, lists>>

ReapEnd(t) ==
    /\ At(t, "reaping") /\ Reapable = {}
    /\ IF th[t].ready = "error"
       THEN Goto(t, "disconnect") /\ UNCHANGED openDevsLock
       ELSE Goto(t, "unlock") /\ openDevsLock' = None
    /\ UNCHANGED <<world, events, srcs, eventsLock, handlerActive, waitersLock, flyingLock,
                   lock, lists, xfer>>

(* usbi_handle_disconnect: what is still in flight is finished here.  It   *)
(* waits for the lock of every transfer, so for a submission under way.    *)
HandleDisconnect(t) ==
    LET left == {i \in DOMAIN flying : xfer[flying[i]].handle /\ xfer[flying[i]].flight}
        x    == flying[First(left)] IN
    /\ At(t, "disconnect") /\ flyingLock = None
    /\ \A y \in Range(flying) : lock[y] = None
    /\ IF left = {}
       THEN /\ Goto(t, "unlock") /\ openDevsLock' = None /\ UNCHANGED xfer
       ELSE /\ StartCompletion(t, x, "NO_DEVICE", "disconnect", <<>>)
            /\ xfer' = [xfer EXCEPT ![x].urb = "none"]
            /\ UNCHANGED openDevsLock
    /\ UNCHANGED <<world, events, srcs, eventsLock, handlerActive, waitersLock, flyingLock,
                   lock, lists>>

(* Mutant: it looks at the timeout flag without the lock of the list.      *)
CancellationUnlocked(t) ==
    /\ At(t, "cancelled")
    /\ th' = [th EXCEPT ![t].pc = "complete",
                        ![t].st = IF xfer[th[t].x].timedOut THEN "TIMED_OUT" ELSE "CANCELLED"]
    /\ UNCHANGED <<world, events, srcs, locks, lists, xfer>>

(* usbi_handle_transfer_cancellation: was it cancelled by its timeout?     *)
HandleTransferCancellation(t) ==
    /\ At(t, "cancelled") /\ flyingLock = None
    /\ th' = [th EXCEPT ![t].pc = "complete",
                        ![t].st = IF xfer[th[t].x].timedOut THEN "TIMED_OUT" ELSE "CANCELLED"]
    /\ UNCHANGED <<world, events, srcs, locks, lists, xfer>>

(* usbi_handle_transfer_completion: off the list, no longer in flight,     *)
(* then the callback, which must be the last thing done to the transfer.   *)
LeaveFlyingList(t) ==
    /\ At(t, "complete") /\ flyingLock = None
    /\ RemoveFromFlyingList(th[t].x)
    /\ Goto(t, "callback")
    /\ UNCHANGED <<world, events, srcs, locks, completedTransfers, open, xfer>>

(* The callback, sync_transfer_cb, runs with the lock of the waiters held. *)
Callback(t) ==
    LET x == th[t].x IN
    /\ At(t, "callback") /\ lock[x] = None /\ waitersLock = None
    /\ xfer' = [xfer EXCEPT ![x].flight = FALSE, ![x].status = th[t].st, ![x].done = TRUE]
    /\ th' = [th EXCEPT ![t].pc = th[t].ret, ![t].x = None, ![t].st = "none"]
    /\ UNCHANGED <<world, events, srcs, locks, lists>>

---------------------------------------------------------------------------
(* libusb_unlock_events: the flag and the lock, then the waiters.          *)

UnlockEvents(t) ==
    /\ At(t, "unlock")
    /\ handlerActive' = FALSE /\ eventsLock' = None
    /\ Goto(t, "broadcast")
    /\ UNCHANGED <<world, events, srcs, waitersLock, flyingLock, openDevsLock, lock,
                   lists, xfer>>

Broadcast(t) ==
    /\ At(t, "broadcast") /\ waitersLock = None
    /\ th' = [u \in Threads |->
                 IF u = t THEN [Resting EXCEPT !.pc = IF t = Closer THEN "closed" ELSE "after",
                                               !.err = th[t].err, !.left = th[t].left]
                 ELSE IF At(u, "sleep") THEN [th[u] EXCEPT !.pc = "woken", !.until = Never]
                 ELSE th[u]]
    /\ UNCHANGED <<world, events, srcs, locks, lists, xfer>>

---------------------------------------------------------------------------
(* libusb_close by a thread that is not handling events.  An application   *)
(* does not close a handle it is submitting to; with a signalling backend  *)
(* it also waits for its transfers first.                                  *)

CloseBegin ==
    /\ At(Closer, "idle") /\ open
    /\ \A t \in Callers : ~ At(t, "submit") /\ ~ At(t, "unlist")
    /\ backend = "signal" => \A x \in Callers : ~ xfer[x].alive
    /\ deviceClose' = deviceClose + 1
    /\ IF deviceClose = 0 THEN Raise("close")
       ELSE UNCHANGED eventFlags /\ pipe' = IF eventFlags = {} THEN pipe + 1 ELSE pipe
    /\ Goto(Closer, "lockevents")
    /\ UNCHANGED <<world, srcs, locks, lists, xfer>>

LockEvents ==
    /\ At(Closer, "lockevents") /\ eventsLock = None
    /\ eventsLock' = Closer /\ handlerActive' = TRUE
    /\ Goto(Closer, "sweep")
    /\ UNCHANGED <<world, events, srcs, waitersLock, flyingLock, openDevsLock, lock,
                   lists, xfer>>

(* do_close: the transfers of the handle leave the list and lose it.       *)
Sweep ==
    /\ At(Closer, "sweep") /\ flyingLock = None
    /\ \A x \in Range(flying) : lock[x] = None
    /\ flying' = <<>>
    /\ xfer' = [x \in Callers |-> IF x \in Range(flying) THEN [xfer[x] EXCEPT !.handle = FALSE]
                                  ELSE xfer[x]]
    /\ Goto(Closer, "detach")
    /\ UNCHANGED <<world, events, srcs, locks, completedTransfers, open>>

(* The handle leaves the open devices; op_close removes its descriptor     *)
(* unless a disconnect did, and closing it kills the requests it has left. *)
Detach ==
    /\ At(Closer, "detach") /\ openDevsLock = None
    /\ open' = FALSE
    /\ IF source THEN RemoveSource
       ELSE UNCHANGED <<source, removed, eventFlags, pipe>>
    /\ xfer' = [x \in Callers |-> [xfer[x] EXCEPT !.urb = "none"]]
    /\ Goto(Closer, "lowering")
    /\ UNCHANGED <<world, deviceClose, eventData, locks, flying, completedTransfers>>

CloseEnd ==
    /\ At(Closer, "lowering")
    /\ deviceClose' = deviceClose - 1
    /\ Lower(IF deviceClose = 1 THEN eventFlags \ {"close"} ELSE eventFlags)
    /\ Goto(Closer, "unlock")
    /\ UNCHANGED <<world, srcs, locks, lists, xfer>>

---------------------------------------------------------------------------
(* The device, the kernel, a backend's thread, the user and the clock.     *)

Finishes(x) ==
    /\ xfer[x].urb = "submitted"
    /\ xfer' = [xfer EXCEPT ![x].urb = "finished"]
    /\ UNCHANGED <<world, events, srcs, locks, lists, th>>

Unplug ==
    /\ ~ unplugged /\ Upset
    /\ unplugged' = TRUE
    /\ xfer' = [x \in Callers |-> IF xfer[x].urb = "submitted"
                                  THEN [xfer[x] EXCEPT !.urb = "shutdown"] ELSE xfer[x]]
    /\ UNCHANGED <<clock, backend, events, srcs, locks, lists, th>>

(* usbi_signal_transfer_completion, on the backend's own thread.           *)
SignalCompletion(x) ==
    /\ backend = "signal" /\ ~ xfer[x].queued
    /\ xfer[x].urb \in {"finished", "killed", "shutdown"}
    /\ completedTransfers' = Append(completedTransfers, x)
    /\ Raise("completed")
    /\ xfer' = [xfer EXCEPT ![x].queued = TRUE]
    /\ UNCHANGED <<world, deviceClose, srcs, locks, flying, open, th>>

(* libusb_interrupt_event_handler                                          *)
Interrupt ==
    /\ Upset
    /\ Raise("interrupt")
    /\ UNCHANGED <<clock, unplugged, backend, deviceClose, srcs, locks, lists, xfer, th>>

Tick ==
    /\ clock < MaxTime
    /\ clock' = clock + 1
    /\ UNCHANGED <<unplugged, backend, upsets, events, srcs, locks, lists, xfer, th>>

AllIdle == /\ \A t \in Callers : At(t, "idle")
           /\ th[Closer].pc \in {"idle", "closed"}
           /\ UNCHANGED vars

(* The steps a thread takes by itself once it is in the library.           *)
EventStep(t) ==
    \/ HandleEvents(t) \/ Poll(t) \/ HandleEventTrigger(t) \/ CompleteNext(t)
    \/ CompletionsEnd(t) \/ HandleDescriptor(t) \/ Reap(t) \/ ReapEnd(t)
    \/ HandleDisconnect(t) \/ HandleTransferCancellation(t) \/ LeaveFlyingList(t)
    \/ Callback(t)

WaitStep(t) ==
    \/ SubmitAccepted(t) \/ SubmitRejected(t) \/ SubmitFailed(t) \/ Return(t)
    \/ GetNextTimeout(t) \/ TryEvents(t) \/ TryLockEvents(t) \/ LockWaiters(t)
    \/ HandlerActive(t) \/ WakeUp(t) \/ AfterEvents(t)
    \/ At(t, "cancel") /\ Cancel(t)

TimeoutStep(t) == HandleTimeout(t) \/ MarkTimedOut(t) \/ TimeoutsHandled(t)

CallStep(t) == EventStep(t) \/ WaitStep(t) \/ TimeoutStep(t) \/ UnlockEvents(t) \/ Broadcast(t)

CloseStep == \/ LockEvents \/ Sweep \/ Detach \/ CloseEnd
             \/ UnlockEvents(Closer) \/ Broadcast(Closer)

Next == \/ \E t \in Callers : \/ CallStep(t)
                              \/ Submit(t) \/ Cancel(t) \/ PollInterrupted(t)
        \/ CloseBegin \/ CloseStep
        \/ \E x \in Callers : Finishes(x) \/ SignalCompletion(x)
        \/ Unplug \/ Interrupt \/ Tick \/ AllIdle

(* Threads are scheduled and a mutex does not starve a thread for ever.    *)
(* The kernel completes what was discarded, a backend's thread runs, time  *)
(* passes; nothing makes the device answer, the user act or a signal come. *)
Fairness == /\ \A t \in Callers : WF_vars(CallStep(t))
            /\ WF_vars(CloseStep)
            /\ \A x \in Callers : WF_vars(SignalCompletion(x))
            /\ WF_vars(Tick)

Spec == Init /\ [][Next]_vars /\ Fairness

---------------------------------------------------------------------------
HandlerPcs == {"handle", "poll", "trigger", "batch", "batchfailed", "reap", "reaping",
               "disconnect", "cancelled", "complete", "callback", "unlock"}
ClosePcs   == {"sweep", "detach", "lowering", "unlock"}

(* A caller that holds the events lock; a poll that timed out does what is *)
(* due before it lets go of it.                                            *)
HandlesEvents(u) == \/ th[u].pc \in HandlerPcs
                    \/ th[u].pc \in {"expire", "expiring", "timedout"} /\ th[u].ret = "unlock"

(* A thread that has taken completed transfers and not come to their end.  *)
InBatch(t) == \/ th[t].pc \in {"batch", "batchfailed"}
              \/ /\ th[t].pc \in {"cancelled", "complete", "callback"}
                 /\ th[t].ret \in {"batch", "batchfailed"}

(* The pipe holds one signal exactly while an event is pending: a handler  *)
(* is always woken by an event, and its blocking read of the pipe          *)
(* (usbi_clear_event) never finds it empty.  The flag of completed         *)
(* transfers is up exactly while there are some that wait or that a        *)
(* handler is going through: none is forgotten, and who sees the flag      *)
(* finds the list filled, as handle_event_trigger asserts.                 *)
EventPipe ==
    /\ pipe = IF eventFlags = {} THEN 0 ELSE 1
    /\ \A t \in Threads : th[t].pc \in {"trigger", "lowering"} \/ InBatch(t) => pipe > 0
    /\ "completed" \in eventFlags <=> completedTransfers # <<>> \/ \E t \in Threads : InBatch(t)

(* A transfer is not used once its caller has freed it, which the caller   *)
(* may do as soon as the callback has run: it is in no list and no thread  *)
(* is about to complete it; and it is taken off the flying list only when  *)
(* it is on it (list_del on a node that left the list writes through NULL).*)
NoUseAfterFree ==
    /\ \A x \in Range(flying) \union Range(completedTransfers) : xfer[x].alive
    /\ \A t \in Threads :
         /\ \A x \in Range(th[t].batch) : xfer[x].alive
         /\ th[t].pc \in {"cancelled", "complete", "callback", "timedout"} =>
                xfer[th[t].x].alive /\ ~ xfer[th[t].x].done
         /\ th[t].pc \in {"cancelled", "complete"} => th[t].x \in Range(flying)
         /\ At(t, "unlist") => t \in Range(flying)

(* A thread sleeps on the condition only while another is bound to         *)
(* broadcast it: no wakeup is lost between a caller that found the events  *)
(* lock taken and the handler or the closing thread that releases it.      *)
SleepersHaveWaker ==
    \A t \in Callers : At(t, "sleep") =>
        \/ \E u \in Callers : HandlesEvents(u) \/ At(u, "broadcast")
        \/ th[Closer].pc \in ClosePcs \union {"lockevents", "broadcast"}

(* A call with a timeout returns, whatever the device does: the thread     *)
(* that handles events may wait longer than the caller's timeout, so the   *)
(* caller itself has to cancel.                                            *)
CallsReturn ==
    \A t \in Callers : Timeout[t] > 0 => (~ At(t, "idle") ~> At(t, "idle"))

(* libusb_close comes to an end, and so does every call on the handle.     *)
CloseReturns ==
    /\ At(Closer, "lockevents") ~> At(Closer, "closed")
    /\ \A t \in Callers : ~ open ~> At(t, "idle")

(* The calls keep the promise of UsbTransfer.                              *)
PhaseOf(x) == IF ~ xfer[x].alive THEN "idle"
              ELSE IF th[x].pc \in {"submit", "unlist"} THEN "submitting"
              ELSE IF xfer[x].done THEN "finished" ELSE "pending"

CauseOf(x) == {c \in {"cancel", "timeout", "gone"} :
                 \/ c = "cancel"  /\ xfer[x].asked
                 \/ c = "timeout" /\ xfer[x].due <= clock
                 \/ c = "gone"    /\ (unplugged \/ (xfer[x].alive /\ ~ xfer[x].handle))}

Promise == INSTANCE UsbTransfer WITH
    Transfers <- Callers,
    phase  <- [x \in Callers |-> PhaseOf(x)],
    cause  <- [x \in Callers |-> CauseOf(x)],
    status <- [x \in Callers |-> IF xfer[x].done THEN xfer[x].status ELSE "none"]

KeepsPromise == Promise!PSpec
=============================================================================
