---------------------------- MODULE WinTransfers ----------------------------
(***************************************************************************)
(* Transfers of the Windows backends (os/windows_common.c with             *)
(* windows_winusb.c and windows_usbdk.c).  The threads that submit and cancel, the thread   *)
(* of the I/O completion port and the thread that handles events meet in   *)
(* the list of transfers a handle has in flight, in the HANDLE of each     *)
(* transfer and in the interfaces auto-claimed for control transfers.      *)
(*                                                                         *)
(* What the application does not do: close a handle, or claim, release or  *)
(* change an interface, while it has a transfer under way on it; submit an *)
(* isochronous transfer again without setting its callback again.  A       *)
(* control transfer that Windows finishes at once queues no packet.        *)
(***************************************************************************)
EXTENDS WinInterfaces

CONSTANTS Transfers, Requests, MaxSubmits

ReqTypes == {"control", "bulk", "iso"}
Kinds    == {"class", "config", "endpoint", "other", "long", "in", "out", "zero", "packets"}
NoReq    == [type |-> "none", at |-> None, kind |-> "none"]

(* at: the interface a control request names, or that of the endpoint it   *)
(* names ("endpoint") or goes to.                                          *)
ASSUME TransferAssumption ==
    /\ Requests \subseteq [type : ReqTypes, at : Interfaces \union {None}, kind : Kinds]
    /\ MaxSubmits \in Nat

VARIABLES
  tx,         \* a transfer: usbi_transfer, windows_transfer_priv, winusb_transfer_priv
  port,       \* packets queued at the completion port
  iocp,       \* windows_iocp_thread and the packet in its hand
  completed,  \* ctx->completed_transfers
  ev,         \* the event thread and the transfer in its hand
  exiting, submits

queues == <<port, iocp, completed, ev>>
limits == <<exiting, submits>>
vars   == <<ivars, tx, queues, limits>>

Fresh == [pc |-> "idle", req |-> NoReq,
          tries |-> <<>>,       \* APIs composite_submit_control_transfer has left to try
          aimed |-> FALSE,      \* the first of them is the one the request names
          k |-> 0, auto |-> <<>>, \* auto_claim: the next interface, those it got
          iface |-> 0,          \* interface_number, which outlives a submission
          hnd |-> FALSE,        \* handle: not NULL
          listed |-> FALSE,     \* in active_transfers
          kernel |-> FALSE,     \* the kernel has it
          asked |-> FALSE,      \* and was told to abort it
          swapped |-> FALSE,    \* callback is the ContinueStream one
          brk |-> FALSE,        \* iso_break_stream
          bufs |-> {},          \* hid_buffer, iso_context, isoch_buffer_handle, UsbDk's arrays
          flags |-> {},         \* CANCELLING, TIMED_OUT
          result |-> "none", status |-> "none",
          cause |-> {}]         \* what has happened to it

Init == /\ IInit
        /\ tx = [t \in Transfers |-> Fresh]
        /\ port = <<>> /\ completed = <<>>
        /\ iocp = [pc |-> "wait", p |-> "none"] /\ ev = [pc |-> "idle", t |-> "none"]
        /\ exiting = FALSE /\ submits = MaxSubmits

Set(t, r) == tx' = [tx EXCEPT ![t] = r]

(* What a transfer that is over remembers.                                 *)
Rest(x) == [Fresh EXCEPT !.iface = x.iface, !.brk = x.brk, !.bufs = x.bufs,
                        !.hnd = x.hnd]

---------------------------------------------------------------------------
(* Submission.  libusb_submit_transfer holds the lock of the transfer from *)
(* the first of these steps to the last, except those of the backend's     *)
(* own threads.                                                            *)
Submitting == {"trying", "wanting", "autoclaim", "issue", "issued", "failed"}

(* composite_submit_control_transfer: the interface the request names,     *)
(* then those Windows does not restrict, then all of them.                 *)
TryList(r) ==
    LET named == IF r.at \in dev.path THEN <<Class(r.at)>> ELSE <<>>
        pass(ks) == [i \in 1 .. Cardinality(ks) |->
                       Class(CHOOSE k \in ks : Cardinality({j \in ks : j <= k}) = i)]
    IN IF ~ dev.composite THEN <<Class(0)>>
       ELSE named \o pass(dev.path \ dev.restricted) \o pass(dev.path)

(* A mutant of Submission: the transfer is not put on the handle's list.   *)
SubmissionUnlisted(t, r) ==
    [tx[t] EXCEPT !.pc = "trying", !.auto = <<>>, !.flags = {},
                  !.result = "none", !.asked = FALSE,
                  !.tries = IF r.type = "control" THEN TryList(r) ELSE <<>>,
                  !.aimed = dev.composite /\ r.type = "control" /\ r.at \in dev.path]

Submission(t, r) ==
    [tx[t] EXCEPT !.pc = "trying", !.listed = TRUE, !.auto = <<>>, !.flags = {},
                  !.result = "none", !.asked = FALSE,
                  !.tries = IF r.type = "control" THEN TryList(r) ELSE <<>>,
                  !.aimed = dev.composite /\ r.type = "control" /\ r.at \in dev.path]

SubmitEnter(t, r) ==
    /\ tx[t].pc = "idle" /\ handle = "open" /\ submits > 0
    /\ submits' = submits - 1
    /\ Set(t, [Submission(t, r) EXCEPT !.req = r, !.swapped = FALSE,
                                       !.cause = {}, !.status = "none"])
    /\ UNCHANGED <<ivars, queues, exiting>>

(* An attempt failed: composite devices go on after the interface that the *)
(* request names, and after one whose driver does not support it.          *)
Fails(x, why) ==
    IF Len(x.tries) > 1 /\ (x.aimed \/ why = "NOT_SUPPORTED")
    THEN [x EXCEPT !.pc = "trying", !.tries = Tail(@), !.aimed = FALSE]
    ELSE [x EXCEPT !.pc = "failed"]

Uses(x, k) == [x EXCEPT !.pc = "issue", !.iface = k, !.hnd = TRUE]

(* Any interface will do, but for a WinUSB-like one that the request names. *)
Serving(c, r) == IF c = "WINUSBX" /\ r.at # None /\ r.kind # "endpoint"
                 THEN CheckValidInterface(r.at, c) ELSE GetValidInterface(c)

TooLong(x) == x.req.kind = "long" /\ Head(x.tries) # "USBDK"    \* MAX_CTRL_BUFFER_LENGTH

(* The look-up takes no lock, and is not done again under the one of       *)
(* auto_claim.                                                             *)
ChooseControl(t) ==
    LET x == tx[t]
        k == Serving(Head(x.tries), x.req)
    IN /\ x.pc = "trying" /\ x.req.type = "control" /\ ~ TooLong(x)
       /\ Set(t, IF k # None THEN Uses(x, k) ELSE [x EXCEPT !.pc = "wanting"])
       /\ UNCHANGED <<ivars, queues, limits>>

AutoClaimLock(t) ==
    /\ tx[t].pc = "wanting" /\ autoLock = None
    /\ autoLock' = t /\ Set(t, [tx[t] EXCEPT !.pc = "autoclaim", !.k = 0])
    /\ UNCHANGED <<device, files, claims, bounds, handle, queues, limits>>

(* One turn of the loop in auto_claim.                                     *)
AutoClaimTurn(t) ==
    LET x == tx[t]
        c == Head(x.tries)
        next == {k \in Of(c) : k >= x.k}
    IN /\ x.pc = "autoclaim"
       /\ IF next = {}
          THEN /\ Set(t, Fails(x, "NOT_FOUND")) /\ autoLock' = None
               /\ UNCHANGED <<files, claimed, count, mine, shared, upsets>>
          ELSE \E done \in BOOLEAN :
                 /\ AutoClaim(Min(next), done)
                 /\ Set(t, IF done THEN [Uses(x, Min(next)) EXCEPT !.auto = Append(@, Min(next))]
                                   ELSE [x EXCEPT !.k = Min(next) + 1])
                 /\ autoLock' = IF done THEN None ELSE autoLock
       /\ UNCHANGED <<device, orphans, calls, opens, handle, queues, limits>>

(* Bulk and isochronous transfers: the interface of the endpoint, if it is *)
(* open and its driver knows such transfers.                               *)
Supports(c, r) == /\ c = "HID" => r.type = "bulk"
                  /\ c # "WINUSBX" => r.kind # "zero"

Served(x) == LET k == x.req.at
             IN /\ Class(k) = "USBDK" \/ InterfaceByEndpoint(k) # None
                /\ Supports(Class(k), x.req)

ByEndpoint(x) == Uses(x, x.req.at)

Refuse(t) ==
    LET x == tx[t] IN
    /\ x.pc = "trying"
    /\ IF x.req.type = "control" THEN TooLong(x) ELSE ~ Served(x)
    /\ Set(t, Fails(x, "INVALID_PARAM"))
    /\ UNCHANGED <<ivars, queues, limits>>

(* What the driver makes of transfer y: it is pending, over at once or     *)
(* refused with an error.                                                  *)
Ends(why, to, y) == [why |-> why, to |-> to, x |-> y, zlp |-> zlp]
Accepted(x) == [x EXCEPT !.pc = "issued", !.tries = <<>>, !.aimed = FALSE, !.k = 0]
Pending(x)  == [Accepted(x) EXCEPT !.kernel = TRUE]

(* windows_force_sync_completion: no I/O is needed, or it is over.         *)
ForceSyncCompletion(x) == [Accepted(x) EXCEPT !.result = "ok"]

(* The configuration can only be set to what it is.                        *)
SetConfiguration(x) == {Ends("always", "now", x), Ends("refused", "NOT_SUPPORTED", x)}

(* Its interface may have been released since it was looked up.            *)
WinusbxControl(x) ==
    IF x.req.kind = "config" THEN SetConfiguration(x)
    ELSE IF ~ h[x.iface].api THEN {Ends("refused", "IO", x)}
    ELSE {Ends("ok", "pending", x), Ends("ok", "now", x), Ends("fault", "IO", x)}

(* A report goes through a buffer of its own; other class requests, and    *)
(* reports of a wrong size or type, are refused.                           *)
HidReport(x) == {Ends("ok", "pending", [x EXCEPT !.bufs = {"hid"}]), Ends("fault", "IO", x)}
HidClassRequest(x) == HidReport(x) \union {Ends("refused", "INVALID_PARAM", x)}

(* Made up by the library from what it knows of the device.                *)
HidGetDescriptor(x) == {Ends("always", "now", x), Ends("refused", "INVALID_PARAM", x)}

HidControl(x) ==
    CASE x.req.kind = "class"  -> HidClassRequest(x)
      [] x.req.kind = "config" -> SetConfiguration(x)
      [] OTHER -> HidGetDescriptor(x) \union {Ends("refused", "NOT_SUPPORTED", x)}

(* Whether an OUT endpoint ends transfers with a zero-length packet is     *)
(* settled by the first of them.                                           *)
Policy(x) == IF x.req.kind = "zero" THEN "on" ELSE "off"

WinusbxBulk(x) ==
    LET out    == x.req.kind # "in"
        now    == zlp[x.iface]
        settle == IF out THEN [zlp EXCEPT ![x.iface] = Policy(x)] ELSE zlp
    IN IF out /\ now \notin {"unset", Policy(x)} THEN {Ends("refused", "NOT_SUPPORTED", x)}
       ELSE {[Ends("ok", "pending", x) EXCEPT !.zlp = settle],
             [Ends("fault", "IO", x) EXCEPT !.zlp = settle]}
            \union (IF out /\ now = "unset" /\ Policy(x) = "on"     \* SetPipePolicy
                    THEN {Ends("fault", "NOT_SUPPORTED", x)} ELSE {})

HidBulk(x) ==
    {Ends("ok", "pending", [x EXCEPT !.bufs = {"hid"}]), Ends("fault", "IO", x)}

LibusbkIso(x) == LET y == [x EXCEPT !.bufs = {"context"}]
                 IN {Ends("ok", "pending", y), Ends("fault", "IO", y)}

(* The buffer of the last time is unregistered and this one registered.    *)
(* Unless the stream was broken the callback becomes the one that falls    *)
(* back to a new stream, also if the driver then refuses the transfer.     *)
WinusbIso(x) ==
    LET swap == [x EXCEPT !.swapped = @ \/ ~ x.brk, !.bufs = {}]
    IN {Ends("refused", "INVALID_PARAM", x),         \* lengths that WinUSB cannot do
        Ends("fault", "NOT_FOUND", x), Ends("fault", "NO_MEM", [x EXCEPT !.bufs = {}]),
        Ends("fault", "IO", swap),
        Ends("ok", "pending", [swap EXCEPT !.brk = FALSE, !.bufs = {"isoch"}])}

UsbDkTransfer(x) == {Ends("ok", "pending", x), Ends("ok", "now", x), Ends("fault", "IO", x)}

(* Its arrays of packets and results are allocated first.                  *)
UsbDkIso(x) ==
    {Ends("fault", "NO_MEM", [x EXCEPT !.hnd = FALSE, !.bufs = b]) : b \in {{}, {"arrays"}}}
    \union UsbDkTransfer([x EXCEPT !.bufs = {"arrays"}])

UsbDkSubmit(x) == IF x.req.type = "iso" THEN UsbDkIso(x) ELSE UsbDkTransfer(x)

Outcomes(x) ==
    LET hid == Class(x.iface) = "HID" IN
    CASE Class(x.iface) = "USBDK" -> UsbDkSubmit(x)
      [] x.req.type = "control" -> IF hid THEN HidControl(x) ELSE WinusbxControl(x)
      [] x.req.type = "bulk"    -> IF hid THEN HidBulk(x) ELSE WinusbxBulk(x)
      [] OTHER -> IF dev.api[x.iface] = "LIBUSBK" THEN LibusbkIso(x) ELSE WinusbIso(x)

Issue(t) ==
    LET x == IF tx[t].pc = "issue" THEN tx[t] ELSE ByEndpoint(tx[t]) IN
    /\ \/ tx[t].pc = "issue"
       \/ tx[t].pc = "trying" /\ tx[t].req.type # "control" /\ Served(tx[t])
    /\ \E o \in Outcomes(x) :
         /\ Happens(o) /\ zlp' = o.zlp
         /\ Set(t, CASE o.to = "pending" -> Pending(o.x)
                      [] o.to = "now"     -> ForceSyncCompletion(o.x)
                      [] OTHER            -> Fails(o.x, o.to))
         /\ port' = IF o.to = "now" THEN Append(port, t) ELSE port
    /\ UNCHANGED <<device, eps, h, claims, calls, opens, handle, autoLock>>
    /\ UNCHANGED <<iocp, completed, ev, limits>>

(* A submission that was made from the ContinueStream callback returns to  *)
(* the event thread.                                                       *)
Resubmits(t) == ev = [pc |-> "resubmit", t |-> t]
BackToEvents(t) == ev' = IF Resubmits(t) THEN [pc |-> "idle", t |-> "none"] ELSE ev

SubmitReturn(t) ==
    /\ tx[t].pc = "issued"
    /\ Set(t, [tx[t] EXCEPT !.pc = "out"])
    /\ BackToEvents(t)
    /\ UNCHANGED <<ivars, port, iocp, completed, limits>>

(* winusb_clear_transfer_priv without the auto-release.  The buffer of a   *)
(* WinUSB interface of a composite device stays registered: the driver     *)
(* of the device as a whole is looked at.                                  *)
Cleared(x) == {b \in x.bufs : b = "isoch" /\ dev.composite}

(* The interfaces it auto-claimed beyond the one it will release.          *)
Spare(x) == {k \in Interfaces : Cardinality({i \in DOMAIN x.auto : x.auto[i] = k})
                                 > IF k = x.iface THEN 1 ELSE 0}

(* Nobody is told that a resubmission failed.                              *)
SubmitFail(t) ==
    LET x == tx[t] IN
    /\ x.pc = "failed"
    /\ AutoRelease(x.iface, Spare(x))
    /\ Set(t, [Rest(x) EXCEPT !.pc = IF Resubmits(t) THEN "lost" ELSE "idle",
                              !.cause = IF Resubmits(t) THEN x.cause ELSE {},
                              !.bufs = Cleared(x), !.hnd = FALSE])
    /\ BackToEvents(t)
    /\ UNCHANGED <<device, mine, shared, eps, zlp, bounds, handle, autoLock>>
    /\ UNCHANGED <<port, iocp, completed, limits>>

---------------------------------------------------------------------------
(* The kernel ends a transfer and queues its packet.                       *)
Trouble(x) == {"timeout", "error"} \union (IF "hid" \in x.bufs THEN {"overflow"} ELSE {})
                                   \union (IF x.req.type = "iso" THEN {"packets"} ELSE {})

Brings(r) == IF r = "timeout" THEN {"timeout"} ELSE IF r = "gone" THEN {"gone"}
             ELSE IF r \in {"error", "overflow"} THEN {"error"} ELSE {}

KernelComplete(t) ==
    LET x == tx[t] IN
    /\ x.kernel
    /\ \E r \in {"ok", "aborted", "gone"} \union Trouble(x) :
         /\ r = "ok" => plugged
         /\ r = "aborted" => x.asked
         /\ r = "gone" => ~ plugged
         /\ r \in Trouble(x) => plugged /\ upsets > 0
         /\ upsets' = IF r \in Trouble(x) THEN upsets - 1 ELSE upsets
         /\ Set(t, [x EXCEPT !.kernel = FALSE, !.result = r, !.cause = @ \union Brings(r)])
    /\ port' = Append(port, t)
    /\ UNCHANGED <<device, files, claims, calls, opens, handle, autoLock>>
    /\ UNCHANGED <<iocp, completed, ev, limits>>

(* AbortPipe ends every transfer of an endpoint.                           *)
Aborts(ts) == tx' = [t \in Transfers |->
    IF t \in ts /\ tx[t].kernel THEN [tx[t] EXCEPT !.asked = TRUE, !.cause = @ \union {"cancel"}]
    ELSE tx[t]]

SameEndpoint(t) == {u \in Transfers : /\ tx[u].iface = tx[t].iface
                                      /\ tx[u].req.type = tx[t].req.type
                                      /\ tx[t].req.type # "control" => tx[u].req.at = tx[t].req.at}

CancelsByPipe(k) == Class(k) = "WINUSBX" /\ h[k].api

(* libusb_cancel_transfer, by the application or because the time is up.   *)
(* CancelIoEx finds nothing once the packet is queued; without a HANDLE    *)
(* the backend aborts the pipe of the interface.                           *)
Cancel(t, why) ==
    LET x == tx[t]
        told == [x EXCEPT !.cause = @ \union {why}, !.asked = @ \/ x.kernel,
                          !.flags = @ \union (IF why = "timeout" THEN {"cancelling", "timed out"}
                                                                 ELSE {"cancelling"})]
        others == IF x.hnd \/ ~ CancelsByPipe(x.iface) THEN {}
                  ELSE {u \in SameEndpoint(t) \ {t} : tx[u].kernel}
    IN /\ x.pc = "out" /\ "cancelling" \notin x.flags
       /\ upsets > 0 /\ upsets' = upsets - 1
       /\ tx' = [u \in Transfers |->
                   IF u = t THEN told
                   ELSE IF u \in others
                   THEN [tx[u] EXCEPT !.asked = TRUE, !.cause = @ \union {"cancel"}]
                   ELSE tx[u]]
       /\ UNCHANGED <<device, files, claims, calls, opens, handle, autoLock>>
       /\ UNCHANGED <<queues, limits>>

(* libusb_reset_device: of every WinUSB-like interface that is open the    *)
(* pipes are aborted, but for that of control transfers.  Of HID interfaces *)
(* queues are flushed, unless the device is composite.                     *)
PipesReset(k) == Class(k) = "USBDK" \/ (Class(k) = "WINUSBX" /\ InterfaceByEndpoint(k) # None)

ResetDevice ==
    /\ handle = "open" /\ upsets > 0 /\ upsets' = upsets - 1
    /\ Aborts({t \in Transfers : tx[t].req.type # "control" /\ PipesReset(tx[t].iface)})
    /\ UNCHANGED <<device, files, claims, calls, opens, handle, autoLock, queues, limits>>

---------------------------------------------------------------------------
(* The thread of the completion port.                                      *)
(* A packet that libusbK, say, queued on its own account.                  *)
Foreign == /\ upsets > 0 /\ handle # "closed"
           /\ upsets' = upsets - 1
           /\ port' = Append(port, "foreign")
           /\ UNCHANGED <<device, files, claims, calls, opens, handle, autoLock>>
           /\ UNCHANGED <<tx, iocp, completed, ev, limits>>

(* The handle a packet names may be gone (issue 912): it is looked up      *)
(* among the open ones, with that list locked until the search is over.    *)
IocpTake == /\ iocp.pc = "wait" /\ port # <<>>
            /\ iocp' = CASE Head(port) = "quit" -> [pc |-> "exited", p |-> "quit"]
                         [] Head(port) # "quit" /\ handle = "open" ->
                                [pc |-> "matching", p |-> Head(port)]
                         [] OTHER -> iocp
            /\ port' = Tail(port)
            /\ UNCHANGED <<ivars, tx, completed, ev, limits>>

IocpFindTransfer ==
    LET ours == iocp.p \in Transfers /\ tx[iocp.p].listed IN
    /\ iocp.pc = "matching"
    /\ iocp' = [pc |-> "wait", p |-> "none"]
    /\ IF ours THEN /\ tx' = [tx EXCEPT ![iocp.p].listed = FALSE]
                    /\ completed' = Append(completed, iocp.p)
               ELSE UNCHANGED <<tx, completed>>
    /\ UNCHANGED <<ivars, port, ev, limits>>

---------------------------------------------------------------------------
(* The event thread: windows_handle_transfer_completion.                   *)
(* The HANDLE is read, and set to NULL, under the lock that the submitting *)
(* thread holds until it is done.                                          *)
ResultStatus(x) == CASE x.result \in {"ok", "packets"} -> "COMPLETED"
                     [] x.result = "aborted"           -> "CANCELLED"
                     [] x.result = "timeout"           -> "TIMED_OUT"
                     [] x.result = "gone"              -> "NO_DEVICE"
                     [] OTHER                          -> "ERROR"

(* The buffer of a report is freed once its data is copied; results of     *)
(* isochronous packets are copied out of buffers that stay.                *)
HidCopied(x)    == x.bufs \ {"hid"}
WinusbxCopied(x) == x.bufs
UsbDkCopied(x)   == x.bufs

Copied(x) == IF x.result \notin {"ok", "aborted", "overflow"} THEN x.bufs
             ELSE CASE Class(x.iface) = "HID"   -> HidCopied(x)
                    [] Class(x.iface) = "USBDK" -> UsbDkCopied(x)
                    [] OTHER                    -> WinusbxCopied(x)

ReadResult(t) ==
    /\ Set(t, [tx[t] EXCEPT !.status = ResultStatus(tx[t]), !.bufs = Copied(tx[t]),
                            !.hnd = FALSE, !.asked = FALSE])
    /\ ev' = [pc |-> "clear", t |-> t]
    /\ completed' = Tail(completed)
    /\ UNCHANGED <<ivars, port, iocp, limits>>

Turn(t) == ev.pc = "idle" /\ completed # <<>> /\ Head(completed) = t

(* A mutant of EvResult: the lock of the transfer is not taken.            *)
EvResultUnlocked(t) == Turn(t) /\ ReadResult(t)

EvResult(t) == Turn(t) /\ tx[t].pc \notin Submitting /\ ReadResult(t)

EvClear(t) ==
    LET x == tx[t] IN
    /\ ev = [pc |-> "clear", t |-> t]
    /\ AutoRelease(x.iface, Spare(x))
    /\ Set(t, [x EXCEPT !.bufs = Cleared(x)])
    /\ ev' = [ev EXCEPT !.pc = "finish"]
    /\ UNCHANGED <<device, mine, shared, eps, zlp, bounds, handle, autoLock>>
    /\ UNCHANGED <<port, iocp, completed, limits>>

(* usbi_handle_transfer_cancellation and _completion: a cancelled transfer *)
(* whose time was up is reported so.                                       *)
FinalStatus(x) == IF x.status = "CANCELLED" /\ "timed out" \in x.flags THEN "TIMED_OUT"
                  ELSE x.status

(* The callback is the application's, or the one that starts a new stream  *)
(* when this transfer, or a packet of it, has failed.                      *)
Fallback(x) == x.swapped /\ (FinalStatus(x) # "COMPLETED" \/ x.result = "packets")

EvFinish(t) ==
    LET x == tx[t] IN
    /\ ev = [pc |-> "finish", t |-> t]
    /\ IF Fallback(x)
       THEN /\ Set(t, [Submission(t, x.req) EXCEPT !.swapped = FALSE, !.brk = TRUE,
                                                   !.status = "none"])
            /\ ev' = [ev EXCEPT !.pc = "resubmit"]
       ELSE /\ Set(t, [Rest(x) EXCEPT !.pc = "done", !.cause = x.cause,
                                       !.status = FinalStatus(x)])
            /\ ev' = [pc |-> "idle", t |-> "none"]
    /\ UNCHANGED <<ivars, port, iocp, completed, limits>>

(* The application takes its transfer back.                                *)
Take(t) == /\ tx[t].pc = "done"
           /\ Set(t, Rest(tx[t]))
           /\ UNCHANGED <<ivars, queues, limits>>

---------------------------------------------------------------------------
(* The application's calls on the device.                                  *)
UnderWay(t) == tx[t].pc \in Submitting \union {"out"}
Quiet(k) == \A t \in Transfers : UnderWay(t) => tx[t].req.type = "control" \/ tx[t].req.at # k

OpenDevice == ~ exiting /\ Open /\ UNCHANGED <<tx, queues, limits>>

InterfaceCall(k) == /\ Quiet(k)
                    /\ Claim(k) \/ Release(k) \/ SetInterfaceAltsetting(k)
                    /\ UNCHANGED <<tx, queues, limits>>

(* do_close takes the handle off the list of open ones, then the backend   *)
(* closes it and it is freed.                                              *)
CloseStart == /\ handle = "open" /\ \A t \in Transfers : ~ UnderWay(t)
              /\ iocp.pc # "matching"
              /\ handle' = "leaving"
              /\ UNCHANGED <<device, files, claims, bounds, autoLock, tx, queues, limits>>

CloseEnd == /\ handle = "leaving" /\ handle' = "freed"
            /\ h' = CompositeClose
            /\ UNCHANGED <<device, eps, zlp, claims, bounds, autoLock, tx, queues, limits>>

(* windows_exit: a packet without an OVERLAPPED ends the thread.           *)
Exit == /\ handle \in {"closed", "freed"} /\ ~ exiting
        /\ exiting' = TRUE /\ port' = Append(port, "quit")
        /\ UNCHANGED <<ivars, tx, iocp, completed, ev, submits>>

UnplugDevice == Unplug /\ UNCHANGED <<tx, queues, limits>>

Over == iocp.pc = "exited" /\ UNCHANGED vars

TransferStep(t) ==
    \/ \E r \in Requests : SubmitEnter(t, r)
    \/ ChooseControl(t) \/ AutoClaimLock(t) \/ AutoClaimTurn(t) \/ Refuse(t)
    \/ Issue(t) \/ SubmitReturn(t) \/ SubmitFail(t)
    \/ KernelComplete(t)
    \/ Cancel(t, "cancel") \/ Cancel(t, "timeout")
    \/ EvResult(t) \/ EvClear(t) \/ EvFinish(t) \/ Take(t)

Next == \/ \E t \in Transfers : TransferStep(t)
        \/ \E k \in Interfaces : InterfaceCall(k)
        \/ Foreign \/ IocpTake \/ IocpFindTransfer
        \/ OpenDevice \/ CloseStart \/ CloseEnd \/ ResetDevice \/ Exit
        \/ UnplugDevice \/ Over

Spec == Init /\ [][Next]_vars
---------------------------------------------------------------------------
(* An accepted transfer is in exactly one place on its way to its callback *)
(* and a refused one nowhere, whichever thread is faster; it is on the     *)
(* list of the handle while its packet is still to be recognised           *)
(* (windows_submit_transfer, windows_iocp_thread).                         *)
Places(t) == (IF tx[t].kernel THEN 1 ELSE 0)
             + Cardinality({i \in 1 .. Len(port) : port[i] = t})
             + (IF iocp.pc # "wait" /\ iocp.p = t THEN 1 ELSE 0)
             + Cardinality({i \in 1 .. Len(completed) : completed[i] = t})
             + (IF ev.t = t /\ ev.pc # "resubmit" THEN 1 ELSE 0)

PacketsMatch ==
    \A t \in Transfers :
      /\ Places(t) = IF tx[t].pc \in {"issued", "out"} THEN 1 ELSE 0
      /\ tx[t].kernel \/ (\E i \in 1 .. Len(port) : port[i] = t) => tx[t].listed

(* When nothing is under way nothing is held: no HANDLE, no buffer but the *)
(* one Cleared leaves, no interface counted or claimed that the            *)
(* application has not claimed or that an attempt left behind; and the     *)
(* application still has every interface it claimed, whichever look-ups,   *)
(* claims and releases of control transfers crossed its own                *)
(* (clear_transfer_priv, auto_claim, auto_release).  Left out: an          *)
(* interface counted for a control transfer while the application had it,  *)
(* which auto_release takes away from the application.                     *)
NothingLeftBehind ==
    (handle = "open" /\ \A t \in Transfers : ~ UnderWay(t)) =>
      /\ \A t \in Transfers : ~ tx[t].hnd /\ tx[t].bufs \subseteq {b \in {"isoch"} : dev.composite}
      /\ claimed \subseteq mine \union orphans
      /\ mine \subseteq claimed \union shared
      /\ \A k \in Interfaces \ orphans : count[k] = 0

(* The backend keeps the promise of UsbTransfer: no transfer is finished   *)
(* before it was accepted or twice, none that was refused, and the status  *)
(* is that of something that happened.                                     *)
Phase(t) == CASE tx[t].pc \in Submitting /\ ~ Resubmits(t) -> "submitting"
              [] tx[t].pc \in {"out", "lost"} \/ Resubmits(t) -> "pending"
              [] tx[t].pc = "done" -> "finished"
              [] OTHER -> "idle"

Promise == INSTANCE UsbTransfer WITH
    phase <- [t \in Transfers |-> Phase(t)],
    cause <- [t \in Transfers |-> tx[t].cause],
    status <- [t \in Transfers |->
                 IF tx[t].pc = "done" THEN tx[t].status ELSE "none"]

KeepsPromise == Promise!PSpec

(* What auto_claim says of a valid interface that was auto-claimed         *)
(* (windows_winusb.c:655-656): its count is incremented, to prevent an     *)
(* early release.  So an interface that the library, not the application,  *)
(* claimed for control transfers is claimed as long as Windows has one of  *)
(* them, when the application does not touch its interfaces and nothing    *)
(* fails.  UsbDk claims none.                                              *)
AutoclaimHeld ==
    calls = MaxCalls /\ upsets = MaxUpsets =>
      \A t \in Transfers :
        /\ tx[t].kernel /\ tx[t].req.type = "control"
        /\ Class(tx[t].iface) \in {"WINUSBX", "HID"} /\ tx[t].iface \notin mine
        => tx[t].iface \in claimed
=============================================================================
