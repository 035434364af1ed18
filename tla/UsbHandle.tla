----------------------------- MODULE UsbHandle -----------------------------
(***************************************************************************)
(* An open libusb device handle on Linux, shared by several threads: the   *)
(* interfaces it claims, the kernel drivers it detaches and gives back,    *)
(* and the reset of the device (core.c and linux_usbfs.c).                 *)
(*                                                                         *)
(* claimed_interfaces and the handle's lock are libusb's; binding is the   *)
(* kernel's.  They are brought together one ioctl at a time: the device    *)
(* can go, a driver can be loaded and another process can claim between    *)
(* any two of them, and the release loop of a reset, the ioctls of         *)
(* set_alt, clear_halt and streams and the explicit detach and attach do   *)
(* not hold the lock at all.                                               *)
(*                                                                         *)
(* The application: while a thread works on an interface (alternate        *)
(* setting, halt, streams) no other releases it or resets the device;      *)
(* explicit detach and attach of an interface overlap no other call on it; *)
(* auto-detach is switched while the handle is at rest.                    *)
(***************************************************************************)
EXTENDS Integers, FiniteSets, FiniteSetsExt

CONSTANTS Threads, Nobody,
          Interfaces,  \* bInterfaceNumber of the interfaces of the device
          HasDriver,   \* those the kernel has a driver for
          MaxCalls,    \* bound: calls the threads make
          MaxEvents    \* bound: what the rest of the system does meanwhile

ASSUME ThreadsAssumption    == Nobody \notin Threads
ASSUME InterfacesAssumption == Interfaces \subseteq 0..31 /\ HasDriver \subseteq Interfaces
ASSUME BoundsAssumption     == {MaxCalls, MaxEvents} \subseteq Nat

VARIABLES
  claimed,     \* dev_handle->claimed_interfaces
  lock,        \* who holds dev_handle->lock
  autoDetach,  \* dev_handle->auto_detach_kernel_driver
  attached,    \* dev->attached
  pc,          \* thread -> the call it is in and the step it takes next
  present,     \* the kernel still has the device
  binding,     \* interface -> "none", "driver", "ours" (usbfs, claimed through
               \* this handle), "other" (usbfs, another process)
  modern,      \* the kernel knows USBFS_DISCONNECT_CLAIM
  owed,        \* interfaces whose driver libusb detached for a claim, until a driver
               \* is bound again or they are released with auto-detach off
  taken,       \* those of them that another process has claimed meanwhile
  lost,        \* claimed interfaces a reset that failed had released
  calls, events

handle == <<claimed, lock, autoDetach>>
device == <<attached, present, modern>>
debts  == <<owed, taken>>
ghosts == <<debts, lost>>
vars   == <<handle, device, pc, binding, ghosts, calls, events>>

Idle == [op |-> "idle", i |-> 0, at |-> "idle", todo |-> {}]

Init ==
  /\ claimed = {} /\ lock = Nobody /\ autoDetach \in BOOLEAN
  /\ attached = TRUE /\ present = TRUE /\ modern \in BOOLEAN
  /\ pc = [t \in Threads |-> Idle]
  /\ binding = [i \in Interfaces |-> IF i \in HasDriver THEN "driver" ELSE "none"]
  /\ owed = {} /\ taken = {} /\ lost = {} /\ calls = 0 /\ events = 0

-----------------------------------------------------------------------------
(* Where a thread is.                                                      *)

At(t, step)   == pc[t].at = step
Goto(t, step) == pc' = [pc EXCEPT ![t].at = step]
Return(t)     == pc' = [pc EXCEPT ![t] = Idle]
Unlock        == lock' = Nobody
Bind(i, who)  == binding' = [binding EXCEPT ![i] = who]

OnEndpoints == {"clear_halt", "streams"}
Uses    == {"set_alt"} \union OnEndpoints
Drives  == {"detach", "attach"}
InCall(ops, S) == \E t \in Threads : pc[t].op \in ops /\ pc[t].i \in S
Resetting      == \E t \in Threads : pc[t].op = "reset"
Quiet          == \A t \in Threads : pc[t] = Idle

(* What the application may begin while other threads are in their calls.  *)
MayBegin(op, i) ==
  /\ op \in {"claim", "release"} \union Uses => ~InCall(Drives, {i})
  /\ op = "release" => ~InCall(Uses, {i})
  /\ op = "reset" => ~InCall(Uses \union Drives, Interfaces)
  /\ op \in Uses \union Drives => ~Resetting
  /\ op \in Uses => ~InCall({"release"}, {i})
  /\ op \in OnEndpoints => i \in claimed
  /\ op \in Drives => \A t \in Threads : pc[t] # Idle => pc[t].i # i

(* Every entry point first rejects a device that is gone, but              *)
(* libusb_release_interface and libusb_set_configuration.                  *)
Begin(t, op, i, step) ==
  /\ pc[t] = Idle /\ calls < MaxCalls /\ MayBegin(op, i)
  /\ attached \/ op \in {"release", "set_configuration"}
  /\ pc' = [pc EXCEPT ![t] = [op |-> op, i |-> i, at |-> step,
                              todo |-> IF op = "reset" THEN Interfaces ELSE {}]]
  /\ calls' = calls + 1
  /\ UNCHANGED <<handle, device, binding, ghosts, events>>

ClaimInterface(t, i)      == Begin(t, "claim", i, "lock")
ReleaseInterface(t, i)    == Begin(t, "release", i, "lock")
SetInterfaceAlt(t, i)     == Begin(t, "set_alt", i, "lock")
ClearHalt(t, i)           == Begin(t, "clear_halt", i, "use")
Streams(t, i)             == Begin(t, "streams", i, "use")   \* alloc and free
ResetDevice(t)            == Begin(t, "reset", 0, "free")
DetachKernelDriver(t, i)  == Begin(t, "detach", i, "getdriver")
AttachKernelDriver(t, i)  == Begin(t, "attach", i, "connect")
SetConfiguration(t)       == Begin(t, "set_configuration", 0, "configure")

SetAutoDetach ==
  /\ Quiet /\ calls < MaxCalls
  /\ autoDetach' = ~autoDetach /\ calls' = calls + 1
  /\ UNCHANGED <<claimed, lock, device, pc, binding, ghosts, events>>

-----------------------------------------------------------------------------
(* The handle's lock, and the look at the interface's bit under it.        *)

(* claim returns at once for an interface it has, release and set_alt for  *)
(* one it has not; set_alt lets go of the lock before its ioctl.           *)
Lock(t) ==
  LET c == pc[t]
      early == (c.op = "claim") = (c.i \in claimed) /\ c.op # "reset"
      next == IF c.op = "claim" THEN IF autoDetach THEN "disconnect_claim" ELSE "claim"
              ELSE IF c.op = "set_alt" THEN "use" ELSE c.op
  IN /\ At(t, "lock") /\ lock = Nobody
     /\ IF early THEN Return(t) ELSE Goto(t, next)
     /\ lock' = IF early \/ c.op = "set_alt" THEN Nobody ELSE t
     /\ UNCHANGED <<claimed, autoDetach, device, binding, ghosts, calls, events>>

(* The end of a claim and of a release, still under the lock.              *)
Claimed(t) ==
  /\ At(t, "claimed") /\ pc[t].op = "claim"
  /\ claimed' = claimed \union {pc[t].i}
  /\ Unlock /\ Return(t)
  /\ UNCHANGED <<autoDetach, device, binding, ghosts, calls, events>>

ClaimFailed(t) ==
  /\ At(t, "failed") /\ pc[t].op = "claim"
  /\ Unlock /\ Return(t)
  /\ UNCHANGED <<claimed, autoDetach, device, binding, ghosts, calls, events>>

Released(t) ==
  /\ At(t, "released")
  /\ claimed' = claimed \ {pc[t].i} /\ lost' = lost \ {pc[t].i}
  /\ Unlock /\ Return(t)
  /\ UNCHANGED <<autoDetach, device, binding, debts, calls, events>>

-----------------------------------------------------------------------------
(* The ioctls: what libusb makes of the kernel's answer.                   *)

(* What is owed, of S, after a step that binds: a driver that is bound     *)
(* again is not, and one whose interface another process has claimed is    *)
(* for that process to give back.                                          *)
Debts(S) ==
  /\ owed'  = {i \in S : binding'[i] # "driver"}
  /\ taken' = {i \in owed' : i \in taken \/ binding'[i] = "other"}

InterfaceFree(i) == present /\ binding[i] \in {"none", "ours"}

(* claim_interface                                                         *)
ClaimIoctl(t) ==
  LET i == pc[t].i IN
  /\ At(t, "claim")
  /\ IF InterfaceFree(i) THEN Bind(i, "ours") /\ Goto(t, "claimed")
                         ELSE UNCHANGED binding /\ Goto(t, "failed")
  /\ Debts(owed)
  /\ UNCHANGED <<handle, device, lost, calls, events>>

(* The driver of i goes; the interface is owed one.                        *)
Detached(i) == Debts(owed \union {j \in {i} : binding[j] = "driver"})

(* detach_kernel_driver_and_claim: one ioctl, refused where usbfs sits;    *)
(* an old kernel does not know it and the driver is detached first.        *)
DisconnectClaim(t) ==
  LET i == pc[t].i IN
  /\ At(t, "disconnect_claim")
  /\ IF ~modern /\ present
     THEN Goto(t, "getdriver") /\ UNCHANGED <<binding, debts>>
     ELSE IF present /\ binding[i] \in {"none", "driver"}
          THEN Bind(i, "ours") /\ Detached(i) /\ Goto(t, "claimed")
          ELSE UNCHANGED <<binding, debts>> /\ Goto(t, "failed")
  /\ UNCHANGED <<handle, device, lost, calls, events>>

(* op_detach_kernel_driver, alone or as the fallback of a claim, which     *)
(* goes on when there is no driver to detach.                              *)
GetDriver(t) ==
  LET usbfs == present /\ binding[pc[t].i] \in {"ours", "other"} IN
  /\ At(t, "getdriver")
  /\ IF ~usbfs THEN Goto(t, "disconnect")
     ELSE IF pc[t].op = "detach" THEN Return(t) ELSE Goto(t, "claim")
  /\ UNCHANGED <<handle, device, binding, ghosts, calls, events>>

Disconnect(t) ==
  LET i == pc[t].i IN
  /\ At(t, "disconnect")
  /\ IF ~present THEN UNCHANGED <<binding, debts>>
     ELSE Bind(i, "none") /\ IF pc[t].op = "detach" THEN Debts(owed) ELSE Detached(i)
  /\ IF pc[t].op = "detach" THEN Return(t)
     ELSE Goto(t, IF present THEN "claim" ELSE "failed")
  /\ UNCHANGED <<handle, device, lost, calls, events>>

(* Mutant: ReleaseIoctl that never attaches the driver again.              *)
ReleaseIoctlOnly(t) ==
  LET i == pc[t].i
      ok == present /\ binding[i] = "ours" IN
  /\ At(t, "release")
  /\ IF ok THEN Bind(i, "none") /\ Goto(t, "released")
              /\ UNCHANGED lock
           ELSE UNCHANGED binding /\ Return(t) /\ Unlock
  /\ Debts(IF ok /\ ~autoDetach THEN owed \ {i} ELSE owed)
  /\ UNCHANGED <<claimed, autoDetach, device, lost, calls, events>>

(* op_release_interface: a failure leaves the bit, success attaches the    *)
(* driver where auto-detach is on.  An application that has switched it    *)
(* off since (as core.c:1762 advises) wants no driver back.                *)
ReleaseIoctl(t) ==
  LET i == pc[t].i
      ok == present /\ binding[i] = "ours" IN
  /\ At(t, "release")
  /\ IF ok THEN Bind(i, "none") /\ Goto(t, IF autoDetach THEN "connect" ELSE "released")
              /\ UNCHANGED lock
           ELSE UNCHANGED binding /\ Return(t) /\ Unlock
  /\ Debts(IF ok /\ ~autoDetach THEN owed \ {i} ELSE owed)
  /\ UNCHANGED <<claimed, autoDetach, device, lost, calls, events>>

(* op_attach_kernel_driver; a release does not mind its result.            *)
Connect(t) ==
  LET i == pc[t].i
      attaches == present /\ binding[i] = "none" /\ i \in HasDriver IN
  /\ At(t, "connect")
  /\ binding' = IF attaches THEN [binding EXCEPT ![i] = "driver"] ELSE binding
  /\ Debts(owed)
  /\ IF pc[t].op = "attach" THEN Return(t) ELSE Goto(t, "released")
  /\ UNCHANGED <<handle, device, lost, calls, events>>

(* The ioctls of set_alt, clear_halt and streams: usbfs claims the         *)
(* interface for the caller when nobody has it.                            *)
UseIoctl(t) ==
  LET i == pc[t].i IN
  /\ At(t, "use")
  /\ binding' = IF InterfaceFree(i) THEN [binding EXCEPT ![i] = "ours"] ELSE binding
  /\ Debts(owed)
  /\ Return(t)
  /\ UNCHANGED <<handle, device, lost, calls, events>>

(* The kernel changes the configuration only when no interface is bound,   *)
(* and looks for drivers for the new one's interfaces.                     *)
SetConfigurationIoctl(t) ==
  LET ok == present /\ \A i \in Interfaces : binding[i] = "none" IN
  /\ At(t, "configure")
  /\ IF ok THEN binding' = [i \in Interfaces |-> IF i \in HasDriver THEN "driver" ELSE "none"]
           ELSE UNCHANGED binding
  /\ Debts(owed)
  /\ Return(t)
  /\ UNCHANGED <<handle, device, lost, calls, events>>

-----------------------------------------------------------------------------
(* op_reset_device                                                         *)

(* The loop that releases what is claimed, without the lock, so that the   *)
(* kernel does not bind its own driver there after the reset.              *)
ResetRelease(t) ==
  LET i == Min(pc[t].todo) IN
  /\ At(t, "free") /\ pc[t].todo # {}
  /\ binding' = IF i \in claimed /\ present /\ binding[i] = "ours"
                THEN [binding EXCEPT ![i] = "none"] ELSE binding
  /\ Debts(owed)
  /\ pc' = [pc EXCEPT ![t].todo = @ \ {i}, ![t].at = IF pc[t].todo = {i} THEN "lock" ELSE "free"]
  /\ UNCHANGED <<handle, device, lost, calls, events>>

(* The reset unbinds usbfs wherever it sits, and drivers come back.        *)
ResetIoctl(t) ==
  /\ At(t, "reset") /\ present
  /\ binding' = [i \in Interfaces |->
                   IF binding[i] \notin {"ours", "other"} THEN binding[i]
                   ELSE IF i \in HasDriver THEN "driver" ELSE "none"]
  /\ Debts(owed)
  /\ IF claimed = {} THEN Return(t) /\ Unlock
                     ELSE pc' = [pc EXCEPT ![t].at = "reclaim", ![t].todo = claimed] /\ UNCHANGED lock
  /\ UNCHANGED <<claimed, autoDetach, device, lost, calls, events>>

(* A reset that fails gives up with the interfaces released and their bits *)
(* still set.                                                              *)
ResetFails(t) ==
  /\ At(t, "reset")
  /\ lost' = lost \union claimed
  /\ Return(t) /\ Unlock
  /\ UNCHANGED <<claimed, autoDetach, device, binding, debts, calls, events>>

(* The interfaces claimed before the reset are claimed again, whatever     *)
(* auto-detach says.                                                       *)
Reclaim(t) ==
  /\ At(t, "reclaim")
  /\ pc' = [pc EXCEPT ![t].i = Min(pc[t].todo), ![t].at = "disconnect_claim"]
  /\ UNCHANGED <<handle, device, binding, ghosts, calls, events>>

NextReclaim(t) ==
  LET rest == pc[t].todo \ {pc[t].i} IN
  IF rest = {} THEN Return(t) /\ Unlock
               ELSE pc' = [pc EXCEPT ![t].at = "reclaim", ![t].todo = rest] /\ UNCHANGED lock

Reclaimed(t) ==
  /\ At(t, "claimed") /\ pc[t].op = "reset"
  /\ lost' = lost \ {pc[t].i}
  /\ NextReclaim(t)
  /\ UNCHANGED <<claimed, autoDetach, device, binding, debts, calls, events>>

(* Mutant: ReclaimFailed that leaves the interface's bit set.              *)
ReclaimFailedKeepsBit(t) ==
  /\ At(t, "failed") /\ pc[t].op = "reset"
  /\ claimed' = claimed
  /\ lost' = lost \ {pc[t].i}
  /\ NextReclaim(t)
  /\ UNCHANGED <<autoDetach, device, binding, debts, calls, events>>

(* An interface the reset could not get back is not claimed any more, and  *)
(* nothing is done about its driver.                                       *)
ReclaimFailed(t) ==
  /\ At(t, "failed") /\ pc[t].op = "reset"
  /\ claimed' = claimed \ {pc[t].i}
  /\ lost' = lost \ {pc[t].i}
  /\ NextReclaim(t)
  /\ UNCHANGED <<autoDetach, device, binding, debts, calls, events>>

-----------------------------------------------------------------------------
(* The rest of the system: the device goes, and libusb hears of it later;  *)
(* a driver is loaded; another process claims and releases.                *)

System(changes) == changes /\ events < MaxEvents /\ events' = events + 1

Unplug ==
  System(present /\ present' = FALSE)
  /\ UNCHANGED <<handle, attached, modern, pc, binding, ghosts, calls>>

Disconnected ==
  /\ ~present /\ attached /\ attached' = FALSE
  /\ UNCHANGED <<handle, present, modern, pc, binding, ghosts, calls, events>>

Rebinds(i, from, to) ==
  System(present /\ binding[i] \in from /\ Bind(i, to))
  /\ Debts(owed)
  /\ UNCHANGED <<handle, device, pc, lost, calls>>

DriverLoaded(i)  == i \in HasDriver /\ Rebinds(i, {"none"}, "driver")
OtherClaims(i)   == Rebinds(i, {"none", "driver"}, "other")
OtherReleases(i) == Rebinds(i, {"other"}, "none")

-----------------------------------------------------------------------------
Calls(t) ==
  \/ ResetDevice(t) \/ SetConfiguration(t)
  \/ \E i \in Interfaces :
       \/ ClaimInterface(t, i) \/ ReleaseInterface(t, i) \/ SetInterfaceAlt(t, i)
       \/ ClearHalt(t, i) \/ Streams(t, i) \/ DetachKernelDriver(t, i) \/ AttachKernelDriver(t, i)

Step(t) ==
  \/ Lock(t) \/ Claimed(t) \/ ClaimFailed(t) \/ Released(t)
  \/ ClaimIoctl(t) \/ DisconnectClaim(t) \/ GetDriver(t) \/ Disconnect(t)
  \/ ReleaseIoctl(t) \/ Connect(t) \/ UseIoctl(t) \/ SetConfigurationIoctl(t)
  \/ ResetRelease(t) \/ ResetIoctl(t) \/ ResetFails(t)
  \/ Reclaim(t) \/ Reclaimed(t) \/ ReclaimFailed(t)

Environment ==
  \/ Unplug \/ Disconnected
  \/ \E i \in Interfaces : DriverLoaded(i) \/ OtherClaims(i) \/ OtherReleases(i)

Next ==
  \/ SetAutoDetach \/ Environment
  \/ \E t \in Threads : Calls(t) \/ Step(t)

Spec == Init /\ [][Next]_vars

-----------------------------------------------------------------------------
(* Properties.                                                             *)

TypeOK ==
  /\ claimed \subseteq Interfaces /\ lock \in Threads \union {Nobody}
  /\ {autoDetach, attached, present, modern} \subseteq BOOLEAN
  /\ binding \in [Interfaces -> {"none", "driver", "ours", "other"}]
  /\ owed \subseteq Interfaces /\ taken \subseteq owed /\ lost \subseteq Interfaces
  /\ calls \in 0..MaxCalls /\ events \in 0..MaxEvents

(* When no call is in progress and the device is there, the handle has     *)
(* exactly the interfaces the kernel gave it, whatever interleaving of     *)
(* claims, releases and resets led there and whatever the kernel answered: *)
(* a bit without a claim makes later claims succeed for nothing, a claim   *)
(* without a bit can never be released.  Left out: the interfaces of a     *)
(* reset whose ioctl failed, whose bits the code leaves set.  And no call  *)
(* returned with the lock.                                                 *)
ClaimsAgree ==
  Quiet => /\ lock = Nobody
           /\ present => \A i \in Interfaces \ lost : i \in claimed <=> binding[i] = "ours"

(* libusb keeps no driver it has detached for a claim: when no call is in  *)
(* progress, an interface without its driver is one that the handle really *)
(* holds, by its bit and for the kernel, so that a release will attach it  *)
(* again (core.c:2233).  Claims and reclaims that fail, old kernels where  *)
(* detaching and claiming are two steps, and every end of a reset are      *)
(* included.  Left out: an interface that another process has claimed in a *)
(* moment it was free, and those of a reset whose ioctl failed, which are  *)
(* not held and yet cannot be released.                                    *)
DriversGivenBack ==
  Quiet /\ present =>
    \A i \in owed \ (taken \union lost) : i \in claimed /\ binding[i] = "ours"
=============================================================================
