--------------------------- MODULE WinInterfaces ---------------------------
(***************************************************************************)
(* One device of the Windows backend and the one handle that is open on it *)
(* (os/windows_winusb.c): the files behind its interfaces, which of them   *)
(* are claimed, and the interfaces the library claims for itself because a *)
(* control transfer needs one (auto_claim, auto_release).                  *)
(*                                                                         *)
(* A device has a driver of its own or one per interface (composite).  A   *)
(* WinUSB-like interface is opened as a file (dev) and, once claimed, has  *)
(* a WinUSB handle (api); of a HID interface api is the file and dev says  *)
(* that it is claimed.  Interfaces without a file of their own (path) get  *)
(* their handle from interface 0.  All WinUSB-like interfaces of a device  *)
(* use the same driver.  A device of the other backend (os/windows_usbdk.c) *)
(* has one redirector for all, kept here as interface 0.                   *)
(***************************************************************************)
EXTENDS Integers, Sequences, FiniteSets, FiniteSetsExt

CONSTANTS Layouts,     \* the devices: [composite, api, path, restricted]
          MaxUpsets,   \* calls and transfers that fail though the device is there,
                       \* cancels, deadlines and resets, packets nobody asked for,
                       \* an unplugged device
          MaxCalls,    \* claims, releases and settings the application asks for
          MaxOpens     \* handles it opens, one after the other

Interfaces == {0, 1}   \* USB_MAXINTERFACES
None       == -1
Drivers    == {"WINUSB", "LIBUSBK", "HID", "USBDK"}

ASSUME LayoutAssumption ==
    /\ \A l \in Layouts : /\ l.composite \in BOOLEAN /\ l.api \in [Interfaces -> Drivers]
                          /\ 0 \in l.path /\ l.restricted \subseteq l.path
    /\ {MaxUpsets, MaxCalls, MaxOpens} \subseteq Nat

VARIABLES
  dev,        \* winusb_device_priv: the layout
  eps,        \* interfaces whose table of endpoints is filled (usb_interface[].endpoint)
  handle,     \* "closed", "open", "leaving" (off the list of open handles), "freed"
  h,          \* interface_handle: which files and WinUSB handles are valid
  zlp,        \* interface_handle[].zlp of the bulk endpoint of an interface
  claimed,    \* dev_handle->claimed_interfaces
  count,      \* autoclaim_count
  autoLock,   \* autoclaim_lock
  mine,       \* the interfaces the application has claimed and not released
  orphans,    \* those auto-claimed twice by a submission, or by one that then used another
  shared,     \* of mine, those that were counted for a control transfer as well
  plugged, upsets, calls, opens

device   == <<dev, plugged>>
files    == <<eps, h, zlp>>
lent     == <<orphans, shared>>
claims   == <<claimed, count, mine, lent>>
bounds   == <<upsets, calls, opens>>
ivars    == <<device, files, claims, bounds, handle, autoLock>>

Unopened == [k \in Interfaces |-> [dev |-> FALSE, api |-> FALSE]]

IInit == /\ dev \in Layouts /\ plugged = TRUE
         /\ handle = "closed" /\ h = Unopened /\ eps = {}
         /\ zlp = [k \in Interfaces |-> "unset"]
         /\ claimed = {} /\ count = [k \in Interfaces |-> 0]
         /\ mine = {} /\ orphans = {} /\ shared = {} /\ autoLock = None
         /\ upsets = MaxUpsets /\ calls = MaxCalls /\ opens = MaxOpens

Class(k) == IF dev.api[k] \in {"WINUSB", "LIBUSBK"} THEN "WINUSBX" ELSE dev.api[k]
Of(c)    == {k \in Interfaces : Class(k) = c}

(* What a call into Windows may do: work on a device that is there, be     *)
(* refused in any case, work in any case, fail, or work and be followed by *)
(* something that does not.                                                *)
Happens(o) == /\ \/ o.why = "ok" /\ plugged
                 \/ o.why \in {"refused", "always"}
                 \/ o.why = "fault" /\ (~ plugged \/ upsets > 0)
                 \/ o.why = "late" /\ plugged /\ upsets > 0
              /\ upsets' = IF o.why \in {"fault", "late"} /\ plugged THEN upsets - 1
                                                                  ELSE upsets
Worked(o)  == o.why \in {"ok", "always"}

---------------------------------------------------------------------------
(* Opening and closing.                                                    *)

WinusbxOpen(hh) == [k \in Interfaces |->
    IF k \in dev.path /\ Class(k) = "WINUSBX" THEN [hh[k] EXCEPT !.dev = TRUE] ELSE hh[k]]

HidOpen(hh) == [k \in Interfaces |->
    IF k \in dev.path /\ Class(k) = "HID" THEN [hh[k] EXCEPT !.api = TRUE] ELSE hh[k]]

UsbDkOpen(hh) == IF Class(0) = "USBDK" THEN [hh EXCEPT ![0] = [dev |-> TRUE, api |-> TRUE]]
                 ELSE hh

(* Windows may deny access to a HID interface: a composite device is then  *)
(* opened without it, any other device is not opened.                      *)
OpenOutcomes ==
    {[why |-> "ok", h |-> UsbDkOpen(HidOpen(WinusbxOpen(Unopened)))],
     [why |-> "fault", h |-> Unopened]} \union
    (IF dev.composite /\ Of("HID") # {}
     THEN {[why |-> "fault", h |-> WinusbxOpen(Unopened)]} ELSE {})

Open == /\ handle \in {"closed", "freed"} /\ opens > 0 /\ opens' = opens - 1
        /\ \E o \in OpenOutcomes :
             /\ Happens(o)
             /\ h' = o.h
             /\ handle' = IF o.h = Unopened THEN handle ELSE "open"
        /\ claimed' = {} /\ mine' = {} /\ orphans' = {} /\ shared' = {}
        /\ count' = [k \in Interfaces |-> 0]
        /\ zlp' = [k \in Interfaces |-> "unset"]
        /\ UNCHANGED <<device, eps, calls, autoLock>>

(* The WinUSB handles that belong to another interface are freed before    *)
(* the file they were made from is closed.                                 *)
WinusbxClose(hh) == [k \in Interfaces |->
    IF Class(k) = "WINUSBX" THEN Unopened[k] ELSE hh[k]]

HidClose(hh) == [k \in Interfaces |->
    IF Class(k) = "HID" THEN Unopened[k] ELSE hh[k]]

UsbDkClose(hh) == IF Class(0) = "USBDK" THEN Unopened ELSE hh

CompositeClose == UsbDkClose(HidClose(WinusbxClose(h)))

---------------------------------------------------------------------------
(* Claiming an interface.  An interface without a file shares that of      *)
(* interface 0, which is initialised on the way if it was not.             *)
Associated(k) == k \notin dev.path

WinusbxClaim(k) ==
    IF Associated(k)
    THEN {[why |-> "ok", h |-> [h EXCEPT ![0].api = TRUE,
                                         ![k] = [dev |-> h[0].dev, api |-> TRUE]]],
          [why |-> "fault", h |-> [h EXCEPT ![0].api = TRUE, ![k].api = FALSE]],
          [why |-> "fault", h |-> h]}
    ELSE IF ~ h[k].dev THEN {[why |-> "refused", h |-> h]}
    ELSE {[why |-> "ok",    h |-> [h EXCEPT ![k].api = TRUE]],
          [why |-> "late",  h |-> [h EXCEPT ![k].api = TRUE]],
          [why |-> "fault", h |-> [h EXCEPT ![k].api = FALSE]]}

HidClaim(k) ==
    IF k \notin dev.path \/ h[k].dev THEN {[why |-> "refused", h |-> h]}
    ELSE {[why |-> w, h |-> [h EXCEPT ![k].dev = TRUE]] : w \in {"always", "late"}}

UsbDkClaim(k) == {[why |-> "always", h |-> h]}

BackendClaim(k) == CASE Class(k) = "HID"   -> HidClaim(k)
                     [] Class(k) = "USBDK" -> UsbDkClaim(k)
                     [] OTHER              -> WinusbxClaim(k)

(* The endpoints of the setting are looked up again; the policy of a pipe  *)
(* is only reset for a device with a driver of its own.  UsbDk needs none. *)
AssignEndpoints(k) == eps' = eps \union ({k} \ Of("USBDK"))

ConfigureEndpoints(k) ==
    zlp' = IF dev.composite \/ Class(k) # "WINUSBX" THEN zlp ELSE [zlp EXCEPT ![k] = "unset"]

(* libusb_claim_interface down to the driver; done says whether it worked. *)
(* The table of endpoints is thrown away before the driver is asked, and   *)
(* an interface whose endpoints cannot be looked up ("late") is not        *)
(* claimed though the driver has given it.                                 *)
ClaimStep(k, done) ==
    IF k \in claimed THEN done = TRUE /\ UNCHANGED <<files, claimed, upsets>>
    ELSE \E o \in BackendClaim(k) :
           /\ Happens(o) /\ h' = o.h
           /\ \/ Worked(o) /\ done = TRUE /\ claimed' = claimed \union {k}
                 /\ AssignEndpoints(k) /\ ConfigureEndpoints(k)
              \/ ~ Worked(o) /\ done = FALSE
                 /\ eps' = eps \ {k} /\ UNCHANGED <<claimed, zlp>>

(* The application and a control transfer have claimed the same interface, *)
(* and one bit stands for both.                                            *)
Share(S) == shared' = {i \in mine' : i \in S \/ count'[i] > 0}

Claim(k) ==
    /\ handle = "open" /\ calls > 0 /\ calls' = calls - 1
    /\ UNCHANGED <<device, handle, count, orphans, autoLock, opens>>
    /\ \E done \in BOOLEAN : /\ ClaimStep(k, done)
                             /\ mine' = IF done THEN mine \union {k} ELSE mine
                             /\ Share(IF done THEN shared \ {k} ELSE shared)

---------------------------------------------------------------------------
(* Releasing it.                                                           *)
WinusbxRelease(k) == [h EXCEPT ![k].api = FALSE]
HidRelease(k)     == [h EXCEPT ![k].dev = FALSE]
UsbDkRelease(k)   == h

Releasable(k) == CASE Class(k) = "HID"   -> k \in dev.path /\ h[k].dev
                   [] Class(k) = "USBDK" -> TRUE
                   [] OTHER              -> h[k].api

ReleaseInterface(k) ==
    IF k \in claimed /\ Releasable(k)
    THEN /\ claimed' = claimed \ {k}
         /\ h' = CASE Class(k) = "HID"   -> HidRelease(k)
                   [] Class(k) = "USBDK" -> UsbDkRelease(k)
                   [] OTHER              -> WinusbxRelease(k)
    ELSE UNCHANGED <<claimed, h>>

Release(k) ==
    /\ handle = "open" /\ calls > 0 /\ calls' = calls - 1
    /\ ReleaseInterface(k)
    /\ mine' = mine \ {k} /\ shared' = shared \ {k}
    /\ UNCHANGED <<device, handle, eps, zlp, count, orphans, autoLock, upsets, opens>>

(* Selecting a setting: an interface that is not open loses its endpoints. *)
WinusbxSetAlt(k) == IF h[k].api THEN {[why |-> "ok"], [why |-> "fault"]}
                                ELSE {[why |-> "refused"]}

HidSetAlt(k) == {[why |-> "always"], [why |-> "refused"]}   \* setting 0 or another

UsbDkSetAlt(k) == {[why |-> "ok"], [why |-> "fault"]}

BackendSetAlt(k) == CASE Class(k) = "HID"   -> HidSetAlt(k)
                      [] Class(k) = "USBDK" -> UsbDkSetAlt(k)
                      [] OTHER              -> WinusbxSetAlt(k)

SetInterfaceAltsetting(k) ==
    /\ handle = "open" /\ k \in claimed /\ calls > 0 /\ calls' = calls - 1
    /\ \E o \in BackendSetAlt(k) :
         /\ Happens(o)
         /\ IF Worked(o) THEN AssignEndpoints(k) /\ ConfigureEndpoints(k)
                         ELSE eps' = eps \ {k} /\ UNCHANGED zlp
    /\ UNCHANGED <<device, handle, h, claims, autoLock, opens>>

---------------------------------------------------------------------------
(* Which interface serves a transfer.                                      *)
Valid(k) == h[k].dev /\ h[k].api

GetValidInterface(c) == LET ks == {k \in Of(c) : Valid(k)}
                        IN IF ks = {} THEN None ELSE Min(ks)

CheckValidInterface(k, c) == IF Class(k) = c /\ Valid(k) THEN k ELSE None

(* An endpoint is found while its interface has a handle and endpoints.    *)
InterfaceByEndpoint(k) == IF h[k].api /\ k \in eps THEN k ELSE None

(* A mutant of AutoClaim: the claim is not counted.                        *)
AutoClaimNoCount(k, done) ==
    /\ ClaimStep(k, done)
    /\ UNCHANGED <<count, mine>> /\ Share(shared)

(* auto_claim, one interface at a time: the first of the class that can be *)
(* claimed, or that has been, by another transfer or by the application,   *)
(* since the look-up that found none or because the look-up was for one    *)
(* interface only.                                                         *)
AutoClaim(k, done) ==
    /\ ClaimStep(k, done)
    /\ count' = IF done THEN [count EXCEPT ![k] = @ + 1] ELSE count
    /\ UNCHANGED mine /\ Share(shared)

(* auto_release for a transfer that names interface k; ks are those that   *)
(* its submission counted without need, and that stay counted.             *)
AutoRelease(k, ks) ==
    /\ autoLock = None
    /\ count' = IF count[k] > 0 THEN [count EXCEPT ![k] = @ - 1] ELSE count
    /\ IF count[k] = 1 THEN ReleaseInterface(k) ELSE UNCHANGED <<claimed, h>>
    /\ orphans' = (orphans \union {i \in ks : count[i] > IF i = k THEN 1 ELSE 0})
                  \ (IF count[k] = 1 THEN {k} ELSE {})

Unplug == /\ plugged /\ plugged' = FALSE
          /\ upsets > 0 /\ upsets' = upsets - 1
          /\ UNCHANGED <<dev, files, claims, calls, opens, handle, autoLock>>
=============================================================================
