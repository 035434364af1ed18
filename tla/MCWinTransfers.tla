--------------------------- MODULE MCWinTransfers ---------------------------
(* Values of the constants of WinTransfers for TLC.                        *)
EXTENDS WinTransfers, TLC

CONSTANTS t1, t2

Device(composite, zero, one, path, restricted) ==
    [composite |-> composite, api |-> (0 :> zero) @@ (1 :> one),
     path |-> path, restricted |-> restricted]

(* A WinUSB device; a HID one; one of UsbDk; a composite one with a         *)
(* libusbK interface and a keyboard, say; one with associated interfaces.   *)
MCLayouts == {Device(FALSE, "WINUSB", "WINUSB", {0}, {}),
              Device(FALSE, "HID", "HID", {0}, {}),
              Device(FALSE, "USBDK", "USBDK", {0}, {}),
              Device(TRUE, "LIBUSBK", "HID", {0, 1}, {1}),
              Device(TRUE, "WINUSB", "WINUSB", {0}, {})}

Request(type, at, kind) == [type |-> type, at |-> at, kind |-> kind]

MCRequests == {Request("control", 1, "class"), Request("control", 1, "endpoint"),
               Request("control", None, "config"), Request("control", 0, "long"),
               Request("bulk", 0, "zero"), Request("bulk", 0, "out"),
               Request("iso", 0, "packets")}

(* For the auto-claimed interfaces of submissions that are not refused: a  *)
(* WinUSB device, with a driver of its own or composite, and requests to   *)
(* the device.                                                             *)
MCWinusb   == {l \in MCLayouts : \A k \in Interfaces : l.api[k] = "WINUSB"}
MCStandard == {Request("control", None, "other")}

Alike == Permutations(Transfers)
=============================================================================
