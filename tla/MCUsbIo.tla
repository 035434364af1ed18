------------------------------ MODULE MCUsbIo ------------------------------
(* Values of the constants of UsbIo for TLC.                               *)
EXTENDS UsbIo

CONSTANTS a, b
(* One caller with a timeout, one that waits as long as it takes.          *)
MCTimeout == (a :> 1) @@ (b :> 0)
=============================================================================
