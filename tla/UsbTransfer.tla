---------------------------- MODULE UsbTransfer ----------------------------
(***************************************************************************)
(* What libusb promises about a transfer, whatever the backend: a transfer *)
(* that was accepted is finished exactly once before its owner may use it  *)
(* again, one that was rejected is never finished, and the status tells    *)
(* the truth about what happened (enum libusb_transfer_status, libusb.h).  *)
(***************************************************************************)
CONSTANT Transfers

Phases   == {"idle", "submitting", "pending", "finished"}
Causes   == {"cancel", "timeout", "gone", "error"}
Statuses == {"COMPLETED", "CANCELLED", "TIMED_OUT", "NO_DEVICE", "ERROR"}

VARIABLES phase,   \* where each transfer is between submission and result
          cause,   \* what has happened to it since it was submitted
          status   \* what it was finished with

pvars == <<phase, cause, status>>

PInit == /\ phase = [x \in Transfers |-> "idle"]
         /\ cause = [x \in Transfers |-> {}]
         /\ status = [x \in Transfers |-> "none"]

(* A status is truthful when the event it names did happen.                *)
Truthful(s, why) == \/ s = "COMPLETED"
                    \/ s = "CANCELLED" /\ "cancel" \in why
                    \/ s = "TIMED_OUT" /\ "timeout" \in why
                    \/ s = "NO_DEVICE" /\ "gone" \in why
                    \/ s = "ERROR"     /\ "error" \in why

Goes(x, from, to) == phase[x] = from /\ phase' = [phase EXCEPT ![x] = to]

(* A transfer starts and ends with a cause and a status of its own.        *)
Renewed(x) == /\ \E why \in SUBSET Causes : cause' = [cause EXCEPT ![x] = why]
              /\ status' = [status EXCEPT ![x] = "none"]

Submit(x) == Goes(x, "idle", "submitting") /\ Renewed(x)

Accept(x) == Goes(x, "submitting", "pending") /\ UNCHANGED <<cause, status>>

Reject(x) == Goes(x, "submitting", "idle") /\ Renewed(x)

(* The world acts on transfers: a cancel is asked for, a deadline passes.  *)
Happen == /\ cause' \in [Transfers -> SUBSET Causes]
          /\ \A x \in Transfers : cause[x] \subseteq cause'[x]
          /\ UNCHANGED <<phase, status>>

Finish(x) == /\ Goes(x, "pending", "finished")
             /\ \E s \in Statuses : /\ Truthful(s, cause[x])
                                    /\ status' = [status EXCEPT ![x] = s]
             /\ UNCHANGED cause

Take(x) == Goes(x, "finished", "idle") /\ Renewed(x)

PNext == \/ Happen
         \/ \E x \in Transfers : \/ Submit(x) \/ Accept(x) \/ Reject(x)
                                 \/ Finish(x) \/ Take(x)

PSpec == PInit /\ [][PNext]_pvars
=============================================================================
