--------------------------- MODULE UsbIoRefinement ---------------------------
(***************************************************************************)
(* UsbIo implements UsbTransfer, for any callers, timeouts and bounds:     *)
(* what the handler of events believes of a transfer when it completes it  *)
(* is true, so every transfer is finished once and with a true status.     *)
(***************************************************************************)
EXTENDS UsbIoProofs

-----------------------------------------------------------------------------
(* What is believed of a transfer is true.                                 *)

BeingTimedOut(x) == \E t \in Callers : th[t].pc = "timedout" /\ th[t].x = x

(* Someone wanted it cancelled: its owner, or its timeout.                 *)
Wanted(x) == xfer[x].asked \/ xfer[x].timedOut \/ BeingTimedOut(x)

WantedInv ==
  /\ \A x \in Callers : xfer[x].urb = "killed" => Wanted(x)
  /\ \A t \in Callers : th[t].pc = "cancelled" => Wanted(th[t].x)

TransferTrue(x) ==
  /\ xfer[x].timedOut => xfer[x].due <= clock
  /\ xfer[x].urb = "shutdown" => unplugged
  /\ xfer[x].queued => xfer[x].urb \in {"finished", "killed", "shutdown"}
  /\ xfer[x].done => xfer[x].handle \/ xfer[x].status = "NO_DEVICE"

VerdictIs(s, x) ==
  \/ s = "COMPLETED"
  \/ s = "CANCELLED" /\ xfer[x].asked
  \/ s = "TIMED_OUT" /\ xfer[x].timedOut
  \/ s = "NO_DEVICE" /\ unplugged

ThreadTrue(t) ==
  /\ th[t].pc \in {"expiring", "timedout"} => th[t].until <= clock
  /\ th[t].pc = "timedout" => xfer[th[t].x].due <= clock
  /\ th[t].ready = "error" \/ th[t].pc = "disconnect" => unplugged
  /\ th[t].pc \in CompletingPcs /\ th[t].ret = "disconnect" => unplugged
  /\ th[t].pc \in {"complete", "callback"} => VerdictIs(th[t].st, th[t].x)

TruthInv == /\ \A x \in Callers : TransferTrue(x)
            /\ \A t \in Callers : ThreadTrue(t)
            /\ WantedInv

-----------------------------------------------------------------------------
(* What a step leaves true.                                                *)

(* Nothing is forgotten of a transfer.                                     *)
Grows(x) == /\ xfer'[x].due = xfer[x].due
            /\ xfer[x].asked => xfer'[x].asked
            /\ xfer[x].timedOut => xfer'[x].timedOut

Untouched(x) == xfer'[x] = xfer[x]

WorldGrows == clock \in Nat /\ clock' \in Nat /\ clock <= clock' /\ (unplugged => unplugged')

(* A thread that has a transfer in hand.                                   *)
InHand(t) == th[t].pc \in CompletingPcs \union {"timedout"}

(* What a step does to a transfer: it forgets nothing of it, or the        *)
(* transfer is freed when nobody has it in hand.                           *)
Carries(x) == \/ Grows(x)
              \/ /\ xfer'[x].urb = "none"
                 /\ \A u \in Callers : InHand(u) => th[u].x # x

LEMMA InHandIs ==
  ASSUME IoInv, NEW u \in Callers, InHand(u)
  PROVE  /\ th[u].x \in Callers /\ th[u].x \in Attached \ Done
         /\ th[u].pc # "timedout" => th[u].x \in InTheAir
         /\ th[u].pc = "timedout" => th[u].x \in Flying /\ flyingLock = u
<1>1. CASE th[u].pc \in CompletingPcs
  BY <1>1, Zenon DEF IoInv, PcInv, CompletingInv, Completing, CompletingPcs
<1>2. CASE th[u].pc = "timedout"
  <2>1. th[u].x \in Flying /\ Flying \subseteq Attached \ Done /\ flyingLock = u /\ th[u].x \in Callers
    BY <1>2, SMT DEF IoInv, PcInv, TimedOutInv, FlyingInv, FlyingLockInv, Threads
  <2> QED BY <1>2, <2>1
<1> QED BY <1>1, <1>2, Zenon DEF InHand

LEMMA StaysTrue ==
  ASSUME IoInv, NEW u \in Callers, ThreadTrue(u), th'[u] = th[u], WorldGrows,
         \A x \in Callers : Carries(x)
  PROVE  ThreadTrue(u)'
<1>1. th[u].until \in Nat /\ \A x \in Callers : xfer[x].due \in Nat BY Places DEF IoInv
<1>2. InHand(u) => th[u].x \in Callers /\ Grows(th[u].x) BY InHandIs, Zenon DEF Carries
<1>3. th[u].pc \in {"expiring", "timedout"} => th[u].until <= clock'
  BY <1>1, SMT DEF ThreadTrue, WorldGrows
<1>4. th[u].pc = "timedout" => xfer'[th[u].x].due <= clock'
  <2> SUFFICES ASSUME th[u].pc = "timedout" PROVE xfer'[th[u].x].due <= clock' OBVIOUS
  <2>1. InHand(u) BY Zenon DEF InHand
  <2>2. xfer'[th[u].x].due = xfer[th[u].x].due /\ xfer[th[u].x].due <= clock /\ xfer[th[u].x].due \in Nat
    BY <1>1, <1>2, <2>1, Zenon DEF Grows, ThreadTrue
  <2> QED BY <2>2, SMT DEF WorldGrows
<1>5. th[u].ready = "error" \/ th[u].pc = "disconnect" => unplugged' BY Zenon DEF ThreadTrue, WorldGrows
<1>6. th[u].pc \in CompletingPcs /\ th[u].ret = "disconnect" => unplugged' BY Zenon DEF ThreadTrue, WorldGrows
<1>7. th[u].pc \in {"complete", "callback"} => VerdictIs(th[u].st, th[u].x)'
  <2> SUFFICES ASSUME th[u].pc \in {"complete", "callback"} PROVE VerdictIs(th[u].st, th[u].x)' OBVIOUS
  <2>1. InHand(u) BY SMT DEF InHand, CompletingPcs
  <2>2. VerdictIs(th[u].st, th[u].x) BY DEF ThreadTrue
  <2> QED BY <1>2, <2>1, <2>2, Zenon DEF VerdictIs, Grows, WorldGrows
<1> QED BY <1>3, <1>4, <1>5, <1>6, <1>7, Zenon DEF ThreadTrue

(* What thread t is at, and what it does to the transfers, is true; the    *)
(* rest stays so.                                                          *)
LEMMA StepTrue ==
  ASSUME IoInv, TruthInv, NEW t \in Threads, Others(t), WorldGrows,
         \A x \in Callers : Carries(x),
         \A x \in Callers : TransferTrue(x)',
         t \in Callers => ThreadTrue(t)',
         t \in Callers /\ th[t].pc = "timedout" => xfer'[th[t].x].timedOut,
         \A x \in Callers : xfer'[x].urb = "killed" => xfer[x].urb = "killed" \/ Wanted(x)',
         t \in Callers /\ th'[t].pc = "cancelled" => Wanted(th[t].x)'
  PROVE  TruthInv'
<1>1. \A u \in Callers : ThreadTrue(u)'
  <2> SUFFICES ASSUME NEW u \in Callers PROVE ThreadTrue(u)' OBVIOUS
  <2>1. CASE u = t BY <2>1
  <2>2. CASE u # t
    <3>1. th'[u] = th[u] BY <2>2, Zenon DEF Others, Threads
    <3> QED BY <3>1, StaysTrue, Zenon DEF TruthInv
  <2> QED BY <2>1, <2>2
<1>2. ASSUME NEW x \in Callers, Wanted(x), Grows(x) PROVE Wanted(x)'
  <2>1. CASE xfer[x].asked \/ xfer[x].timedOut BY <1>2, <2>1, Zenon DEF Wanted, Grows
  <2>2. CASE BeingTimedOut(x)
    <3>1. PICK u \in Callers : th[u].pc = "timedout" /\ th[u].x = x BY <2>2 DEF BeingTimedOut
    <3>2. CASE u = t BY <3>1, <3>2, Zenon DEF Wanted
    <3>3. CASE u # t
      <4>1. th'[u] = th[u] BY <3>3, Zenon DEF Others, Threads
      <4> QED BY <3>1, <4>1, Zenon DEF Wanted, BeingTimedOut
    <3> QED BY <3>2, <3>3
  <2> QED BY <1>2, <2>1, <2>2 DEF Wanted
<1>3. \A x \in Callers : xfer'[x].urb = "killed" => Wanted(x)'
  <2> SUFFICES ASSUME NEW x \in Callers, xfer'[x].urb = "killed" PROVE Wanted(x)' OBVIOUS
  <2>1. Grows(x) BY SMT DEF Carries
  <2>2. CASE xfer[x].urb = "killed"
    <3>1. Wanted(x) BY <2>2, Zenon DEF TruthInv, WantedInv
    <3> QED BY <1>2, <2>1, <3>1
  <2> QED BY <2>2
<1>4. \A u \in Callers : th'[u].pc = "cancelled" => Wanted(th[u].x)'
  <2> SUFFICES ASSUME NEW u \in Callers, th'[u].pc = "cancelled" PROVE Wanted(th[u].x)' OBVIOUS
  <2>1. CASE u = t BY <2>1
  <2>2. CASE u # t
    <3>1. th'[u] = th[u] BY <2>2, Zenon DEF Others, Threads
    <3>2. th[u].pc = "cancelled" BY <3>1
    <3>3. InHand(u) BY <3>2, SMT DEF InHand, CompletingPcs
    <3>4. PICK y \in Callers : y = th[u].x BY <3>3, InHandIs
    <3>5. Wanted(y) /\ Grows(y) BY <3>2, <3>3, <3>4, Zenon DEF TruthInv, WantedInv, Carries
    <3>6. Wanted(y)' BY <1>2, <3>5
    <3>7. y = th'[u].x BY <3>1, <3>4
    <3> QED BY <3>6, <3>7, Zenon DEF Wanted, BeingTimedOut
  <2> QED BY <2>1, <2>2
<1>5. WantedInv' BY <1>3, <1>4 DEF WantedInv
<1> QED BY <1>1, <1>5 DEF TruthInv

-----------------------------------------------------------------------------
(* The states and the steps of the abstract transfers.                     *)

Phase  == [x \in Callers |-> PhaseOf(x)]
Cause  == [x \in Callers |-> CauseOf(x)]
Status == [x \in Callers |-> IF xfer[x].done THEN xfer[x].status ELSE "none"]

Submitting(x) == th[x].pc \in {"submit", "unlist"}

(* A transfer between submission and result goes on; it may be cancelled,  *)
(* or lose its handle.                                                     *)
GoesOn(x) == /\ xfer'[x].alive <=> xfer[x].alive
             /\ xfer'[x].done <=> xfer[x].done
             /\ xfer'[x].status = xfer[x].status /\ xfer'[x].due = xfer[x].due
             /\ xfer[x].asked => xfer'[x].asked
             /\ xfer'[x].handle => xfer[x].handle
             /\ Submitting(x)' <=> Submitting(x)

(* Nothing at all happens to it.                                           *)
IsLeft(x) == xfer'[x] = xfer[x] /\ (Submitting(x)' <=> Submitting(x))

LEMMA PhaseIs ==
  ASSUME NEW x
  PROVE  /\ PhaseOf(x) = "idle" <=> ~ xfer[x].alive
         /\ PhaseOf(x) = "submitting" <=> xfer[x].alive /\ Submitting(x)
         /\ PhaseOf(x) = "finished" <=> xfer[x].alive /\ ~ Submitting(x) /\ xfer[x].done
         /\ PhaseOf(x) = "pending" <=> xfer[x].alive /\ ~ Submitting(x) /\ ~ xfer[x].done
         /\ PhaseOf(x) \in {"idle", "submitting", "finished", "pending"}
  BY SMT DEF PhaseOf, Submitting

LEMMA CauseIs ==
  ASSUME NEW x
  PROVE  /\ "cancel" \in CauseOf(x) <=> xfer[x].asked
         /\ "timeout" \in CauseOf(x) <=> xfer[x].due <= clock
         /\ "gone" \in CauseOf(x) <=> unplugged \/ (xfer[x].alive /\ ~ xfer[x].handle)
         /\ CauseOf(x) \subseteq {"cancel", "timeout", "gone"}
         /\ CauseOf(x) \in SUBSET Promise!Causes
<1>1. CauseOf(x) \subseteq {"cancel", "timeout", "gone"} BY Zenon DEF CauseOf
<1>2. {"cancel", "timeout", "gone"} \subseteq Promise!Causes BY SMT DEF Promise!Causes
<1>3. \A c \in {"cancel", "timeout", "gone"} : c \in CauseOf(x) <=>
         \/ c = "cancel"  /\ xfer[x].asked
         \/ c = "timeout" /\ xfer[x].due <= clock
         \/ c = "gone"    /\ (unplugged \/ (xfer[x].alive /\ ~ xfer[x].handle))
  BY Zenon DEF CauseOf
<1>4. "cancel" # "timeout" /\ "cancel" # "gone" /\ "timeout" # "gone" OBVIOUS
<1> QED BY <1>1, <1>2, <1>3, <1>4, Zenon

(* The same of the next state.                                             *)
LEMMA NextCauseIs ==
  ASSUME NEW x
  PROVE  /\ "cancel" \in CauseOf(x)' <=> xfer'[x].asked
         /\ "timeout" \in CauseOf(x)' <=> xfer'[x].due <= clock'
         /\ "gone" \in CauseOf(x)' <=> unplugged' \/ (xfer'[x].alive /\ ~ xfer'[x].handle)
         /\ CauseOf(x)' \subseteq {"cancel", "timeout", "gone"}
         /\ CauseOf(x)' \in SUBSET Promise!Causes
<1>1. CauseOf(x)' \subseteq {"cancel", "timeout", "gone"} BY Zenon DEF CauseOf
<1>2. {"cancel", "timeout", "gone"} \subseteq Promise!Causes BY SMT DEF Promise!Causes
<1>3. \A c \in {"cancel", "timeout", "gone"} : c \in CauseOf(x)' <=>
         \/ c = "cancel"  /\ xfer'[x].asked
         \/ c = "timeout" /\ xfer'[x].due <= clock'
         \/ c = "gone"    /\ (unplugged' \/ (xfer'[x].alive /\ ~ xfer'[x].handle))
  BY Zenon DEF CauseOf
<1>4. "cancel" # "timeout" /\ "cancel" # "gone" /\ "timeout" # "gone" OBVIOUS
<1> QED BY <1>1, <1>2, <1>3, <1>4, Zenon

LEMMA CauseGrows ==
  ASSUME IoInv, WorldGrows, NEW x \in Callers, GoesOn(x)
  PROVE  CauseOf(x) \subseteq CauseOf(x)'
<1>1. xfer[x].due \in Nat BY Places DEF IoInv
<1>2. xfer[x].due <= clock => xfer'[x].due <= clock'
  <2>1. xfer'[x].due = xfer[x].due BY Zenon DEF GoesOn
  <2> QED BY <1>1, <2>1, SMT DEF WorldGrows
<1>3. /\ "cancel" \in CauseOf(x)' <=> xfer'[x].asked
      /\ "timeout" \in CauseOf(x)' <=> xfer'[x].due <= clock'
      /\ "gone" \in CauseOf(x)' <=> unplugged' \/ (xfer'[x].alive /\ ~ xfer'[x].handle)
  BY NextCauseIs
<1>4. "cancel" \in CauseOf(x) => "cancel" \in CauseOf(x)' BY <1>3, CauseIs, Zenon DEF GoesOn
<1>5. "timeout" \in CauseOf(x) => "timeout" \in CauseOf(x)' BY <1>2, <1>3, CauseIs, Zenon
<1>6. "gone" \in CauseOf(x) => "gone" \in CauseOf(x)' BY <1>3, CauseIs, Zenon DEF GoesOn, WorldGrows
<1>7. CauseOf(x) \subseteq {"cancel", "timeout", "gone"} BY CauseIs
<1> QED BY <1>4, <1>5, <1>6, <1>7, Zenon

LEMMA PhaseStays ==
  ASSUME NEW x, xfer'[x].alive <=> xfer[x].alive, xfer'[x].done <=> xfer[x].done,
         Submitting(x)' <=> Submitting(x)
  PROVE  PhaseOf(x)' = PhaseOf(x)
  BY SMT DEF PhaseOf, Submitting

(* A step in which every transfer goes on lets things happen.              *)
LEMMA HappenStep ==
  ASSUME IoInv, WorldGrows, \A x \in Callers : GoesOn(x)
  PROVE  Promise!Happen
<1>1. Phase' = Phase
  <2>1. \A x \in Callers : PhaseOf(x)' = PhaseOf(x) BY PhaseStays, Zenon DEF GoesOn
  <2> QED BY <2>1, Zenon DEF Phase
<1>2. Status' = Status
  <2>1. \A x \in Callers : (IF xfer'[x].done THEN xfer'[x].status ELSE "none")
                           = IF xfer[x].done THEN xfer[x].status ELSE "none"
    BY Zenon DEF GoesOn
  <2> QED BY <2>1, Zenon DEF Status
<1>3. Cause' \in [Callers -> SUBSET Promise!Causes]
  <2>1. \A x \in Callers : CauseOf(x)' \in SUBSET Promise!Causes BY NextCauseIs
  <2> QED BY <2>1, Zenon DEF Cause
<1>4. \A x \in Callers : Cause[x] \subseteq Cause'[x] BY CauseGrows, Zenon DEF Cause
<1> QED BY <1>1, <1>2, <1>3, <1>4, Zenon DEF Promise!Happen, Phase, Status, Cause

-----------------------------------------------------------------------------
(* The steps that one transfer takes.                                      *)

StatusOf(x) == IF xfer[x].done THEN xfer[x].status ELSE "none"

SameWorld == clock' = clock /\ unplugged' = unplugged

OthersLeft(x) == SameWorld /\ \A y \in Callers \ {x} : IsLeft(y)

(* Who asked for it, its deadline and its handle stay.                     *)
SameCause(x) == /\ xfer'[x].alive <=> xfer[x].alive
                /\ xfer'[x].asked <=> xfer[x].asked
                /\ xfer'[x].handle <=> xfer[x].handle
                /\ xfer'[x].due = xfer[x].due

LEMMA CauseStays ==
  ASSUME NEW x, SameWorld, SameCause(x)
  PROVE  CauseOf(x)' = CauseOf(x)
<1>1. \A c \in {"cancel", "timeout", "gone"} : c \in CauseOf(x)' <=> c \in CauseOf(x)
  <2>1. "cancel" \in CauseOf(x)' <=> "cancel" \in CauseOf(x) BY CauseIs, NextCauseIs, Zenon DEF SameCause
  <2>2. "timeout" \in CauseOf(x)' <=> "timeout" \in CauseOf(x)
    BY CauseIs, NextCauseIs, Zenon DEF SameCause, SameWorld
  <2>3. "gone" \in CauseOf(x)' <=> "gone" \in CauseOf(x)
    BY CauseIs, NextCauseIs, Zenon DEF SameCause, SameWorld
  <2> QED BY <2>1, <2>2, <2>3, Zenon
<1>2. CauseOf(x) \subseteq {"cancel", "timeout", "gone"} BY CauseIs
<1>3. CauseOf(x)' \subseteq {"cancel", "timeout", "gone"} BY NextCauseIs
<1>4. CauseOf(x)' \subseteq CauseOf(x) BY <1>1, <1>3, Zenon
<1>5. CauseOf(x) \subseteq CauseOf(x)' BY <1>1, <1>2, Zenon
<1> QED BY <1>4, <1>5, Zenon

LEMMA LeftAlone ==
  ASSUME NEW x, SameWorld, IsLeft(x)
  PROVE  PhaseOf(x)' = PhaseOf(x) /\ CauseOf(x)' = CauseOf(x) /\ StatusOf(x)' = StatusOf(x)
<1>1. SameCause(x) BY Zenon DEF IsLeft, SameCause
<1>2. PhaseOf(x)' = PhaseOf(x) BY PhaseStays, Zenon DEF IsLeft
<1> QED BY <1>1, <1>2, CauseStays, Zenon DEF IsLeft, StatusOf

LEMMA GoesStep ==
  ASSUME NEW x \in Callers, OthersLeft(x), NEW p, NEW q, PhaseOf(x) = p, PhaseOf(x)' = q
  PROVE  Promise!Goes(x, p, q)
<1>1. \A y \in Callers \ {x} : PhaseOf(y)' = PhaseOf(y) BY LeftAlone, Zenon DEF OthersLeft
<1>2. Phase' = [Phase EXCEPT ![x] = q]
  <2>1. Phase = [y \in Callers |-> PhaseOf(y)] /\ Phase' = [y \in Callers |-> PhaseOf(y)']
    BY DEF Phase
  <2> QED BY <1>1, <2>1, SMT
<1>3. Phase[x] = p BY DEF Phase
<1> QED BY <1>2, <1>3, Zenon DEF Promise!Goes, Phase

LEMMA StatusStep ==
  ASSUME NEW x \in Callers, OthersLeft(x), NEW s, StatusOf(x)' = s
  PROVE  Status' = [Status EXCEPT ![x] = s]
<1>1. \A y \in Callers \ {x} : StatusOf(y)' = StatusOf(y) BY LeftAlone, Zenon DEF OthersLeft
<1>2. Status = [y \in Callers |-> StatusOf(y)] /\ Status' = [y \in Callers |-> StatusOf(y)']
  BY Zenon DEF Status, StatusOf
<1> QED BY <1>1, <1>2, SMT

LEMMA RenewStep ==
  ASSUME NEW x \in Callers, OthersLeft(x), ~ xfer'[x].done
  PROVE  Promise!Renewed(x)
<1>1. CauseOf(x)' \in SUBSET Promise!Causes BY NextCauseIs
<1>2. \A y \in Callers \ {x} : CauseOf(y)' = CauseOf(y) BY LeftAlone, Zenon DEF OthersLeft
<1>3. PICK why \in SUBSET Promise!Causes : why = CauseOf(x)' BY <1>1
<1>4. Cause' = [Cause EXCEPT ![x] = why]
  <2>1. Cause = [y \in Callers |-> CauseOf(y)] /\ Cause' = [y \in Callers |-> CauseOf(y)']
    BY DEF Cause
  <2> QED BY <1>2, <1>3, <2>1, SMT
<1>5. Status' = [Status EXCEPT ![x] = "none"]
  <2>1. StatusOf(x)' = "none" BY Zenon DEF StatusOf
  <2> QED BY <2>1, StatusStep
<1> QED BY <1>4, <1>5, Zenon DEF Promise!Renewed, Cause, Status

LEMMA FinishStep ==
  ASSUME NEW x \in Callers, OthersLeft(x), SameCause(x),
         PhaseOf(x) = "pending", xfer'[x].alive, xfer'[x].done, ~ Submitting(x)',
         NEW s \in Promise!Statuses, xfer'[x].status = s, Promise!Truthful(s, CauseOf(x))
  PROVE  Promise!Finish(x)
<1>1. PhaseOf(x)' = "finished" BY SMT DEF PhaseOf, Submitting
<1>2. Promise!Goes(x, "pending", "finished") BY <1>1, GoesStep
<1>3. Status' = [Status EXCEPT ![x] = s]
  <2>1. StatusOf(x)' = s BY Zenon DEF StatusOf
  <2> QED BY <2>1, StatusStep
<1>4. Cause' = Cause
  <2>1. \A y \in Callers : CauseOf(y)' = CauseOf(y)
    BY CauseStays, LeftAlone, Zenon DEF OthersLeft
  <2> QED BY <2>1, Zenon DEF Cause
<1>5. Cause[x] = CauseOf(x) BY DEF Cause
<1>6. Promise!Truthful(s, Cause[x]) BY <1>5
<1> QED BY <1>2, <1>3, <1>4, <1>6, Zenon DEF Promise!Finish, Cause, Status

LEMMA AcceptStep ==
  ASSUME NEW x \in Callers, OthersLeft(x), SameCause(x),
         PhaseOf(x) = "submitting", PhaseOf(x)' = "pending", ~ xfer[x].done, ~ xfer'[x].done
  PROVE  Promise!Accept(x)
<1>1. Promise!Goes(x, "submitting", "pending") BY GoesStep
<1>2. Status' = Status
  <2>1. \A y \in Callers : StatusOf(y)' = StatusOf(y)
    BY LeftAlone, Zenon DEF OthersLeft, StatusOf
  <2>2. Status = [y \in Callers |-> StatusOf(y)] /\ Status' = [y \in Callers |-> StatusOf(y)']
    BY Zenon DEF Status, StatusOf
  <2> QED BY <2>1, <2>2, Zenon
<1>3. Cause' = Cause
  <2>1. \A y \in Callers : CauseOf(y)' = CauseOf(y)
    BY CauseStays, LeftAlone, Zenon DEF OthersLeft
  <2> QED BY <2>1, Zenon DEF Cause
<1> QED BY <1>1, <1>2, <1>3, Zenon DEF Promise!Accept, Cause, Status

-----------------------------------------------------------------------------
(* Steps that touch no transfer.                                           *)

TouchesNone(t) ==
  /\ Others(t) /\ SameWorld /\ xfer' = xfer
  /\ t \in Callers => ThreadTrue(t)' /\ (Submitting(t)' <=> Submitting(t))
  /\ th[t].pc # "timedout" /\ th'[t].pc # "cancelled"

(* The step of the abstract transfers, and the truth after it.             *)
Tells == TruthInv' /\ Promise!PNext

LEMMA SubmittersAre ==
  ASSUME NEW t \in Threads, Others(t), t \in Callers => (Submitting(t)' <=> Submitting(t)),
         NEW x \in Callers
  PROVE  Submitting(x)' <=> Submitting(x)
<1>1. CASE x = t BY <1>1
<1>2. CASE x # t
  <2>1. th'[x] = th[x] BY <1>2, Zenon DEF Others, Threads
  <2> QED BY <2>1, Zenon DEF Submitting
<1> QED BY <1>1, <1>2

LEMMA TouchesNoneTells ==
  ASSUME IoInv, TruthInv, NEW t \in Threads, TouchesNone(t)
  PROVE  Tells
<1>0. /\ Others(t) /\ clock' = clock /\ unplugged' = unplugged /\ xfer' = xfer
      /\ t \in Callers => ThreadTrue(t)' /\ (Submitting(t)' <=> Submitting(t))
      /\ th[t].pc # "timedout" /\ th'[t].pc # "cancelled"
  BY Zenon DEF TouchesNone, SameWorld
<1>1. WorldGrows
  <2>1. clock \in Nat BY Places DEF IoInv
  <2> QED BY <1>0, <2>1, SMT DEF WorldGrows
<1>2. \A x \in Callers : Carries(x) BY <1>0, Zenon DEF Carries, Grows
<1>3. \A x \in Callers : TransferTrue(x)' BY <1>0, Zenon DEF TruthInv, TransferTrue
<1>4. TruthInv' BY <1>0, <1>1, <1>2, <1>3, StepTrue
<1>5. \A x \in Callers : GoesOn(x)
  <2> SUFFICES ASSUME NEW x \in Callers PROVE GoesOn(x) OBVIOUS
  <2>1. Submitting(x)' <=> Submitting(x) BY <1>0, SubmittersAre
  <2> QED BY <1>0, <2>1, Zenon DEF GoesOn
<1>6. Promise!Happen BY <1>1, <1>5, HappenStep
<1> QED BY <1>4, <1>6, Zenon DEF Tells, Promise!PNext

LEMMA TryEventsTells ==
  ASSUME IoInv, TruthInv, NEW t \in Callers, TryEvents(t)
  PROVE  Tells
<1>0. TypeOK /\ PcInv /\ t \in Threads /\ ThreadTrue(t) BY DEF IoInv, TruthInv, Threads
<1>1. xfer' = xfer /\ clock' = clock /\ unplugged' = unplugged BY <1>0, TryEventsDoes, SMT DEF world
<1>2. TouchesNone(t)
  BY <1>0, <1>1, TryEventsDoes, SMT
  DEF TouchesNone, SameWorld, ThreadTrue, Submitting, VerdictIs, PcInv, CompletingPcs, TimeoutPcs,
      Moves, MovesFor, Polled, Batched, Turns
<1> QED BY <1>0, <1>2, TouchesNoneTells

LEMMA TryLockEventsTells ==
  ASSUME IoInv, TruthInv, NEW t \in Callers, TryLockEvents(t)
  PROVE  Tells
<1>0. TypeOK /\ PcInv /\ t \in Threads /\ ThreadTrue(t) BY DEF IoInv, TruthInv, Threads
<1>1. xfer' = xfer /\ clock' = clock /\ unplugged' = unplugged BY <1>0, TryLockEventsDoes, SMT DEF world
<1>2. TouchesNone(t)
  BY <1>0, <1>1, TryLockEventsDoes, SMT
  DEF TouchesNone, SameWorld, ThreadTrue, Submitting, VerdictIs, PcInv, CompletingPcs, TimeoutPcs,
      Moves, MovesFor, Polled, Batched, Turns
<1> QED BY <1>0, <1>2, TouchesNoneTells

LEMMA LockWaitersTells ==
  ASSUME IoInv, TruthInv, NEW t \in Callers, LockWaiters(t)
  PROVE  Tells
<1>0. TypeOK /\ PcInv /\ t \in Threads /\ ThreadTrue(t) BY DEF IoInv, TruthInv, Threads
<1>1. xfer' = xfer /\ clock' = clock /\ unplugged' = unplugged BY <1>0, LockWaitersDoes, SMT DEF world
<1>2. TouchesNone(t)
  BY <1>0, <1>1, LockWaitersDoes, SMT
  DEF TouchesNone, SameWorld, ThreadTrue, Submitting, VerdictIs, PcInv, CompletingPcs, TimeoutPcs,
      Moves, MovesFor, Polled, Batched, Turns
<1> QED BY <1>0, <1>2, TouchesNoneTells

LEMMA HandlerActiveTells ==
  ASSUME IoInv, TruthInv, NEW t \in Callers, HandlerActive(t)
  PROVE  Tells
<1>0. TypeOK /\ PcInv /\ t \in Threads /\ ThreadTrue(t) BY DEF IoInv, TruthInv, Threads
<1>1. xfer' = xfer /\ clock' = clock /\ unplugged' = unplugged BY <1>0, HandlerActiveDoes, SMT DEF world
<1>2. TouchesNone(t)
  BY <1>0, <1>1, HandlerActiveDoes, SMT
  DEF TouchesNone, SameWorld, ThreadTrue, Submitting, VerdictIs, PcInv, CompletingPcs, TimeoutPcs,
      Moves, MovesFor, Polled, Batched, Turns
<1> QED BY <1>0, <1>2, TouchesNoneTells

LEMMA SubmitRejectedTells ==
  ASSUME IoInv, TruthInv, NEW t \in Callers, SubmitRejected(t)
  PROVE  Tells
<1>0. TypeOK /\ PcInv /\ t \in Threads /\ ThreadTrue(t) BY DEF IoInv, TruthInv, Threads
<1>1. xfer' = xfer /\ clock' = clock /\ unplugged' = unplugged BY <1>0, SubmitRejectedDoes, SMT DEF world
<1>2. TouchesNone(t)
  BY <1>0, <1>1, SubmitRejectedDoes, SMT
  DEF TouchesNone, SameWorld, ThreadTrue, Submitting, VerdictIs, PcInv, CompletingPcs, TimeoutPcs,
      Moves, MovesFor, Polled, Batched, Turns
<1> QED BY <1>0, <1>2, TouchesNoneTells

LEMMA GetNextTimeoutTells ==
  ASSUME IoInv, TruthInv, NEW t \in Callers, GetNextTimeout(t)
  PROVE  Tells
<1>0. TypeOK /\ PcInv /\ t \in Threads /\ ThreadTrue(t) BY DEF IoInv, TruthInv, Threads
<1>1. xfer' = xfer /\ clock' = clock /\ unplugged' = unplugged BY <1>0, GetNextTimeoutDoes, SMT DEF world
<1>2. TouchesNone(t)
  BY <1>0, <1>1, GetNextTimeoutDoes, SMT
  DEF TouchesNone, SameWorld, ThreadTrue, Submitting, VerdictIs, PcInv, CompletingPcs, TimeoutPcs,
      Moves, MovesFor, Polled, Batched, Turns
<1> QED BY <1>0, <1>2, TouchesNoneTells

LEMMA WakeUpTells ==
  ASSUME IoInv, TruthInv, NEW t \in Callers, WakeUp(t)
  PROVE  Tells
<1>0. TypeOK /\ PcInv /\ t \in Threads /\ ThreadTrue(t) BY DEF IoInv, TruthInv, Threads
<1>1. xfer' = xfer /\ clock' = clock /\ unplugged' = unplugged BY <1>0, WakeUpDoes, SMT DEF world
<1>2. TouchesNone(t)
  BY <1>0, <1>1, WakeUpDoes, SMT
  DEF TouchesNone, SameWorld, ThreadTrue, Submitting, VerdictIs, PcInv, CompletingPcs, TimeoutPcs,
      Moves, MovesFor, Polled, Batched, Turns
<1> QED BY <1>0, <1>2, TouchesNoneTells

LEMMA PollTells ==
  ASSUME IoInv, TruthInv, NEW t \in Callers, Poll(t)
  PROVE  Tells
<1>0. TypeOK /\ PcInv /\ t \in Threads /\ ThreadTrue(t) BY DEF IoInv, TruthInv, Threads
<1>1. xfer' = xfer /\ clock' = clock /\ unplugged' = unplugged BY <1>0, PollDoes, SMT DEF world
<1>2. TouchesNone(t)
  BY <1>0, <1>1, PollDoes, SMT
  DEF TouchesNone, SameWorld, ThreadTrue, Submitting, VerdictIs, PcInv, CompletingPcs, TimeoutPcs,
      Moves, MovesFor, Polled, Batched, Turns
<1> QED BY <1>0, <1>2, TouchesNoneTells

LEMMA PollInterruptedTells ==
  ASSUME IoInv, TruthInv, NEW t \in Callers, PollInterrupted(t)
  PROVE  Tells
<1>0. TypeOK /\ PcInv /\ t \in Threads /\ ThreadTrue(t) BY DEF IoInv, TruthInv, Threads
<1>1. xfer' = xfer /\ clock' = clock /\ unplugged' = unplugged BY <1>0, PollInterruptedDoes, SMT DEF world
<1>2. TouchesNone(t)
  BY <1>0, <1>1, PollInterruptedDoes, SMT
  DEF TouchesNone, SameWorld, ThreadTrue, Submitting, VerdictIs, PcInv, CompletingPcs, TimeoutPcs,
      Moves, MovesFor, Polled, Batched, Turns
<1> QED BY <1>0, <1>2, TouchesNoneTells

LEMMA HandleEventsTells ==
  ASSUME IoInv, TruthInv, NEW t \in Callers, HandleEvents(t)
  PROVE  Tells
<1>0. TypeOK /\ PcInv /\ t \in Threads /\ ThreadTrue(t) BY DEF IoInv, TruthInv, Threads
<1>1. xfer' = xfer /\ clock' = clock /\ unplugged' = unplugged BY <1>0, HandleEventsDoes, SMT DEF world
<1>2. TouchesNone(t)
  BY <1>0, <1>1, HandleEventsDoes, SMT
  DEF TouchesNone, SameWorld, ThreadTrue, Submitting, VerdictIs, PcInv, CompletingPcs, TimeoutPcs,
      Moves, MovesFor, Polled, Batched, Turns
<1> QED BY <1>0, <1>2, TouchesNoneTells

LEMMA HandleEventTriggerTells ==
  ASSUME IoInv, TruthInv, NEW t \in Callers, HandleEventTrigger(t)
  PROVE  Tells
<1>0. TypeOK /\ PcInv /\ t \in Threads /\ ThreadTrue(t) BY DEF IoInv, TruthInv, Threads
<1>1. xfer' = xfer /\ clock' = clock /\ unplugged' = unplugged BY <1>0, HandleEventTriggerDoes, SMT DEF world
<1>2. TouchesNone(t)
  BY <1>0, <1>1, HandleEventTriggerDoes, SMT
  DEF TouchesNone, SameWorld, ThreadTrue, Submitting, VerdictIs, PcInv, CompletingPcs, TimeoutPcs,
      Moves, MovesFor, Polled, Batched, Turns
<1> QED BY <1>0, <1>2, TouchesNoneTells

LEMMA CompletionsEndTells ==
  ASSUME IoInv, TruthInv, NEW t \in Callers, CompletionsEnd(t)
  PROVE  Tells
<1>0. TypeOK /\ PcInv /\ t \in Threads /\ ThreadTrue(t) BY DEF IoInv, TruthInv, Threads
<1>1. xfer' = xfer /\ clock' = clock /\ unplugged' = unplugged BY <1>0, CompletionsEndDoes, SMT DEF world
<1>2. TouchesNone(t)
  BY <1>0, <1>1, CompletionsEndDoes, SMT
  DEF TouchesNone, SameWorld, ThreadTrue, Submitting, VerdictIs, PcInv, CompletingPcs, TimeoutPcs,
      Moves, MovesFor, Polled, Batched, Turns
<1> QED BY <1>0, <1>2, TouchesNoneTells

LEMMA HandleDescriptorTells ==
  ASSUME IoInv, TruthInv, NEW t \in Callers, HandleDescriptor(t)
  PROVE  Tells
<1>0. TypeOK /\ PcInv /\ t \in Threads /\ ThreadTrue(t) BY DEF IoInv, TruthInv, Threads
<1>1. xfer' = xfer /\ clock' = clock /\ unplugged' = unplugged BY <1>0, HandleDescriptorDoes, SMT DEF world
<1>2. TouchesNone(t)
  BY <1>0, <1>1, HandleDescriptorDoes, SMT
  DEF TouchesNone, SameWorld, ThreadTrue, Submitting, VerdictIs, PcInv, CompletingPcs, TimeoutPcs,
      Moves, MovesFor, Polled, Batched, Turns
<1> QED BY <1>0, <1>2, TouchesNoneTells

LEMMA ReapEndTells ==
  ASSUME IoInv, TruthInv, NEW t \in Callers, ReapEnd(t)
  PROVE  Tells
<1>0. TypeOK /\ PcInv /\ t \in Threads /\ ThreadTrue(t) BY DEF IoInv, TruthInv, Threads
<1>1. xfer' = xfer /\ clock' = clock /\ unplugged' = unplugged BY <1>0, ReapEndDoes, SMT DEF world
<1>2. TouchesNone(t)
  BY <1>0, <1>1, ReapEndDoes, SMT
  DEF TouchesNone, SameWorld, ThreadTrue, Submitting, VerdictIs, PcInv, CompletingPcs, TimeoutPcs,
      Moves, MovesFor, Polled, Batched, Turns
<1> QED BY <1>0, <1>2, TouchesNoneTells

LEMMA LeaveFlyingListTells ==
  ASSUME IoInv, TruthInv, NEW t \in Callers, LeaveFlyingList(t)
  PROVE  Tells
<1>0. TypeOK /\ PcInv /\ t \in Threads /\ ThreadTrue(t) BY DEF IoInv, TruthInv, Threads
<1>1. xfer' = xfer /\ clock' = clock /\ unplugged' = unplugged BY <1>0, LeaveFlyingListDoes, SMT DEF world
<1>2. TouchesNone(t)
  BY <1>0, <1>1, LeaveFlyingListDoes, SMT
  DEF TouchesNone, SameWorld, ThreadTrue, Submitting, VerdictIs, PcInv, CompletingPcs, TimeoutPcs,
      Moves, MovesFor, Polled, Batched, Turns
<1> QED BY <1>0, <1>2, TouchesNoneTells

LEMMA TimeoutsHandledTells ==
  ASSUME IoInv, TruthInv, NEW t \in Callers, TimeoutsHandled(t)
  PROVE  Tells
<1>0. TypeOK /\ PcInv /\ t \in Threads /\ ThreadTrue(t) BY DEF IoInv, TruthInv, Threads
<1>1. /\ xfer' = xfer /\ clock' = clock /\ unplugged' = unplugged
      /\ th[t].pc \in {"expire", "expiring"}
  BY <1>0, TimeoutsHandledDoes, SMT DEF world
<1>2. th[t].ret \in {"after", "unlock"} BY <1>1, SMT DEF IoInv, PcInv, TimeoutPcs
<1>3. Turns(t, th[t].ret, None)
  <2>1. th[t].ret \in Pcs BY <1>2, SMT DEF Pcs, CallerPcs, HandlerPcs
  <2> QED BY <1>0, <2>1, TimeoutsHandledDoes, Zenon
<1>4. TouchesNone(t)
  BY <1>0, <1>1, <1>2, <1>3, SMT
  DEF TouchesNone, SameWorld, ThreadTrue, Submitting, CompletingPcs, Turns
<1> QED BY <1>0, <1>4, TouchesNoneTells

LEMMA CloseBeginTells ==
  ASSUME IoInv, TruthInv, CloseBegin
  PROVE  Tells
<1>0. TypeOK /\ Closer \in Threads /\ Closer \notin Callers BY ThreadsAssumption DEF IoInv, Threads
<1>1. xfer' = xfer /\ clock' = clock /\ unplugged' = unplugged BY <1>0, CloseBeginDoes, SMT DEF world
<1>2. TouchesNone(Closer)
  BY <1>0, <1>1, CloseBeginDoes, SMT DEF TouchesNone, SameWorld, Moves
<1> QED BY <1>0, <1>2, TouchesNoneTells

LEMMA LockEventsTells ==
  ASSUME IoInv, TruthInv, LockEvents
  PROVE  Tells
<1>0. TypeOK /\ Closer \in Threads /\ Closer \notin Callers BY ThreadsAssumption DEF IoInv, Threads
<1>1. xfer' = xfer /\ clock' = clock /\ unplugged' = unplugged BY <1>0, LockEventsDoes, SMT DEF world
<1>2. TouchesNone(Closer)
  BY <1>0, <1>1, LockEventsDoes, SMT DEF TouchesNone, SameWorld, Moves
<1> QED BY <1>0, <1>2, TouchesNoneTells

LEMMA CloseEndTells ==
  ASSUME IoInv, TruthInv, CloseEnd
  PROVE  Tells
<1>0. TypeOK /\ Closer \in Threads /\ Closer \notin Callers BY ThreadsAssumption DEF IoInv, Threads
<1>1. xfer' = xfer /\ clock' = clock /\ unplugged' = unplugged BY <1>0, CloseEndDoes, SMT DEF world
<1>2. TouchesNone(Closer)
  BY <1>0, <1>1, CloseEndDoes, SMT DEF TouchesNone, SameWorld, Moves
<1> QED BY <1>0, <1>2, TouchesNoneTells

LEMMA UnlockEventsTells ==
  ASSUME IoInv, TruthInv, NEW t \in Threads, UnlockEvents(t)
  PROVE  Tells
<1>0. TypeOK /\ (t \in Callers => ThreadTrue(t)) BY DEF IoInv, TruthInv
<1>1. xfer' = xfer /\ clock' = clock /\ unplugged' = unplugged BY <1>0, UnlockEventsDoes, SMT DEF world
<1>2. TouchesNone(t)
  BY <1>0, <1>1, UnlockEventsDoes, SMT
  DEF TouchesNone, SameWorld, ThreadTrue, Submitting, CompletingPcs, Moves
<1> QED BY <1>0, <1>2, TouchesNoneTells

(* The transfer was cancelled by its timeout, or its owner asked for it.   *)
LEMMA HandleTransferCancellationTells ==
  ASSUME IoInv, TruthInv, NEW t \in Callers, HandleTransferCancellation(t)
  PROVE  Tells
<1>0. TypeOK /\ t \in Threads /\ ThreadTrue(t) BY DEF IoInv, TruthInv, Threads
<1>1. /\ xfer' = xfer /\ clock' = clock /\ unplugged' = unplugged
      /\ th[t].pc = "cancelled" /\ flyingLock = None
      /\ Settled(t, "complete", IF xfer[th[t].x].timedOut THEN "TIMED_OUT" ELSE "CANCELLED")
  BY <1>0, TransferCancellationDoes, SMT DEF world
<1>2. ~ BeingTimedOut(th[t].x)
  BY <1>1, ThreadsAssumption, SMT DEF IoInv, FlyingLockInv, BeingTimedOut, Threads
<1>3. xfer[th[t].x].asked \/ xfer[th[t].x].timedOut BY <1>1, <1>2, Zenon DEF TruthInv, WantedInv, Wanted
<1>4. TouchesNone(t)
  BY <1>0, <1>1, <1>3, SMT
  DEF TouchesNone, SameWorld, ThreadTrue, VerdictIs, Submitting, CompletingPcs, Settled
<1> QED BY <1>0, <1>4, TouchesNoneTells

-----------------------------------------------------------------------------
(* Steps in which every transfer goes on.                                  *)

(* A transfer goes on; nothing is forgotten of it and it is true.          *)
Remains(x) == /\ xfer'[x].alive <=> xfer[x].alive
              /\ xfer'[x].done <=> xfer[x].done
              /\ xfer'[x].status = xfer[x].status
              /\ xfer'[x].handle => xfer[x].handle
              /\ Grows(x) /\ TransferTrue(x)'

LEMMA UntouchedRemains ==
  ASSUME IoInv, TruthInv, WorldGrows, NEW x \in Callers, xfer'[x] = xfer[x]
  PROVE  Remains(x)
<1>1. xfer[x].due \in Nat BY Places DEF IoInv
<1>2. xfer[x].timedOut => xfer[x].due <= clock' BY <1>1, SMT DEF WorldGrows, TruthInv, TransferTrue
<1>3. TransferTrue(x)
  BY Zenon DEF TruthInv
<1>4. TransferTrue(x)' BY <1>2, <1>3, Zenon DEF TransferTrue, WorldGrows
<1> QED BY <1>4, Zenon DEF Remains, Grows

LEMMA RemainsTells ==
  ASSUME IoInv, TruthInv, NEW t \in Threads, Others(t), WorldGrows,
         t \in Callers => ThreadTrue(t)' /\ (Submitting(t)' <=> Submitting(t)),
         \A x \in Callers : Remains(x),
         t \in Callers /\ th[t].pc = "timedout" => xfer'[th[t].x].timedOut,
         \A x \in Callers : xfer'[x].urb = "killed" => xfer[x].urb = "killed" \/ Wanted(x)',
         t \in Callers /\ th'[t].pc = "cancelled" => Wanted(th[t].x)'
  PROVE  Tells
<1>1. \A x \in Callers : Carries(x) BY Zenon DEF Carries, Remains
<1>2. \A x \in Callers : TransferTrue(x)' BY Zenon DEF Remains
<1>3. t \in Callers => ThreadTrue(t)' OBVIOUS
<1>4. TruthInv' BY <1>1, <1>2, <1>3, StepTrue
<1>5. \A x \in Callers : GoesOn(x)
  <2> SUFFICES ASSUME NEW x \in Callers PROVE GoesOn(x) OBVIOUS
  <2>1. Submitting(x)' <=> Submitting(x) BY SubmittersAre
  <2> QED BY <2>1, Zenon DEF GoesOn, Remains, Grows
<1>6. Promise!Happen BY <1>5, HappenStep
<1> QED BY <1>4, <1>6, Zenon DEF Tells, Promise!PNext

(* No thread moves.                                                        *)
LEMMA WorldTells ==
  ASSUME IoInv, TruthInv, th' = th, WorldGrows,
         \A x \in Callers : Remains(x),
         \A x \in Callers : xfer'[x].urb = "killed" => xfer[x].urb = "killed"
  PROVE  Tells
<1>1. Closer \in Threads /\ Closer \notin Callers BY ThreadsAssumption DEF Threads
<1>2. Others(Closer) BY Zenon DEF Others
<1> QED BY <1>1, <1>2, RemainsTells

LEMMA TickTells ==
  ASSUME IoInv, TruthInv, Tick
  PROVE  Tells
<1>1. xfer' = xfer /\ th' = th /\ unplugged' = unplugged /\ clock' = clock + 1 BY Zenon DEF Tick
<1>2. clock \in Nat BY Places DEF IoInv
<1>3. WorldGrows BY <1>1, <1>2, SMT DEF WorldGrows
<1>4. \A x \in Callers : Remains(x) BY <1>1, <1>3, UntouchedRemains, Zenon
<1> QED BY <1>1, <1>3, <1>4, WorldTells

LEMMA StillWorld ==
  ASSUME IoInv, clock' = clock, unplugged => unplugged'
  PROVE  WorldGrows
<1>1. clock \in Nat BY Places DEF IoInv
<1> QED BY <1>1, SMT DEF WorldGrows

LEMMA StillTells ==
  ASSUME IoInv, TruthInv, xfer' = xfer, th' = th, clock' = clock, unplugged' = unplugged
  PROVE  Tells
<1>1. WorldGrows BY StillWorld, Zenon
<1>2. \A x \in Callers : Remains(x) BY <1>1, UntouchedRemains, Zenon
<1> QED BY <1>1, <1>2, WorldTells

LEMMA InterruptTells ==
  ASSUME IoInv, TruthInv, Interrupt
  PROVE  Tells
<1>1. xfer' = xfer /\ th' = th /\ unplugged' = unplugged /\ clock' = clock BY Zenon DEF Interrupt
<1> QED BY <1>1, StillTells

LEMMA FinishesTells ==
  ASSUME IoInv, TruthInv, NEW x \in Callers, Finishes(x)
  PROVE  Tells
<1>1. /\ xfer' = [xfer EXCEPT ![x].urb = "finished"] /\ th' = th
      /\ clock' = clock /\ unplugged' = unplugged
  BY Zenon DEF Finishes, world
<1>2. WorldGrows BY <1>1, StillWorld, Zenon
<1>3. xfer \in [Callers -> Transfer] BY Places DEF IoInv
<1>4. /\ \A y \in Callers \ {x} : xfer'[y] = xfer[y]
      /\ xfer'[x].alive = xfer[x].alive /\ xfer'[x].asked = xfer[x].asked
      /\ xfer'[x].timedOut = xfer[x].timedOut /\ xfer'[x].due = xfer[x].due
      /\ xfer'[x].handle = xfer[x].handle /\ xfer'[x].status = xfer[x].status
      /\ xfer'[x].done = xfer[x].done /\ xfer'[x].urb = "finished"
      /\ xfer'[x].queued = xfer[x].queued
  BY <1>1, <1>3, KernelIsDone, Zenon
<1>5. TransferTrue(x) BY Zenon DEF TruthInv
<1>6. Remains(x) BY <1>1, <1>4, <1>5, SMT DEF Remains, Grows, TransferTrue
<1>7. \A y \in Callers : Remains(y) BY <1>2, <1>4, <1>6, UntouchedRemains, Zenon
<1>8. \A y \in Callers : xfer'[y].urb = "killed" => xfer[y].urb = "killed" BY <1>4, SMT
<1> QED BY <1>1, <1>2, <1>7, <1>8, WorldTells

LEMMA SignalCompletionTells ==
  ASSUME IoInv, TruthInv, NEW x \in Callers, SignalCompletion(x)
  PROVE  Tells
<1>1. /\ xfer' = [xfer EXCEPT ![x].queued = TRUE] /\ th' = th
      /\ clock' = clock /\ unplugged' = unplugged
      /\ xfer[x].urb \in {"finished", "killed", "shutdown"}
  BY Zenon DEF SignalCompletion, world
<1>2. WorldGrows BY <1>1, StillWorld, Zenon
<1>3. xfer \in [Callers -> Transfer] BY Places DEF IoInv
<1>4. /\ \A y \in Callers \ {x} : xfer'[y] = xfer[y]
      /\ xfer'[x].alive = xfer[x].alive /\ xfer'[x].asked = xfer[x].asked
      /\ xfer'[x].timedOut = xfer[x].timedOut /\ xfer'[x].due = xfer[x].due
      /\ xfer'[x].handle = xfer[x].handle /\ xfer'[x].status = xfer[x].status
      /\ xfer'[x].done = xfer[x].done /\ xfer'[x].urb = xfer[x].urb
      /\ xfer'[x].queued = TRUE
  BY <1>1, <1>3, PutOnQueue, Zenon
<1>5. TransferTrue(x) BY Zenon DEF TruthInv
<1>6. Remains(x) BY <1>1, <1>4, <1>5, Zenon DEF Remains, Grows, TransferTrue
<1>7. \A y \in Callers : Remains(y) BY <1>2, <1>4, <1>6, UntouchedRemains, Zenon
<1>8. \A y \in Callers : xfer'[y].urb = "killed" => xfer[y].urb = "killed" BY <1>4, Zenon
<1> QED BY <1>1, <1>2, <1>7, <1>8, WorldTells

LEMMA MembersAre ==
  ASSUME NEW x \in Callers
  PROVE  /\ x \in Alive <=> xfer[x].alive
         /\ x \in Done <=> xfer[x].done
         /\ x \in InTheAir <=> xfer[x].flight
         /\ x \in Attached <=> xfer[x].handle
         /\ x \in Queued <=> xfer[x].queued
         /\ x \in Requested <=> xfer[x].urb # "none"
  BY Zenon DEF Alive, Done, InTheAir, Attached, Queued, Requested

LEMMA NextMembersAre ==
  ASSUME NEW x \in Callers
  PROVE  /\ x \in Alive' <=> xfer'[x].alive
         /\ x \in Done' <=> xfer'[x].done
         /\ x \in Attached' <=> xfer'[x].handle
         /\ x \in Queued' <=> xfer'[x].queued
  BY Zenon DEF Alive, Done, Attached, Queued

LEMMA UnplugTells ==
  ASSUME IoInv, TruthInv, Unplug
  PROVE  Tells
<1>1. /\ unplugged' /\ th' = th /\ clock' = clock
      /\ xfer' = [x \in Callers |-> IF xfer[x].urb = "submitted"
                                    THEN [xfer[x] EXCEPT !.urb = "shutdown"] ELSE xfer[x]]
  BY Zenon DEF Unplug
<1>2. WorldGrows BY <1>1, StillWorld, Zenon
<1>3. xfer \in [Callers -> Transfer] BY Places DEF IoInv
<1>4. ASSUME NEW x \in Callers PROVE Remains(x) /\ xfer'[x].urb \in {xfer[x].urb, "shutdown"}
  <2>1. TransferTrue(x) BY Zenon DEF TruthInv
  <2>2. xfer'[x] = xfer[x] \/ xfer'[x] = [xfer[x] EXCEPT !.urb = "shutdown"] BY <1>1, Zenon
  <2>3. xfer[x] \in Transfer BY <1>3
  <2>4. CASE xfer'[x] = xfer[x] BY <1>2, <2>4, UntouchedRemains
  <2>5. CASE xfer'[x] = [xfer[x] EXCEPT !.urb = "shutdown"]
    <3>1. /\ xfer'[x].alive = xfer[x].alive /\ xfer'[x].done = xfer[x].done
          /\ xfer'[x].handle = xfer[x].handle /\ xfer'[x].due = xfer[x].due
          /\ xfer'[x].asked = xfer[x].asked /\ xfer'[x].timedOut = xfer[x].timedOut
          /\ xfer'[x].status = xfer[x].status /\ xfer'[x].urb = "shutdown"
      BY <2>3, <2>5, SMT DEF Transfer
    <3> QED BY <1>1, <2>1, <3>1, SMT DEF Remains, Grows, TransferTrue
  <2> QED BY <2>2, <2>4, <2>5
<1>5. \A x \in Callers : xfer'[x].urb = "killed" => xfer[x].urb = "killed" BY <1>4, SMT
<1> QED BY <1>1, <1>2, <1>4, <1>5, WorldTells

(* libusb_close takes the handle from the transfers on the list, then it   *)
(* kills their requests.                                                   *)
LEMMA SweepTells ==
  ASSUME IoInv, TruthInv, Sweep
  PROVE  Tells
<1>0. TypeOK /\ FlyingInv /\ Closer \in Threads /\ Closer \notin Callers
  BY ThreadsAssumption DEF IoInv, Threads
<1>1. Others(Closer) /\ clock' = clock /\ unplugged' = unplugged
  BY <1>0, SweepDoes, Zenon DEF Moves, world
<1>2. WorldGrows BY <1>1, StillWorld, Zenon
<1>3. /\ Attached' = Attached \ Flying /\ Alive' = Alive /\ Done' = Done /\ Queued' = Queued
      /\ \A x \in Callers : /\ xfer'[x].asked = xfer[x].asked /\ xfer'[x].due = xfer[x].due
                            /\ xfer'[x].timedOut = xfer[x].timedOut
                            /\ xfer'[x].status = xfer[x].status /\ xfer'[x].urb = xfer[x].urb
  BY <1>0, SweepFrees, Zenon
<1>4. ASSUME NEW x \in Callers PROVE Remains(x)
  <2>1. TransferTrue(x) BY Zenon DEF TruthInv
  <2>2. /\ xfer'[x].alive <=> xfer[x].alive
        /\ xfer'[x].done <=> xfer[x].done
        /\ xfer'[x].queued <=> xfer[x].queued
        /\ xfer'[x].handle <=> xfer[x].handle /\ x \notin Flying
    BY <1>3, MembersAre, NextMembersAre, Zenon
  <2>3. xfer[x].done => x \notin Flying BY <1>0, MembersAre, Zenon DEF FlyingInv
  <2>4. /\ xfer'[x].asked = xfer[x].asked /\ xfer'[x].due = xfer[x].due
        /\ xfer'[x].timedOut = xfer[x].timedOut
        /\ xfer'[x].status = xfer[x].status /\ xfer'[x].urb = xfer[x].urb
    BY <1>3
  <2> QED BY <1>1, <2>1, <2>2, <2>3, <2>4, Zenon DEF Remains, Grows, TransferTrue
<1>5. \A x \in Callers : xfer'[x].urb = "killed" => xfer[x].urb = "killed" BY <1>3, Zenon
<1> QED BY <1>0, <1>1, <1>2, <1>4, <1>5, RemainsTells

LEMMA DetachTells ==
  ASSUME IoInv, TruthInv, Detach
  PROVE  Tells
<1>0. /\ TypeOK /\ OwnerInv /\ AttachedInv /\ QueueInv
      /\ Closer \in Threads /\ Closer \notin Callers
  BY ThreadsAssumption DEF IoInv, Threads
<1>1. Others(Closer) /\ clock' = clock /\ unplugged' = unplugged /\ th[Closer].pc = "detach"
  BY <1>0, DetachDoes, Zenon DEF Moves, world
<1>2. WorldGrows BY <1>1, StillWorld, Zenon
<1>3. /\ Attached' = Attached /\ Alive' = Alive /\ Done' = Done /\ Queued' = Queued
      /\ \A x \in Callers : /\ xfer'[x].asked = xfer[x].asked /\ xfer'[x].due = xfer[x].due
                            /\ xfer'[x].timedOut = xfer[x].timedOut
                            /\ xfer'[x].status = xfer[x].status /\ xfer'[x].urb = "none"
  BY <1>0, DetachKills, Zenon
<1>4. Queued = {}
  <2>1. backend = "signal" => Alive = {} BY <1>0, <1>1, SMT DEF AttachedInv
  <2>2. Queued \subseteq Alive BY <1>0, Zenon DEF QueueInv, OwnerInv
  <2> QED BY <1>0, <2>1, <2>2, Zenon DEF QueueInv
<1>5. ASSUME NEW x \in Callers PROVE Remains(x)
  <2>1. TransferTrue(x) BY Zenon DEF TruthInv
  <2>2. /\ xfer'[x].alive <=> xfer[x].alive
        /\ xfer'[x].done <=> xfer[x].done
        /\ ~ xfer'[x].queued
        /\ xfer'[x].handle <=> xfer[x].handle
    BY <1>3, <1>4, MembersAre, NextMembersAre, Zenon
  <2>4. /\ xfer'[x].asked = xfer[x].asked /\ xfer'[x].due = xfer[x].due
        /\ xfer'[x].timedOut = xfer[x].timedOut
        /\ xfer'[x].status = xfer[x].status /\ xfer'[x].urb = "none"
    BY <1>3
  <2> QED BY <1>1, <2>1, <2>2, <2>4, SMT DEF Remains, Grows, TransferTrue
<1>6. \A x \in Callers : xfer'[x].urb = "killed" => xfer[x].urb = "killed" BY <1>3, SMT
<1> QED BY <1>0, <1>1, <1>2, <1>5, <1>6, RemainsTells

(* A transfer that is cancelled by its owner, or by its timeout, is one    *)
(* that someone wanted cancelled.                                          *)
LEMMA CancelAsks ==
  ASSUME xfer \in [Callers -> Transfer], NEW x \in Callers,
         xfer' = [xfer EXCEPT ![x] = [Cancelled(x) EXCEPT !.asked = TRUE]]
  PROVE  xfer'[x].asked
<1> DEFINE c == Cancelled(x)
<1>1. c \in Transfer BY CancelledIs
<1> HIDE DEF c
<1>2. xfer'[x] = [c EXCEPT !.asked = TRUE] BY Zenon DEF c
<1> QED BY <1>1, <1>2, SMT DEF Transfer

LEMMA CancelRemains ==
  ASSUME IoInv, TruthInv, WorldGrows, NEW x \in Callers, clock' = clock, unplugged' = unplugged,
         \/ xfer' = [xfer EXCEPT ![x] = [Cancelled(x) EXCEPT !.asked = TRUE]]
         \/ xfer' = [xfer EXCEPT ![x] = [Cancelled(x) EXCEPT !.handled = TRUE]]
  PROVE  /\ \A y \in Callers : Remains(y)
         /\ \A y \in Callers \ {x} : xfer'[y] = xfer[y]
         /\ xfer'[x].urb = "killed" => CancelSucceeds(x) \/ xfer[x].urb = "killed"
<1>1. xfer \in [Callers -> Transfer] BY Places DEF IoInv
<1>2. /\ \A y \in Callers \ {x} : xfer'[y] = xfer[y]
      /\ xfer'[x].due = xfer[x].due /\ xfer'[x].timedOut = xfer[x].timedOut
      /\ xfer'[x].status = xfer[x].status
      /\ xfer'[x].alive = xfer[x].alive /\ xfer'[x].done = xfer[x].done
      /\ xfer'[x].handle = xfer[x].handle /\ xfer'[x].queued = xfer[x].queued
      /\ xfer'[x].asked = xfer[x].asked \/ xfer'[x].asked = TRUE
      /\ xfer'[x].urb = IF CancelSucceeds(x) THEN "killed" ELSE xfer[x].urb
  BY <1>1, CancelLeavesSets, Zenon
<1>3. TransferTrue(x) BY Zenon DEF TruthInv
<1>4. Remains(x)
  <2>1. xfer'[x].urb = "killed" \/ xfer'[x].urb = xfer[x].urb BY <1>2, Zenon
  <2>2. xfer[x].asked => xfer'[x].asked BY <1>2, Zenon
  <2> QED BY <1>2, <1>3, <2>1, <2>2, SMT DEF Remains, Grows, TransferTrue
<1>5. \A y \in Callers : Remains(y) BY <1>2, <1>4, UntouchedRemains, Zenon
<1> QED BY <1>2, <1>5, Zenon

LEMMA CancelTells ==
  ASSUME IoInv, TruthInv, NEW t \in Callers, Cancel(t)
  PROVE  Tells
<1>0. TypeOK /\ t \in Threads /\ ThreadTrue(t) BY DEF IoInv, TruthInv, Threads
<1>1. /\ clock' = clock /\ unplugged' = unplugged /\ Moves(t, "wait")
      /\ th[t].pc \in {"wait", "cancel"}
  BY <1>0, CancelDoes, Zenon
<1>2. xfer' = [xfer EXCEPT ![t] = [Cancelled(t) EXCEPT !.asked = TRUE]] BY Zenon DEF Cancel
<1>3. WorldGrows BY <1>1, StillWorld, Zenon
<1>4. /\ \A y \in Callers : Remains(y)
      /\ \A y \in Callers \ {t} : xfer'[y] = xfer[y]
  BY <1>1, <1>2, <1>3, CancelRemains
<1>5. xfer'[t].asked BY <1>0, <1>2, Places, CancelAsks
<1>6. \A y \in Callers : xfer'[y].urb = "killed" => xfer[y].urb = "killed" \/ Wanted(y)'
  BY <1>4, <1>5, Zenon DEF Wanted
<1>7. /\ ThreadTrue(t)' /\ Others(t)
      /\ (Submitting(t)' <=> Submitting(t))
      /\ th[t].pc # "timedout" /\ th'[t].pc # "cancelled"
  BY <1>0, <1>1, SMT DEF Moves, ThreadTrue, Submitting, CompletingPcs
<1> QED BY <1>0, <1>3, <1>4, <1>6, <1>7, RemainsTells

LEMMA HandleTimeoutTells ==
  ASSUME IoInv, TruthInv, NEW t \in Callers, HandleTimeout(t)
  PROVE  Tells
<1>2. PICK x \in Callers : x = NextTimeout
  <2>1. NextTimeout # None BY Zenon DEF HandleTimeout, Expired
  <2> QED BY <2>1, NextTimeoutIs, Places, RangeIs, Zenon DEF Flying, IoInv
<1> DEFINE now == IF th[t].pc = "expire" THEN clock ELSE th[t].until
           l   == IF CancelSucceeds(x) THEN "timedout" ELSE "expiring"
<1>0. TypeOK /\ t \in Threads /\ ThreadTrue(t) /\ t \in Callers
  BY DEF IoInv, TruthInv, Threads
<1>1. /\ th[t].pc \in {"expire", "expiring"} /\ xfer[x].due <= now
      /\ clock' = clock /\ unplugged' = unplugged
  BY <1>2, Zenon DEF HandleTimeout, Expired, world, At
<1>3. th' = [th EXCEPT ![t].pc = l, ![t].x = x, ![t].until = now] BY <1>2 DEF HandleTimeout, At
<1>4. xfer' = [xfer EXCEPT ![x] = [Cancelled(x) EXCEPT !.handled = TRUE]] BY <1>2 DEF HandleTimeout
<1>5. now \in Nat /\ now <= clock /\ clock \in Nat /\ xfer[x].due \in Nat
  <2>1. clock \in Nat /\ th[t].until \in Nat /\ xfer[x].due \in Nat BY <1>0, <1>2, Places
  <2>2. CASE th[t].pc = "expire" BY <2>1, <2>2, SMT
  <2>3. CASE th[t].pc # "expire"
    <3>1. th[t].pc = "expiring" /\ now = th[t].until BY <1>1, <2>3
    <3> QED BY <1>0, <2>1, <3>1, SMT DEF ThreadTrue
  <2> QED BY <2>2, <2>3
<1>6. WorldGrows BY <1>1, StillWorld, Zenon
<1>7. l \in {"timedout", "expiring"} /\ (CancelSucceeds(x) => l = "timedout") BY Zenon
<1> HIDE DEF now, l
<1>8. /\ \A y \in Callers : Remains(y)
      /\ \A y \in Callers \ {x} : xfer'[y] = xfer[y]
      /\ xfer'[x].urb = "killed" => CancelSucceeds(x) \/ xfer[x].urb = "killed"
  BY <1>1, <1>2, <1>4, <1>6, CancelRemains
<1>9. Others(t) /\ th'[t].pc = l /\ th'[t].x = x /\ th'[t].until = now /\ th'[t].ready = th[t].ready
  <2>1. th' = [th EXCEPT ![t] = [th[t] EXCEPT !.pc = l, !.x = x, !.until = now]] BY <1>3
  <2>2. th \in [Threads -> Doing] /\ th[t] \in Doing BY <1>0, Places
  <2>3. Others(t) /\ th'[t] = [th[t] EXCEPT !.pc = l, !.x = x, !.until = now]
    BY <1>0, <2>1, <2>2, SMT DEF Others
  <2> QED BY <2>2, <2>3, SMT DEF Doing
<1>10. ThreadTrue(t)'
  <2>1. xfer'[x].due = xfer[x].due BY <1>2, <1>8, Zenon DEF Remains, Grows
  <2>2. xfer'[th'[t].x].due <= clock' BY <1>1, <1>5, <1>9, <2>1, SMT
  <2>3. th'[t].until <= clock' BY <1>1, <1>5, <1>9
  <2>4. th'[t].ready = "error" => unplugged' BY <1>0, <1>1, <1>9, Zenon DEF ThreadTrue
  <2> QED BY <1>7, <1>9, <2>2, <2>3, <2>4, SMT DEF ThreadTrue, CompletingPcs
<1>11. \A y \in Callers : xfer'[y].urb = "killed" => xfer[y].urb = "killed" \/ Wanted(y)'
  <2>1. CancelSucceeds(x) => BeingTimedOut(x)'
    <3>1. CancelSucceeds(x) => th'[t].pc = "timedout" BY <1>7, <1>9
    <3> SUFFICES ASSUME th'[t].pc = "timedout" PROVE BeingTimedOut(x)' BY <3>1
    <3> QED BY <1>9, Zenon DEF BeingTimedOut
  <2> QED BY <1>8, <2>1, Zenon DEF Wanted
<1>12. (Submitting(t)' <=> Submitting(t)) /\ th[t].pc # "timedout" /\ th'[t].pc # "cancelled"
  BY <1>1, <1>7, <1>9, SMT DEF Submitting
<1> QED BY <1>0, <1>6, <1>8, <1>9, <1>10, <1>11, <1>12, RemainsTells

LEMMA MarkTimedOutTells ==
  ASSUME IoInv, TruthInv, NEW t \in Callers, MarkTimedOut(t)
  PROVE  Tells
<1>0. TypeOK /\ t \in Threads /\ ThreadTrue(t) BY DEF IoInv, TruthInv, Threads
<1>1. /\ th[t].pc = "timedout" /\ clock' = clock /\ unplugged' = unplugged
      /\ Moves(t, "expiring")
  BY <1>0, MarkTimedOutDoes, Zenon DEF world
<1>2. PICK x \in Callers : x = th[t].x BY <1>1, Zenon DEF IoInv, PcInv
<1>3. /\ xfer' = [xfer EXCEPT ![x].timedOut = TRUE] /\ th' = [th EXCEPT ![t].pc = "expiring"]
  BY <1>2, Zenon DEF MarkTimedOut, Goto
<1>4. WorldGrows BY <1>1, StillWorld, Zenon
<1>5. th'[t].until = th[t].until
  <2>1. th' = [th EXCEPT ![t] = [th[t] EXCEPT !.pc = "expiring"]] BY <1>3
  <2>2. th \in [Threads -> Doing] /\ th[t] \in Doing BY <1>0, Places
  <2>3. th'[t] = [th[t] EXCEPT !.pc = "expiring"] BY <1>0, <2>1, <2>2, SMT
  <2> QED BY <2>2, <2>3, SMT DEF Doing
<1>6. xfer \in [Callers -> Transfer] BY <1>0, Places
<1>7. /\ \A y \in Callers \ {x} : xfer'[y] = xfer[y]
      /\ xfer'[x].alive = xfer[x].alive /\ xfer'[x].asked = xfer[x].asked
      /\ xfer'[x].timedOut = TRUE /\ xfer'[x].due = xfer[x].due
      /\ xfer'[x].handle = xfer[x].handle /\ xfer'[x].status = xfer[x].status
      /\ xfer'[x].done = xfer[x].done /\ xfer'[x].urb = xfer[x].urb
      /\ xfer'[x].queued = xfer[x].queued
  BY <1>3, <1>6, MarkedTimedOut, Zenon
<1>8. Remains(x)
  <2>1. TransferTrue(x) BY Zenon DEF TruthInv
  <2>2. xfer[x].due <= clock BY <1>0, <1>1, <1>2 DEF ThreadTrue
  <2> QED BY <1>1, <1>7, <2>1, <2>2, Zenon DEF Remains, Grows, TransferTrue
<1>9. \A y \in Callers : Remains(y) BY <1>4, <1>7, <1>8, UntouchedRemains, Zenon
<1>10. \A y \in Callers : xfer'[y].urb = "killed" => xfer[y].urb = "killed" BY <1>7, Zenon
<1>11. ThreadTrue(t)'
  <2>1. th[t].until <= clock BY <1>0, <1>1, SMT DEF ThreadTrue
  <2>2. th'[t].until <= clock' BY <1>1, <1>5, <2>1
  <2>3. th'[t].pc = "expiring" /\ th'[t].ready = th[t].ready BY <1>1, Zenon DEF Moves
  <2>4. th'[t].ready = "error" => unplugged' BY <1>0, <1>1, <2>3, Zenon DEF ThreadTrue
  <2> QED BY <2>2, <2>3, <2>4, SMT DEF ThreadTrue, CompletingPcs
<1>12. (Submitting(t)' <=> Submitting(t)) /\ th'[t].pc # "cancelled" /\ Others(t)
  BY <1>1, SMT DEF Submitting, Moves
<1>13. xfer'[th[t].x].timedOut BY <1>2, <1>7
<1> QED BY <1>0, <1>4, <1>9, <1>10, <1>11, <1>12, <1>13, RemainsTells

(* A thread starts completing a transfer that the kernel has done with.    *)
LEMMA WantedStays ==
  ASSUME NEW t \in Threads, Others(t), th[t].pc # "timedout", NEW x, Wanted(x), Grows(x)
  PROVE  Wanted(x)'
<1>1. CASE xfer[x].asked \/ xfer[x].timedOut BY <1>1, Zenon DEF Wanted, Grows
<1>2. CASE BeingTimedOut(x)
  <2>1. PICK u \in Callers : th[u].pc = "timedout" /\ th[u].x = x BY <1>2 DEF BeingTimedOut
  <2>2. u # t BY <2>1
  <2>3. th'[u] = th[u] BY <2>2, Zenon DEF Others, Threads
  <2> QED BY <2>1, <2>3, Zenon DEF Wanted, BeingTimedOut
<1> QED BY <1>1, <1>2 DEF Wanted

LEMMA CompletionBegins ==
  ASSUME IoInv, TruthInv, NEW t \in Callers, NEW x \in Callers, NEW s, NEW r, NEW b,
         Starts(t, FirstStep(s), x, s, r, b), clock' = clock, unplugged' = unplugged,
         th[t].pc \in HandlerPcs,
         \A y \in Callers \ {x} : xfer'[y] = xfer[y],
         xfer'[x].alive = xfer[x].alive, xfer'[x].done = xfer[x].done,
         xfer'[x].status = xfer[x].status, xfer'[x].handle = xfer[x].handle,
         xfer'[x].due = xfer[x].due, xfer'[x].asked = xfer[x].asked,
         xfer'[x].timedOut = xfer[x].timedOut, xfer'[x].urb = "none", ~ xfer'[x].queued,
         \/ s = "COMPLETED"
         \/ s = "NO_DEVICE" /\ unplugged
         \/ s = "CANCELLED" /\ Wanted(x),
         r = "disconnect" => unplugged
  PROVE  Tells
<1>0. t \in Threads /\ ThreadTrue(t) /\ th[t].pc # "timedout" /\ ~ Submitting(t)
  BY SMT DEF TruthInv, Threads, HandlerPcs, Submitting
<1>1. WorldGrows BY StillWorld, Zenon
<1>2. /\ Others(t) /\ th'[t].pc = FirstStep(s) /\ th'[t].ret = r /\ th'[t].x = x /\ th'[t].st = s
      /\ th'[t].ready = th[t].ready
  BY Zenon DEF Starts
<1>3. Remains(x)
  <2>1. TransferTrue(x) BY Zenon DEF TruthInv
  <2> QED BY <2>1, SMT DEF Remains, Grows, TransferTrue
<1>4. \A y \in Callers : Remains(y) BY <1>1, <1>3, UntouchedRemains, Zenon
<1>5. \A y \in Callers : xfer'[y].urb = "killed" => xfer[y].urb = "killed" BY SMT
<1>6. th'[t].pc = (IF s = "CANCELLED" THEN "cancelled" ELSE "complete") BY <1>2, Zenon DEF FirstStep
<1>7. ThreadTrue(t)'
  <2>1. th'[t].ready = "error" => unplugged' BY <1>0, <1>2, Zenon DEF ThreadTrue
  <2>2. th'[t].ret = "disconnect" => unplugged' BY <1>2
  <2>3. th'[t].pc \in {"cancelled", "complete"} BY <1>6
  <2>4. th'[t].pc = "complete" => VerdictIs(th[t].st, th[t].x)'
    BY <1>2, <1>6, SMT DEF VerdictIs
  <2> QED BY <2>1, <2>2, <2>3, <2>4, SMT DEF ThreadTrue, CompletingPcs
<1>8. th'[t].pc = "cancelled" => Wanted(th[t].x)'
  <2> SUFFICES ASSUME th'[t].pc = "cancelled" PROVE Wanted(th[t].x)' OBVIOUS
  <2>1. Wanted(x) BY <1>6, SMT
  <2>2. Wanted(x)' BY <1>0, <1>2, <1>3, <2>1, WantedStays, Zenon DEF Remains
  <2> QED BY <1>2, <2>2, Zenon DEF Wanted, BeingTimedOut
<1>9. Submitting(t)' <=> Submitting(t) BY <1>0, <1>6, SMT DEF Submitting
<1> QED BY <1>0, <1>1, <1>2, <1>4, <1>5, <1>7, <1>8, <1>9, RemainsTells

(* The status that the backend derives is true.                            *)
LEMMA CompletionIsTrue ==
  ASSUME TruthInv, NEW x \in Callers, xfer[x].urb \in {"finished", "killed", "shutdown"}
  PROVE  \/ CompletionOf(x) = "COMPLETED"
         \/ CompletionOf(x) = "NO_DEVICE" /\ unplugged
         \/ CompletionOf(x) = "CANCELLED" /\ Wanted(x)
<1>1. TransferTrue(x) /\ (xfer[x].urb = "killed" => Wanted(x)) BY Zenon DEF TruthInv, WantedInv
<1>2. xfer[x].urb = "shutdown" => unplugged BY <1>1, Zenon DEF TransferTrue
<1>3. CASE xfer[x].urb = "finished" BY <1>3, SMT DEF CompletionOf
<1>4. CASE xfer[x].urb = "killed" BY <1>1, <1>4, SMT DEF CompletionOf
<1>5. CASE xfer[x].urb = "shutdown" BY <1>2, <1>5, SMT DEF CompletionOf
<1> QED BY <1>3, <1>4, <1>5

LEMMA CompleteNextTells ==
  ASSUME IoInv, TruthInv, NEW t \in Callers, CompleteNext(t)
  PROVE  Tells
<1>0. TypeOK /\ QueueInv /\ t \in Threads BY DEF IoInv, Threads
<1>1. /\ th[t].pc = "batch" /\ th[t].batch # <<>> /\ Head(th[t].batch) \in Callers
      /\ clock' = clock /\ unplugged' = unplugged
  BY <1>0, CompleteNextDoes, Zenon DEF world
<1>2. PICK x \in Callers : x = Head(th[t].batch) BY <1>1
<1>3. xfer' = [xfer EXCEPT ![x].urb = "none", ![x].queued = FALSE] BY <1>2, Zenon DEF CompleteNext
<1>4. PICK r \in {"batch", "batchfailed"} :
        Starts(t, FirstStep(CompletionOf(x)), x, CompletionOf(x), r, Tail(th[t].batch))
  BY <1>0, <1>2, CompleteNextDoes, Zenon
<1>5. xfer[x].urb \in {"finished", "killed", "shutdown"}
  <2>1. x \in Taken(t)
    BY <1>0, <1>1, <1>2, Places, TailIs, Zenon DEF Taken, QueueInv
  <2>2. xfer[x].queued BY <1>0, <2>1, MembersAre, Zenon DEF QueueInv
  <2> QED BY <2>2, Zenon DEF TruthInv, TransferTrue
<1>6. xfer \in [Callers -> Transfer] BY <1>0, Places
<1>7. /\ \A y \in Callers \ {x} : xfer'[y] = xfer[y]
      /\ xfer'[x].alive = xfer[x].alive /\ xfer'[x].asked = xfer[x].asked
      /\ xfer'[x].timedOut = xfer[x].timedOut /\ xfer'[x].due = xfer[x].due
      /\ xfer'[x].handle = xfer[x].handle /\ xfer'[x].status = xfer[x].status
      /\ xfer'[x].done = xfer[x].done /\ xfer'[x].urb = "none"
      /\ ~ xfer'[x].queued
  BY <1>3, <1>6, TakenFromQueue, Zenon
<1>8. th[t].pc \in HandlerPcs /\ r # "disconnect" BY <1>1, <1>4, SMT DEF HandlerPcs
<1> QED BY <1>1, <1>4, <1>5, <1>7, <1>8, CompletionIsTrue, CompletionBegins

LEMMA ReapTells ==
  ASSUME IoInv, TruthInv, NEW t \in Callers, Reap(t)
  PROVE  Tells
<1>0. TypeOK /\ QueueInv /\ PollInv /\ t \in Threads BY DEF IoInv, Threads
<1>1. th[t].pc = "reaping" /\ clock' = clock /\ unplugged' = unplugged
  BY <1>0, ReapDoes, Zenon DEF world
<1>2. PICK x \in Reapable : /\ StartCompletion(t, x, CompletionOf(x), "reaping", <<>>)
                            /\ xfer' = [xfer EXCEPT ![x].urb = "none"]
  BY Zenon DEF Reap
<1>3. x \in Callers /\ xfer[x].urb \in {"finished", "killed", "shutdown"} BY <1>2 DEF Reapable
<1>4. CompletionOf(x) \in Results /\ "reaping" \in Rets /\ <<>> \in Seq(Callers)
  BY CompletionIs, EmptySeq, Zenon DEF Results, Rets
<1>5. Starts(t, FirstStep(CompletionOf(x)), x, CompletionOf(x), "reaping", <<>>)
  BY <1>0, <1>2, <1>3, <1>4, StartCompletionDoes
<1>6. xfer \in [Callers -> Transfer] BY <1>0, Places
<1>7. ~ xfer[x].queued
  <2>1. backend = "poll" BY <1>0, <1>1, SMT DEF PollInv
  <2> QED BY <1>0, <1>3, <2>1, MembersAre, Zenon DEF QueueInv
<1>8. /\ \A y \in Callers \ {x} : xfer'[y] = xfer[y]
      /\ xfer'[x].alive = xfer[x].alive /\ xfer'[x].asked = xfer[x].asked
      /\ xfer'[x].timedOut = xfer[x].timedOut /\ xfer'[x].due = xfer[x].due
      /\ xfer'[x].handle = xfer[x].handle /\ xfer'[x].status = xfer[x].status
      /\ xfer'[x].done = xfer[x].done /\ xfer'[x].urb = "none"
      /\ ~ xfer'[x].queued
  BY <1>2, <1>3, <1>6, <1>7, TakenFromKernel, Zenon
<1>9. th[t].pc \in HandlerPcs BY <1>1, SMT DEF HandlerPcs
<1> QED BY <1>1, <1>3, <1>5, <1>8, <1>9, CompletionIsTrue, CompletionBegins

LEMMA HandleDisconnectTells ==
  ASSUME IoInv, TruthInv, NEW t \in Callers, HandleDisconnect(t)
  PROVE  Tells
<1> DEFINE left == {i \in DOMAIN flying : xfer[flying[i]].handle /\ xfer[flying[i]].flight}
           z    == flying[First(left)]
<1>0. TypeOK /\ QueueInv /\ PollInv /\ t \in Threads /\ ThreadTrue(t)
  BY DEF IoInv, TruthInv, Threads
<1>1. th[t].pc = "disconnect" /\ clock' = clock /\ unplugged' = unplugged
  BY <1>0, HandleDisconnectDoes, Zenon DEF world
<1>2. unplugged BY <1>0, <1>1, Zenon DEF ThreadTrue
<1>3. CASE left = {}
  <2>1. Goto(t, "unlock") /\ xfer' = xfer BY <1>3, Zenon DEF HandleDisconnect
  <2>2. "unlock" \in Pcs BY SMT DEF Pcs, CallerPcs, HandlerPcs
  <2>3. Moves(t, "unlock") BY <1>0, <2>1, <2>2, GotoMoves, Zenon
  <2>4. TouchesNone(t)
    BY <1>0, <1>1, <2>1, <2>3, SMT
    DEF TouchesNone, SameWorld, ThreadTrue, Submitting, CompletingPcs, Moves
  <2> QED BY <1>0, <2>4, TouchesNoneTells
<1>4. CASE left # {}
  <2>1. /\ StartCompletion(t, z, "NO_DEVICE", "disconnect", <<>>)
        /\ xfer' = [xfer EXCEPT ![z].urb = "none"]
    BY <1>4, Zenon DEF HandleDisconnect
  <2>2. z \in Callers
    <3>1. flying \in Seq(Callers) BY <1>0, Places
    <3>2. Len(flying) \in Nat /\ DOMAIN flying = 1..Len(flying) BY <3>1, RangeIs
    <3>3. left \in SUBSET (1..Len(flying)) BY <3>2
    <3> HIDE DEF left
    <3>4. First(left) \in 1..Len(flying) BY <1>4, <3>2, <3>3, FirstIn, Zenon
    <3> QED BY <3>1, <3>4, RangeIs, Zenon
  <2>3. PICK x \in Callers : x = z BY <2>2
  <2>4. "NO_DEVICE" \in Results /\ "disconnect" \in Rets /\ <<>> \in Seq(Callers)
    BY EmptySeq, Zenon DEF Results, Rets
  <2>5. /\ StartCompletion(t, x, "NO_DEVICE", "disconnect", <<>>)
        /\ xfer' = [xfer EXCEPT ![x].urb = "none"]
    BY <2>1, <2>3, Zenon
  <2> HIDE DEF z
  <2>6. Starts(t, FirstStep("NO_DEVICE"), x, "NO_DEVICE", "disconnect", <<>>)
    BY <1>0, <2>4, <2>5, StartCompletionDoes
  <2>7. xfer \in [Callers -> Transfer] BY <1>0, Places
  <2>8. ~ xfer[x].queued
    <3>1. backend = "poll" BY <1>0, <1>1, SMT DEF PollInv
    <3> QED BY <1>0, <3>1, MembersAre, Zenon DEF QueueInv
  <2>9. /\ \A y \in Callers \ {x} : xfer'[y] = xfer[y]
        /\ xfer'[x].alive = xfer[x].alive /\ xfer'[x].asked = xfer[x].asked
        /\ xfer'[x].timedOut = xfer[x].timedOut /\ xfer'[x].due = xfer[x].due
        /\ xfer'[x].handle = xfer[x].handle /\ xfer'[x].status = xfer[x].status
        /\ xfer'[x].done = xfer[x].done /\ xfer'[x].urb = "none"
        /\ ~ xfer'[x].queued
    BY <2>5, <2>7, <2>8, TakenFromKernel, Zenon
  <2>10. th[t].pc \in HandlerPcs BY <1>1, SMT DEF HandlerPcs
  <2> QED BY <1>1, <1>2, <2>6, <2>9, <2>10, CompletionBegins
<1> QED BY <1>3, <1>4

-----------------------------------------------------------------------------
(* Steps that take one transfer from a phase to the next.                  *)

LEMMA OneTransfer ==
  ASSUME IoInv, TruthInv, NEW t \in Callers, NEW x \in Callers, Others(t), SameWorld,
         \A y \in Callers \ {x} : xfer'[y] = xfer[y],
         Carries(x), TransferTrue(x)', ThreadTrue(t)',
         xfer'[x].urb = "killed" => xfer[x].urb = "killed",
         th[t].pc # "timedout", th'[t].pc # "cancelled",
         t # x => (Submitting(t)' <=> Submitting(t))
  PROVE  TruthInv' /\ OthersLeft(x)
<1>0. t \in Threads BY DEF Threads
<1>1. WorldGrows BY StillWorld, Zenon DEF SameWorld
<1>2. \A y \in Callers \ {x} : Remains(y) BY <1>1, UntouchedRemains, Zenon
<1>3. \A y \in Callers : Carries(y) BY <1>2, Zenon DEF Remains, Carries
<1>4. \A y \in Callers : TransferTrue(y)' BY <1>2, Zenon DEF Remains
<1>5. \A y \in Callers : xfer'[y].urb = "killed" => xfer[y].urb = "killed" BY Zenon
<1>6. TruthInv' BY <1>0, <1>1, <1>3, <1>4, <1>5, StepTrue
<1>7. \A y \in Callers \ {x} : IsLeft(y)
  <2> SUFFICES ASSUME NEW y \in Callers \ {x} PROVE IsLeft(y) OBVIOUS
  <2>1. CASE y = t BY <2>1, Zenon DEF IsLeft
  <2>2. CASE y # t
    <3>1. th'[y] = th[y] BY <2>2, Zenon DEF Others, Threads
    <3> QED BY <3>1, Zenon DEF IsLeft, Submitting
  <2> QED BY <2>1, <2>2
<1> QED BY <1>6, <1>7, Zenon DEF OthersLeft

(* A verdict that is true is a truthful status.                            *)
LEMMA VerdictIsTruthful ==
  ASSUME TruthInv, NEW x \in Callers, NEW s, VerdictIs(s, x)
  PROVE  s \in Promise!Statuses /\ Promise!Truthful(s, CauseOf(x))
<1>1. xfer[x].timedOut => xfer[x].due <= clock BY Zenon DEF TruthInv, TransferTrue
<1>2. /\ "cancel" \in CauseOf(x) <=> xfer[x].asked
      /\ "timeout" \in CauseOf(x) <=> xfer[x].due <= clock
      /\ "gone" \in CauseOf(x) <=> unplugged \/ (xfer[x].alive /\ ~ xfer[x].handle)
  BY CauseIs
<1>3. s \in Promise!Statuses BY SMT DEF VerdictIs, Promise!Statuses
<1> QED BY <1>1, <1>2, <1>3, Zenon DEF VerdictIs, Promise!Truthful

LEMMA FinishTells ==
  ASSUME TruthInv', NEW x \in Callers, Promise!Finish(x)
  PROVE  Tells
  BY Zenon DEF Tells, Promise!PNext

(* The callback: the status that was settled is given to the transfer.     *)
LEMMA CallbackTells ==
  ASSUME IoInv, TruthInv, NEW t \in Callers, Callback(t)
  PROVE  Tells
<1>0. TypeOK /\ PcInv /\ OwnerInv /\ t \in Threads /\ ThreadTrue(t)
  BY DEF IoInv, TruthInv, Threads
<1>1. th[t].pc = "callback" BY Zenon DEF Callback, At
<1>2. InHand(t) BY <1>1, SMT DEF InHand, CompletingPcs
<1>3. PICK x \in Callers : x = th[t].x BY <1>2, InHandIs
<1>4. x \in Attached \ Done /\ x \in InTheAir BY <1>1, <1>2, <1>3, InHandIs
<1>5. PICK s \in Results : s = th[t].st BY <1>0, Places
<1>6. xfer' = [xfer EXCEPT ![x].flight = FALSE, ![x].status = s, ![x].done = TRUE]
  BY <1>3, <1>5, Zenon DEF Callback
<1>7. xfer \in [Callers -> Transfer] BY <1>0, Places
<1>8. /\ \A y \in Callers \ {x} : xfer'[y] = xfer[y]
      /\ xfer'[x].alive = xfer[x].alive /\ xfer'[x].asked = xfer[x].asked
      /\ xfer'[x].timedOut = xfer[x].timedOut /\ xfer'[x].due = xfer[x].due
      /\ xfer'[x].handle = xfer[x].handle /\ xfer'[x].status = s
      /\ xfer'[x].done = TRUE /\ xfer'[x].urb = xfer[x].urb
      /\ xfer'[x].queued = xfer[x].queued
  BY <1>6, <1>7, CalledBack, Zenon
<1>9. /\ SameWorld /\ LeavesOff(t, th[t].ret, None, "none")
  BY <1>0, <1>3, CallbackDoes, Zenon DEF SameWorld, world
<1>10. /\ Others(t) /\ th'[t].pc = th[t].ret /\ th'[t].ready = th[t].ready
       /\ th[t].ret \in {"batch", "batchfailed", "reaping", "disconnect"}
  BY <1>0, <1>1, <1>9, SMT DEF LeavesOff, PcInv, Completing, CompletingPcs
<1>11. VerdictIs(s, x) /\ (th[t].ret = "disconnect" => unplugged) /\ (th[t].ready = "error" => unplugged)
  BY <1>0, <1>1, <1>3, <1>5, SMT DEF ThreadTrue, CompletingPcs
<1>12. ThreadTrue(t)'
  BY <1>9, <1>10, <1>11, SMT DEF ThreadTrue, CompletingPcs, SameWorld
<1>13. ~ Submitting(t) /\ ~ Submitting(t)' BY <1>1, <1>10, SMT DEF Submitting
<1>14. xfer[x].handle /\ ~ xfer[x].done /\ xfer[x].alive
  BY <1>0, <1>4, MembersAre, Zenon DEF OwnerInv
<1>15. TransferTrue(x)'
  <2>1. TransferTrue(x) BY Zenon DEF TruthInv
  <2> QED BY <1>8, <1>9, <1>14, <2>1, Zenon DEF TransferTrue, SameWorld
<1>16. Carries(x) BY <1>8, Zenon DEF Carries, Grows
<1>17. TruthInv' /\ OthersLeft(x)
  BY <1>1, <1>8, <1>9, <1>10, <1>12, <1>13, <1>15, <1>16, OneTransfer
<1>18. ~ Submitting(x)
  <2>1. x \notin InTheAir \/ th[x].pc \notin {"submit", "unlist"} BY <1>0, Zenon DEF OwnerInv
  <2> QED BY <1>4, <2>1, Zenon DEF Submitting
<1>19. ~ Submitting(x)'
  <2>1. CASE x = t BY <1>13, <2>1
  <2>2. CASE x # t
    <3>1. th'[x] = th[x] BY <1>10, <2>2, Zenon DEF Others, Threads
    <3> QED BY <1>18, <3>1, Zenon DEF Submitting
  <2> QED BY <2>1, <2>2
<1>20. SameCause(x) BY <1>8, Zenon DEF SameCause
<1>21. PhaseOf(x) = "pending" BY <1>14, <1>18, SMT DEF PhaseOf, Submitting
<1>22. s \in Promise!Statuses /\ Promise!Truthful(s, CauseOf(x)) BY <1>11, VerdictIsTruthful
<1>23. xfer'[x].alive /\ xfer'[x].done /\ xfer'[x].status = s BY <1>8, <1>14
<1>24. Promise!Finish(x) BY <1>17, <1>19, <1>20, <1>21, <1>22, <1>23, FinishStep
<1> QED BY <1>17, <1>24, FinishTells

(* The handle was closed: the caller finishes its transfer itself.         *)
LEMMA AfterEventsTells ==
  ASSUME IoInv, TruthInv, NEW t \in Callers, AfterEvents(t)
  PROVE  Tells
<1>0. TypeOK /\ PcInv /\ OwnerInv /\ t \in Threads /\ ThreadTrue(t)
  BY DEF IoInv, TruthInv, Threads
<1>1. /\ th[t].pc = "after" /\ SameWorld /\ \E l \in {"cancel", "wait"} : Moves(t, l)
  BY <1>0, AfterEventsDoes, Zenon DEF SameWorld, world
<1>2. /\ Others(t) /\ th'[t].pc \in {"cancel", "wait"} /\ th'[t].ready = th[t].ready
  BY <1>1, SMT DEF Moves
<1>3. ThreadTrue(t)'
  <2>1. th'[t].ready = "error" => unplugged' BY <1>0, <1>1, <1>2, Zenon DEF ThreadTrue, SameWorld
  <2> QED BY <1>2, <2>1, SMT DEF ThreadTrue, CompletingPcs
<1>4. ~ Submitting(t) /\ ~ Submitting(t)' BY <1>1, <1>2, SMT DEF Submitting
<1>5. th[t].pc # "timedout" /\ th'[t].pc # "cancelled" BY <1>1, <1>2
<1>6. CASE xfer' = xfer
  <2>1. TouchesNone(t) BY <1>1, <1>2, <1>3, <1>4, <1>5, <1>6, Zenon DEF TouchesNone
  <2> QED BY <1>0, <2>1, TouchesNoneTells
<1>7. CASE ~ xfer[t].handle /\ xfer' = [xfer EXCEPT ![t].status = "NO_DEVICE", ![t].done = TRUE]
  <2>0. xfer \in [Callers -> Transfer] BY <1>0, Places
  <2>1. /\ \A y \in Callers \ {t} : xfer'[y] = xfer[y]
        /\ xfer'[t].alive = xfer[t].alive /\ xfer'[t].asked = xfer[t].asked
        /\ xfer'[t].timedOut = xfer[t].timedOut /\ xfer'[t].due = xfer[t].due
        /\ xfer'[t].handle = xfer[t].handle /\ xfer'[t].status = "NO_DEVICE"
        /\ xfer'[t].done = TRUE /\ xfer'[t].urb = xfer[t].urb
        /\ xfer'[t].queued = xfer[t].queued
    BY <1>7, <2>0, FoundClosed, Zenon
  <2>2. TransferTrue(t) BY Zenon DEF TruthInv
  <2>3. TransferTrue(t)' BY <1>1, <2>1, <2>2, Zenon DEF TransferTrue, SameWorld
  <2>4. CASE xfer[t].done
    <3>1. xfer[t].status = "NO_DEVICE" BY <1>7, <2>2, <2>4, Zenon DEF TransferTrue
    <3>2. Remains(t) BY <2>1, <2>3, <2>4, <3>1, Zenon DEF Remains, Grows
    <3>3. WorldGrows BY <1>1, StillWorld, Zenon DEF SameWorld
    <3>4. \A y \in Callers : Remains(y) BY <2>1, <3>2, <3>3, UntouchedRemains, Zenon
    <3>5. \A y \in Callers : xfer'[y].urb = "killed" => xfer[y].urb = "killed" BY <2>1, Zenon
    <3> QED BY <1>0, <1>2, <1>3, <1>4, <1>5, <3>3, <3>4, <3>5, RemainsTells
  <2>5. CASE ~ xfer[t].done
    <3>1. Carries(t) BY <2>1, Zenon DEF Carries, Grows
    <3>2. TruthInv' /\ OthersLeft(t)
      BY <1>1, <1>2, <1>3, <1>5, <2>1, <2>3, <3>1, OneTransfer
    <3>3. xfer[t].alive
      <4>1. th[t].pc # "idle" BY <1>1
      <4> QED BY <1>0, <4>1, MembersAre, Zenon DEF OwnerInv
    <3>4. SameCause(t) BY <2>1, Zenon DEF SameCause
    <3>5. PhaseOf(t) = "pending" BY <1>4, <2>5, <3>3, SMT DEF PhaseOf, Submitting
    <3>6. "gone" \in CauseOf(t) BY <1>7, <3>3, CauseIs, Zenon
    <3>7. PICK s \in Promise!Statuses : s = "NO_DEVICE" BY SMT DEF Promise!Statuses
    <3>8. Promise!Truthful(s, CauseOf(t)) BY <3>6, <3>7, Zenon DEF Promise!Truthful
    <3>9. xfer'[t].alive /\ xfer'[t].done /\ xfer'[t].status = s BY <2>1, <3>3, <3>7
    <3>10. Promise!Finish(t) BY <1>4, <3>2, <3>4, <3>5, <3>8, <3>9, FinishStep
    <3> QED BY <3>2, <3>10, FinishTells
  <2> QED BY <2>4, <2>5
<1>8. \/ xfer' = xfer
      \/ ~ xfer[t].handle /\ xfer' = [xfer EXCEPT ![t].status = "NO_DEVICE", ![t].done = TRUE]
  BY Zenon DEF AfterEvents
<1> QED BY <1>6, <1>7, <1>8

(* A new transfer is known to nobody.                                      *)
LEMMA SubmitTells ==
  ASSUME IoInv, TruthInv, NEW t \in Callers, Submit(t)
  PROVE  Tells
<1> DEFINE d == IF Timeout[t] = 0 THEN Never ELSE clock + Timeout[t]
<1>0. TypeOK /\ OwnerInv /\ t \in Threads /\ ThreadTrue(t) BY DEF IoInv, TruthInv, Threads
<1>1. th[t].pc = "idle" /\ SameWorld /\ Moves(t, "submit")
  BY <1>0, SubmitDoes, Zenon DEF SameWorld, world
<1>2. PICK z : z = NoTransfer OBVIOUS
<1>3. xfer' = [xfer EXCEPT ![t] = [z EXCEPT !.alive = TRUE, !.handle = TRUE, !.due = d]]
  BY <1>2, Zenon DEF Submit
<1>4. d \in Nat
  <2>1. Timeout[t] \in Nat BY BoundsAssumption
  <2> QED BY <1>0, <2>1, Places, SMT
<1> HIDE DEF d
<1>5. xfer \in [Callers -> Transfer] BY <1>0, Places
<1>6. /\ \A y \in Callers \ {t} : xfer'[y] = xfer[y]
      /\ xfer'[t].asked = FALSE /\ xfer'[t].timedOut = FALSE
      /\ xfer'[t].alive = TRUE /\ xfer'[t].done = FALSE
      /\ xfer'[t].urb = "none" /\ xfer'[t].queued = FALSE
  BY <1>2, <1>3, <1>4, <1>5, Renewed
<1>7. t \notin Alive BY <1>0, <1>1, Zenon DEF OwnerInv
<1>8. Carries(t)
  <2>1. Attached \subseteq Alive BY <1>0, Zenon DEF OwnerInv
  <2>2. \A u \in Callers : InHand(u) => th[u].x # t BY <1>7, <2>1, InHandIs, Zenon
  <2> QED BY <1>6, <2>2, Zenon DEF Carries
<1>9. TransferTrue(t)' BY <1>6, SMT DEF TransferTrue
<1>10. Others(t) /\ th'[t].pc = "submit" /\ th'[t].ready = th[t].ready BY <1>1, Zenon DEF Moves
<1>11. ThreadTrue(t)'
  <2>1. th'[t].ready = "error" => unplugged' BY <1>0, <1>1, <1>10, Zenon DEF ThreadTrue, SameWorld
  <2> QED BY <1>10, <2>1, SMT DEF ThreadTrue, CompletingPcs
<1>12. TruthInv' /\ OthersLeft(t)
  <2>1. th[t].pc # "timedout" /\ th'[t].pc # "cancelled" /\ xfer'[t].urb # "killed"
    BY <1>1, <1>6, <1>10
  <2> QED BY <1>1, <1>6, <1>8, <1>9, <1>10, <1>11, <2>1, OneTransfer
<1>13. PhaseOf(t) = "idle" BY <1>7, MembersAre, Zenon DEF PhaseOf
<1>14. PhaseOf(t)' = "submitting" BY <1>6, <1>10, SMT DEF PhaseOf
<1>15. Promise!Goes(t, "idle", "submitting") BY <1>12, <1>13, <1>14, GoesStep
<1>16. ~ xfer'[t].done BY <1>6
<1>17. Promise!Renewed(t) BY <1>12, <1>16, RenewStep
<1> QED BY <1>12, <1>15, <1>17, Zenon DEF Tells, Promise!PNext, Promise!Submit

LEMMA SubmitAcceptedTells ==
  ASSUME IoInv, TruthInv, NEW t \in Callers, SubmitAccepted(t)
  PROVE  Tells
<1>0. /\ TypeOK /\ OwnerInv /\ FlyingInv /\ QueueInv /\ t \in Threads /\ ThreadTrue(t)
  BY DEF IoInv, TruthInv, Threads
<1>1. th[t].pc = "submit" /\ SameWorld /\ Moves(t, "wait")
  BY <1>0, SubmitAcceptedDoes, Zenon DEF SameWorld, world
<1>2. xfer' = [xfer EXCEPT ![t].flight = TRUE, ![t].urb = "submitted"] BY Zenon DEF SubmitAccepted
<1>3. xfer \in [Callers -> Transfer] BY <1>0, Places
<1>4. /\ \A y \in Callers \ {t} : xfer'[y] = xfer[y]
      /\ xfer'[t].alive = xfer[t].alive /\ xfer'[t].asked = xfer[t].asked
      /\ xfer'[t].timedOut = xfer[t].timedOut /\ xfer'[t].due = xfer[t].due
      /\ xfer'[t].handle = xfer[t].handle /\ xfer'[t].status = xfer[t].status
      /\ xfer'[t].done = xfer[t].done /\ xfer'[t].urb = "submitted"
      /\ xfer'[t].queued = xfer[t].queued
  BY <1>2, <1>3, Accepted, Zenon
<1>5. t \in Alive /\ t \notin Done /\ t \notin Queued
  <2>1. th[t].pc \in {"submit", "unlist"} /\ th[t].pc # "idle" BY <1>1
  <2> QED BY <1>0, <2>1, Zenon DEF OwnerInv, FlyingInv, QueueInv
<1>6. xfer[t].alive /\ ~ xfer[t].done /\ ~ xfer[t].queued BY <1>5, MembersAre
<1>7. TransferTrue(t)'
  <2>1. TransferTrue(t) BY Zenon DEF TruthInv
  <2> QED BY <1>1, <1>4, <1>6, <2>1, SMT DEF TransferTrue, SameWorld
<1>8. Carries(t) BY <1>4, Zenon DEF Carries, Grows
<1>9. Others(t) /\ th'[t].pc = "wait" /\ th'[t].ready = th[t].ready BY <1>1, Zenon DEF Moves
<1>10. ThreadTrue(t)'
  <2>1. th'[t].ready = "error" => unplugged' BY <1>0, <1>1, <1>9, Zenon DEF ThreadTrue, SameWorld
  <2> QED BY <1>9, <2>1, SMT DEF ThreadTrue, CompletingPcs
<1>11. TruthInv' /\ OthersLeft(t)
  <2>1. th[t].pc # "timedout" /\ th'[t].pc # "cancelled" /\ xfer'[t].urb # "killed"
    BY <1>1, <1>4, <1>9
  <2> QED BY <1>1, <1>4, <1>7, <1>8, <1>9, <1>10, <2>1, OneTransfer
<1>12. PhaseOf(t) = "submitting" BY <1>1, <1>6, SMT DEF PhaseOf
<1>13. PhaseOf(t)' = "pending" BY <1>4, <1>6, <1>9, SMT DEF PhaseOf
<1>14. SameCause(t) /\ ~ xfer'[t].done BY <1>4, <1>6, Zenon DEF SameCause
<1>15. Promise!Accept(t) BY <1>6, <1>11, <1>12, <1>13, <1>14, AcceptStep
<1> QED BY <1>11, <1>15, Zenon DEF Tells, Promise!PNext

(* The owner frees a transfer that nobody has in hand.                     *)
LEMMA FreeingKeepsTruth ==
  ASSUME IoInv, TruthInv, NEW t \in Callers, Moves(t, "idle"), SameWorld,
         th[t].pc \in {"unlist", "wait"}, xfer' = [xfer EXCEPT ![t] = NoTransfer],
         \A u \in Callers : InHand(u) => th[u].x # t
  PROVE  TruthInv' /\ OthersLeft(t) /\ PhaseOf(t)' = "idle" /\ ~ xfer'[t].done
<1>0. TypeOK /\ t \in Threads /\ ThreadTrue(t) BY DEF IoInv, TruthInv, Threads
<1>1. xfer \in [Callers -> Transfer] BY <1>0, Places
<1>2. xfer'[t] = NoTransfer /\ \A y \in Callers \ {t} : xfer'[y] = xfer[y] BY <1>1, Freed, Zenon
<1>3. /\ ~ xfer'[t].timedOut /\ ~ xfer'[t].queued /\ ~ xfer'[t].done /\ ~ xfer'[t].alive
      /\ xfer'[t].urb = "none"
  BY <1>2, SMT DEF NoTransfer
<1>4. Carries(t) BY <1>3, Zenon DEF Carries
<1>5. TransferTrue(t)' BY <1>3, SMT DEF TransferTrue
<1>6. Others(t) /\ th'[t].pc = "idle" /\ th'[t].ready = th[t].ready BY Zenon DEF Moves
<1>7. ThreadTrue(t)'
  <2>1. th'[t].ready = "error" => unplugged' BY <1>0, <1>6, Zenon DEF ThreadTrue, SameWorld
  <2> QED BY <1>6, <2>1, SMT DEF ThreadTrue, CompletingPcs
<1>8. TruthInv' /\ OthersLeft(t)
  <2>1. th[t].pc # "timedout" /\ th'[t].pc # "cancelled" /\ xfer'[t].urb # "killed" BY <1>3, <1>6
  <2> QED BY <1>2, <1>4, <1>5, <1>6, <1>7, <2>1, OneTransfer
<1>9. PhaseOf(t)' = "idle" BY <1>3, Zenon DEF PhaseOf
<1> QED BY <1>3, <1>8, <1>9

LEMMA SubmitFailedTells ==
  ASSUME IoInv, TruthInv, NEW t \in Callers, SubmitFailed(t)
  PROVE  Tells
<1>0. TypeOK /\ OwnerInv /\ t \in Threads BY DEF IoInv, Threads
<1>1. th[t].pc = "unlist" /\ SameWorld /\ Moves(t, "idle") /\ flyingLock = None
  BY <1>0, SubmitFailedDoes, Zenon DEF SameWorld, world
<1>2. xfer' = [xfer EXCEPT ![t] = NoTransfer] BY Zenon DEF SubmitFailed
<1>3. t \in Alive /\ t \notin InTheAir
  <2>1. th[t].pc \in {"submit", "unlist"} /\ th[t].pc # "idle" BY <1>1
  <2> QED BY <1>0, <2>1, Zenon DEF OwnerInv
<1>4. \A u \in Callers : InHand(u) => th[u].x # t
  BY <1>1, <1>3, InHandIs, ThreadsAssumption, SMT
<1>5. TruthInv' /\ OthersLeft(t) /\ PhaseOf(t)' = "idle" /\ ~ xfer'[t].done
  <2>1. th[t].pc \in {"unlist", "wait"} BY <1>1
  <2> QED BY <1>1, <1>2, <1>4, <2>1, FreeingKeepsTruth, Zenon
<1>6. PhaseOf(t) = "submitting" BY <1>1, <1>3, MembersAre, SMT DEF PhaseOf
<1>7. Promise!Goes(t, "submitting", "idle") BY <1>5, <1>6, GoesStep
<1>8. Promise!Renewed(t) BY <1>5, RenewStep
<1> QED BY <1>5, <1>7, <1>8, Zenon DEF Tells, Promise!PNext, Promise!Reject

LEMMA ReturnTells ==
  ASSUME IoInv, TruthInv, NEW t \in Callers, Return(t)
  PROVE  Tells
<1>0. TypeOK /\ OwnerInv /\ t \in Threads BY DEF IoInv, Threads
<1>1. th[t].pc = "wait" /\ SameWorld /\ Moves(t, "idle") /\ t \in Done
  BY <1>0, ReturnDoes, Zenon DEF SameWorld, world
<1>2. xfer' = [xfer EXCEPT ![t] = NoTransfer] BY Zenon DEF Return
<1>3. t \in Alive
  <2>1. th[t].pc # "idle" BY <1>1
  <2> QED BY <1>0, <2>1, Zenon DEF OwnerInv
<1>4. \A u \in Callers : InHand(u) => th[u].x # t BY <1>1, InHandIs, Zenon
<1>5. TruthInv' /\ OthersLeft(t) /\ PhaseOf(t)' = "idle" /\ ~ xfer'[t].done
  <2>1. th[t].pc \in {"unlist", "wait"} BY <1>1
  <2> QED BY <1>1, <1>2, <1>4, <2>1, FreeingKeepsTruth, Zenon
<1>6. PhaseOf(t) = "finished" BY <1>1, <1>3, MembersAre, SMT DEF PhaseOf
<1>7. Promise!Goes(t, "finished", "idle") BY <1>5, <1>6, GoesStep
<1>8. Promise!Renewed(t) BY <1>5, RenewStep
<1> QED BY <1>5, <1>7, <1>8, Zenon DEF Tells, Promise!PNext, Promise!Take

-----------------------------------------------------------------------------
(* The broadcast wakes threads that have no transfer in hand.              *)
LEMMA BroadcastTells ==
  ASSUME IoInv, TruthInv, NEW t \in Threads, Broadcast(t)
  PROVE  Tells
<1>0. TypeOK BY DEF IoInv
<1>1. th[t].pc = "broadcast" /\ Wakes(t) /\ xfer' = xfer /\ clock' = clock /\ unplugged' = unplugged
  BY <1>0, BroadcastDoes, Zenon DEF world
<1>2. \A u \in Threads \ {t} : th[u].pc # "sleep" => th'[u] = th[u]
  <2> DEFINE mine == [Resting EXCEPT !.pc = IF t = Closer THEN "closed" ELSE "after",
                                     !.err = th[t].err, !.left = th[t].left]
             woken(u) == [th[u] EXCEPT !.pc = "woken", !.until = Never]
  <2>1. th' = [u \in Threads |-> IF u = t THEN mine ELSE IF th[u].pc = "sleep" THEN woken(u) ELSE th[u]]
    BY DEF Broadcast, At
  <2> HIDE DEF mine, woken
  <2> QED BY <2>1, Zenon
<1>3. ASSUME NEW u \in Threads, th'[u] # th[u]
      PROVE  /\ th[u].pc \in {"broadcast", "sleep"} /\ th'[u].pc \in {"closed", "after", "woken"}
             /\ th'[u].ready \in {"no", th[u].ready}
  <2>1. CASE u = t BY <1>1, <2>1, SMT DEF Wakes
  <2>2. CASE u # t
    <3>1. th[u].pc = "sleep" BY <1>2, <1>3, <2>2
    <3> QED BY <1>1, <2>2, <3>1, SMT DEF Wakes
  <2> QED BY <2>1, <2>2
<1>4. WorldGrows
  <2>1. clock \in Nat BY <1>0, Places
  <2> QED BY <1>1, <2>1, SMT DEF WorldGrows
<1>5. \A x \in Callers : Grows(x) BY <1>1, Zenon DEF Grows
<1>6. \A u \in Callers : ThreadTrue(u)'
  <2> SUFFICES ASSUME NEW u \in Callers PROVE ThreadTrue(u)' OBVIOUS
  <2>0. u \in Threads /\ ThreadTrue(u) BY DEF Threads, TruthInv
  <2>1. CASE th'[u] = th[u]
    <3>1. \A x \in Callers : Carries(x) BY <1>5, Zenon DEF Carries
    <3> QED BY <1>4, <2>0, <2>1, <3>1, StaysTrue, Zenon
  <2>2. CASE th'[u] # th[u]
    <3>1. th'[u].ready = "error" => unplugged'
      <4>1. th'[u].ready = "error" => th[u].ready = "error" BY <1>3, <2>0, <2>2, SMT
      <4> QED BY <1>1, <2>0, <4>1, Zenon DEF ThreadTrue
    <3>2. th'[u].pc \in {"closed", "after", "woken"} BY <1>3, <2>0, <2>2
    <3> QED BY <3>1, <3>2, SMT DEF ThreadTrue, CompletingPcs
  <2> QED BY <2>1, <2>2
<1>7. \A x \in Callers : TransferTrue(x)' BY <1>1, Zenon DEF TruthInv, TransferTrue
<1>8. ASSUME NEW u \in Callers, th[u].pc \in {"timedout", "cancelled"} \/ th'[u].pc = "cancelled"
      PROVE  th'[u] = th[u]
  BY <1>3, <1>8, SMT DEF Threads
<1>9. ASSUME NEW x, Wanted(x) PROVE Wanted(x)'
  <2>1. BeingTimedOut(x) => BeingTimedOut(x)'
    <3> SUFFICES ASSUME NEW u \in Callers, th[u].pc = "timedout", th[u].x = x PROVE BeingTimedOut(x)'
      BY Zenon DEF BeingTimedOut
    <3>1. th'[u] = th[u] BY <1>8
    <3> QED BY <3>1, Zenon DEF BeingTimedOut
  <2> QED BY <1>1, <1>9, <2>1, Zenon DEF Wanted
<1>10. \A x \in Callers : xfer'[x].urb = "killed" => Wanted(x)'
  BY <1>1, <1>9, Zenon DEF TruthInv, WantedInv
<1>11. \A u \in Callers : th'[u].pc = "cancelled" => Wanted(th[u].x)'
  <2> SUFFICES ASSUME NEW u \in Callers, th'[u].pc = "cancelled" PROVE Wanted(th[u].x)' OBVIOUS
  <2>1. PICK y : y = th[u].x OBVIOUS
  <2>2. th'[u] = th[u] BY <1>8
  <2>3. Wanted(y) BY <2>1, <2>2, Zenon DEF TruthInv, WantedInv
  <2>4. Wanted(y)' BY <1>9, <2>3
  <2>5. y = th'[u].x BY <2>1, <2>2
  <2> QED BY <2>4, <2>5, Zenon DEF Wanted, BeingTimedOut
<1>12. TruthInv' BY <1>6, <1>7, <1>10, <1>11, Zenon DEF TruthInv, WantedInv
<1>13. \A x \in Callers : GoesOn(x)
  <2> SUFFICES ASSUME NEW x \in Callers PROVE GoesOn(x) OBVIOUS
  <2>1. Submitting(x)' <=> Submitting(x)
    <3>1. CASE th'[x] = th[x] BY <3>1, Zenon DEF Submitting
    <3>2. CASE th'[x] # th[x] BY <1>3, <3>2, SMT DEF Submitting, Threads
    <3> QED BY <3>1, <3>2
  <2> QED BY <1>1, <2>1, Zenon DEF GoesOn
<1>14. Promise!Happen BY <1>4, <1>13, HappenStep
<1> QED BY <1>12, <1>14, Zenon DEF Tells, Promise!PNext

(* Nothing has happened at first.                                          *)
LEMMA InitTruth == Init => TruthInv /\ Promise!PInit
<1> SUFFICES ASSUME Init PROVE TruthInv /\ Promise!PInit OBVIOUS
<1>1. \A x \in Callers : xfer[x] = NoTransfer BY Zenon DEF Init
<1>2. \A u \in Threads : th[u] = Resting BY Zenon DEF Init
<1>3. clock = 0 /\ ~ unplugged BY DEF Init
<1>4. \A x \in Callers : /\ ~ xfer[x].alive /\ ~ xfer[x].asked /\ ~ xfer[x].timedOut /\ ~ xfer[x].done
                         /\ ~ xfer[x].queued /\ xfer[x].urb = "none" /\ xfer[x].due = Never
  BY <1>1, SMT DEF NoTransfer
<1>5. \A u \in Callers : th[u].pc = "idle" /\ th[u].ready = "no"
  BY <1>2, SMT DEF Resting, Threads
<1>6. TruthInv
  <2>1. \A x \in Callers : TransferTrue(x) BY <1>4, SMT DEF TransferTrue
  <2>2. \A u \in Callers : ThreadTrue(u) BY <1>5, SMT DEF ThreadTrue, CompletingPcs
  <2>3. WantedInv BY <1>4, <1>5, SMT DEF WantedInv
  <2> QED BY <2>1, <2>2, <2>3 DEF TruthInv
<1>7. Promise!PInit
  <2>1. \A x \in Callers : PhaseOf(x) = "idle" BY <1>4, Zenon DEF PhaseOf
  <2>2. ASSUME NEW x \in Callers PROVE CauseOf(x) = {}
    <3>1. ~ (xfer[x].due <= clock)
      <4>1. Never \in Nat /\ Never > 0 BY BoundsAssumption, SMT DEF Never
      <4> QED BY <1>3, <1>4, <4>1, SMT
    <3> QED BY <1>3, <1>4, <3>1, CauseIs, Zenon
  <2>3. Phase = [x \in Callers |-> "idle"] BY <2>1, Zenon DEF Phase
  <2>4. Cause = [x \in Callers |-> {}] BY <2>2, Zenon DEF Cause
  <2>5. Status = [x \in Callers |-> "none"] BY <1>4, Zenon DEF Status
  <2> QED BY <2>3, <2>4, <2>5, Zenon DEF Promise!PInit, Phase, Cause, Status
<1> QED BY <1>6, <1>7

(* Every step keeps what is believed true, and is one of UsbTransfer.      *)
LEMMA NextTells == IoInv /\ TruthInv /\ [Next]_vars => Tells
<1> SUFFICES ASSUME IoInv, TruthInv, [Next]_vars PROVE Tells
  OBVIOUS
<1> HIDE DEF Threads
<1>0. Callers \subseteq Threads /\ Closer \in Threads BY DEF Threads
<1>1. ASSUME NEW t \in Callers, EventStep(t) PROVE Tells
  BY <1>1, HandleEventsTells, PollTells, HandleEventTriggerTells, CompleteNextTells,
     CompletionsEndTells, HandleDescriptorTells, ReapTells, ReapEndTells, HandleDisconnectTells,
     HandleTransferCancellationTells, LeaveFlyingListTells, CallbackTells
  DEF EventStep
<1>2. ASSUME NEW t \in Callers, WaitStep(t) PROVE Tells
  BY <1>2, SubmitAcceptedTells, SubmitRejectedTells, SubmitFailedTells, ReturnTells,
     GetNextTimeoutTells, TryEventsTells, TryLockEventsTells, LockWaitersTells,
     HandlerActiveTells, WakeUpTells, AfterEventsTells, CancelTells
  DEF WaitStep
<1>3. ASSUME NEW t \in Callers, TimeoutStep(t) PROVE Tells
  BY <1>3, HandleTimeoutTells, MarkTimedOutTells, TimeoutsHandledTells DEF TimeoutStep
<1>4. ASSUME NEW t \in Callers, CallStep(t) PROVE Tells
  BY <1>0, <1>1, <1>2, <1>3, <1>4, UnlockEventsTells, BroadcastTells DEF CallStep
<1>5. ASSUME CloseStep PROVE Tells
  BY <1>0, <1>5, LockEventsTells, SweepTells, DetachTells, CloseEndTells, UnlockEventsTells,
     BroadcastTells
  DEF CloseStep
<1>6. ASSUME NEW t \in Callers, Submit(t) \/ Cancel(t) \/ PollInterrupted(t) PROVE Tells
  BY <1>6, SubmitTells, CancelTells, PollInterruptedTells
<1>7. ASSUME NEW x \in Callers, Finishes(x) \/ SignalCompletion(x) PROVE Tells
  BY <1>7, FinishesTells, SignalCompletionTells
<1>8. CASE UNCHANGED vars
  <2>1. xfer' = xfer /\ th' = th /\ clock' = clock /\ unplugged' = unplugged
    BY <1>8 DEF vars, world
  <2> QED BY <2>1, StillTells
<1>9. CASE Next
  <2>1. AllIdle => UNCHANGED vars BY DEF AllIdle
  <2> QED BY <1>4, <1>5, <1>6, <1>7, <1>8, <1>9, <2>1, CloseBeginTells, UnplugTells, InterruptTells,
          TickTells
      DEF Next
<1> QED BY <1>8, <1>9

(* What the handler of events believes of a transfer is true: an expired   *)
(* timer, an asked cancel, a device that went away.                        *)
THEOREM BeliefsAreTrue == Spec => []TruthInv
<1>1. Init => IoInv /\ TruthInv BY InitInv, InitTruth
<1>2. IoInv /\ TruthInv /\ [Next]_vars => IoInv' /\ TruthInv'
  BY NextKeeps, NextTells, Zenon DEF Tells
<1> QED BY <1>1, <1>2, PTL DEF Spec

(* libusb keeps its promise: a transfer that was accepted is finished      *)
(* exactly once and with a status that tells the truth, before its owner   *)
(* may free it; one that was rejected is never finished.                   *)
THEOREM PromiseKept == Spec => KeepsPromise
<1>1. Init => Promise!PInit BY InitTruth
<1>2. IoInv /\ TruthInv /\ [Next]_vars => [Promise!PNext]_(Promise!pvars)
  BY NextTells DEF Tells
<1> QED BY <1>1, <1>2, IoInvariant, BeliefsAreTrue, PTL DEF Spec, KeepsPromise, Promise!PSpec

==============================================================================
