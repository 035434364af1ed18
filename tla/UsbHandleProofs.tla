-------------------------- MODULE UsbHandleProofs --------------------------
(***************************************************************************)
(* Proofs about UsbHandle, for any threads and interfaces.  The inductive  *)
(* invariant says, for every step of every call, who has the lock, which   *)
(* calls may overlap, and by how much the claimed bits and the kernel's    *)
(* claims may differ at that very step.                                    *)
(***************************************************************************)
EXTENDS UsbHandle, TLAPS, WellFoundedInduction

-----------------------------------------------------------------------------
(* The inductive invariant.                                                *)

Ops    == {"idle", "claim", "release", "reset", "set_alt", "clear_halt", "streams", "detach",
           "attach", "set_configuration"}
Trying == {"disconnect_claim", "getdriver", "disconnect", "claim", "failed"}
Places == Trying \union {"idle", "lock", "claimed", "release", "connect", "released", "free",
                         "reset", "reclaim", "use", "configure"}
OnOne  == {"claim", "release", "set_alt", "clear_halt", "streams", "detach", "attach"}
Call   == [op : Ops, i : Interfaces \union {0}, at : Places, todo : SUBSET Interfaces]

(* The steps of a call, and the interface it is about.                     *)
PcOK(c) ==
  /\ c.op = "idle" => c.at = "idle"
  /\ c.op = "claim" => c.at \in Trying \union {"lock", "claimed"}
  /\ c.op = "release" => c.at \in {"lock", "release", "connect", "released"}
  /\ c.op = "reset" => c.at \in Trying \union {"free", "lock", "reset", "reclaim", "claimed"}
  /\ c.op = "set_alt" => c.at \in {"lock", "use"}
  /\ c.op \in {"clear_halt", "streams"} => c.at = "use"
  /\ c.op = "detach" => c.at \in {"getdriver", "disconnect"}
  /\ c.op = "attach" => c.at = "connect"
  /\ c.op = "set_configuration" => c.at = "configure"
  /\ c.op \in OnOne => c.i \in Interfaces
  /\ c.op = "reset" /\ c.at \in Trying \union {"claimed"} => c.i \in c.todo
  /\ c.op = "reset" /\ c.at = "reclaim" => c.todo # {}

PcInv == pc \in [Threads -> Call] /\ \A t \in Threads : PcOK(pc[t])

(* The lock is held from the end of "lock" to the end of the call.         *)
Holding(c) == c.op \in {"claim", "release", "reset"} /\ c.at \notin {"lock", "free"}

LockInv == \A t \in Threads : lock = t <=> Holding(pc[t])

(* The calls the application does not let overlap.                         *)
RulesInv ==
  \A t, u \in Threads :
    /\ pc[t].op \in Uses /\ pc[u].op = "release" => pc[t].i # pc[u].i
    /\ pc[t].op \in Uses \union Drives => pc[u].op # "reset"
    /\ pc[t].op \in Drives /\ u # t /\ pc[u].op \in OnOne => pc[t].i # pc[u].i

(* The bit an operation goes by, while it goes by it.                      *)
BitInv ==
  \A t \in Threads :
    LET c == pc[t] IN
    /\ c.at = "use" => c.i \in claimed
    /\ c.op = "claim" /\ c.at # "lock" => c.i \notin claimed
    /\ c.op = "release" /\ c.at # "lock" => c.i \in claimed
    /\ c.op = "reset" /\ c.at \in Trying \union {"reclaim", "claimed"} => c.todo \subseteq claimed

(* The interfaces the kernel has claimed for the handle.                   *)
Ours == {i \in Interfaces : binding[i] = "ours"}

(* The kernel's claims a call has made or undone, at each of its steps: a  *)
(* claim that succeeded,                                                   *)
GainInv ==
  \A t \in Threads : pc[t].op = "claim" /\ pc[t].at = "claimed" => pc[t].i \in Ours

(* an interface let go,                                                    *)
LoseInv ==
  \A t \in Threads :
    /\ pc[t].op = "release" /\ pc[t].at \in {"connect", "released"} => pc[t].i \notin Ours
    /\ pc[t].op = "detach" /\ pc[t].at = "disconnect" => ~present \/ pc[t].i \notin Ours

(* the interfaces a reset has still to get back, and the one it just got,  *)
(* unless another reset has freed that one again.                          *)
ToRegain(c) == IF c.at \in Trying \union {"reclaim"} THEN c.todo
               ELSE IF c.at = "claimed" THEN c.todo \ {c.i} ELSE {}

RegainInv ==
  \A t \in Threads :
    /\ pc[t].op = "reset" => ToRegain(pc[t]) \intersect Ours = {}
    /\ pc[t].op = "reset" /\ pc[t].at = "claimed" =>
         \/ pc[t].i \in Ours
         \/ \E u \in Threads : pc[u].op = "reset" /\ pc[u].at \in {"free", "lock"}

(* A call that has undone, or may have undone, the claim of interface i,   *)
(* and will see to the bit or to the claim before it returns.              *)
Upsets(c, i) ==
  \/ c.op = "release" /\ c.at \in {"connect", "released"} /\ c.i = i
  \/ c.op = "reset" /\ c.at \in {"free", "lock", "reset"}
  \/ c.op = "reset" /\ i \in ToRegain(c)

(* The kernel's claims and the bits: each without the other only for a     *)
(* call that is about to put it right.                                     *)
ClaimsHaveBits ==
  \A i \in Ours :
    i \in claimed \/ \E t \in Threads : pc[t].op = "claim" /\ pc[t].at = "claimed" /\ pc[t].i = i

BitsHaveClaims ==
  /\ lost \subseteq claimed
  /\ \A i \in claimed \ lost : i \in Ours \/ \E t \in Threads : Upsets(pc[t], i)

(* The drivers that libusb has taken and no other process has taken over:  *)
(* whose interface is not claimed by another, and whose driver the kernel  *)
(* has.                                                                    *)
Due == owed \ taken

DebtInv ==
  /\ \A i \in owed : binding[i] = "other" => i \in taken
  /\ owed \subseteq HasDriver
  /\ \A i \in Interfaces : binding[i] = "driver" => i \in HasDriver

(* Each is on an interface with a bit, or of a claim that is about to have *)
(* one; it is neither where a reset is giving up an interface nor where a  *)
(* release is about to take the bit back.                                  *)
Claiming(c) == c.op = "claim" /\ c.at \in {"claim", "claimed"}

OwedInv ==
  present =>
    /\ \A i \in Due : i \in claimed \/ \E t \in Threads : Claiming(pc[t]) /\ pc[t].i = i
    /\ \A t \in Threads :
         \/ pc[t].op = "release" /\ pc[t].at = "released"
         \/ pc[t].op = "reset" /\ pc[t].at = "failed"
         => pc[t].i \notin Due

HandleInv == TypeOK /\ PcInv /\ LockInv /\ RulesInv /\ BitInv
             /\ GainInv /\ LoseInv /\ RegainInv /\ ClaimsHaveBits /\ BitsHaveClaims
             /\ DebtInv /\ OwedInv

-----------------------------------------------------------------------------

Bindings == {"none", "driver", "ours", "other"}

LEMMA InitInv == Init => HandleInv
  BY SMT, ThreadsAssumption, InterfacesAssumption, BoundsAssumption
  DEF Init, HandleInv, TypeOK, PcInv, PcOK, Call, Ops, Places, Trying, OnOne, Idle, LockInv, Holding,
      RulesInv, Uses, OnEndpoints, Drives, BitInv, GainInv, LoseInv, RegainInv, ToRegain, Ours, ClaimsHaveBits, BitsHaveClaims, Upsets,
      DebtInv, OwedInv, Due, Claiming

(* The loops of a reset take the lowest interface first.                   *)
LEMMA MinIn ==
  ASSUME NEW S \in SUBSET Interfaces, S # {}
  PROVE  Min(S) \in S
<1>1. S \subseteq Nat BY InterfacesAssumption, SMT
<1>2. PICK x \in S : \A y \in S : <<y, x>> \notin OpToRel(<, Nat)
  BY <1>1, WFMin, NatLessThanWellFounded
<1>3. \A y \in S : x =< y
  <2> SUFFICES ASSUME NEW y \in S, y < x PROVE FALSE BY <1>1, SMT
  <2>1. <<y, x>> \in Nat \X Nat /\ <<y, x>>[1] < <<y, x>>[2] BY <1>1
  <2>2. <<y, x>> \in OpToRel(<, Nat) BY <2>1, Zenon DEF OpToRel
  <2> QED BY <1>2, <2>2
<1>4. \E z \in S : \A y \in S : z =< y BY <1>3
<1> QED BY <1>4, Zenon DEF Min

(* The call a thread is in, from the step it takes.                        *)
LEMMA OpAt ==
  ASSUME PcInv, NEW t \in Threads
  PROVE  /\ pc[t] \in Call /\ PcOK(pc[t])
         /\ pc[t].at \in {"free", "reset", "reclaim"} => pc[t].op = "reset"
         /\ pc[t].at \in {"release", "released"} => pc[t].op = "release"
         /\ pc[t].at \in {"disconnect_claim", "claim", "claimed", "failed"} => pc[t].op \in {"claim", "reset"}
         /\ pc[t].at \in {"getdriver", "disconnect"} => pc[t].op \in {"claim", "reset", "detach"}
         /\ pc[t].at = "connect" => pc[t].op \in {"release", "attach"}
         /\ pc[t].at = "use" => pc[t].op \in {"set_alt", "clear_halt", "streams"}
         /\ pc[t].at = "configure" => pc[t].op = "set_configuration"
         /\ pc[t].at = "lock" => pc[t].op \in {"claim", "release", "reset", "set_alt"}
<1>1. pc[t] \in Call /\ PcOK(pc[t]) BY DEF PcInv
<1>2. pc[t].op \in Ops BY <1>1 DEF Call
<1> QED BY <1>1, <1>2, SMT DEF PcOK, Ops, Trying

LEMMA PcBegin ==
  ASSUME PcInv, NEW t \in Threads, Calls(t)
  PROVE  PcInv'
<1> USE DEF PcInv, PcOK, Call, Ops, Places, Trying, OnOne
<1>1. CASE ResetDevice(t) BY <1>1, SMT DEF ResetDevice, Begin
<1>2. CASE SetConfiguration(t) BY <1>2, SMT DEF SetConfiguration, Begin
<1>3. ASSUME NEW i \in Interfaces,
             \/ ClaimInterface(t, i) \/ ReleaseInterface(t, i) \/ SetInterfaceAlt(t, i)
             \/ ClearHalt(t, i) \/ Streams(t, i) \/ DetachKernelDriver(t, i) \/ AttachKernelDriver(t, i)
      PROVE  PcInv'
  <2>1. \E op \in OnOne, at \in Places :
          /\ pc' = [pc EXCEPT ![t] = [op |-> op, i |-> i, at |-> at, todo |-> {}]]
          /\ \/ op \in {"claim", "release", "set_alt"} /\ at = "lock"
             \/ op \in {"clear_halt", "streams"} /\ at = "use"
             \/ op = "detach" /\ at = "getdriver"
             \/ op = "attach" /\ at = "connect"
    BY <1>3, SMT DEF ClaimInterface, ReleaseInterface, SetInterfaceAlt, ClearHalt, Streams, DetachKernelDriver,
       AttachKernelDriver, Begin
  <2> QED BY <2>1, SMT
<1> QED BY <1>1, <1>2, <1>3 DEF Calls

LEMMA PcStep ==
  ASSUME PcInv, TypeOK, NEW t \in Threads, Step(t)
  PROVE  PcInv'
<1> USE DEF PcInv, PcOK, Call, Ops, Places, Trying, OnOne, Idle, At, Goto, Return
<1>1. CASE Lock(t) BY <1>1, SMT DEF Lock
<1>2. CASE Claimed(t) \/ ClaimFailed(t) \/ Released(t) BY <1>2, SMT DEF Claimed, ClaimFailed, Released
<1>3. CASE ClaimIoctl(t) BY <1>3, SMT DEF ClaimIoctl
<1>4. CASE DisconnectClaim(t)
  <2>1. /\ pc[t].at = "disconnect_claim"
        /\ \E x \in {"getdriver", "claimed", "failed"} : pc' = [pc EXCEPT ![t].at = x]
    BY <1>4, Zenon DEF DisconnectClaim
  <2> QED BY <2>1, SMT
<1>5. CASE GetDriver(t) BY <1>5, SMT DEF GetDriver
<1>6. CASE Disconnect(t) BY <1>6, SMT DEF Disconnect
<1>7. CASE ReleaseIoctl(t) BY <1>7, SMT DEF ReleaseIoctl
<1>8. CASE Connect(t) BY <1>8, SMT DEF Connect
<1>9. CASE UseIoctl(t) \/ SetConfigurationIoctl(t) BY <1>9, SMT DEF UseIoctl, SetConfigurationIoctl
<1>10. CASE ResetRelease(t)
  <2> DEFINE rest == pc[t].todo \ {Min(pc[t].todo)}
  <2>1. /\ pc[t].at = "free"
        /\ \/ pc' = [pc EXCEPT ![t].todo = rest, ![t].at = "lock"]
           \/ pc' = [pc EXCEPT ![t].todo = rest, ![t].at = "free"]
    BY <1>10, Zenon DEF ResetRelease
  <2>2. pc[t].op = "reset" BY <2>1, OpAt, Zenon
  <2> QED BY <2>1, <2>2, SMT
<1>11. CASE ResetIoctl(t) BY <1>11, SMT DEF ResetIoctl, TypeOK
<1>12. CASE ResetFails(t) BY <1>12, SMT DEF ResetFails
<1>13. CASE Reclaim(t) BY <1>13, MinIn, SMT DEF Reclaim
<1>14. CASE Reclaimed(t) \/ ReclaimFailed(t)
  <2> DEFINE rest == pc[t].todo \ {pc[t].i}
  <2>1. /\ pc[t].op = "reset"
        /\ \/ pc' = [pc EXCEPT ![t] = Idle]
           \/ rest # {} /\ pc' = [pc EXCEPT ![t].at = "reclaim", ![t].todo = rest]
    BY <1>14, Zenon DEF Reclaimed, ReclaimFailed, NextReclaim
  <2> QED BY <2>1, SMT
<1> QED BY <1>1, <1>2, <1>3, <1>4, <1>5, <1>6, <1>7, <1>8, <1>9, <1>10, <1>11, <1>12, <1>13, <1>14 DEF Step

LEMMA OursSame ==
  ASSUME binding' = binding
  PROVE  Ours' = Ours
BY Zenon DEF Ours

(* What a call looks like when it begins.                                  *)
Fresh(op, at) ==
  \/ op \in {"claim", "release", "set_alt"} /\ at = "lock"
  \/ op \in {"clear_halt", "streams"} /\ at = "use"
  \/ op = "detach" /\ at = "getdriver"
  \/ op = "attach" /\ at = "connect"
  \/ op = "reset" /\ at = "free"
  \/ op = "set_configuration" /\ at = "configure"

LEMMA Begun ==
  ASSUME PcInv, NEW t \in Threads, Calls(t)
  PROVE  /\ pc[t].op = "idle" /\ pc[t].at = "idle"
         /\ MayBegin(pc'[t].op, pc'[t].i) /\ Fresh(pc'[t].op, pc'[t].at)
         /\ \A u \in Threads \ {t} : pc'[u] = pc[u]
         /\ UNCHANGED <<claimed, lock, autoDetach, attached, present, modern, Ours, lost, events>>
         /\ calls < MaxCalls /\ calls' = calls + 1
<1>1. ASSUME NEW op, NEW i, NEW at, Begin(t, op, i, at), Fresh(op, at)
      PROVE  /\ pc[t].op = "idle" /\ pc[t].at = "idle"
             /\ MayBegin(pc'[t].op, pc'[t].i) /\ Fresh(pc'[t].op, pc'[t].at)
             /\ \A u \in Threads \ {t} : pc'[u] = pc[u]
             /\ UNCHANGED <<claimed, lock, autoDetach, attached, present, modern, Ours, lost, events>>
             /\ calls < MaxCalls /\ calls' = calls + 1
  <2>1. /\ pc[t].op = "idle" /\ pc[t].at = "idle"
        /\ pc'[t].op = op /\ pc'[t].i = i /\ pc'[t].at = at
        /\ \A u \in Threads \ {t} : pc'[u] = pc[u]
    BY <1>1, SMT DEF Begin, Idle, PcInv
  <2> QED BY <1>1, <2>1, OursSame, Zenon DEF Begin, handle, device, ghosts
<1> QED
  BY <1>1, SMT DEF Calls, ResetDevice, SetConfiguration, ClaimInterface, ReleaseInterface, SetInterfaceAlt,
     ClearHalt, Streams, DetachKernelDriver, AttachKernelDriver, Fresh

-----------------------------------------------------------------------------
(* What each step does, field by field.                                    *)

Others(t) == \A u \in Threads \ {t} : pc'[u] = pc[u]
Ends(t)   == pc'[t].op = "idle" /\ pc'[t].at = "idle" /\ Others(t)
Moves(t)  == pc'[t].op = pc[t].op /\ pc'[t].i = pc[t].i /\ pc'[t].todo = pc[t].todo /\ Others(t)

LEMMA Binds ==
  ASSUME TypeOK, NEW i \in Interfaces, NEW who \in Bindings, Bind(i, who)
  PROVE  Ours' = IF who = "ours" THEN Ours \union {i} ELSE Ours \ {i}
<1>1. binding \in [Interfaces -> Bindings] BY DEF TypeOK, Bindings
<1>2. binding' = [binding EXCEPT ![i] = who] BY DEF Bind
<1> QED BY <1>1, <1>2, SMT DEF Ours

(* The calls at work on an interface are at work on one of the device's.   *)
LEMMA TargetAt ==
  ASSUME PcInv, NEW t \in Threads,
         pc[t].at \in Trying \union {"claimed", "release", "connect", "released", "use"}
  PROVE  pc[t].i \in Interfaces
<1>1. pc[t].op \in OnOne \union {"reset"} BY OpAt, SMT DEF Trying, OnOne
<1>2. pc[t] \in Call /\ PcOK(pc[t]) BY DEF PcInv
<1>3. CASE pc[t].op \in OnOne BY <1>2, <1>3 DEF PcOK
<1>4. CASE pc[t].op = "reset"
  <2>1. pc[t].at \in Trying \union {"claimed"} BY <1>2, <1>4, SMT DEF PcOK, Trying
  <2> QED BY <1>2, <1>4, <2>1 DEF PcOK, Call
<1> QED BY <1>1, <1>3, <1>4

LEMMA GotoMoves ==
  ASSUME PcInv, NEW t \in Threads, NEW step, Goto(t, step)
  PROVE  Moves(t) /\ pc'[t].at = step
BY SMT DEF PcInv, Call, Goto, Moves, Others

LEMMA ReturnEnds ==
  ASSUME PcInv, NEW t \in Threads, Return(t)
  PROVE  Ends(t)
BY SMT DEF PcInv, Call, Return, Ends, Others, Idle

LEMMA LockDoes ==
  ASSUME PcInv, NEW t \in Threads, Lock(t)
  PROVE  /\ pc[t].at = "lock" /\ lock = Nobody
         /\ UNCHANGED <<claimed, autoDetach, present, modern, Ours, lost>>
         /\ \/ pc[t].op = "claim" /\ pc[t].i \in claimed /\ Ends(t) /\ lock' = Nobody
            \/ pc[t].op \in {"release", "set_alt"} /\ pc[t].i \notin claimed /\ Ends(t) /\ lock' = Nobody
            \/ /\ pc[t].op = "claim" /\ pc[t].i \notin claimed /\ Moves(t) /\ lock' = t
               /\ pc'[t].at \in {"disconnect_claim", "claim"}
            \/ pc[t].op = "release" /\ pc[t].i \in claimed /\ Moves(t) /\ lock' = t /\ pc'[t].at = "release"
            \/ pc[t].op = "set_alt" /\ pc[t].i \in claimed /\ Moves(t) /\ lock' = Nobody /\ pc'[t].at = "use"
            \/ pc[t].op = "reset" /\ Moves(t) /\ lock' = t /\ pc'[t].at = "reset"
<1>1. pc[t].at = "lock" /\ pc[t].op \in {"claim", "release", "reset", "set_alt"}
  BY OpAt, Zenon DEF Lock, At
<1>2. Return(t) => Ends(t) BY ReturnEnds
<1>3. \A step : Goto(t, step) => Moves(t) /\ pc'[t].at = step BY GotoMoves
<1>4. Ours' = Ours BY OursSame, Zenon DEF Lock
<1> QED BY <1>1, <1>2, <1>3, <1>4, SMT DEF Lock, At, device, ghosts

LEMMA ClaimEnds ==
  ASSUME PcInv, NEW t \in Threads, Claimed(t) \/ ClaimFailed(t)
  PROVE  /\ pc[t].op = "claim" /\ Ends(t) /\ lock' = Nobody
         /\ UNCHANGED <<autoDetach, present, modern, Ours, lost>>
         /\ \/ pc[t].at = "claimed" /\ claimed' = claimed \union {pc[t].i}
            \/ pc[t].at = "failed" /\ claimed' = claimed
BY OursSame, ReturnEnds, Zenon DEF Claimed, ClaimFailed, At, Unlock, device, ghosts

LEMMA ReleasedDoes ==
  ASSUME PcInv, NEW t \in Threads, Released(t)
  PROVE  /\ pc[t].op = "release" /\ pc[t].at = "released" /\ Ends(t) /\ lock' = Nobody
         /\ UNCHANGED <<autoDetach, present, modern, Ours>>
         /\ claimed' = claimed \ {pc[t].i} /\ lost' = lost \ {pc[t].i}
<1>1. Ours' = Ours BY OursSame, Zenon DEF Released
<1> QED BY <1>1, ReturnEnds, OpAt, SMT DEF Released, At, Unlock, device, ghosts

LEMMA ClaimIoctlDoes ==
  ASSUME TypeOK, PcInv, NEW t \in Threads, ClaimIoctl(t)
  PROVE  /\ pc[t].op \in {"claim", "reset"} /\ pc[t].at = "claim" /\ Moves(t)
         /\ UNCHANGED <<claimed, lock, autoDetach, present, modern, lost>>
         /\ \/ pc'[t].at = "claimed" /\ Ours' = Ours \union {pc[t].i}
            \/ pc'[t].at = "failed" /\ Ours' = Ours
<1>1. pc[t].at = "claim" /\ pc[t].op \in {"claim", "reset"} BY OpAt, Zenon DEF ClaimIoctl, At
<1>2. \A step : Goto(t, step) => Moves(t) /\ pc'[t].at = step BY GotoMoves
<1>3. Bind(pc[t].i, "ours") => Ours' = Ours \union {pc[t].i}
  BY <1>1, Binds, TargetAt, SMT DEF Bindings, Trying
<1> QED BY <1>1, <1>2, <1>3, OursSame, Zenon DEF ClaimIoctl, handle, device, ghosts

LEMMA DisconnectClaimDoes ==
  ASSUME TypeOK, PcInv, NEW t \in Threads, DisconnectClaim(t)
  PROVE  /\ pc[t].op \in {"claim", "reset"} /\ pc[t].at = "disconnect_claim" /\ Moves(t)
         /\ UNCHANGED <<claimed, lock, autoDetach, present, modern, lost>>
         /\ \/ pc'[t].at = "getdriver" /\ Ours' = Ours /\ ~modern
            \/ pc'[t].at = "claimed" /\ Ours' = Ours \union {pc[t].i}
            \/ pc'[t].at = "failed" /\ Ours' = Ours
<1>1. pc[t].at = "disconnect_claim" /\ pc[t].op \in {"claim", "reset"} BY OpAt, Zenon DEF DisconnectClaim, At
<1>2. \A step : Goto(t, step) => Moves(t) /\ pc'[t].at = step BY GotoMoves
<1>3. Bind(pc[t].i, "ours") => Ours' = Ours \union {pc[t].i}
  BY <1>1, Binds, TargetAt, SMT DEF Bindings, Trying
<1>4. \/ Goto(t, "getdriver") /\ binding' = binding /\ ~modern
      \/ Goto(t, "claimed") /\ Bind(pc[t].i, "ours")
      \/ Goto(t, "failed") /\ binding' = binding
  BY Zenon DEF DisconnectClaim
<1>5. UNCHANGED <<claimed, lock, autoDetach, present, modern, lost>>
  BY Zenon DEF DisconnectClaim, handle, device
<1> QED BY <1>1, <1>2, <1>3, <1>4, <1>5, OursSame, Zenon

LEMMA GetDriverDoes ==
  ASSUME PcInv, NEW t \in Threads, GetDriver(t)
  PROVE  /\ pc[t].op \in {"claim", "reset", "detach"} /\ pc[t].at = "getdriver"
         /\ UNCHANGED <<claimed, lock, autoDetach, present, modern, Ours, lost>>
         /\ \/ /\ pc'[t].at = "disconnect" /\ Moves(t)
               /\ present => pc[t].i \notin Ours
            \/ pc[t].op = "detach" /\ Ends(t)
            \/ pc[t].op # "detach" /\ pc'[t].at = "claim" /\ Moves(t)
<1>1. pc[t].at = "getdriver" /\ pc[t].op \in {"claim", "reset", "detach"} BY OpAt, Zenon DEF GetDriver, At
<1>2. \A step : Goto(t, step) => Moves(t) /\ pc'[t].at = step BY GotoMoves
<1>3. Return(t) => Ends(t) BY ReturnEnds
<1>4. Ours' = Ours BY OursSame, Zenon DEF GetDriver
<1>5. present /\ binding[pc[t].i] \notin {"ours", "other"} => pc[t].i \notin Ours BY Zenon DEF Ours
<1> QED BY <1>1, <1>2, <1>3, <1>4, <1>5, Zenon DEF GetDriver, At, handle, device, ghosts

LEMMA DisconnectDoes ==
  ASSUME TypeOK, PcInv, NEW t \in Threads, Disconnect(t)
  PROVE  /\ pc[t].op \in {"claim", "reset", "detach"} /\ pc[t].at = "disconnect"
         /\ UNCHANGED <<claimed, lock, autoDetach, present, modern, lost>>
         /\ \/ pc[t].op = "detach" /\ Ends(t)
            \/ pc[t].op # "detach" /\ pc'[t].at \in {"claim", "failed"} /\ Moves(t)
         /\ Ours' = IF present THEN Ours \ {pc[t].i} ELSE Ours
<1>1. pc[t].at = "disconnect" /\ pc[t].op \in {"claim", "reset", "detach"} BY OpAt, Zenon DEF Disconnect, At
<1>2. \A step : Goto(t, step) => Moves(t) /\ pc'[t].at = step BY GotoMoves
<1>3. Return(t) => Ends(t) BY ReturnEnds
<1>4. Bind(pc[t].i, "none") => Ours' = Ours \ {pc[t].i}
  BY <1>1, Binds, TargetAt, SMT DEF Bindings, Trying
<1> QED BY <1>1, <1>2, <1>3, <1>4, OursSame, Zenon DEF Disconnect, handle, device

LEMMA ReleaseIoctlDoes ==
  ASSUME TypeOK, PcInv, NEW t \in Threads, ReleaseIoctl(t)
  PROVE  /\ pc[t].op = "release" /\ pc[t].at = "release"
         /\ UNCHANGED <<claimed, autoDetach, present, modern, lost>>
         /\ \/ /\ pc'[t].at = IF autoDetach THEN "connect" ELSE "released"
               /\ Moves(t) /\ lock' = lock /\ Ours' = Ours \ {pc[t].i}
            \/ Ends(t) /\ lock' = Nobody /\ Ours' = Ours
<1>1. pc[t].at = "release" /\ pc[t].op = "release" BY OpAt, Zenon DEF ReleaseIoctl, At
<1>2. \A step : Goto(t, step) => Moves(t) /\ pc'[t].at = step BY GotoMoves
<1>3. Return(t) => Ends(t) BY ReturnEnds
<1>4. Bind(pc[t].i, "none") => Ours' = Ours \ {pc[t].i}
  BY <1>1, Binds, TargetAt, SMT DEF Bindings
<1> QED BY <1>1, <1>2, <1>3, <1>4, OursSame, Zenon DEF ReleaseIoctl, Unlock, device, ghosts

LEMMA ConnectDoes ==
  ASSUME TypeOK, PcInv, NEW t \in Threads, Connect(t)
  PROVE  /\ pc[t].op \in {"release", "attach"} /\ pc[t].at = "connect"
         /\ UNCHANGED <<claimed, lock, autoDetach, present, modern, lost>>
         /\ \/ pc[t].op = "attach" /\ Ends(t)
            \/ pc[t].op = "release" /\ pc'[t].at = "released" /\ Moves(t)
         /\ Ours' = Ours
<1>1. pc[t].at = "connect" /\ pc[t].op \in {"release", "attach"} BY OpAt, Zenon DEF Connect, At
<1>2. \A step : Goto(t, step) => Moves(t) /\ pc'[t].at = step BY GotoMoves
<1>3. Return(t) => Ends(t) BY ReturnEnds
<1>4. \/ pc[t].op = "attach" /\ Ends(t)
      \/ pc[t].op = "release" /\ pc'[t].at = "released" /\ Moves(t)
  BY <1>1, <1>2, <1>3, Zenon DEF Connect
<1>5. pc[t].i \in Interfaces BY <1>1, TargetAt, SMT DEF Trying
<1>6. Ours' = Ours
  <2>1. binding[pc[t].i] = "none" /\ Bind(pc[t].i, "driver") => Ours' = Ours
    BY <1>5, Binds, SMT DEF Bindings, Ours
  <2> QED BY <2>1, OursSame, Zenon DEF Connect, Bind
<1> QED BY <1>1, <1>4, <1>6, Zenon DEF Connect, handle, device

LEMMA UseIoctlDoes ==
  ASSUME TypeOK, PcInv, NEW t \in Threads, UseIoctl(t)
  PROVE  /\ pc[t].op \in {"set_alt", "clear_halt", "streams"} /\ pc[t].at = "use" /\ Ends(t)
         /\ UNCHANGED <<claimed, lock, autoDetach, present, modern, lost>>
         /\ Ours' = Ours \/ Ours' = Ours \union {pc[t].i}
<1>1. pc[t].at = "use" /\ pc[t].op \in {"set_alt", "clear_halt", "streams"} BY OpAt, Zenon DEF UseIoctl, At
<1>2. Bind(pc[t].i, "ours") => Ours' = Ours \union {pc[t].i}
  BY <1>1, Binds, TargetAt, SMT DEF Bindings
<1> QED BY <1>1, <1>2, OursSame, ReturnEnds, Zenon DEF UseIoctl, Bind, handle, device, ghosts

LEMMA SetConfigurationDoes ==
  ASSUME PcInv, NEW t \in Threads, SetConfigurationIoctl(t)
  PROVE  /\ pc[t].op = "set_configuration" /\ pc[t].at = "configure" /\ Ends(t)
         /\ UNCHANGED <<claimed, lock, autoDetach, present, modern, lost>>
         /\ Ours' = Ours
<1>1. pc[t].at = "configure" /\ pc[t].op = "set_configuration" BY OpAt, Zenon DEF SetConfigurationIoctl, At
<1>2. \/ binding' = binding
      \/ \A i \in Interfaces : binding[i] = "none" /\ binding'[i] # "ours"
  BY SMT DEF SetConfigurationIoctl
<1>3. Ours' = Ours BY <1>2, OursSame, SMT DEF Ours
<1> QED BY <1>1, <1>3, ReturnEnds, Zenon DEF SetConfigurationIoctl, handle, device, ghosts

LEMMA ResetReleaseDoes ==
  ASSUME TypeOK, PcInv, NEW t \in Threads, ResetRelease(t)
  PROVE  /\ pc[t].op = "reset" /\ pc[t].at = "free"
         /\ pc'[t].op = "reset" /\ pc'[t].at \in {"free", "lock"} /\ Others(t)
         /\ UNCHANGED <<claimed, lock, autoDetach, present, modern, lost>>
         /\ Ours' = Ours \/ \E i \in claimed : Ours' = Ours \ {i}
<1>1. pc[t].at = "free" /\ pc[t].op = "reset" BY OpAt, Zenon DEF ResetRelease, At
<1>2. pc'[t].op = "reset" /\ pc'[t].at \in {"free", "lock"} /\ Others(t)
  BY <1>1, SMT DEF ResetRelease, PcInv, Call, Others
<1>3. \A i \in claimed : Bind(i, "none") => Ours' = Ours \ {i}
  BY Binds, SMT DEF Bindings, TypeOK
<1> QED BY <1>1, <1>2, <1>3, OursSame, Zenon DEF Bind, ResetRelease, handle, device, ghosts

LEMMA ResetIoctlDoes ==
  ASSUME PcInv, NEW t \in Threads, ResetIoctl(t)
  PROVE  /\ pc[t].op = "reset" /\ pc[t].at = "reset"
         /\ UNCHANGED <<claimed, autoDetach, present, modern, lost>>
         /\ Ours' = {}
         /\ \/ claimed = {} /\ Ends(t) /\ lock' = Nobody
            \/ /\ pc'[t].op = "reset" /\ pc'[t].at = "reclaim" /\ pc'[t].todo = claimed /\ Others(t)
               /\ lock' = lock
<1>1. pc[t].at = "reset" /\ pc[t].op = "reset" BY OpAt, Zenon DEF ResetIoctl, At
<1>2. \/ claimed = {} /\ Ends(t) /\ lock' = Nobody
      \/ /\ pc'[t].op = "reset" /\ pc'[t].at = "reclaim" /\ pc'[t].todo = claimed /\ Others(t)
         /\ lock' = lock
  BY <1>1, ReturnEnds, SMT DEF ResetIoctl, PcInv, Call, Others, Unlock
<1>3. Ours' = {} BY SMT DEF ResetIoctl, Ours
<1> QED BY <1>1, <1>2, <1>3, Zenon DEF ResetIoctl, handle, device, ghosts

LEMMA ResetFailsDoes ==
  ASSUME PcInv, NEW t \in Threads, ResetFails(t)
  PROVE  /\ pc[t].op = "reset" /\ pc[t].at = "reset" /\ Ends(t) /\ lock' = Nobody
         /\ UNCHANGED <<claimed, autoDetach, present, modern, Ours>>
         /\ lost' = lost \union claimed
BY OursSame, ReturnEnds, OpAt, Zenon DEF ResetFails, At, Unlock, device

LEMMA ReclaimDoes ==
  ASSUME PcInv, NEW t \in Threads, Reclaim(t)
  PROVE  /\ pc[t].op = "reset" /\ pc[t].at = "reclaim"
         /\ pc'[t].op = "reset" /\ pc'[t].at = "disconnect_claim" /\ Others(t)
         /\ pc'[t].todo = pc[t].todo
         /\ UNCHANGED <<claimed, lock, autoDetach, present, modern, Ours, lost>>
<1>1. pc[t].at = "reclaim" /\ pc[t].op = "reset" BY OpAt, Zenon DEF Reclaim, At
<1>2. pc'[t].op = "reset" /\ pc'[t].at = "disconnect_claim" /\ Others(t) /\ pc'[t].todo = pc[t].todo
  BY <1>1, SMT DEF Reclaim, PcInv, Call, Others
<1> QED BY <1>1, <1>2, OursSame, Zenon DEF Reclaim, handle, device, ghosts

LEMMA ReclaimEnds ==
  ASSUME PcInv, NEW t \in Threads, Reclaimed(t) \/ ReclaimFailed(t)
  PROVE  /\ pc[t].op = "reset"
         /\ \/ pc[t].todo \subseteq {pc[t].i} /\ Ends(t) /\ lock' = Nobody
            \/ /\ pc'[t].op = "reset" /\ pc'[t].at = "reclaim" /\ Others(t)
               /\ pc'[t].todo = pc[t].todo \ {pc[t].i} /\ lock' = lock
         /\ \/ pc[t].at = "claimed" /\ claimed' = claimed
            \/ pc[t].at = "failed" /\ claimed' = claimed \ {pc[t].i}
         /\ lost' = lost \ {pc[t].i}
         /\ UNCHANGED <<autoDetach, present, modern, Ours>>
<1>1. pc[t].op = "reset" /\ NextReclaim(t) BY Zenon DEF Reclaimed, ReclaimFailed
<1>2. \/ pc[t].todo \subseteq {pc[t].i} /\ Ends(t) /\ lock' = Nobody
      \/ /\ pc'[t].op = "reset" /\ pc'[t].at = "reclaim" /\ Others(t)
         /\ pc'[t].todo = pc[t].todo \ {pc[t].i} /\ lock' = lock
  BY <1>1, ReturnEnds, SMT DEF NextReclaim, PcInv, Call, Others, Unlock
<1> QED BY <1>1, <1>2, OursSame, Zenon DEF Reclaimed, ReclaimFailed, At, device

LEMMA EnvironmentDoes ==
  ASSUME TypeOK, Environment
  PROVE  /\ UNCHANGED <<claimed, lock, autoDetach, modern, pc, lost>>
         /\ present' => present
         /\ Ours' = Ours
<1> USE DEF Environment, Unplug, Disconnected, DriverLoaded, OtherClaims, OtherReleases, Rebinds, System
<1>1. UNCHANGED <<claimed, lock, autoDetach, modern, pc, lost>>
  BY Zenon DEF handle, device, ghosts
<1>2. present' => present BY Zenon DEF device
<1>3. ASSUME NEW i \in Interfaces, binding[i] \in {"none", "driver", "other"},
             NEW who \in {"none", "driver", "other"}, Bind(i, who)
      PROVE  Ours' = Ours
  <2>1. Ours' = Ours \ {i} BY <1>3, Binds, SMT DEF Bindings
  <2> QED BY <1>3, <2>1, SMT DEF Ours
<1>4. Ours' = Ours BY <1>3, OursSame, SMT
<1> QED BY <1>1, <1>2, <1>4

-----------------------------------------------------------------------------
(* Every step keeps the invariant, one part of it after the other.         *)

(* What the calls under way say of one that may begin.                     *)
LEMMA MayBeginMeans ==
  ASSUME PcInv, NEW op, NEW i, MayBegin(op, i), NEW u \in Threads
  PROVE  /\ op \in {"claim", "release"} \union Uses /\ pc[u].op \in Drives => pc[u].i # i
         /\ op = "release" /\ pc[u].op \in Uses => pc[u].i # i
         /\ op = "reset" => pc[u].op \notin Uses \union Drives
         /\ op \in Uses \union Drives => pc[u].op # "reset"
         /\ op \in Uses /\ pc[u].op = "release" => pc[u].i # i
         /\ op \in OnEndpoints => i \in claimed
         /\ op \in Drives /\ pc[u].op # "idle" => pc[u].i # i
<1>1. op = "reset" => pc[u].op \notin Uses \union Drives
  <2> SUFFICES ASSUME op = "reset", pc[u].op \in Uses \union Drives PROVE FALSE OBVIOUS
  <2>1. PcOK(pc[u]) BY DEF PcInv
  <2>2. pc[u].i \in Interfaces BY <2>1, SMT DEF PcOK, OnOne, Uses, OnEndpoints, Drives
  <2> QED BY <2>2, Zenon DEF MayBegin, InCall
<1>2. op \in Drives /\ pc[u].op # "idle" => pc[u].i # i
  <2>1. Idle.op = "idle" BY DEF Idle
  <2> QED BY <2>1, Zenon DEF MayBegin
<1>3. op \in Uses \union Drives => pc[u].op # "reset" BY Zenon DEF MayBegin, Resetting
<1> QED BY <1>1, <1>2, <1>3, SMT DEF MayBegin, InCall

LEMMA LockKept ==
  ASSUME TypeOK, PcInv, LockInv, Next
  PROVE  LockInv'
<1> USE ThreadsAssumption DEF LockInv, Holding, Others, Ends, Moves
<1>1. CASE SetAutoDetach BY <1>1, SMT DEF SetAutoDetach, device, ghosts
<1>2. CASE Environment BY <1>2, EnvironmentDoes, SMT
<1>3. ASSUME NEW t \in Threads, Calls(t) PROVE LockInv'
  BY <1>3, Begun, SMT DEF Fresh
<1>4. ASSUME NEW t \in Threads, Step(t) PROVE LockInv'
  <2>1. CASE Lock(t) BY <2>1, LockDoes, SMT
  <2>2. CASE Claimed(t) \/ ClaimFailed(t) BY <2>2, ClaimEnds, SMT
  <2>3. CASE Released(t) BY <2>3, ReleasedDoes, SMT
  <2>4. CASE ClaimIoctl(t) BY <2>4, ClaimIoctlDoes, SMT
  <2>5. CASE DisconnectClaim(t) BY <2>5, DisconnectClaimDoes, SMT
  <2>6. CASE GetDriver(t) BY <2>6, GetDriverDoes, SMT
  <2>7. CASE Disconnect(t) BY <2>7, DisconnectDoes, SMT
  <2>8. CASE ReleaseIoctl(t) BY <2>8, ReleaseIoctlDoes, SMT
  <2>9. CASE Connect(t) BY <2>9, ConnectDoes, SMT
  <2>10. CASE UseIoctl(t) BY <2>10, UseIoctlDoes, SMT
  <2>11. CASE SetConfigurationIoctl(t) BY <2>11, SetConfigurationDoes, SMT
  <2>12. CASE ResetRelease(t) BY <2>12, ResetReleaseDoes, SMT
  <2>13. CASE ResetIoctl(t) BY <2>13, ResetIoctlDoes, SMT
  <2>14. CASE ResetFails(t) BY <2>14, ResetFailsDoes, SMT
  <2>15. CASE Reclaim(t) BY <2>15, ReclaimDoes, SMT
  <2>16. CASE Reclaimed(t) \/ ReclaimFailed(t) BY <2>16, ReclaimEnds, SMT
  <2> QED BY <1>4, <2>1, <2>2, <2>3, <2>4, <2>5, <2>6, <2>7, <2>8,
     <2>9, <2>10, <2>11, <2>12, <2>13, <2>14, <2>15, <2>16 DEF Step
<1> QED BY <1>1, <1>2, <1>3, <1>4 DEF Next

LEMMA RulesKept ==
  ASSUME TypeOK, PcInv, RulesInv, Next
  PROVE  RulesInv'
<1> USE DEF RulesInv, OnOne, Uses, OnEndpoints, Drives, Others, Ends, Moves
<1>1. CASE SetAutoDetach BY <1>1, SMT DEF SetAutoDetach, device, ghosts
<1>2. CASE Environment BY <1>2, EnvironmentDoes, SMT
<1>3. ASSUME NEW t \in Threads, Calls(t) PROVE RulesInv'
  <2>1. \A u \in Threads \ {t} : pc'[u] = pc[u] BY <1>3, Begun
  <2>2. MayBegin(pc'[t].op, pc'[t].i) BY <1>3, Begun
  <2> QED BY <2>1, <2>2, MayBeginMeans, SMT
<1>4. ASSUME NEW t \in Threads, Step(t) PROVE RulesInv'
  <2>1. CASE Lock(t) BY <2>1, LockDoes, SMT
  <2>2. CASE Claimed(t) \/ ClaimFailed(t) BY <2>2, ClaimEnds, SMT
  <2>3. CASE Released(t) BY <2>3, ReleasedDoes, SMT
  <2>4. CASE ClaimIoctl(t) BY <2>4, ClaimIoctlDoes, SMT
  <2>5. CASE DisconnectClaim(t) BY <2>5, DisconnectClaimDoes, SMT
  <2>6. CASE GetDriver(t) BY <2>6, GetDriverDoes, SMT
  <2>7. CASE Disconnect(t) BY <2>7, DisconnectDoes, SMT
  <2>8. CASE ReleaseIoctl(t) BY <2>8, ReleaseIoctlDoes, SMT
  <2>9. CASE Connect(t) BY <2>9, ConnectDoes, SMT
  <2>10. CASE UseIoctl(t) BY <2>10, UseIoctlDoes, SMT
  <2>11. CASE SetConfigurationIoctl(t) BY <2>11, SetConfigurationDoes, SMT
  <2>12. CASE ResetRelease(t) BY <2>12, ResetReleaseDoes, SMT
  <2>13. CASE ResetIoctl(t) BY <2>13, ResetIoctlDoes, SMT
  <2>14. CASE ResetFails(t) BY <2>14, ResetFailsDoes, SMT
  <2>15. CASE Reclaim(t) BY <2>15, ReclaimDoes, SMT
  <2>16. CASE Reclaimed(t) \/ ReclaimFailed(t) BY <2>16, ReclaimEnds, SMT
  <2> QED BY <1>4, <2>1, <2>2, <2>3, <2>4, <2>5, <2>6, <2>7, <2>8,
     <2>9, <2>10, <2>11, <2>12, <2>13, <2>14, <2>15, <2>16 DEF Step
<1> QED BY <1>1, <1>2, <1>3, <1>4 DEF Next

LEMMA BitKept ==
  ASSUME TypeOK, PcInv, LockInv, RulesInv, BitInv, Next
  PROVE  BitInv'
<1> USE DEF BitInv, LockInv, Holding, RulesInv, Uses, OnEndpoints, Trying, Others, Ends, Moves
<1>0. \A u \in Threads : /\ pc[u].op \in {"claim", "release"} => pc[u].at # "free"
                         /\ pc[u].at = "use" => pc[u].op \in {"set_alt", "clear_halt", "streams"}
  BY OpAt, SMT DEF PcOK
<1>1. CASE SetAutoDetach BY <1>1, SMT DEF SetAutoDetach, device, ghosts
<1>2. CASE Environment BY <1>2, EnvironmentDoes, SMT
<1>3. ASSUME NEW t \in Threads, Calls(t) PROVE BitInv'
  <2>1. \A u \in Threads \ {t} : pc'[u] = pc[u] BY <1>3, Begun
  <2>2. MayBegin(pc'[t].op, pc'[t].i) /\ Fresh(pc'[t].op, pc'[t].at) BY <1>3, Begun
  <2>3. claimed' = claimed BY <1>3, Begun
  <2>4. pc'[t].op \in OnEndpoints => pc'[t].i \in claimed BY <2>2, MayBeginMeans, Zenon
  <2> QED BY <2>1, <2>2, <2>3, <2>4, SMT DEF Fresh
<1>4. ASSUME NEW t \in Threads, Step(t) PROVE BitInv'
  <2>1. CASE Lock(t) 
    <3>1. \A u \in Threads \ {t} : pc'[u] = pc[u] BY <2>1, LockDoes
    <3>2. claimed' = claimed BY <2>1, LockDoes
    <3>3. /\ pc'[t].at = "use" => pc'[t].i \in claimed
          /\ pc'[t].op = "claim" => pc'[t].i \notin claimed
          /\ pc'[t].op = "release" => pc'[t].i \in claimed
          /\ pc'[t].op = "reset" => pc'[t].at = "reset"
      BY <2>1, LockDoes
    <3> QED BY <3>1, <3>2, <3>3, SMT
  <2>2. CASE Claimed(t) \/ ClaimFailed(t) BY <1>0, <2>2, ClaimEnds, SMT
  <2>3. CASE Released(t) BY <1>0, <2>3, ReleasedDoes, SMT
  <2>4. CASE ClaimIoctl(t) BY <2>4, ClaimIoctlDoes, SMT
  <2>5. CASE DisconnectClaim(t) BY <2>5, DisconnectClaimDoes, SMT
  <2>6. CASE GetDriver(t) BY <2>6, GetDriverDoes, SMT
  <2>7. CASE Disconnect(t) BY <2>7, DisconnectDoes, SMT
  <2>8. CASE ReleaseIoctl(t) BY <2>8, ReleaseIoctlDoes, SMT
  <2>9. CASE Connect(t) BY <2>9, ConnectDoes, SMT
  <2>10. CASE UseIoctl(t) BY <2>10, UseIoctlDoes, SMT
  <2>11. CASE SetConfigurationIoctl(t) BY <2>11, SetConfigurationDoes, SMT
  <2>12. CASE ResetRelease(t) BY <2>12, ResetReleaseDoes, SMT
  <2>13. CASE ResetIoctl(t) BY <2>13, ResetIoctlDoes, SMT
  <2>14. CASE ResetFails(t) BY <2>14, ResetFailsDoes, SMT
  <2>15. CASE Reclaim(t) BY <2>15, ReclaimDoes, SMT
  <2>16. CASE Reclaimed(t) \/ ReclaimFailed(t) BY <1>0, <2>16, ReclaimEnds, SMT
  <2> QED BY <1>4, <2>1, <2>2, <2>3, <2>4, <2>5, <2>6, <2>7, <2>8,
     <2>9, <2>10, <2>11, <2>12, <2>13, <2>14, <2>15, <2>16 DEF Step
<1> QED BY <1>1, <1>2, <1>3, <1>4 DEF Next

(* Only one call is past the lock.                                         *)
LEMMA Alone ==
  ASSUME LockInv, NEW t \in Threads, NEW u \in Threads, Holding(pc[t]), Holding(pc[u])
  PROVE  t = u /\ lock = t
BY SMT DEF LockInv

LEMMA StepOthers ==
  ASSUME TypeOK, PcInv, NEW t \in Threads, Step(t)
  PROVE  /\ \A u \in Threads \ {t} : pc'[u] = pc[u]
         /\ UNCHANGED <<autoDetach, present, modern>>
<1> USE DEF Moves, Ends, Others
<1>1. CASE Lock(t) BY <1>1, LockDoes, Zenon
<1>2. CASE Claimed(t) \/ ClaimFailed(t) BY <1>2, ClaimEnds, Zenon
<1>3. CASE Released(t) BY <1>3, ReleasedDoes, Zenon
<1>4. CASE ClaimIoctl(t) BY <1>4, ClaimIoctlDoes, Zenon
<1>5. CASE DisconnectClaim(t) BY <1>5, DisconnectClaimDoes, Zenon
<1>6. CASE GetDriver(t) BY <1>6, GetDriverDoes, Zenon
<1>7. CASE Disconnect(t) BY <1>7, DisconnectDoes, Zenon
<1>8. CASE ReleaseIoctl(t) BY <1>8, ReleaseIoctlDoes, Zenon
<1>9. CASE Connect(t) BY <1>9, ConnectDoes, Zenon
<1>10. CASE UseIoctl(t) BY <1>10, UseIoctlDoes, Zenon
<1>11. CASE SetConfigurationIoctl(t) BY <1>11, SetConfigurationDoes, Zenon
<1>12. CASE ResetRelease(t) BY <1>12, ResetReleaseDoes, Zenon
<1>13. CASE ResetIoctl(t) BY <1>13, ResetIoctlDoes, Zenon
<1>14. CASE ResetFails(t) BY <1>14, ResetFailsDoes, Zenon
<1>15. CASE Reclaim(t) BY <1>15, ReclaimDoes, Zenon
<1>16. CASE Reclaimed(t) \/ ReclaimFailed(t) BY <1>16, ReclaimEnds, Zenon
<1> QED BY Step(t), <1>1, <1>2, <1>3, <1>4, <1>5, <1>6, <1>7, <1>8,
   <1>9, <1>10, <1>11, <1>12, <1>13, <1>14, <1>15, <1>16 DEF Step

(* The steps that give the handle an interface,                            *)
LEMMA OursGained ==
  ASSUME TypeOK, PcInv, NEW t \in Threads, Step(t), NEW j \in Ours', j \notin Ours
  PROVE  /\ pc[t].i = j
         /\ \/ /\ Holding(pc[t]) /\ pc[t].op \in {"claim", "reset"} /\ pc[t].at \in Trying
               /\ Moves(t) /\ pc'[t].at = "claimed" /\ claimed' = claimed
            \/ pc[t].at = "use" /\ claimed' = claimed
<1> USE DEF Holding, Trying
<1>1. CASE Lock(t) BY <1>1, LockDoes, SMT
<1>2. CASE Claimed(t) \/ ClaimFailed(t) BY <1>2, ClaimEnds, SMT
<1>3. CASE Released(t) BY <1>3, ReleasedDoes, SMT
<1>4. CASE ClaimIoctl(t) BY <1>4, ClaimIoctlDoes, SMT
<1>5. CASE DisconnectClaim(t) BY <1>5, DisconnectClaimDoes, SMT
<1>6. CASE GetDriver(t) BY <1>6, GetDriverDoes, SMT
<1>7. CASE Disconnect(t) BY <1>7, DisconnectDoes, SMT
<1>8. CASE ReleaseIoctl(t) BY <1>8, ReleaseIoctlDoes, SMT
<1>9. CASE Connect(t) BY <1>9, ConnectDoes, SMT
<1>10. CASE UseIoctl(t) BY <1>10, UseIoctlDoes, SMT
<1>11. CASE SetConfigurationIoctl(t) BY <1>11, SetConfigurationDoes, SMT
<1>12. CASE ResetRelease(t) BY <1>12, ResetReleaseDoes, SMT
<1>13. CASE ResetIoctl(t) BY <1>13, ResetIoctlDoes, SMT
<1>14. CASE ResetFails(t) BY <1>14, ResetFailsDoes, SMT
<1>15. CASE Reclaim(t) BY <1>15, ReclaimDoes, SMT
<1>16. CASE Reclaimed(t) \/ ReclaimFailed(t) BY <1>16, ReclaimEnds, SMT
<1> QED BY Step(t), <1>1, <1>2, <1>3, <1>4, <1>5, <1>6, <1>7, <1>8,
   <1>9, <1>10, <1>11, <1>12, <1>13, <1>14, <1>15, <1>16 DEF Step

(* and those that take one away.                                           *)
LEMMA OursLost ==
  ASSUME TypeOK, PcInv, NEW t \in Threads, Step(t), NEW j \in Ours, j \notin Ours'
  PROVE  \/ Holding(pc[t])
         \/ pc[t].op = "detach" /\ pc[t].at = "disconnect" /\ pc[t].i = j /\ present
         \/ pc[t].op = "reset" /\ j \in claimed /\ pc'[t].op = "reset" /\ pc'[t].at \in {"free", "lock"}
<1> USE DEF Holding, Trying
<1>1. CASE Lock(t) BY <1>1, LockDoes, SMT
<1>2. CASE Claimed(t) \/ ClaimFailed(t) BY <1>2, ClaimEnds, SMT
<1>3. CASE Released(t) BY <1>3, ReleasedDoes, SMT
<1>4. CASE ClaimIoctl(t) BY <1>4, ClaimIoctlDoes, SMT
<1>5. CASE DisconnectClaim(t) BY <1>5, DisconnectClaimDoes, SMT
<1>6. CASE GetDriver(t) BY <1>6, GetDriverDoes, SMT
<1>7. CASE Disconnect(t) BY <1>7, DisconnectDoes, SMT
<1>8. CASE ReleaseIoctl(t) BY <1>8, ReleaseIoctlDoes, SMT
<1>9. CASE Connect(t) BY <1>9, ConnectDoes, SMT
<1>10. CASE UseIoctl(t) BY <1>10, UseIoctlDoes, SMT
<1>11. CASE SetConfigurationIoctl(t) BY <1>11, SetConfigurationDoes, SMT
<1>12. CASE ResetRelease(t) BY <1>12, ResetReleaseDoes, SMT
<1>13. CASE ResetIoctl(t) BY <1>13, ResetIoctlDoes, SMT
<1>14. CASE ResetFails(t) BY <1>14, ResetFailsDoes, SMT
<1>15. CASE Reclaim(t) BY <1>15, ReclaimDoes, SMT
<1>16. CASE Reclaimed(t) \/ ReclaimFailed(t) BY <1>16, ReclaimEnds, SMT
<1> QED BY Step(t), <1>1, <1>2, <1>3, <1>4, <1>5, <1>6, <1>7, <1>8,
   <1>9, <1>10, <1>11, <1>12, <1>13, <1>14, <1>15, <1>16 DEF Step

(* Between the calls' own steps nothing changes but what is around them.   *)
LEMMA OtherwiseSame ==
  ASSUME TypeOK, Environment \/ SetAutoDetach
  PROVE  /\ UNCHANGED <<claimed, lock, modern, pc, Ours, lost>>
         /\ present' => present
<1>1. CASE Environment BY <1>1, EnvironmentDoes, Zenon
<1>2. CASE SetAutoDetach BY <1>2, OursSame, Zenon DEF SetAutoDetach, device, ghosts
<1> QED BY <1>1, <1>2

(* The action a call's place calls for.                                    *)
LEMMA PlaceOf ==
  ASSUME NEW t \in Threads, Step(t)
  PROVE  /\ pc[t].at = "lock" => Lock(t)
         /\ pc[t].at = "free" => ResetRelease(t)
         /\ pc[t].at = "reset" => ResetIoctl(t) \/ ResetFails(t)
         /\ pc[t].at = "reclaim" => Reclaim(t)
         /\ pc[t].at = "claim" => ClaimIoctl(t)
         /\ pc[t].at \in {"claimed", "failed"} /\ pc[t].op = "reset" => Reclaimed(t) \/ ReclaimFailed(t)
         /\ pc[t].at \in {"claimed", "failed"} /\ pc[t].op = "claim" => Claimed(t) \/ ClaimFailed(t)
<1> USE DEF At
<1>1. Lock(t) => pc[t].at = "lock" BY Zenon DEF Lock
<1>2. Claimed(t) => pc[t].at = "claimed" /\ pc[t].op = "claim" BY Zenon DEF Claimed
<1>3. ClaimFailed(t) => pc[t].at = "failed" /\ pc[t].op = "claim" BY Zenon DEF ClaimFailed
<1>4. Released(t) => pc[t].at = "released" BY Zenon DEF Released
<1>5. ClaimIoctl(t) => pc[t].at = "claim" BY Zenon DEF ClaimIoctl
<1>6. DisconnectClaim(t) => pc[t].at = "disconnect_claim" BY Zenon DEF DisconnectClaim
<1>7. GetDriver(t) => pc[t].at = "getdriver" BY Zenon DEF GetDriver
<1>8. Disconnect(t) => pc[t].at = "disconnect" BY Zenon DEF Disconnect
<1>9. ReleaseIoctl(t) => pc[t].at = "release" BY Zenon DEF ReleaseIoctl
<1>10. Connect(t) => pc[t].at = "connect" BY Zenon DEF Connect
<1>11. UseIoctl(t) => pc[t].at = "use" BY Zenon DEF UseIoctl
<1>12. SetConfigurationIoctl(t) => pc[t].at = "configure" BY Zenon DEF SetConfigurationIoctl
<1>13. ResetRelease(t) => pc[t].at = "free" BY Zenon DEF ResetRelease
<1>14. ResetIoctl(t) \/ ResetFails(t) => pc[t].at = "reset" BY Zenon DEF ResetIoctl, ResetFails
<1>15. Reclaim(t) => pc[t].at = "reclaim" BY Zenon DEF Reclaim
<1>16. Reclaimed(t) \/ ReclaimFailed(t) => pc[t].at \in {"claimed", "failed"} /\ pc[t].op = "reset"
  BY Zenon DEF Reclaimed, ReclaimFailed
<1> QED BY <1>1, <1>2, <1>3, <1>4, <1>5, <1>6, <1>7, <1>8, <1>9, <1>10, <1>11, <1>12, <1>13, <1>14,
           <1>15, <1>16, SMT DEF Step

(* The bits are taken back in two places only.                             *)
LEMMA ClaimedGrows ==
  ASSUME TypeOK, PcInv, NEW t \in Threads, Step(t), ~Released(t), ~(Reclaimed(t) \/ ReclaimFailed(t))
  PROVE  claimed \subseteq claimed'
<1>1. CASE Lock(t) BY <1>1, LockDoes, SMT
<1>2. CASE Claimed(t) \/ ClaimFailed(t) BY <1>2, ClaimEnds, SMT
<1>3. CASE Released(t) BY <1>3, ReleasedDoes, SMT
<1>4. CASE ClaimIoctl(t) BY <1>4, ClaimIoctlDoes, SMT
<1>5. CASE DisconnectClaim(t) BY <1>5, DisconnectClaimDoes, SMT
<1>6. CASE GetDriver(t) BY <1>6, GetDriverDoes, SMT
<1>7. CASE Disconnect(t) BY <1>7, DisconnectDoes, SMT
<1>8. CASE ReleaseIoctl(t) BY <1>8, ReleaseIoctlDoes, SMT
<1>9. CASE Connect(t) BY <1>9, ConnectDoes, SMT
<1>10. CASE UseIoctl(t) BY <1>10, UseIoctlDoes, SMT
<1>11. CASE SetConfigurationIoctl(t) BY <1>11, SetConfigurationDoes, SMT
<1>12. CASE ResetRelease(t) BY <1>12, ResetReleaseDoes, SMT
<1>13. CASE ResetIoctl(t) BY <1>13, ResetIoctlDoes, SMT
<1>14. CASE ResetFails(t) BY <1>14, ResetFailsDoes, SMT
<1>15. CASE Reclaim(t) BY <1>15, ReclaimDoes, SMT
<1>16. CASE Reclaimed(t) \/ ReclaimFailed(t) BY <1>16, ReclaimEnds, SMT
<1> QED BY Step(t), <1>1, <1>2, <1>3, <1>4, <1>5, <1>6, <1>7, <1>8,
   <1>9, <1>10, <1>11, <1>12, <1>13, <1>14, <1>15, <1>16 DEF Step

LEMMA GainKept ==
  ASSUME TypeOK, PcInv, LockInv, RulesInv, BitInv, GainInv, Next
  PROVE  GainInv'
<1> SUFFICES ASSUME NEW u \in Threads, pc'[u].op = "claim", pc'[u].at = "claimed"
             PROVE  pc'[u].i \in Ours'
  BY DEF GainInv
<1>1. CASE Environment \/ SetAutoDetach BY <1>1, OtherwiseSame, Zenon DEF GainInv
<1>2. ASSUME NEW t \in Threads, Calls(t) PROVE pc'[u].i \in Ours'
  <2>1. t # u BY <1>2, Begun, SMT DEF Fresh
  <2>2. pc'[u] = pc[u] /\ Ours' = Ours BY <1>2, <2>1, Begun
  <2> QED BY <2>2, Zenon DEF GainInv
<1>3. ASSUME NEW t \in Threads, Step(t), t = u PROVE pc'[u].i \in Ours'
  <2> USE <1>3 DEF Moves, Ends
  <2>1. CASE Lock(t) BY <2>1, LockDoes, SMT
  <2>2. CASE Claimed(t) \/ ClaimFailed(t) BY <2>2, ClaimEnds, SMT
  <2>3. CASE Released(t) BY <2>3, ReleasedDoes, SMT
  <2>4. CASE ClaimIoctl(t) BY <2>4, ClaimIoctlDoes, SMT
  <2>5. CASE DisconnectClaim(t) BY <2>5, DisconnectClaimDoes, SMT
  <2>6. CASE GetDriver(t) BY <2>6, GetDriverDoes, SMT
  <2>7. CASE Disconnect(t) BY <2>7, DisconnectDoes, SMT
  <2>8. CASE ReleaseIoctl(t) BY <2>8, ReleaseIoctlDoes, SMT
  <2>9. CASE Connect(t) BY <2>9, ConnectDoes, SMT
  <2>10. CASE UseIoctl(t) BY <2>10, UseIoctlDoes, SMT
  <2>11. CASE SetConfigurationIoctl(t) BY <2>11, SetConfigurationDoes, SMT
  <2>12. CASE ResetRelease(t) BY <2>12, ResetReleaseDoes, SMT
  <2>13. CASE ResetIoctl(t) BY <2>13, ResetIoctlDoes, SMT
  <2>14. CASE ResetFails(t) BY <2>14, ResetFailsDoes, SMT
  <2>15. CASE Reclaim(t) BY <2>15, ReclaimDoes, SMT
  <2>16. CASE Reclaimed(t) \/ ReclaimFailed(t) BY <2>16, ReclaimEnds, SMT
  <2> QED BY <1>3, <2>1, <2>2, <2>3, <2>4, <2>5, <2>6, <2>7, <2>8,
     <2>9, <2>10, <2>11, <2>12, <2>13, <2>14, <2>15, <2>16 DEF Step
<1>4. ASSUME NEW t \in Threads, Step(t), t # u PROVE pc'[u].i \in Ours'
  <2>1. pc'[u] = pc[u] BY <1>4, StepOthers
  <2>2. Holding(pc[u]) BY <2>1, SMT DEF Holding
  <2>3. pc[u].i \in Ours BY <2>1, Zenon DEF GainInv
  <2>4. ~Holding(pc[t]) BY <1>4, <2>2, Alone
  <2>5. pc[u].i \notin claimed BY <2>1, SMT DEF BitInv
  <2>6. pc[t].op = "detach" => pc[t].i # pc[u].i BY <1>4, <2>1, SMT DEF RulesInv, Drives, OnOne
  <2> QED BY <1>4, <2>1, <2>3, <2>4, <2>5, <2>6, OursLost, Zenon
<1> QED BY <1>1, <1>2, <1>3, <1>4, Zenon DEF Next

LEMMA LoseKept ==
  ASSUME TypeOK, PcInv, LockInv, RulesInv, LoseInv, Next
  PROVE  LoseInv'
<1> DEFINE released == \A u \in Threads :
      pc'[u].op = "release" /\ pc'[u].at \in {"connect", "released"} => pc'[u].i \notin Ours'
           detached == \A u \in Threads :
      pc'[u].op = "detach" /\ pc'[u].at = "disconnect" => ~present' \/ pc'[u].i \notin Ours'
<1> SUFFICES released /\ detached BY DEF LoseInv
<1>1. CASE Environment \/ SetAutoDetach BY <1>1, OtherwiseSame, Zenon DEF LoseInv
<1>2. ASSUME NEW t \in Threads, Calls(t) PROVE released /\ detached
  <2>1. \A u \in Threads \ {t} : pc'[u] = pc[u] BY <1>2, Begun
  <2>2. Ours' = Ours /\ present' = present BY <1>2, Begun
  <2>3. pc'[t].at \notin {"connect", "released"} \/ pc'[t].op = "attach" BY <1>2, Begun, SMT DEF Fresh
  <2>4. pc'[t].at # "disconnect" BY <1>2, Begun, SMT DEF Fresh
  <2>5. released BY <2>1, <2>2, <2>3, SMT DEF LoseInv
  <2>6. detached BY <2>1, <2>2, <2>4, Zenon DEF LoseInv
  <2> QED BY <2>5, <2>6
<1>3. ASSUME NEW t \in Threads, Step(t) PROVE released /\ detached
  <2>0. present' = present /\ \A u \in Threads \ {t} : pc'[u] = pc[u] BY <1>3, StepOthers
  <2>1. pc'[t].op = "release" /\ pc'[t].at \in {"connect", "released"} => pc'[t].i \notin Ours'
    <3> USE DEF LoseInv, Moves, Ends
    <3>1. CASE Lock(t) BY <3>1, LockDoes, SMT
    <3>2. CASE Claimed(t) \/ ClaimFailed(t) BY <3>2, ClaimEnds, SMT
    <3>3. CASE Released(t) BY <3>3, ReleasedDoes, SMT
    <3>4. CASE ClaimIoctl(t) BY <3>4, ClaimIoctlDoes, SMT
    <3>5. CASE DisconnectClaim(t) BY <3>5, DisconnectClaimDoes, SMT
    <3>6. CASE GetDriver(t) BY <3>6, GetDriverDoes, SMT
    <3>7. CASE Disconnect(t) BY <3>7, DisconnectDoes, SMT
    <3>8. CASE ReleaseIoctl(t) BY <3>8, ReleaseIoctlDoes, SMT
    <3>9. CASE Connect(t) BY <3>9, ConnectDoes, SMT
    <3>10. CASE UseIoctl(t) BY <3>10, UseIoctlDoes, SMT
    <3>11. CASE SetConfigurationIoctl(t) BY <3>11, SetConfigurationDoes, SMT
    <3>12. CASE ResetRelease(t) BY <3>12, ResetReleaseDoes, SMT
    <3>13. CASE ResetIoctl(t) BY <3>13, ResetIoctlDoes, SMT
    <3>14. CASE ResetFails(t) BY <3>14, ResetFailsDoes, SMT
    <3>15. CASE Reclaim(t) BY <3>15, ReclaimDoes, SMT
    <3>16. CASE Reclaimed(t) \/ ReclaimFailed(t) BY <3>16, ReclaimEnds, SMT
    <3> QED BY <1>3, <3>1, <3>2, <3>3, <3>4, <3>5, <3>6, <3>7, <3>8,
       <3>9, <3>10, <3>11, <3>12, <3>13, <3>14, <3>15, <3>16 DEF Step
  <2>2. pc'[t].op = "detach" /\ pc'[t].at = "disconnect" => ~present' \/ pc'[t].i \notin Ours'
    <3> USE DEF LoseInv, Moves, Ends
    <3>1. CASE Lock(t) BY <3>1, LockDoes, SMT
    <3>2. CASE Claimed(t) \/ ClaimFailed(t) BY <3>2, ClaimEnds, SMT
    <3>3. CASE Released(t) BY <3>3, ReleasedDoes, SMT
    <3>4. CASE ClaimIoctl(t) BY <3>4, ClaimIoctlDoes, SMT
    <3>5. CASE DisconnectClaim(t) BY <3>5, DisconnectClaimDoes, SMT
    <3>6. CASE GetDriver(t) BY <3>6, GetDriverDoes, Zenon
    <3>7. CASE Disconnect(t) BY <3>7, DisconnectDoes, SMT
    <3>8. CASE ReleaseIoctl(t) BY <3>8, ReleaseIoctlDoes, SMT
    <3>9. CASE Connect(t) BY <3>9, ConnectDoes, SMT
    <3>10. CASE UseIoctl(t) BY <3>10, UseIoctlDoes, SMT
    <3>11. CASE SetConfigurationIoctl(t) BY <3>11, SetConfigurationDoes, SMT
    <3>12. CASE ResetRelease(t) BY <3>12, ResetReleaseDoes, SMT
    <3>13. CASE ResetIoctl(t) BY <3>13, ResetIoctlDoes, SMT
    <3>14. CASE ResetFails(t) BY <3>14, ResetFailsDoes, SMT
    <3>15. CASE Reclaim(t) BY <3>15, ReclaimDoes, SMT
    <3>16. CASE Reclaimed(t) \/ ReclaimFailed(t) BY <3>16, ReclaimEnds, SMT
    <3> QED BY <1>3, <3>1, <3>2, <3>3, <3>4, <3>5, <3>6, <3>7, <3>8,
       <3>9, <3>10, <3>11, <3>12, <3>13, <3>14, <3>15, <3>16 DEF Step
  <2>3. ASSUME NEW u \in Threads, u # t,
               pc'[u].op = "release" /\ pc'[u].at \in {"connect", "released"}
        PROVE  pc'[u].i \notin Ours'
    <3>1. pc'[u] = pc[u] BY <2>0, <2>3
    <3>2. pc[u].i \notin Ours BY <2>3, <3>1, Zenon DEF LoseInv
    <3>3. ~Holding(pc[t])
      <4>1. Holding(pc[u]) BY <2>3, <3>1, SMT DEF Holding
      <4> QED BY <2>3, <4>1, Alone
    <3>4. pc[t].at = "use" => pc[t].i # pc[u].i
      <4>1. pc[t].at = "use" => pc[t].op \in Uses BY OpAt, Zenon DEF Uses, OnEndpoints
      <4> QED BY <2>3, <3>1, <4>1, Zenon DEF RulesInv
    <3> QED BY <1>3, <3>1, <3>2, <3>3, <3>4, OursGained, Zenon
  <2>4. ASSUME NEW u \in Threads, u # t, pc'[u].op = "detach" /\ pc'[u].at = "disconnect", present'
        PROVE  pc'[u].i \notin Ours'
    <3>1. pc'[u] = pc[u] BY <2>0, <2>4
    <3>2. pc[u].i \notin Ours BY <2>0, <2>4, <3>1, Zenon DEF LoseInv
    <3>3. pc[t].op \in OnOne => pc[t].i # pc[u].i BY <2>4, <3>1, SMT DEF RulesInv, Drives
    <3>4. pc[t].op # "reset" BY <2>4, <3>1, SMT DEF RulesInv, Drives
    <3>5. pc[t].at = "use" => pc[t].op \in OnOne BY OpAt, SMT DEF OnOne
    <3>6. "claim" \in OnOne BY DEF OnOne
    <3> QED BY <1>3, <3>1, <3>2, <3>3, <3>4, <3>5, <3>6, OursGained, SMT
  <2>5. released BY <2>1, <2>3
  <2>6. detached BY <2>2, <2>4, Zenon
  <2> QED BY <2>5, <2>6
<1> QED BY <1>1, <1>2, <1>3, Zenon DEF Next

LEMMA RegainKept ==
  ASSUME TypeOK, PcInv, LockInv, RulesInv, RegainInv, Next
  PROVE  RegainInv'
<1> DEFINE kept(u) ==
      /\ pc'[u].op = "reset" => ToRegain(pc'[u]) \intersect Ours' = {}
      /\ pc'[u].op = "reset" /\ pc'[u].at = "claimed" =>
           \/ pc'[u].i \in Ours'
           \/ \E v \in Threads : pc'[v].op = "reset" /\ pc'[v].at \in {"free", "lock"}
<1> SUFFICES ASSUME NEW u \in Threads PROVE kept(u) BY Zenon DEF RegainInv, ToRegain
<1>1. CASE Environment \/ SetAutoDetach BY <1>1, OtherwiseSame, Zenon DEF RegainInv
<1>2. ASSUME NEW t \in Threads, Calls(t) PROVE kept(u)
  <2>1. \A v \in Threads \ {t} : pc'[v] = pc[v] BY <1>2, Begun
  <2>2. Ours' = Ours /\ pc[t].op = "idle" BY <1>2, Begun
  <2>3. CASE u = t
    <3>1. pc'[t].op = "reset" => pc'[t].at = "free" BY <1>2, Begun, SMT DEF Fresh
    <3> QED BY <2>3, <3>1, SMT DEF ToRegain, Trying
  <2>4. CASE u # t
    <3>1. pc'[u] = pc[u] BY <2>1, <2>4
    <3>2. \A v \in Threads : pc[v].op = "reset" => pc'[v] = pc[v] BY <2>1, <2>2, SMT
    <3> QED BY <2>2, <3>1, <3>2, Zenon DEF RegainInv
  <2> QED BY <2>3, <2>4
<1>3. ASSUME NEW t \in Threads, Step(t) PROVE kept(u)
  <2>0. \A v \in Threads \ {t} : pc'[v] = pc[v] BY <1>3, StepOthers
  <2>1. pc'[t].op = "reset" => ToRegain(pc'[t]) \intersect Ours' = {}
    <3> USE DEF RegainInv, ToRegain, Trying, Moves, Ends
    <3>1. CASE Lock(t) BY <3>1, LockDoes, SMT
    <3>2. CASE Claimed(t) \/ ClaimFailed(t) BY <3>2, ClaimEnds, SMT
    <3>3. CASE Released(t) BY <3>3, ReleasedDoes, SMT
    <3>4. CASE ClaimIoctl(t) BY <3>4, ClaimIoctlDoes, SMT
    <3>5. CASE DisconnectClaim(t) BY <3>5, DisconnectClaimDoes, SMT
    <3>6. CASE GetDriver(t) BY <3>6, GetDriverDoes, SMT
    <3>7. CASE Disconnect(t) BY <3>7, DisconnectDoes, SMT
    <3>8. CASE ReleaseIoctl(t) BY <3>8, ReleaseIoctlDoes, SMT
    <3>9. CASE Connect(t) BY <3>9, ConnectDoes, SMT
    <3>10. CASE UseIoctl(t) BY <3>10, UseIoctlDoes, SMT
    <3>11. CASE SetConfigurationIoctl(t) BY <3>11, SetConfigurationDoes, SMT
    <3>12. CASE ResetRelease(t) BY <3>12, ResetReleaseDoes, SMT
    <3>13. CASE ResetIoctl(t) BY <3>13, ResetIoctlDoes, SMT
    <3>14. CASE ResetFails(t) BY <3>14, ResetFailsDoes, SMT
    <3>15. CASE Reclaim(t) BY <3>15, ReclaimDoes, SMT
    <3>16. CASE Reclaimed(t) \/ ReclaimFailed(t) BY <3>16, ReclaimEnds, SMT
    <3> QED BY <1>3, <3>1, <3>2, <3>3, <3>4, <3>5, <3>6, <3>7, <3>8,
       <3>9, <3>10, <3>11, <3>12, <3>13, <3>14, <3>15, <3>16 DEF Step
  <2>2. pc'[t].op = "reset" /\ pc'[t].at = "claimed" => pc'[t].i \in Ours'
    <3> USE DEF Moves, Ends
    <3>1. CASE Lock(t) BY <3>1, LockDoes, SMT
    <3>2. CASE Claimed(t) \/ ClaimFailed(t) BY <3>2, ClaimEnds, SMT
    <3>3. CASE Released(t) BY <3>3, ReleasedDoes, SMT
    <3>4. CASE ClaimIoctl(t) BY <3>4, ClaimIoctlDoes, SMT
    <3>5. CASE DisconnectClaim(t) BY <3>5, DisconnectClaimDoes, SMT
    <3>6. CASE GetDriver(t) BY <3>6, GetDriverDoes, SMT
    <3>7. CASE Disconnect(t) BY <3>7, DisconnectDoes, SMT
    <3>8. CASE ReleaseIoctl(t) BY <3>8, ReleaseIoctlDoes, SMT
    <3>9. CASE Connect(t) BY <3>9, ConnectDoes, SMT
    <3>10. CASE UseIoctl(t) BY <3>10, UseIoctlDoes, SMT
    <3>11. CASE SetConfigurationIoctl(t) BY <3>11, SetConfigurationDoes, SMT
    <3>12. CASE ResetRelease(t) BY <3>12, ResetReleaseDoes, SMT
    <3>13. CASE ResetIoctl(t) BY <3>13, ResetIoctlDoes, SMT
    <3>14. CASE ResetFails(t) BY <3>14, ResetFailsDoes, SMT
    <3>15. CASE Reclaim(t) BY <3>15, ReclaimDoes, SMT
    <3>16. CASE Reclaimed(t) \/ ReclaimFailed(t) BY <3>16, ReclaimEnds, SMT
    <3> QED BY <1>3, <3>1, <3>2, <3>3, <3>4, <3>5, <3>6, <3>7, <3>8,
       <3>9, <3>10, <3>11, <3>12, <3>13, <3>14, <3>15, <3>16 DEF Step
  <2>3. ASSUME u # t, pc'[u].op = "reset", NEW j \in ToRegain(pc'[u]) PROVE j \notin Ours'
    <3>1. pc'[u] = pc[u] BY <2>0, <2>3
    <3>2. j \notin Ours BY <2>3, <3>1, SMT DEF RegainInv
    <3>3. ~Holding(pc[t])
      <4>1. Holding(pc[u]) BY <2>3, <3>1, SMT DEF Holding, ToRegain, Trying
      <4> QED BY <2>3, <4>1, <1>3, Alone
    <3>4. pc[t].at # "use"
      <4>1. pc[t].at = "use" => pc[t].op \in Uses BY <1>3, OpAt, Zenon DEF Uses, OnEndpoints
      <4> QED BY <1>3, <2>3, <3>1, <4>1, SMT DEF RulesInv
    <3> QED BY <1>3, <3>2, <3>3, <3>4, OursGained, Zenon
  <2>4. ASSUME u # t, pc'[u].op = "reset", pc'[u].at = "claimed", pc'[u].i \notin Ours'
        PROVE  \E v \in Threads : pc'[v].op = "reset" /\ pc'[v].at \in {"free", "lock"}
    <3>1. pc'[u] = pc[u] BY <2>0, <2>4
    <3>2. Holding(pc[u]) BY <2>4, <3>1, SMT DEF Holding
    <3>3. ~Holding(pc[t]) BY <1>3, <2>4, <3>2, Alone
    <3>4. pc[t].op # "detach" BY <1>3, <2>4, <3>1, SMT DEF RulesInv, Drives
    <3>5. CASE pc[u].i \in Ours BY <1>3, <2>4, <3>1, <3>3, <3>4, <3>5, OursLost, Zenon
    <3>6. ASSUME NEW v \in Threads, pc[v].op = "reset", pc[v].at \in {"free", "lock"}
          PROVE  pc'[v].op = "reset" /\ pc'[v].at \in {"free", "lock"}
      <4>1. CASE v # t BY <2>0, <3>6, <4>1
      <4>2. CASE v = t /\ pc[t].at = "free"
        <5>1. ResetRelease(t) BY <1>3, <3>6, <4>2, PlaceOf
        <5> QED BY <4>2, <5>1, ResetReleaseDoes
      <4>3. CASE v = t /\ pc[t].at = "lock"
        <5>1. Lock(t) BY <1>3, <3>6, <4>3, PlaceOf
        <5>2. lock = Nobody BY <5>1, LockDoes
        <5>3. lock = u BY <3>2, SMT DEF LockInv
        <5> QED BY <5>2, <5>3, ThreadsAssumption
      <4> QED BY <3>6, <4>1, <4>2, <4>3
    <3> QED BY <2>4, <3>1, <3>5, <3>6, Zenon DEF RegainInv
  <2> QED BY <2>1, <2>2, <2>3, <2>4, SMT
<1> QED BY <1>1, <1>2, <1>3, Zenon DEF Next

(* An interface a reset claims again has its bit.                          *)
LEMMA ResetTarget ==
  ASSUME PcInv, BitInv, NEW t \in Threads, pc[t].op = "reset", pc[t].at \in Trying
  PROVE  pc[t].i \in claimed
<1>1. pc[t].i \in pc[t].todo BY SMT DEF PcInv, PcOK
<1>2. pc[t].todo \subseteq claimed BY SMT DEF BitInv
<1> QED BY <1>1, <1>2

(* A claim the kernel has granted gets its bit.                            *)
LEMMA ClaimGoesOn ==
  ASSUME TypeOK, PcInv, NEW t \in Threads, Step(t),
         NEW u \in Threads, pc[u].op = "claim", pc[u].at = "claimed"
  PROVE  \/ pc[u].i \in claimed'
         \/ pc'[u].op = "claim" /\ pc'[u].at = "claimed" /\ pc'[u].i = pc[u].i
<1>1. CASE u # t
  <2>1. pc'[u] = pc[u] BY <1>1, StepOthers
  <2> QED BY <2>1
<1>2. CASE u = t
  <2>1. Claimed(t) \/ ClaimFailed(t) BY <1>2, PlaceOf
  <2> QED BY <1>2, <2>1, ClaimEnds, SMT
<1> QED BY <1>1, <1>2

LEMMA ClaimsHaveBitsKept ==
  ASSUME TypeOK, PcInv, LockInv, RulesInv, BitInv, LoseInv, RegainInv, ClaimsHaveBits, Next
  PROVE  ClaimsHaveBits'
<1> DEFINE claiming(i) == \E u \in Threads : pc[u].op = "claim" /\ pc[u].at = "claimed" /\ pc[u].i = i
           claimingNext(i) == \E u \in Threads : pc'[u].op = "claim" /\ pc'[u].at = "claimed" /\ pc'[u].i = i
<1> SUFFICES ASSUME NEW i \in Ours' PROVE i \in claimed' \/ claimingNext(i) BY DEF ClaimsHaveBits
<1>1. CASE Environment \/ SetAutoDetach BY <1>1, OtherwiseSame, Zenon DEF ClaimsHaveBits
<1>2. ASSUME NEW t \in Threads, Calls(t) PROVE i \in claimed' \/ claimingNext(i)
  <2>1. \A u \in Threads \ {t} : pc'[u] = pc[u] BY <1>2, Begun
  <2>2. Ours' = Ours /\ claimed' = claimed /\ pc[t].op = "idle" BY <1>2, Begun
  <2>3. \A u \in Threads : pc[u].op = "claim" => pc'[u] = pc[u] BY <2>1, <2>2, SMT
  <2>4. claiming(i) => claimingNext(i) BY <2>3
  <2> QED BY <2>2, <2>4, Zenon DEF ClaimsHaveBits
<1>3. ASSUME NEW t \in Threads, Step(t), i \notin Ours PROVE i \in claimed' \/ claimingNext(i)
  <2>1. CASE pc[t].at = "use"
    <3>1. pc[t].i \in claimed BY <2>1, SMT DEF BitInv
    <3> QED BY <1>3, <2>1, <3>1, OursGained, SMT DEF Trying
  <2>2. CASE Moves(t) /\ pc'[t].at = "claimed" /\ pc[t].op = "claim"
    <3>1. pc[t].i = i BY <1>3, OursGained
    <3> QED BY <2>2, <3>1, Zenon DEF Moves
  <2>3. CASE Holding(pc[t]) /\ Moves(t) /\ pc'[t].at = "claimed" /\ pc[t].op = "reset"
    <3>1. pc[t].i = i BY <1>3, OursGained
    <3>2. pc[t].at \in Trying BY <1>3, <2>3, OursGained, OpAt, SMT DEF Uses
    <3>3. pc[t].i \in claimed BY <2>3, <3>2, ResetTarget
    <3>4. claimed' = claimed BY <1>3, OursGained, Zenon
    <3> QED BY <3>1, <3>3, <3>4
  <2> QED BY <1>3, <2>1, <2>2, <2>3, OursGained, SMT
<1>4. ASSUME NEW t \in Threads, Step(t), i \in Ours, i \in claimed PROVE i \in claimed'
  <2>1. ASSUME Released(t) PROVE i \in claimed'
    <3>1. pc[t].i \notin Ours BY <1>4, <2>1, ReleasedDoes, SMT DEF LoseInv
    <3> QED BY <1>4, <2>1, <3>1, ReleasedDoes, SMT
  <2>2. ASSUME Reclaimed(t) \/ ReclaimFailed(t) PROVE i \in claimed'
    <3>1. CASE pc[t].at = "claimed" BY <1>4, <2>2, <3>1, ReclaimEnds, SMT
    <3>2. CASE pc[t].at = "failed"
      <4>1. pc[t].op = "reset" BY <2>2, ReclaimEnds
      <4>2. pc[t].i \in pc[t].todo BY <3>2, <4>1, SMT DEF PcInv, PcOK, Trying
      <4>3. pc[t].i \notin Ours BY <3>2, <4>1, <4>2, SMT DEF RegainInv, ToRegain, Trying
      <4> QED BY <1>4, <2>2, <4>3, ReclaimEnds, SMT
    <3> QED BY <2>2, <3>1, <3>2, ReclaimEnds
  <2> QED BY <1>4, <2>1, <2>2, ClaimedGrows, Zenon
<1>5. ASSUME NEW t \in Threads, Step(t), i \in Ours,
             NEW u \in Threads, pc[u].op = "claim", pc[u].at = "claimed", pc[u].i = i
      PROVE  i \in claimed' \/ claimingNext(i)
  BY <1>5, ClaimGoesOn
<1> QED BY <1>1, <1>2, <1>3, <1>4, <1>5, Zenon DEF Next, ClaimsHaveBits

(* The steps that set an interface's bit and that write a lost one off.    *)
LEMMA BitSet ==
  ASSUME TypeOK, PcInv, NEW t \in Threads, Step(t), NEW j \in claimed', j \notin claimed
  PROVE  pc[t].op = "claim" /\ pc[t].at = "claimed" /\ pc[t].i = j /\ Ours' = Ours
<1>1. CASE Lock(t) BY <1>1, LockDoes, SMT
<1>2. CASE Claimed(t) \/ ClaimFailed(t) BY <1>2, ClaimEnds, SMT
<1>3. CASE Released(t) BY <1>3, ReleasedDoes, SMT
<1>4. CASE ClaimIoctl(t) BY <1>4, ClaimIoctlDoes, SMT
<1>5. CASE DisconnectClaim(t) BY <1>5, DisconnectClaimDoes, SMT
<1>6. CASE GetDriver(t) BY <1>6, GetDriverDoes, SMT
<1>7. CASE Disconnect(t) BY <1>7, DisconnectDoes, SMT
<1>8. CASE ReleaseIoctl(t) BY <1>8, ReleaseIoctlDoes, SMT
<1>9. CASE Connect(t) BY <1>9, ConnectDoes, SMT
<1>10. CASE UseIoctl(t) BY <1>10, UseIoctlDoes, SMT
<1>11. CASE SetConfigurationIoctl(t) BY <1>11, SetConfigurationDoes, SMT
<1>12. CASE ResetRelease(t) BY <1>12, ResetReleaseDoes, SMT
<1>13. CASE ResetIoctl(t) BY <1>13, ResetIoctlDoes, SMT
<1>14. CASE ResetFails(t) BY <1>14, ResetFailsDoes, SMT
<1>15. CASE Reclaim(t) BY <1>15, ReclaimDoes, SMT
<1>16. CASE Reclaimed(t) \/ ReclaimFailed(t) BY <1>16, ReclaimEnds, SMT
<1> QED BY Step(t), <1>1, <1>2, <1>3, <1>4, <1>5, <1>6, <1>7, <1>8,
   <1>9, <1>10, <1>11, <1>12, <1>13, <1>14, <1>15, <1>16 DEF Step

LEMMA LostShrinks ==
  ASSUME TypeOK, PcInv, NEW t \in Threads, Step(t), NEW j \in lost, j \notin lost', j \in claimed'
  PROVE  pc[t].op = "reset" /\ pc[t].at = "claimed" /\ pc[t].i = j /\ Ours' = Ours
<1>1. CASE Lock(t) BY <1>1, LockDoes, SMT
<1>2. CASE Claimed(t) \/ ClaimFailed(t) BY <1>2, ClaimEnds, SMT
<1>3. CASE Released(t) BY <1>3, ReleasedDoes, SMT
<1>4. CASE ClaimIoctl(t) BY <1>4, ClaimIoctlDoes, SMT
<1>5. CASE DisconnectClaim(t) BY <1>5, DisconnectClaimDoes, SMT
<1>6. CASE GetDriver(t) BY <1>6, GetDriverDoes, SMT
<1>7. CASE Disconnect(t) BY <1>7, DisconnectDoes, SMT
<1>8. CASE ReleaseIoctl(t) BY <1>8, ReleaseIoctlDoes, SMT
<1>9. CASE Connect(t) BY <1>9, ConnectDoes, SMT
<1>10. CASE UseIoctl(t) BY <1>10, UseIoctlDoes, SMT
<1>11. CASE SetConfigurationIoctl(t) BY <1>11, SetConfigurationDoes, SMT
<1>12. CASE ResetRelease(t) BY <1>12, ResetReleaseDoes, SMT
<1>13. CASE ResetIoctl(t) BY <1>13, ResetIoctlDoes, SMT
<1>14. CASE ResetFails(t) BY <1>14, ResetFailsDoes, SMT
<1>15. CASE Reclaim(t) BY <1>15, ReclaimDoes, SMT
<1>16. CASE Reclaimed(t) \/ ReclaimFailed(t) BY <1>16, ReclaimEnds, SMT
<1> QED BY Step(t), <1>1, <1>2, <1>3, <1>4, <1>5, <1>6, <1>7, <1>8,
   <1>9, <1>10, <1>11, <1>12, <1>13, <1>14, <1>15, <1>16 DEF Step

(* A claim that is undone while its bit is set is the doing of a call that *)
(* upsets the interface,                                                   *)
LEMMA UpsetBegins ==
  ASSUME TypeOK, PcInv, BitInv, LoseInv, RegainInv, NEW t \in Threads, Step(t),
         NEW j \in Ours, j \notin Ours', j \in claimed
  PROVE  Upsets(pc'[t], j)
<1>1. ASSUME Disconnect(t) PROVE FALSE
  <2>1. present /\ pc[t].i = j BY <1>1, DisconnectDoes, SMT
  <2>2. CASE pc[t].op = "detach" BY <1>1, <2>1, <2>2, DisconnectDoes, Zenon DEF LoseInv
  <2>3. CASE pc[t].op = "claim"
    <3>1. pc[t].at = "disconnect" BY <1>1, DisconnectDoes
    <3>2. pc[t].i \notin claimed BY <2>3, <3>1, SMT DEF BitInv
    <3> QED BY <2>1, <3>2
  <2>4. CASE pc[t].op = "reset"
    <3>1. pc[t].at = "disconnect" BY <1>1, DisconnectDoes
    <3>2. pc[t].i \in pc[t].todo BY <2>4, <3>1, SMT DEF PcInv, PcOK, Trying
    <3> QED BY <2>1, <2>4, <3>1, <3>2, SMT DEF RegainInv, ToRegain, Trying
  <2> QED BY <1>1, <2>2, <2>3, <2>4, DisconnectDoes
<1>2. CASE ReleaseIoctl(t) BY <1>2, ReleaseIoctlDoes, SMT DEF Upsets, Moves
<1>3. CASE ResetRelease(t) BY <1>3, ResetReleaseDoes, SMT DEF Upsets
<1>4. CASE ResetIoctl(t) BY <1>4, ResetIoctlDoes, SMT DEF Upsets, ToRegain
<1>5. CASE Lock(t) BY <1>5, LockDoes
<1>6. CASE Claimed(t) \/ ClaimFailed(t) BY <1>6, ClaimEnds
<1>7. CASE Released(t) BY <1>7, ReleasedDoes
<1>8. CASE ClaimIoctl(t) BY <1>8, ClaimIoctlDoes, SMT
<1>9. CASE DisconnectClaim(t) BY <1>9, DisconnectClaimDoes, SMT
<1>10. CASE GetDriver(t) BY <1>10, GetDriverDoes
<1>11. CASE Connect(t) BY <1>11, ConnectDoes
<1>12. CASE UseIoctl(t) BY <1>12, UseIoctlDoes, SMT
<1>13. CASE SetConfigurationIoctl(t) BY <1>13, SetConfigurationDoes
<1>14. CASE ResetFails(t) BY <1>14, ResetFailsDoes
<1>15. CASE Reclaim(t) BY <1>15, ReclaimDoes
<1>16. CASE Reclaimed(t) \/ ReclaimFailed(t) BY <1>16, ReclaimEnds
<1> QED BY <1>1, <1>2, <1>3, <1>4, <1>5, <1>6, <1>7, <1>8, <1>9, <1>10, <1>11, <1>12, <1>13, <1>14,
           <1>15, <1>16 DEF Step

(* which then either goes on, or has put the bit or the claim right.       *)
LEMMA UpsetEnds ==
  ASSUME TypeOK, PcInv, NEW t \in Threads, Step(t), NEW j, Upsets(pc[t], j),
         j \in claimed', j \notin lost'
  PROVE  j \in Ours' \/ Upsets(pc'[t], j)
<1> USE DEF Upsets, ToRegain, Trying, Moves, Ends
<1>0. j \in claimed \/ pc[t].op = "claim" BY BitSet
<1> USE <1>0
<1>1. CASE Lock(t) BY <1>1, LockDoes, SMT
<1>2. CASE Claimed(t) \/ ClaimFailed(t) BY <1>2, ClaimEnds, SMT
<1>3. CASE Released(t) BY <1>3, ReleasedDoes, SMT
<1>4. CASE ClaimIoctl(t) BY <1>4, ClaimIoctlDoes, SMT
<1>5. CASE DisconnectClaim(t) BY <1>5, DisconnectClaimDoes, SMT
<1>6. CASE GetDriver(t) BY <1>6, GetDriverDoes, SMT
<1>7. CASE Disconnect(t) BY <1>7, DisconnectDoes, SMT
<1>8. CASE ReleaseIoctl(t) BY <1>8, ReleaseIoctlDoes, SMT
<1>9. CASE Connect(t) BY <1>9, ConnectDoes, SMT
<1>10. CASE UseIoctl(t) BY <1>10, UseIoctlDoes, SMT
<1>11. CASE SetConfigurationIoctl(t) BY <1>11, SetConfigurationDoes, SMT
<1>12. CASE ResetRelease(t) BY <1>12, ResetReleaseDoes, SMT
<1>13. CASE ResetIoctl(t) BY <1>13, ResetIoctlDoes, SMT
<1>14. CASE ResetFails(t) BY <1>14, ResetFailsDoes, SMT
<1>15. CASE Reclaim(t) BY <1>15, ReclaimDoes, SMT
<1>16. CASE Reclaimed(t) \/ ReclaimFailed(t) BY <1>16, ReclaimEnds, SMT
<1> QED BY Step(t), <1>1, <1>2, <1>3, <1>4, <1>5, <1>6, <1>7, <1>8,
   <1>9, <1>10, <1>11, <1>12, <1>13, <1>14, <1>15, <1>16 DEF Step

LEMMA BitsHaveClaimsKept ==
  ASSUME TypeOK, PcInv, BitInv, GainInv, LoseInv, RegainInv, BitsHaveClaims, Next
  PROVE  BitsHaveClaims'
<1> DEFINE upset(i) == \E u \in Threads : Upsets(pc'[u], i)
           agree == \A i \in claimed' \ lost' : i \in Ours' \/ upset(i)
<1> SUFFICES lost' \subseteq claimed' /\ agree BY DEF BitsHaveClaims, Upsets, ToRegain
<1>1. CASE Environment \/ SetAutoDetach BY <1>1, OtherwiseSame, Zenon DEF BitsHaveClaims
<1>2. ASSUME NEW t \in Threads, Calls(t) PROVE lost' \subseteq claimed' /\ agree
  <2>1. \A u \in Threads \ {t} : pc'[u] = pc[u] BY <1>2, Begun
  <2>2. Ours' = Ours /\ claimed' = claimed /\ lost' = lost /\ pc[t].op = "idle" BY <1>2, Begun
  <2>3. ASSUME NEW u \in Threads, NEW i, Upsets(pc[u], i) PROVE Upsets(pc'[u], i)
    <3>1. pc[u].op # "idle" BY <2>3, SMT DEF Upsets
    <3>2. pc'[u] = pc[u] BY <2>1, <2>2, <3>1
    <3> QED BY <2>3, <3>2
  <2>4. agree BY <2>2, <2>3 DEF BitsHaveClaims
  <2> QED BY <2>2, <2>4 DEF BitsHaveClaims
<1>3. ASSUME NEW t \in Threads, Step(t) PROVE lost' \subseteq claimed'
  <2> USE DEF BitsHaveClaims
  <2>1. CASE Lock(t) BY <2>1, LockDoes, SMT
  <2>2. CASE Claimed(t) \/ ClaimFailed(t) BY <2>2, ClaimEnds, SMT
  <2>3. CASE Released(t) BY <2>3, ReleasedDoes, SMT
  <2>4. CASE ClaimIoctl(t) BY <2>4, ClaimIoctlDoes, SMT
  <2>5. CASE DisconnectClaim(t) BY <2>5, DisconnectClaimDoes, SMT
  <2>6. CASE GetDriver(t) BY <2>6, GetDriverDoes, SMT
  <2>7. CASE Disconnect(t) BY <2>7, DisconnectDoes, SMT
  <2>8. CASE ReleaseIoctl(t) BY <2>8, ReleaseIoctlDoes, SMT
  <2>9. CASE Connect(t) BY <2>9, ConnectDoes, SMT
  <2>10. CASE UseIoctl(t) BY <2>10, UseIoctlDoes, SMT
  <2>11. CASE SetConfigurationIoctl(t) BY <2>11, SetConfigurationDoes, SMT
  <2>12. CASE ResetRelease(t) BY <2>12, ResetReleaseDoes, SMT
  <2>13. CASE ResetIoctl(t) BY <2>13, ResetIoctlDoes, SMT
  <2>14. CASE ResetFails(t) BY <2>14, ResetFailsDoes, SMT
  <2>15. CASE Reclaim(t) BY <2>15, ReclaimDoes, SMT
  <2>16. CASE Reclaimed(t) \/ ReclaimFailed(t) BY <2>16, ReclaimEnds, SMT
  <2> QED BY <1>3, <2>1, <2>2, <2>3, <2>4, <2>5, <2>6, <2>7, <2>8,
     <2>9, <2>10, <2>11, <2>12, <2>13, <2>14, <2>15, <2>16 DEF Step
<1>4. ASSUME NEW t \in Threads, Step(t), NEW i \in claimed' \ lost' PROVE i \in Ours' \/ upset(i)
  <2>0. \A u \in Threads \ {t} : pc'[u] = pc[u] BY <1>4, StepOthers
  <2>1. CASE i \notin claimed BY <1>4, <2>1, BitSet, Zenon DEF GainInv
  <2>2. CASE i \in lost
    <3>1. pc[t].op = "reset" /\ pc[t].at = "claimed" /\ pc[t].i = i /\ Ours' = Ours
      BY <1>4, <2>2, LostShrinks
    <3>2. ASSUME NEW v \in Threads, pc[v].op = "reset", pc[v].at \in {"free", "lock"}
          PROVE  Upsets(pc'[v], i)
      <4>1. pc'[v] = pc[v] BY <2>0, <3>1, <3>2, SMT
      <4> QED BY <3>2, <4>1, SMT DEF Upsets
    <3> QED BY <1>4, <3>1, <3>2, Zenon DEF RegainInv
  <2>3. CASE i \in claimed /\ i \in Ours BY <1>4, <2>3, UpsetBegins
  <2>4. ASSUME NEW u \in Threads, Upsets(pc[u], i) PROVE i \in Ours' \/ upset(i)
    <3>1. CASE u = t BY <1>4, <2>4, <3>1, UpsetEnds
    <3>2. CASE u # t BY <2>0, <2>4, <3>2
    <3> QED BY <3>1, <3>2
  <2> QED BY <1>4, <2>1, <2>2, <2>3, <2>4, Zenon DEF BitsHaveClaims
<1> QED BY <1>1, <1>2, <1>3, <1>4, Zenon DEF Next

(* A debt that is only looked at again, or not at all, does not grow.      *)
LEMMA DueShrinks ==
  ASSUME UNCHANGED debts \/ \E S \in SUBSET owed : Debts(S)
  PROVE  Due' \subseteq Due
BY SMT DEF Due, Debts, debts

(* The two steps that take a driver, both of a claim or of a reset that    *)
(* claims again.                                                           *)
TakesDriver(t) ==
  /\ \/ DisconnectClaim(t) /\ pc'[t].at = "claimed"
     \/ Disconnect(t) /\ pc'[t].at = "claim"
  /\ Detached(pc[t].i)

LEMMA DebtsOf ==
  ASSUME TypeOK, PcInv, NEW t \in Threads, Step(t)
  PROVE  \/ UNCHANGED <<binding, debts>>
         \/ \E S \in SUBSET owed : Debts(S)
         \/ TakesDriver(t)
<1>1. CASE Lock(t) \/ Claimed(t) \/ ClaimFailed(t) \/ Released(t)
  BY <1>1, Zenon DEF Lock, Claimed, ClaimFailed, Released, ghosts
<1>2. CASE ClaimIoctl(t) \/ Connect(t) \/ UseIoctl(t) \/ SetConfigurationIoctl(t) \/ ResetRelease(t) \/ ResetIoctl(t)
  <2>1. Debts(owed)
    BY <1>2, Zenon DEF ClaimIoctl, Connect, UseIoctl, SetConfigurationIoctl, ResetRelease, ResetIoctl
  <2> QED BY <2>1
<1>3. CASE DisconnectClaim(t)
  <2>1. Goto(t, "claimed") => pc'[t].at = "claimed" BY GotoMoves
  <2> QED BY <1>3, <2>1, Zenon DEF DisconnectClaim, TakesDriver
<1>4. CASE Disconnect(t)
  <2>1. Goto(t, "claim") => pc'[t].at = "claim" BY GotoMoves
  <2>2. Debts(owed) => \E S \in SUBSET owed : Debts(S) OBVIOUS
  <2> QED BY <1>4, <2>1, <2>2, Zenon DEF Disconnect, TakesDriver
<1>5. CASE ReleaseIoctl(t)
  <2>1. Debts(owed) \/ Debts(owed \ {pc[t].i}) BY <1>5, Zenon DEF ReleaseIoctl
  <2>2. owed \in SUBSET owed /\ owed \ {pc[t].i} \in SUBSET owed OBVIOUS
  <2> QED BY <2>1, <2>2, Zenon
<1>6. CASE GetDriver(t) \/ ResetFails(t) \/ Reclaim(t) \/ Reclaimed(t) \/ ReclaimFailed(t)
  BY <1>6, Zenon DEF GetDriver, ResetFails, Reclaim, Reclaimed, ReclaimFailed, ghosts
<1> QED BY <1>1, <1>2, <1>3, <1>4, <1>5, <1>6, Zenon DEF Step

LEMMA DueGrows ==
  ASSUME TypeOK, PcInv, NEW t \in Threads, Step(t), NEW j \in Due', j \notin Due
  PROVE  /\ Holding(pc[t]) /\ pc[t].op \in {"claim", "reset"} /\ pc[t].at \in Trying /\ pc[t].i = j
         /\ claimed' = claimed /\ Moves(t) /\ pc'[t].at \in {"claim", "claimed"}
<1>1. TakesDriver(t)
  <2>1. ~(UNCHANGED debts) /\ ~(\E S \in SUBSET owed : Debts(S)) BY DueShrinks
  <2> QED BY <2>1, DebtsOf, Zenon
<1>2. pc[t].i = j BY <1>1, SMT DEF TakesDriver, Detached, Debts, Due
<1>3. CASE DisconnectClaim(t) BY <1>1, <1>2, <1>3, DisconnectClaimDoes, SMT DEF TakesDriver, Holding, Trying
<1>4. CASE Disconnect(t)
  <2>1. pc'[t].at = "claim" \/ pc'[t].at = "claimed" BY <1>1 DEF TakesDriver
  <2>2. pc[t].op # "detach" BY <1>4, <2>1, DisconnectDoes, SMT DEF Ends
  <2> QED BY <1>2, <1>4, <2>1, <2>2, DisconnectDoes, SMT DEF Holding, Trying
<1> QED BY <1>1, <1>3, <1>4 DEF TakesDriver

(* Drivers are bound only where the kernel has one.                        *)
LEMMA DriverBound ==
  ASSUME TypeOK, PcInv, NEW t \in Threads, Step(t), NEW j \in Interfaces, binding'[j] = "driver"
  PROVE  binding[j] = "driver" \/ j \in HasDriver
<1>0. binding \in [Interfaces -> Bindings] BY DEF TypeOK, Bindings
<1>1. \A i : \A who \in {"none", "ours"} : Bind(i, who) => binding[j] = "driver" BY <1>0, SMT DEF Bind
<1>2. CASE UNCHANGED binding BY <1>2
<1>3. CASE ClaimIoctl(t) \/ DisconnectClaim(t) \/ Disconnect(t) \/ ReleaseIoctl(t) \/ UseIoctl(t) \/ ResetRelease(t)
  <2>1. UNCHANGED binding \/ \E i : \E who \in {"none", "ours"} : Bind(i, who)
    BY <1>3, Zenon DEF ClaimIoctl, DisconnectClaim, Disconnect, ReleaseIoctl, UseIoctl, ResetRelease, Bind
  <2> QED BY <1>1, <1>2, <2>1
<1>4. CASE Connect(t) BY <1>0, <1>4, SMT DEF Connect
<1>5. CASE SetConfigurationIoctl(t) BY <1>0, <1>5, SMT DEF SetConfigurationIoctl
<1>6. CASE ResetIoctl(t) BY <1>0, <1>6, SMT DEF ResetIoctl
<1>7. CASE Lock(t) \/ Claimed(t) \/ ClaimFailed(t) \/ Released(t) \/ GetDriver(t)
           \/ ResetFails(t) \/ Reclaim(t) \/ Reclaimed(t) \/ ReclaimFailed(t)
  BY <1>2, <1>7, Zenon DEF Lock, Claimed, ClaimFailed, Released, GetDriver, ResetFails, Reclaim, Reclaimed,
     ReclaimFailed
<1> QED BY <1>2, <1>3, <1>4, <1>5, <1>6, <1>7 DEF Step

LEMMA EnvironmentDebts ==
  ASSUME TypeOK, Environment
  PROVE  /\ UNCHANGED <<binding, debts>> \/ Debts(owed)
         /\ \A j \in Interfaces : binding'[j] = "driver" => binding[j] = "driver" \/ j \in HasDriver
<1>0. binding \in [Interfaces -> Bindings] BY DEF TypeOK, Bindings
<1>1. CASE Unplug \/ Disconnected BY <1>1, Zenon DEF Unplug, Disconnected, System, ghosts
<1>2. ASSUME NEW i \in Interfaces, DriverLoaded(i) \/ OtherClaims(i) \/ OtherReleases(i)
      PROVE  /\ Debts(owed)
             /\ \A j \in Interfaces : binding'[j] = "driver" => binding[j] = "driver" \/ j \in HasDriver
  <2>1. Debts(owed) BY <1>2, Zenon DEF DriverLoaded, OtherClaims, OtherReleases, Rebinds
  <2>2. \/ i \in HasDriver /\ Bind(i, "driver")
        \/ Bind(i, "other") \/ Bind(i, "none")
    BY <1>2, Zenon DEF DriverLoaded, OtherClaims, OtherReleases, Rebinds, System
  <2> QED BY <1>0, <2>1, <2>2, SMT DEF Bind
<1> QED BY <1>1, <1>2 DEF Environment

(* What libusb takes is a driver, so that the kernel has one there.        *)
LEMMA DebtsKeep ==
  ASSUME DebtInv, NEW S \in SUBSET Interfaces, Debts(S),
         \A i \in S : i \in owed \/ binding[i] = "driver"
  PROVE  /\ \A i \in owed' : binding'[i] = "other" => i \in taken'
         /\ owed' \subseteq HasDriver
<1>1. S \subseteq HasDriver BY SMT DEF DebtInv
<1> QED BY <1>1, SMT DEF Debts

LEMMA DebtKept ==
  ASSUME TypeOK, PcInv, DebtInv, Next
  PROVE  DebtInv'
<1>0. owed \subseteq Interfaces BY DEF TypeOK
<1>1. ASSUME UNCHANGED <<binding, debts>> PROVE DebtInv' BY <1>1, Zenon DEF DebtInv, debts
<1>2. ASSUME NEW S \in SUBSET owed, Debts(S),
             \A j \in Interfaces : binding'[j] = "driver" => binding[j] = "driver" \/ j \in HasDriver
      PROVE  DebtInv'
  <2>1. S \in SUBSET Interfaces /\ \A i \in S : i \in owed BY <1>0
  <2>2. /\ \A i \in owed' : binding'[i] = "other" => i \in taken'
        /\ owed' \subseteq HasDriver
    BY <1>2, <2>1, DebtsKeep, Zenon
  <2> QED BY <1>2, <2>2, Zenon DEF DebtInv
<1>3. CASE Environment BY <1>1, <1>2, <1>3, EnvironmentDebts
<1>4. CASE SetAutoDetach BY <1>1, <1>4, Zenon DEF SetAutoDetach, ghosts
<1>5. ASSUME NEW t \in Threads, Calls(t) PROVE DebtInv'
  <2>1. UNCHANGED <<binding, debts>>
    BY <1>5, SMT DEF Calls, ResetDevice, SetConfiguration, ClaimInterface, ReleaseInterface, SetInterfaceAlt,
       ClearHalt, Streams, DetachKernelDriver, AttachKernelDriver, Begin, ghosts
  <2> QED BY <1>1, <2>1
<1>6. ASSUME NEW t \in Threads, Step(t) PROVE DebtInv'
  <2>1. \A j \in Interfaces : binding'[j] = "driver" => binding[j] = "driver" \/ j \in HasDriver
    BY <1>6, DriverBound
  <2>2. CASE TakesDriver(t)
    <3> DEFINE S == owed \union {j \in {pc[t].i} : binding[j] = "driver"}
    <3>1. pc[t].i \in Interfaces
      <4>1. pc[t].at \in Trying BY <2>2, Zenon DEF TakesDriver, DisconnectClaim, Disconnect, At, Trying
      <4> QED BY <4>1, TargetAt
    <3>2. S \in SUBSET Interfaces /\ \A i \in S : i \in owed \/ binding[i] = "driver" BY <1>0, <3>1
    <3>3. Debts(S) BY <2>2 DEF TakesDriver, Detached
    <3>4. /\ \A i \in owed' : binding'[i] = "other" => i \in taken'
          /\ owed' \subseteq HasDriver
      BY <3>2, <3>3, DebtsKeep
    <3> QED BY <2>1, <3>4, Zenon DEF DebtInv
  <2> QED BY <1>1, <1>2, <1>6, <2>1, <2>2, DebtsOf
<1> QED BY <1>3, <1>4, <1>5, <1>6, Zenon DEF Next

(* A release comes to its end from the ioctl, or from giving the driver    *)
(* back,                                                                   *)
LEMMA ReleasedFrom ==
  ASSUME TypeOK, PcInv, NEW t \in Threads, Step(t), pc'[t].op = "release", pc'[t].at = "released"
  PROVE  ReleaseIoctl(t) \/ Connect(t)
<1> USE DEF Moves, Ends
<1>1. CASE Lock(t) BY <1>1, LockDoes, SMT
<1>2. CASE Claimed(t) \/ ClaimFailed(t) BY <1>2, ClaimEnds, SMT
<1>3. CASE Released(t) BY <1>3, ReleasedDoes, SMT
<1>4. CASE ClaimIoctl(t) BY <1>4, ClaimIoctlDoes, SMT
<1>5. CASE DisconnectClaim(t) BY <1>5, DisconnectClaimDoes, SMT
<1>6. CASE GetDriver(t) BY <1>6, GetDriverDoes, SMT
<1>7. CASE Disconnect(t) BY <1>7, DisconnectDoes, SMT
<1>8. CASE ReleaseIoctl(t) BY <1>8, ReleaseIoctlDoes, SMT
<1>9. CASE Connect(t) BY <1>9, ConnectDoes, SMT
<1>10. CASE UseIoctl(t) BY <1>10, UseIoctlDoes, SMT
<1>11. CASE SetConfigurationIoctl(t) BY <1>11, SetConfigurationDoes, SMT
<1>12. CASE ResetRelease(t) BY <1>12, ResetReleaseDoes, SMT
<1>13. CASE ResetIoctl(t) BY <1>13, ResetIoctlDoes, SMT
<1>14. CASE ResetFails(t) BY <1>14, ResetFailsDoes, SMT
<1>15. CASE Reclaim(t) BY <1>15, ReclaimDoes, SMT
<1>16. CASE Reclaimed(t) \/ ReclaimFailed(t) BY <1>16, ReclaimEnds, SMT
<1> QED BY Step(t), <1>1, <1>2, <1>3, <1>4, <1>5, <1>6, <1>7, <1>8,
   <1>9, <1>10, <1>11, <1>12, <1>13, <1>14, <1>15, <1>16 DEF Step

(* and no driver is due there.                                             *)
LEMMA ReleasedFree ==
  ASSUME TypeOK, PcInv, LoseInv, DebtInv, NEW t \in Threads, Step(t),
         pc'[t].op = "release", pc'[t].at = "released"
  PROVE  present => pc'[t].i \notin Due'
<1>1. CASE ReleaseIoctl(t)
  <2>1. Moves(t) /\ ~autoDetach BY <1>1, ReleaseIoctlDoes, Zenon DEF Ends
  <2>2. present /\ binding[pc[t].i] = "ours"
    <3>1. Return(t) => pc'[t].at = "idle" BY ReturnEnds DEF Ends
    <3> QED BY <1>1, <3>1, Zenon DEF ReleaseIoctl
  <2>3. Debts(owed \ {pc[t].i}) BY <1>1, <2>1, <2>2, Zenon DEF ReleaseIoctl
  <2>4. pc[t].i \notin owed' BY <2>3, Zenon DEF Debts
  <2> QED BY <2>1, <2>4, Zenon DEF Moves, Due
<1>2. CASE Connect(t)
  <2> DEFINE i == pc[t].i
  <2>1. pc[t].op = "release" /\ pc[t].at = "connect" /\ pc'[t].i = i BY <1>2, ConnectDoes, SMT DEF Moves, Ends
  <2>2. i \in Interfaces BY <2>1, TargetAt
  <2>3. binding[i] # "ours" BY <2>1, <2>2, SMT DEF LoseInv, Ours
  <2>4. binding \in [Interfaces -> Bindings] BY DEF TypeOK, Bindings
  <2>5. Debts(owed) BY <1>2 DEF Connect
  <2>6. ASSUME present, binding[i] = "none", i \in HasDriver PROVE i \notin Due'
    <3>1. binding' = [binding EXCEPT ![i] = "driver"] BY <1>2, <2>6, Zenon DEF Connect
    <3>2. binding'[i] = "driver" BY <2>2, <2>4, <3>1, Zenon
    <3> QED BY <2>5, <3>2, Zenon DEF Debts, Due
  <2>7. ASSUME ~(binding[i] = "none" /\ i \in HasDriver) PROVE i \notin Due'
    <3>1. binding' = binding BY <1>2, <2>7, Zenon DEF Connect
    <3>2. i \in owed => binding[i] = "driver" \/ binding[i] = "other"
      BY <2>2, <2>3, <2>4, <2>7, SMT DEF DebtInv, Bindings
    <3> QED BY <2>5, <3>1, <3>2, SMT DEF Debts, Due
  <2> QED BY <2>1, <2>6, <2>7, Zenon
<1> QED BY <1>1, <1>2, ReleasedFrom

(* A claim fails only where a driver or another process sits.              *)
LEMMA ClaimIoctlFails ==
  ASSUME TypeOK, PcInv, NEW t \in Threads, ClaimIoctl(t), pc'[t].at = "failed"
  PROVE  present => pc[t].i \notin Due'
<1>1. Goto(t, "claimed") => pc'[t].at = "claimed" BY GotoMoves
<1>2. ~InterfaceFree(pc[t].i) /\ binding' = binding /\ Debts(owed) BY <1>1, Zenon DEF ClaimIoctl
<1>3. pc[t].i \in Interfaces BY TargetAt, ClaimIoctlDoes, SMT DEF Trying
<1>4. binding[pc[t].i] \in {"none", "ours", "driver", "other"} BY <1>3 DEF TypeOK
<1>5. present => binding[pc[t].i] \in {"driver", "other"} BY <1>2, <1>4, Zenon DEF InterfaceFree
<1>6. binding[pc[t].i] \in {"driver", "other"} => pc[t].i \notin Due' BY <1>2, SMT DEF Debts, Due
<1> QED BY <1>5, <1>6

LEMMA FailsFrom ==
  ASSUME TypeOK, PcInv, NEW t \in Threads, Step(t), pc'[t].op = "reset", pc'[t].at = "failed"
  PROVE  ClaimIoctl(t) \/ DisconnectClaim(t) \/ Disconnect(t)
<1> USE DEF Moves, Ends
<1>1. CASE Lock(t) BY <1>1, LockDoes, SMT
<1>2. CASE Claimed(t) \/ ClaimFailed(t) BY <1>2, ClaimEnds, SMT
<1>3. CASE Released(t) BY <1>3, ReleasedDoes, SMT
<1>4. CASE ClaimIoctl(t) BY <1>4, ClaimIoctlDoes, SMT
<1>5. CASE DisconnectClaim(t) BY <1>5, DisconnectClaimDoes, SMT
<1>6. CASE GetDriver(t) BY <1>6, GetDriverDoes, SMT
<1>7. CASE Disconnect(t) BY <1>7, DisconnectDoes, SMT
<1>8. CASE ReleaseIoctl(t) BY <1>8, ReleaseIoctlDoes, SMT
<1>9. CASE Connect(t) BY <1>9, ConnectDoes, SMT
<1>10. CASE UseIoctl(t) BY <1>10, UseIoctlDoes, SMT
<1>11. CASE SetConfigurationIoctl(t) BY <1>11, SetConfigurationDoes, SMT
<1>12. CASE ResetRelease(t) BY <1>12, ResetReleaseDoes, SMT
<1>13. CASE ResetIoctl(t) BY <1>13, ResetIoctlDoes, SMT
<1>14. CASE ResetFails(t) BY <1>14, ResetFailsDoes, SMT
<1>15. CASE Reclaim(t) BY <1>15, ReclaimDoes, SMT
<1>16. CASE Reclaimed(t) \/ ReclaimFailed(t) BY <1>16, ReclaimEnds, SMT
<1> QED BY Step(t), <1>1, <1>2, <1>3, <1>4, <1>5, <1>6, <1>7, <1>8,
   <1>9, <1>10, <1>11, <1>12, <1>13, <1>14, <1>15, <1>16 DEF Step

(* A reset cannot get an interface back only when another process has it.  *)
LEMMA ReclaimFails ==
  ASSUME TypeOK, PcInv, RegainInv, DebtInv, NEW t \in Threads, Step(t),
         pc'[t].op = "reset", pc'[t].at = "failed"
  PROVE  present => pc'[t].i \notin Due'
<1>1. CASE ClaimIoctl(t)
  <2>1. pc'[t].i = pc[t].i BY <1>1, ClaimIoctlDoes DEF Moves
  <2> QED BY <1>1, <2>1, ClaimIoctlFails
<1>2. CASE DisconnectClaim(t)
  <2> DEFINE i == pc[t].i
  <2>0. \A step \in {"getdriver", "claimed"} : Goto(t, step) => pc'[t].at # "failed" BY GotoMoves
  <2>1. present => binding[i] \notin {"none", "driver"} BY <1>2, <2>0, Zenon DEF DisconnectClaim
  <2>2. present => UNCHANGED <<binding, debts>> BY <1>2, <2>0, Zenon DEF DisconnectClaim
  <2>3. pc'[t].i = i /\ pc[t].op = "reset" /\ pc[t].at = "disconnect_claim"
    BY <1>2, DisconnectClaimDoes, SMT DEF Moves
  <2>4. i \in Interfaces BY <2>3, TargetAt DEF Trying
  <2>5. binding[i] # "ours"
    <3>1. i \in pc[t].todo BY <2>3, SMT DEF PcInv, PcOK, Trying
    <3>2. i \in ToRegain(pc[t]) BY <2>3, <3>1, SMT DEF ToRegain, Trying
    <3>3. i \notin Ours BY <2>3, <3>2 DEF RegainInv
    <3> QED BY <2>4, <3>3 DEF Ours
  <2>6. binding[i] \in {"none", "ours", "driver", "other"} BY <2>4 DEF TypeOK
  <2>7. present => binding[i] = "other" BY <2>1, <2>5, <2>6, Zenon
  <2>8. binding[i] = "other" => i \notin Due BY SMT DEF DebtInv, Due
  <2>9. UNCHANGED debts => Due' = Due BY Zenon DEF Due, debts
  <2>10. present => i \notin Due'
    <3> SUFFICES ASSUME present PROVE i \notin Due' OBVIOUS
    <3>1. Due' = Due BY <2>2, <2>9, Zenon
    <3> QED BY <2>7, <2>8, <3>1, Zenon
  <2> QED BY <2>3, <2>10, Zenon
<1>3. CASE Disconnect(t)
  <2>1. Goto(t, "claim") => pc'[t].at = "claim" BY GotoMoves
  <2>2. Return(t) => pc'[t].at = "idle" BY ReturnEnds DEF Ends
  <2> QED BY <1>3, <2>1, <2>2, Zenon DEF Disconnect
<1> QED BY <1>1, <1>2, <1>3, FailsFrom

LEMMA OwedKept ==
  ASSUME TypeOK, PcInv, LockInv, BitInv, LoseInv, RegainInv, DebtInv, OwedInv, Next
  PROVE  OwedInv'
<1> DEFINE ending(c) == \/ c.op = "release" /\ c.at = "released"
                        \/ c.op = "reset" /\ c.at = "failed"
           safe == \A i \in Due' : i \in claimed' \/ \E u \in Threads : Claiming(pc'[u]) /\ pc'[u].i = i
           free == \A u \in Threads : ending(pc'[u]) => pc'[u].i \notin Due'
<1>0. SUFFICES ASSUME present' PROVE safe /\ free BY Zenon DEF OwedInv, Claiming
<1>a. present => /\ \A i \in Due : i \in claimed \/ \E u \in Threads : Claiming(pc[u]) /\ pc[u].i = i
                 /\ \A u \in Threads : ending(pc[u]) => pc[u].i \notin Due
  BY Zenon DEF OwedInv
<1>1. CASE Environment \/ SetAutoDetach
  <2>1. claimed' = claimed /\ pc' = pc /\ present BY <1>0, <1>1, OtherwiseSame, Zenon
  <2>2. Due' \subseteq Due
    <3>1. CASE Environment BY <3>1, EnvironmentDebts, DueShrinks
    <3>2. CASE SetAutoDetach BY <3>2, DueShrinks, Zenon DEF SetAutoDetach, ghosts
    <3> QED BY <1>1, <3>1, <3>2
  <2> QED BY <1>a, <2>1, <2>2, Zenon
<1>2. ASSUME NEW t \in Threads, Calls(t) PROVE safe /\ free
  <2>0. present BY <1>0, <1>2, Begun, Zenon
  <2>1. \A u \in Threads \ {t} : pc'[u] = pc[u] BY <1>2, Begun
  <2>2. claimed' = claimed /\ pc[t].op = "idle" BY <1>2, Begun, Zenon
  <2>3. Due' = Due
    <3>1. debts' = debts
      BY <1>2, SMT DEF Calls, ResetDevice, SetConfiguration, ClaimInterface, ReleaseInterface,
         SetInterfaceAlt, ClearHalt, Streams, DetachKernelDriver, AttachKernelDriver, Begin, ghosts
    <3> QED BY <3>1, Zenon DEF Due, debts
  <2>4. \A u \in Threads : Claiming(pc[u]) => pc'[u] = pc[u] BY <2>1, <2>2, SMT DEF Claiming
  <2>5. ~ending(pc'[t])
    <3>1. Fresh(pc'[t].op, pc'[t].at) BY <1>2, Begun
    <3> QED BY <3>1, SMT DEF Fresh
  <2>6. safe
    <3>1. ASSUME NEW u \in Threads, Claiming(pc[u])
          PROVE  \E v \in Threads : Claiming(pc'[v]) /\ pc'[v].i = pc[u].i
      <4>1. Claiming(pc'[u]) /\ pc'[u].i = pc[u].i BY <2>4, <3>1, Zenon
      <4> QED BY <4>1, Zenon
    <3> SUFFICES ASSUME NEW i \in Due'
                 PROVE  i \in claimed' \/ \E v \in Threads : Claiming(pc'[v]) /\ pc'[v].i = i
      OBVIOUS
    <3>2. i \in claimed \/ \E u \in Threads : Claiming(pc[u]) /\ pc[u].i = i BY <1>a, <2>0, <2>3, Zenon
    <3> QED BY <2>2, <3>1, <3>2, Zenon
  <2>7. free
    <3> SUFFICES ASSUME NEW u \in Threads, ending(pc'[u]) PROVE pc'[u].i \notin Due' OBVIOUS
    <3>1. pc'[u] = pc[u] BY <2>1, <2>5, Zenon
    <3> QED BY <1>a, <2>0, <2>3, <3>1, Zenon
  <2> QED BY <2>6, <2>7
<1>3. ASSUME NEW t \in Threads, Step(t) PROVE safe /\ free
  <2>0. present /\ \A u \in Threads \ {t} : pc'[u] = pc[u] BY <1>0, <1>3, StepOthers, Zenon
  <2>1. ASSUME NEW i \in Due' PROVE i \in claimed' \/ \E u \in Threads : Claiming(pc'[u]) /\ pc'[u].i = i
    <3>1. CASE i \notin Due
      <4>1. pc[t].op \in {"claim", "reset"} /\ pc'[t].at \in {"claim", "claimed"} /\ pc[t].i = i /\ Moves(t)
            /\ pc[t].at \in Trying /\ claimed' = claimed
        BY <1>3, <2>1, <3>1, DueGrows
      <4>2. CASE pc[t].op = "claim" BY <4>1, <4>2, Zenon DEF Moves, Claiming
      <4>3. CASE pc[t].op = "reset" BY <1>3, <4>1, <4>3, ResetTarget
      <4> QED BY <4>1, <4>2, <4>3
    <3>2. CASE i \in Due /\ i \in claimed
      <4>1. ASSUME Released(t) PROVE i \in claimed'
        <5>1. pc[t].i \notin Due BY <1>a, <1>3, <2>0, <4>1, ReleasedDoes, Zenon
        <5> QED BY <1>3, <3>2, <4>1, <5>1, ReleasedDoes, SMT
      <4>2. ASSUME Reclaimed(t) \/ ReclaimFailed(t) PROVE i \in claimed'
        <5>1. pc[t].at = "failed" => pc[t].i \notin Due BY <1>a, <1>3, <2>0, <4>2, ReclaimEnds, Zenon
        <5> QED BY <1>3, <3>2, <4>2, <5>1, ReclaimEnds, SMT
      <4> QED BY <1>3, <3>2, <4>1, <4>2, ClaimedGrows, Zenon
    <3>3. ASSUME NEW u \in Threads, Claiming(pc[u]), pc[u].i = i
          PROVE  i \in claimed' \/ \E v \in Threads : Claiming(pc'[v]) /\ pc'[v].i = i
      <4>1. CASE pc[u].at = "claimed" BY <1>3, <3>3, <4>1, ClaimGoesOn, Zenon DEF Claiming
      <4>2. CASE u # t BY <2>0, <3>3, <4>2, Zenon
      <4>3. CASE u = t /\ pc[u].at = "claim"
        <5>1. ClaimIoctl(t) BY <1>3, <4>3, PlaceOf
        <5>2. pc'[t].at = "claimed" BY <1>3, <2>0, <2>1, <3>3, <4>3, <5>1, ClaimIoctlDoes, ClaimIoctlFails, Zenon
        <5> QED BY <1>3, <3>3, <4>3, <5>1, <5>2, ClaimIoctlDoes, Zenon DEF Moves, Claiming
      <4> QED BY <3>3, <4>1, <4>2, <4>3, Zenon DEF Claiming
    <3> QED BY <1>a, <2>0, <2>1, <3>1, <3>2, <3>3, Zenon
  <2>2. ASSUME NEW u \in Threads, ending(pc'[u]) PROVE pc'[u].i \notin Due'
    <3>1. CASE u # t
      <4>1. pc'[u] = pc[u] BY <2>0, <3>1
      <4>2. pc[u].i \notin Due BY <1>a, <2>0, <2>2, <4>1, Zenon
      <4>3. Holding(pc[u]) BY <2>2, <4>1, SMT DEF Holding
      <4> QED BY <1>3, <3>1, <4>1, <4>2, <4>3, DueGrows, Alone
    <3>2. CASE u = t BY <1>3, <2>0, <2>2, <3>2, ReleasedFree, ReclaimFails, Zenon
    <3> QED BY <3>1, <3>2
  <2> QED BY <2>1, <2>2
<1> QED BY <1>1, <1>2, <1>3, Zenon DEF Next

-----------------------------------------------------------------------------
(* Types.                                                                  *)

LEMMA CountsKept ==
  ASSUME NEW t \in Threads, Step(t)
  PROVE  UNCHANGED <<attached, calls, events>>
<1> USE DEF handle, device, ghosts
<1>1. CASE Lock(t) \/ Claimed(t) \/ ClaimFailed(t) \/ Released(t)
  BY <1>1, Zenon DEF Lock, Claimed, ClaimFailed, Released
<1>2. CASE ClaimIoctl(t) \/ DisconnectClaim(t) \/ GetDriver(t) \/ Disconnect(t)
  BY <1>2, Zenon DEF ClaimIoctl, DisconnectClaim, GetDriver, Disconnect
<1>3. CASE ReleaseIoctl(t) \/ Connect(t) \/ UseIoctl(t) \/ SetConfigurationIoctl(t)
  BY <1>3, Zenon DEF ReleaseIoctl, Connect, UseIoctl, SetConfigurationIoctl
<1>4. CASE ResetRelease(t) \/ ResetIoctl(t) \/ ResetFails(t)
  BY <1>4, Zenon DEF ResetRelease, ResetIoctl, ResetFails
<1>5. CASE Reclaim(t) \/ Reclaimed(t) \/ ReclaimFailed(t) BY <1>5, Zenon DEF Reclaim, Reclaimed, ReclaimFailed
<1> QED BY <1>1, <1>2, <1>3, <1>4, <1>5, Zenon DEF Step

LEMMA BindTyped ==
  ASSUME binding \in [Interfaces -> Bindings], NEW i, NEW who \in Bindings, Bind(i, who)
  PROVE  binding' \in [Interfaces -> Bindings]
<1>1. binding' = [binding EXCEPT ![i] = who] BY DEF Bind
<1>2. binding' = [j \in Interfaces |-> IF j = i THEN who ELSE binding[j]] BY <1>1, Zenon
<1> QED BY <1>2, Zenon

LEMMA BindingTyped ==
  ASSUME TypeOK, PcInv, NEW t \in Threads, Step(t)
  PROVE  binding' \in [Interfaces -> Bindings]
<1>1. binding \in [Interfaces -> Bindings] BY DEF TypeOK, Bindings
<1>2. \A who \in Bindings : \A i : Bind(i, who) => binding' \in [Interfaces -> Bindings]
  BY <1>1, BindTyped
<1> USE <1>1, <1>2
<1>3. CASE Lock(t) \/ Claimed(t) \/ ClaimFailed(t) \/ Released(t)
  BY <1>3, Zenon DEF Lock, Claimed, ClaimFailed, Released
<1>4. CASE ClaimIoctl(t) \/ UseIoctl(t)
  <2>1. binding' = binding \/ Bind(pc[t].i, "ours") BY <1>4, Zenon DEF ClaimIoctl, UseIoctl, Bind
  <2> QED BY <2>1 DEF Bindings
<1>5. CASE DisconnectClaim(t)
  <2>1. binding' = binding \/ Bind(pc[t].i, "ours") BY <1>5, Zenon DEF DisconnectClaim
  <2> QED BY <2>1 DEF Bindings
<1>6. CASE Disconnect(t)
  <2>1. binding' = binding \/ Bind(pc[t].i, "none") BY <1>6, Zenon DEF Disconnect
  <2> QED BY <2>1 DEF Bindings
<1>7. CASE ReleaseIoctl(t)
  <2>1. binding' = binding \/ Bind(pc[t].i, "none") BY <1>7, Zenon DEF ReleaseIoctl
  <2> QED BY <2>1 DEF Bindings
<1>8. CASE Connect(t)
  <2>1. binding' = binding \/ Bind(pc[t].i, "driver") BY <1>8, Zenon DEF Connect, Bind
  <2> QED BY <2>1 DEF Bindings
<1>9. CASE SetConfigurationIoctl(t) BY <1>9, SMT DEF SetConfigurationIoctl, Bindings
<1>10. CASE ResetRelease(t)
  <2>1. binding' = binding \/ \E i : Bind(i, "none") BY <1>10, Zenon DEF ResetRelease, Bind
  <2> QED BY <2>1 DEF Bindings
<1>11. CASE ResetIoctl(t) BY <1>11, SMT DEF ResetIoctl, Bindings
<1>12. CASE ResetFails(t) \/ Reclaim(t) \/ Reclaimed(t) \/ ReclaimFailed(t) \/ GetDriver(t)
  BY <1>12, Zenon DEF ResetFails, Reclaim, Reclaimed, ReclaimFailed, GetDriver
<1> QED BY <1>3, <1>4, <1>5, <1>6, <1>7, <1>8, <1>9, <1>10, <1>11, <1>12 DEF Step

LEMMA SetsTyped ==
  ASSUME TypeOK, PcInv, NEW t \in Threads, Step(t)
  PROVE  /\ claimed' \subseteq Interfaces /\ lost' \subseteq Interfaces
         /\ lock' \in Threads \union {Nobody}
<1>1. claimed \subseteq Interfaces /\ lost \subseteq Interfaces
      /\ lock \in Threads \union {Nobody}
  BY DEF TypeOK
<1>2. pc[t].at \in Trying \union {"claimed"} => pc[t].i \in Interfaces BY TargetAt
<1> USE <1>1, <1>2 DEF Trying
<1>3. CASE Disconnect(t) BY <1>3, DisconnectDoes, SMT
<1>4. CASE Lock(t) BY <1>4, LockDoes, SMT
<1>5. CASE Claimed(t) \/ ClaimFailed(t) BY <1>5, ClaimEnds, SMT
<1>6. CASE Released(t) BY <1>6, ReleasedDoes, SMT
<1>7. CASE ClaimIoctl(t) BY <1>7, ClaimIoctlDoes, SMT
<1>8. CASE DisconnectClaim(t) BY <1>8, DisconnectClaimDoes, SMT
<1>9. CASE GetDriver(t) BY <1>9, GetDriverDoes, SMT
<1>10. CASE ReleaseIoctl(t) BY <1>10, ReleaseIoctlDoes, SMT
<1>11. CASE Connect(t) BY <1>11, ConnectDoes, SMT
<1>12. CASE UseIoctl(t) BY <1>12, UseIoctlDoes, SMT
<1>13. CASE SetConfigurationIoctl(t) BY <1>13, SetConfigurationDoes, SMT
<1>14. CASE ResetRelease(t) BY <1>14, ResetReleaseDoes, SMT
<1>15. CASE ResetIoctl(t) BY <1>15, ResetIoctlDoes, SMT
<1>16. CASE ResetFails(t) BY <1>16, ResetFailsDoes, SMT
<1>17. CASE Reclaim(t) BY <1>17, ReclaimDoes, SMT
<1>18. CASE Reclaimed(t) \/ ReclaimFailed(t) BY <1>18, ReclaimEnds, SMT
<1> QED BY <1>3, <1>4, <1>5, <1>6, <1>7, <1>8, <1>9, <1>10, <1>11, <1>12, <1>13, <1>14, <1>15, <1>16,
           <1>17, <1>18 DEF Step

LEMMA DebtsTyped ==
  ASSUME TypeOK, PcInv, Next
  PROVE  owed' \subseteq Interfaces /\ taken' \subseteq owed'
<1>0. owed \subseteq Interfaces /\ taken \subseteq owed BY DEF TypeOK
<1>1. ASSUME UNCHANGED debts PROVE owed' \subseteq Interfaces /\ taken' \subseteq owed' BY <1>0, <1>1 DEF debts
<1>2. ASSUME NEW S \in SUBSET Interfaces, Debts(S) PROVE owed' \subseteq Interfaces /\ taken' \subseteq owed'
  BY <1>2, SMT DEF Debts
<1>3. CASE Environment BY <1>0, <1>1, <1>2, <1>3, EnvironmentDebts
<1>4. CASE SetAutoDetach BY <1>1, <1>4, Zenon DEF SetAutoDetach, ghosts
<1>5. ASSUME NEW t \in Threads, Calls(t) PROVE UNCHANGED debts
  BY <1>5, SMT DEF Calls, ResetDevice, SetConfiguration, ClaimInterface, ReleaseInterface, SetInterfaceAlt,
     ClearHalt, Streams, DetachKernelDriver, AttachKernelDriver, Begin, ghosts
<1>6. ASSUME NEW t \in Threads, Step(t) PROVE owed' \subseteq Interfaces /\ taken' \subseteq owed'
  <2>1. CASE TakesDriver(t)
    <3> DEFINE S == owed \union {j \in {pc[t].i} : binding[j] = "driver"}
    <3>1. pc[t].at \in Trying BY <2>1, Zenon DEF TakesDriver, DisconnectClaim, Disconnect, At, Trying
    <3>2. S \in SUBSET Interfaces BY <1>0, <1>6, <3>1, TargetAt
    <3>3. Debts(S) BY <2>1 DEF TakesDriver, Detached
    <3> QED BY <1>2, <3>2, <3>3
  <2>2. \A S \in SUBSET owed : S \in SUBSET Interfaces BY <1>0
  <2> QED BY <1>1, <1>2, <1>6, <2>1, <2>2, DebtsOf
<1> QED BY <1>1, <1>3, <1>4, <1>5, <1>6, Zenon DEF Next

LEMMA EventsTyped ==
  ASSUME TypeOK, Environment
  PROVE  /\ binding' \in [Interfaces -> Bindings] /\ events' \in 0..MaxEvents /\ calls' = calls
         /\ {attached', present'} \subseteq BOOLEAN
<1>1. binding \in [Interfaces -> Bindings] BY DEF TypeOK, Bindings
<1>2. \A i : \A who \in {"none", "driver", "other"} : Bind(i, who) => binding' \in [Interfaces -> Bindings]
  BY <1>1, BindTyped DEF Bindings
<1>3. events \in 0..MaxEvents /\ MaxEvents \in Nat BY BoundsAssumption DEF TypeOK
<1>4. \/ binding' = binding
      \/ \E i : \E who \in {"none", "driver", "other"} : Bind(i, who)
  BY SMT DEF Environment, Unplug, Disconnected, DriverLoaded, OtherClaims, OtherReleases, Rebinds, System
<1>5. events' = events \/ (events < MaxEvents /\ events' = events + 1)
  BY Zenon DEF Environment, Unplug, Disconnected, DriverLoaded, OtherClaims, OtherReleases, Rebinds, System
<1>6. calls' = calls
  BY Zenon DEF Environment, Unplug, Disconnected, DriverLoaded, OtherClaims, OtherReleases, Rebinds
<1>7. {attached', present'} \subseteq BOOLEAN
  <2>1. attached \in BOOLEAN /\ present \in BOOLEAN BY Zenon DEF TypeOK
  <2>2. \/ attached' = attached \/ attached' = FALSE
    BY Zenon DEF Environment, Unplug, Disconnected, DriverLoaded, OtherClaims, OtherReleases, Rebinds, device
  <2>3. \/ present' = present \/ present' = FALSE
    BY Zenon DEF Environment, Unplug, Disconnected, DriverLoaded, OtherClaims, OtherReleases, Rebinds, System,
       device
  <2> QED BY <2>1, <2>2, <2>3, Zenon
<1>8. binding' \in [Interfaces -> Bindings] BY <1>1, <1>2, <1>4
<1>9. events' \in 0..MaxEvents BY <1>3, <1>5, SMT
<1> QED BY <1>6, <1>7, <1>8, <1>9

LEMMA TypesKept ==
  ASSUME TypeOK, PcInv, Next
  PROVE  TypeOK'
<1>0. claimed \subseteq Interfaces /\ lost \subseteq Interfaces
      /\ lock \in Threads \union {Nobody} /\ {autoDetach, attached, present, modern} \subseteq BOOLEAN
      /\ binding \in [Interfaces -> Bindings] /\ calls \in 0..MaxCalls /\ events \in 0..MaxEvents
  BY Zenon DEF TypeOK, Bindings
<1>b. owed' \subseteq Interfaces /\ taken' \subseteq owed' BY DebtsTyped
<1>a. calls < MaxCalls => calls + 1 \in 0..MaxCalls BY <1>0, BoundsAssumption, SMT
<1>1. CASE Environment
  <2>1. UNCHANGED <<claimed, lock, autoDetach, modern, lost>> BY <1>1, EnvironmentDoes
  <2>2. {autoDetach', attached', present', modern'} \subseteq BOOLEAN BY <1>0, <1>1, <2>1, EventsTyped, Zenon
  <2>3. binding' \in [Interfaces -> Bindings] /\ calls' \in 0..MaxCalls /\ events' \in 0..MaxEvents
    BY <1>0, <1>1, EventsTyped, Zenon
  <2> QED BY <1>0, <1>b, <2>1, <2>2, <2>3, Zenon DEF TypeOK, Bindings
<1>2. CASE SetAutoDetach
  <2>1. /\ UNCHANGED <<claimed, lock, attached, present, modern, binding, lost, events>>
        /\ autoDetach' = ~autoDetach /\ calls < MaxCalls /\ calls' = calls + 1
    BY <1>2, Zenon DEF SetAutoDetach, device, ghosts
  <2>2. autoDetach' \in BOOLEAN BY <2>1, Zenon
  <2> QED BY <1>0, <1>b, <1>a, <2>1, <2>2, Zenon DEF TypeOK, Bindings
<1>3. ASSUME NEW t \in Threads, Calls(t) PROVE TypeOK'
  <2>1. /\ UNCHANGED <<claimed, lock, autoDetach, attached, present, modern, lost, events>>
        /\ calls < MaxCalls /\ calls' = calls + 1
    BY <1>3, Begun, Zenon
  <2>2. binding' = binding
    BY <1>3, SMT DEF Calls, ResetDevice, SetConfiguration, ClaimInterface, ReleaseInterface, SetInterfaceAlt,
       ClearHalt, Streams, DetachKernelDriver, AttachKernelDriver, Begin
  <2> QED BY <1>0, <1>b, <1>a, <2>1, <2>2, Zenon DEF TypeOK, Bindings
<1>4. ASSUME NEW t \in Threads, Step(t) PROVE TypeOK'
  <2>1. UNCHANGED <<attached, calls, events>> BY <1>4, CountsKept
  <2>2. UNCHANGED <<autoDetach, present, modern>> BY <1>4, StepOthers
  <2>3. binding' \in [Interfaces -> Bindings] BY <1>4, BindingTyped
  <2> QED BY <1>0, <1>b, <1>4, <2>1, <2>2, <2>3, SetsTyped, Zenon DEF TypeOK, Bindings
<1> QED BY <1>1, <1>2, <1>3, <1>4, Zenon DEF Next

-----------------------------------------------------------------------------
(* The theorems.                                                           *)

LEMMA PcKept ==
  ASSUME TypeOK, PcInv, Next
  PROVE  PcInv'
<1>1. CASE Environment BY <1>1, EnvironmentDoes, Zenon DEF PcInv
<1>2. CASE SetAutoDetach BY <1>2, Zenon DEF SetAutoDetach, PcInv
<1> QED BY <1>1, <1>2, PcBegin, PcStep, Zenon DEF Next

LEMMA StutterKept ==
  ASSUME HandleInv, UNCHANGED vars
  PROVE  HandleInv'
<1> USE DEF vars, handle, device, ghosts, debts
<1>1. TypeOK' BY Zenon DEF HandleInv, TypeOK
<1>2. PcInv' /\ LockInv' /\ RulesInv' /\ BitInv'
  BY Zenon DEF HandleInv, PcInv, LockInv, RulesInv, BitInv
<1>3. Ours' = Ours BY OursSame
<1>4. GainInv' /\ LoseInv' /\ RegainInv' BY <1>3, Zenon DEF HandleInv, GainInv, LoseInv, RegainInv
<1>5. ClaimsHaveBits' /\ BitsHaveClaims' BY <1>3, Zenon DEF HandleInv, ClaimsHaveBits, BitsHaveClaims
<1>6. DebtInv' /\ OwedInv' BY Zenon DEF HandleInv, DebtInv, OwedInv, Due, Claiming
<1> QED BY <1>1, <1>2, <1>4, <1>5, <1>6 DEF HandleInv

LEMMA NextKept ==
  ASSUME HandleInv, Next
  PROVE  HandleInv'
BY TypesKept, PcKept, LockKept, RulesKept, BitKept, GainKept, LoseKept, RegainKept, ClaimsHaveBitsKept,
   BitsHaveClaimsKept, DebtKept, OwedKept, Zenon DEF HandleInv

LEMMA HandleInvariant == Spec => []HandleInv
<1>1. HandleInv /\ [Next]_vars => HandleInv' BY NextKept, StutterKept
<1> QED BY InitInv, <1>1, PTL DEF Spec

(* Every variable of the handle, of the device and of the kernel keeps its *)
(* type.                                                                   *)
THEOREM TypeCorrect == Spec => []TypeOK
<1>1. HandleInv => TypeOK BY DEF HandleInv
<1> QED BY HandleInvariant, <1>1, PTL

(* Whenever no call is in progress the claimed bits are the kernel's       *)
(* claims, but for the bits of a reset whose ioctl failed, and the lock is *)
(* free: for any number of threads and interfaces, whatever the kernel and *)
(* other processes do meanwhile.                                           *)
THEOREM ClaimsAlwaysAgree == Spec => []ClaimsAgree
<1>1. ASSUME HandleInv PROVE ClaimsAgree
  <2> SUFFICES ASSUME Quiet
               PROVE  /\ lock = Nobody
                      /\ \A i \in Interfaces \ lost : i \in claimed <=> binding[i] = "ours"
    BY Zenon DEF ClaimsAgree
  <2>1. \A t \in Threads : pc[t].op = "idle" BY SMT DEF Quiet, Idle
  <2>2. \A t \in Threads : lock # t BY <1>1, <2>1, SMT DEF HandleInv, LockInv, Holding
  <2>3. lock = Nobody BY <1>1, <2>2 DEF HandleInv, TypeOK
  <2>4. \A i \in Ours : i \in claimed BY <1>1, <2>1, SMT DEF HandleInv, ClaimsHaveBits
  <2>5. \A t \in Threads : \A i : ~Upsets(pc[t], i) BY <2>1, SMT DEF Upsets
  <2>6. \A i \in claimed \ lost : i \in Ours BY <1>1, <2>5, Zenon DEF HandleInv, BitsHaveClaims
  <2> QED BY <2>3, <2>4, <2>6, SMT DEF Ours
<1> QED BY HandleInvariant, <1>1, PTL

(* Whenever no call is in progress and the device is there, a driver that  *)
(* libusb detached for a claim is bound again, or its interface is really  *)
(* held, by its bit and for the kernel, or another process has claimed it  *)
(* since, or a reset whose ioctl failed had released it: on kernels of     *)
(* either kind and whatever claims, reclaims and releases have failed.     *)
THEOREM DriversAlwaysGivenBack == Spec => []DriversGivenBack
<1>1. ASSUME HandleInv PROVE DriversGivenBack
  <2> SUFFICES ASSUME Quiet, present, NEW i \in owed \ (taken \union lost)
               PROVE  i \in claimed /\ binding[i] = "ours"
    BY Zenon DEF DriversGivenBack
  <2>1. \A t \in Threads : pc[t].op = "idle" BY SMT DEF Quiet, Idle
  <2>2. i \in claimed
    <3>1. \A t \in Threads : ~Claiming(pc[t]) BY <2>1, SMT DEF Claiming
    <3>2. i \in Due BY DEF Due
    <3> QED BY <1>1, <3>1, <3>2, Zenon DEF HandleInv, OwedInv
  <2>3. \A t \in Threads : ~Upsets(pc[t], i) BY <2>1, SMT DEF Upsets
  <2>4. i \in Ours BY <1>1, <2>2, <2>3, Zenon DEF HandleInv, BitsHaveClaims
  <2> QED BY <2>2, <2>4 DEF Ours
<1> QED BY HandleInvariant, <1>1, PTL
=============================================================================
