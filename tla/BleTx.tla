--------------------------------- MODULE BleTx ---------------------------------
(***************************************************************************)
(* The transmit path of a BLE transport (lib/src/transport/ble/link.dart): *)
(* the set-up of its flow-control credit, rawWrite and its window, the     *)
(* sender loop with its stall watchdogs, the ATT writes and their lost     *)
(* callbacks, and the firmware that grants the credit.                     *)
(*                                                                         *)
(* The bytes rawWrite accepts are numbered 1, 2, ... in the order in which *)
(* they were accepted, and the queue is the interval between two such      *)
(* positions: the sender coalesces frames, so where one ends is nothing    *)
(* to it.                                                                  *)
(***************************************************************************)
EXTENDS Integers, Sequences

CONSTANTS
    Credit,        \* _rpcBufferSize and _txWindowSize
    Mtu,           \* bleMtuSize
    StallLimit,    \* _stallPollLimit
    StreakLimit,   \* _maxWriteTimeoutStreak
    Frames,        \* the sizes of the frames the RPC layer writes, in order
    StatusModes    \* what rpcStatus may do: "works", "fails", "absent"

ASSUME SizesAssumption ==
    /\ Credit \in Nat \ {0} /\ Mtu \in Nat \ {0}
    /\ StallLimit \in Nat \ {0} /\ StreakLimit \in Nat \ {0}
    /\ Frames \in Seq(Nat \ {0})
    /\ StatusModes \subseteq {"works", "fails", "absent"}

VARIABLES
    rpcStatus,       \* which of StatusModes this device and link show
    setup,           \* where open() is
    active,          \* isActive
    subscribed,      \* overflow notifications are on
    statusSubscribed,\* rpcStatus notifications are on
    available,       \* _rpcStatusAvailable
    rpcActive,       \* _rpcSessionActive
    budget,          \* _budget
    fresh,           \* _budgetGen # cycleGen
    head,            \* bytes up to here have left _txQueue
    taken,           \* bytes up to here have entered it
    txQueuedBytes,   \* _txQueuedBytes
    next,            \* the frame rawWrite is given next
    wpc,             \* where rawWrite is
    spc,             \* where _runSender is
    cycleRemaining,  \* local of _drainBudgetCycle
    base,            \* the message being sent starts after this byte
    length,          \* its length
    offset,          \* local of _sendMessage
    air,             \* the ATT write of the current chunk
    streak,          \* _writeTimeoutStreak
    sessionPolls,    \* local of _runSender
    budgetPolls,     \* local of _runSender
    fw,              \* the firmware's serial service
    fwCredit,        \* bytes it will still accept
    stored,          \* the value of its overflow characteristic
    notes,           \* notifications on their way, in order
    received         \* the last byte it received

setupVars == <<rpcStatus, setup, subscribed, statusSubscribed, available>>
creditVars == <<budget, fresh>>
queueVars == <<head, taken, txQueuedBytes>>
writerVars == <<next, wpc>>
messageVars == <<cycleRemaining, base, length, offset, air, streak>>
pollVars == <<sessionPolls, budgetPolls>>
fwVars == <<fw, fwCredit, stored, received>>
vars == <<setupVars, active, rpcActive, creditVars, queueVars, writerVars,
          spc, messageVars, pollVars, fwVars, notes>>

-----------------------------------------------------------------------------
Pairing == {"pair", "subscribe", "credit"}
Setups == Pairing \cup {"status", "settle", "open", "failed"}
SenderPc == {"off", "top", "data", "session", "budget", "cycle", "more", "write"}

TypeOK ==
    /\ rpcStatus \in StatusModes
    /\ setup \in Setups
    /\ {active, subscribed, statusSubscribed, available, rpcActive, fresh} \subseteq BOOLEAN
    /\ {budget, cycleRemaining, fwCredit, stored} \subseteq 0 .. Credit
    /\ taken \in Nat /\ head \in 0 .. taken
    /\ txQueuedBytes \in Nat
    /\ next \in 1 .. Len(Frames) + 1
    /\ wpc \in {"idle", "parked", "retry", "failed"}
    /\ spc \in SenderPc
    /\ base \in Nat /\ length \in 0 .. Credit /\ offset \in 0 .. length
    /\ air \in {"none", "sent", "landed"}
    /\ streak \in 0 .. StreakLimit - 1
    /\ sessionPolls \in 0 .. StallLimit - 1
    /\ budgetPolls \in 0 .. StallLimit - 1
    /\ fw \in {"fresh", "granted", "active", "inactive"}
    /\ notes \in Seq({"credit", "active", "inactive"})
    /\ received \in Nat

Init ==
    /\ rpcStatus \in StatusModes
    /\ setup = "pair" /\ active = TRUE
    /\ subscribed = FALSE /\ statusSubscribed = FALSE
    /\ available = FALSE /\ rpcActive = FALSE
    /\ budget = 0 /\ fresh = FALSE
    /\ head = 0 /\ taken = 0 /\ txQueuedBytes = 0
    /\ next = 1 /\ wpc = "idle" /\ spc = "off"
    /\ cycleRemaining = 0 /\ base = 0 /\ length = 0 /\ offset = 0
    /\ air = "none" /\ streak = 0
    /\ sessionPolls = 0 /\ budgetPolls = 0
    /\ fw = "fresh" /\ fwCredit = 0 /\ stored = 0 /\ received = 0
    /\ notes = <<>>

Least(a, b) == IF a < b THEN a ELSE b

-----------------------------------------------------------------------------
(* Signals.  A signal is a completer its waiter has just made: firing it    *)
(* resumes whoever waits on it.                                            *)

\* _releaseSenderSignals, as far as the sender is concerned.
Released(s) == CASE s \in {"data", "session", "budget"} -> "top"
                 [] s = "more" -> "cycle"
                 [] OTHER -> s

\* _txSpaceSignal.
WriterWoken(w) == IF w = "parked" THEN "retry" ELSE w

\* onTransportFault and close: the transport is not active from here on, what
\* is queued is dropped, and every waiter resumes.
Down(s) ==
    /\ active' = FALSE /\ rpcActive' = FALSE
    /\ setup' = IF setup = "open" THEN "open" ELSE "failed"
    /\ head' = taken /\ txQueuedBytes' = 0
    /\ wpc' = WriterWoken(wpc)
    /\ spc' = Released(s)
    /\ UNCHANGED <<rpcStatus, subscribed, statusSubscribed, available, taken, next>>

-----------------------------------------------------------------------------
(* open(): the steps that decide the initial credit.  An answer arrives     *)
(* after the notifications the device sent before it.                      *)

Setup(at) == active /\ setup = at /\ notes = <<>>

\* _openEncryptedSetup, step 1: a read to establish the encryption, which is
\* the one overflow read if there is no rpcStatus to read.
PairingRead ==
    /\ Setup("pair")
    /\ setup' = "subscribe"
    /\ IF rpcStatus = "absent" THEN budget' = stored /\ fresh' = TRUE
                               ELSE UNCHANGED creditVars
    /\ UNCHANGED <<rpcStatus, subscribed, statusSubscribed, available, active, rpcActive,
                   queueVars, writerVars, spc, messageVars, pollVars, fwVars, notes>>

\* Steps 2 and 3.
SubscribeOverflow ==
    /\ Setup("subscribe")
    /\ setup' = "credit"
    /\ subscribed' = TRUE
    /\ UNCHANGED <<rpcStatus, statusSubscribed, available, active, rpcActive, creditVars,
                   queueVars, writerVars, spc, messageVars, pollVars, fwVars, notes>>

\* Step 4: the overflow read, unless step 1 took it, and the seeding of a
\* credit that reads 0.
ReadCredit ==
    /\ Setup("credit")
    /\ setup' = "status"
    /\ LET credit == IF rpcStatus = "absent" THEN budget ELSE stored
       IN  budget' = IF credit = 0 THEN Credit ELSE credit
    /\ fresh' = TRUE
    /\ UNCHANGED <<rpcStatus, subscribed, statusSubscribed, available, active, rpcActive,
                   queueVars, writerVars, spc, messageVars, pollVars, fwVars, notes>>

\* The link drops while the user types the PIN: the loop in open() reconnects
\* and sets up again, on a link the firmware knows nothing of yet.
PairingDrop ==
    /\ active /\ setup \in Pairing
    /\ setup' = "pair" /\ subscribed' = FALSE /\ rpcActive' = FALSE
    /\ fw' = "fresh" /\ fwCredit' = 0 /\ stored' = 0 /\ notes' = <<>>
    /\ UNCHANGED <<rpcStatus, statusSubscribed, available, active, creditVars, received,
                   queueVars, writerVars, spc, messageVars, pollVars>>

\* _subscribeRpcStatus without the characteristic: TX is not gated.
StatusAbsent ==
    /\ Setup("status") /\ rpcStatus = "absent"
    /\ setup' = "settle"
    /\ UNCHANGED <<rpcStatus, subscribed, statusSubscribed, available, active, rpcActive,
                   creditVars, queueVars, writerVars, spc, messageVars, pollVars, fwVars, notes>>

\* It subscribes.
StatusSubscribe ==
    /\ Setup("status") /\ rpcStatus # "absent" /\ ~statusSubscribed
    /\ statusSubscribed' = TRUE
    /\ UNCHANGED <<rpcStatus, setup, subscribed, available, active, rpcActive,
                   creditVars, queueVars, writerVars, spc, messageVars, pollVars, fwVars, notes>>

\* It reads what the session is: TX is gated.
StatusWorks ==
    /\ Setup("status") /\ rpcStatus = "works" /\ statusSubscribed
    /\ setup' = "settle"
    /\ available' = TRUE
    /\ rpcActive' = (fw = "active")
    /\ UNCHANGED <<rpcStatus, subscribed, statusSubscribed, active, creditVars,
                   queueVars, writerVars, spc, messageVars, pollVars, fwVars, notes>>

\* The subscription or the read fails: TX is not gated.
StatusFails ==
    /\ Setup("status") /\ rpcStatus = "fails"
    /\ setup' = "settle"
    /\ UNCHANGED <<rpcStatus, subscribed, statusSubscribed, available, active, rpcActive,
                   creditVars, queueVars, writerVars, spc, messageVars, pollVars, fwVars, notes>>

\* The end of open(): the sender starts.
Opened ==
    /\ active /\ setup = "settle"
    /\ setup' = "open"
    /\ spc' = "top"
    /\ UNCHANGED <<rpcStatus, subscribed, statusSubscribed, available, active, rpcActive,
                   creditVars, queueVars, writerVars, messageVars, pollVars, fwVars, notes>>

-----------------------------------------------------------------------------
(* rawWrite, for one frame after the other.                                *)

Arriving == setup = "open" /\ next <= Len(Frames) /\ wpc \in {"idle", "retry"}

SignalNobody(s) == s   \* mutant: the data signal is not fired

\* _txDataSignal.
DataSignal(s) == CASE s = "data" -> "top" [] s = "more" -> "cycle" [] OTHER -> s

\* The frame enters the queue: rawWrite returns.
Accept ==
    /\ Arriving /\ active
    /\ txQueuedBytes < Credit
    /\ taken' = taken + Frames[next]
    /\ txQueuedBytes' = txQueuedBytes + Frames[next]
    /\ next' = next + 1 /\ wpc' = "idle"
    /\ spc' = DataSignal(spc)
    /\ UNCHANGED <<setupVars, active, rpcActive, creditVars, head, messageVars,
                   pollVars, fwVars, notes>>

\* The window is full: rawWrite parks.
Park ==
    /\ Arriving /\ active
    /\ txQueuedBytes >= Credit
    /\ wpc' = "parked"
    /\ UNCHANGED <<setupVars, active, rpcActive, creditVars, queueVars, next, spc,
                   messageVars, pollVars, fwVars, notes>>

\* The transport has closed: rawWrite throws.
Refuse ==
    /\ Arriving /\ ~active
    /\ wpc' = "failed"
    /\ UNCHANGED <<setupVars, active, rpcActive, creditVars, queueVars, next, spc,
                   messageVars, pollVars, fwVars, notes>>

-----------------------------------------------------------------------------
(* _runSender.                                                             *)

SenderExit ==
    /\ spc = "top" /\ ~active
    /\ spc' = "off"
    /\ UNCHANGED <<setupVars, active, rpcActive, creditVars, queueVars, writerVars,
                   messageVars, pollVars, fwVars, notes>>

SenderIdle ==
    /\ spc = "top" /\ active /\ head = taken
    /\ spc' = "data"
    /\ sessionPolls' = 0 /\ budgetPolls' = 0
    /\ UNCHANGED <<setupVars, active, rpcActive, creditVars, queueVars, writerVars,
                   messageVars, fwVars, notes>>

Gated == available /\ ~rpcActive

\* There is data, but the firmware's RPC session is not active.
SenderHold ==
    /\ spc = "top" /\ active /\ head < taken
    /\ Gated
    /\ spc' = "session"
    /\ UNCHANGED <<setupVars, active, rpcActive, creditVars, queueVars, writerVars,
                   messageVars, pollVars, fwVars, notes>>

\* There is no credit.
SenderStarve ==
    /\ spc = "top" /\ active /\ head < taken
    /\ ~Gated /\ budget = 0
    /\ spc' = "budget"
    /\ sessionPolls' = 0
    /\ UNCHANGED <<setupVars, active, rpcActive, creditVars, queueVars, writerVars,
                   messageVars, budgetPolls, fwVars, notes>>

SpendButKeep == budget   \* mutant: _budget is not cleared

\* _budget while a cycle spends it.
Spent == 0

\* _drainBudgetCycle begins.
SenderStart ==
    /\ spc = "top" /\ active /\ head < taken
    /\ ~Gated /\ budget > 0
    /\ spc' = "cycle"
    /\ cycleRemaining' = budget /\ budget' = Spent /\ fresh' = FALSE
    /\ sessionPolls' = 0 /\ budgetPolls' = 0
    /\ UNCHANGED <<setupVars, active, rpcActive, queueVars, writerVars,
                   base, length, offset, air, streak, fwVars, notes>>


\* The stall watchdog: so many silent polls and the session is dead.
Stalled(polls) == polls + 1 >= StallLimit

\* A poll of a wait for the session ends in silence.
SessionPoll ==
    /\ spc = "session"
    /\ IF Stalled(sessionPolls)
       THEN Down("top") /\ UNCHANGED sessionPolls
       ELSE /\ spc' = "top" /\ sessionPolls' = sessionPolls + 1
            /\ UNCHANGED <<setupVars, active, rpcActive, queueVars, writerVars>>
    /\ UNCHANGED <<creditVars, messageVars, budgetPolls, fwVars, notes>>

\* A poll of a wait for credit ends in silence.
BudgetPoll ==
    /\ spc = "budget"
    /\ IF Stalled(budgetPolls)
       THEN Down("top") /\ UNCHANGED budgetPolls
       ELSE /\ spc' = "top" /\ budgetPolls' = budgetPolls + 1
            /\ UNCHANGED <<setupVars, active, rpcActive, queueVars, writerVars>>
    /\ UNCHANGED <<creditVars, messageVars, sessionPolls, fwVars, notes>>

\* The end of _drainBudgetCycle: the remainder is kept, unless a notification
\* has replaced the credit it belongs to.
EndCycle ==
    /\ budget' = IF cycleRemaining > 0 /\ ~fresh THEN cycleRemaining ELSE budget
    /\ spc' = "top"
    /\ UNCHANGED <<setupVars, active, rpcActive, fresh, queueVars, writerVars,
                   messageVars, pollVars, fwVars, notes>>

CycleOver ==
    /\ spc = "cycle" /\ (~active \/ cycleRemaining = 0)
    /\ EndCycle

\* Credit is left and the queue is empty: the cycle waits 100 ms for more.
CycleLinger ==
    /\ spc = "cycle" /\ active /\ cycleRemaining > 0 /\ head = taken
    /\ spc' = "more"
    /\ UNCHANGED <<setupVars, active, rpcActive, creditVars, queueVars, writerVars,
                   messageVars, pollVars, fwVars, notes>>

LingerOver ==
    /\ spc = "more"
    /\ EndCycle

\* As much of the queue as the credit allows becomes one message.
CycleSend ==
    /\ spc = "cycle" /\ active /\ cycleRemaining > 0 /\ head < taken
    /\ base' = head
    /\ length' = Least(cycleRemaining, taken - head)
    /\ offset' = 0 /\ air' = "sent"
    /\ spc' = "write"
    /\ UNCHANGED <<setupVars, active, rpcActive, creditVars, queueVars, writerVars,
                   cycleRemaining, streak, pollVars, fwVars, notes>>

-----------------------------------------------------------------------------
(* _sendMessage: the chunks of a message, one ATT write at a time.          *)

Chunk == Least(Mtu, length - offset)

ReleasedChunk(n) == txQueuedBytes - Chunk   \* mutant: the last chunk is counted only

\* _releaseTxBytes.
ReleasedBytes(n) == IF txQueuedBytes < n THEN 0 ELSE txQueuedBytes - n

\* The rest of _drainBudgetCycle's loop once the message is out.
MessageDone ==
    /\ head' = Least(head + length, taken)
    /\ txQueuedBytes' = ReleasedBytes(length)
    /\ wpc' = WriterWoken(wpc)
    /\ cycleRemaining' = cycleRemaining - length
    /\ spc' = IF fresh THEN "top" ELSE "cycle"
    /\ offset' = length /\ air' = "none"
    /\ UNCHANGED <<taken, next, base, length>>

\* The next chunk, unless the transport has closed.
NextChunk(done) ==
    /\ offset' = done
    /\ IF active THEN air' = "sent" /\ UNCHANGED spc
                 ELSE air' = "none" /\ spc' = "top"
    /\ UNCHANGED <<queueVars, writerVars, cycleRemaining, base, length>>

RetriedChunk == offset   \* mutant: a chunk whose callback was lost is sent again

\* Where _sendMessage goes on after a lost callback: without that chunk.
SkippedChunk == offset + Chunk

GoOn(done) == IF done = length THEN MessageDone ELSE NextChunk(done)

\* The write is acknowledged.
WriteAck ==
    /\ spc = "write" /\ air = "landed"
    /\ streak' = 0
    /\ GoOn(offset + Chunk)
    /\ UNCHANGED <<setupVars, active, rpcActive, creditVars, pollVars, fwVars, notes>>

\* Its callback does not come in time, whether or not the write arrived.
WriteTimeout ==
    /\ spc = "write" /\ streak + 1 < StreakLimit
    /\ streak' = streak + 1
    /\ GoOn(SkippedChunk)
    /\ UNCHANGED <<setupVars, active, rpcActive, creditVars, pollVars, fwVars, notes>>

\* It fails, or its callback is the last one of a streak that is lost: the
\* transport faults, if it has not closed yet.
WriteFail ==
    /\ spc = "write"
    /\ air' = "none"
    /\ IF active THEN Down("top")
                 ELSE /\ spc' = "top"
                      /\ UNCHANGED <<setupVars, active, rpcActive, queueVars, writerVars>>
    /\ UNCHANGED <<creditVars, cycleRemaining, base, length, offset, streak, pollVars,
                   fwVars, notes>>

-----------------------------------------------------------------------------
(* The device and the link.                                                *)

\* The chunk reaches the device.
Land ==
    /\ air = "sent"
    /\ air' = "landed"
    /\ fwCredit' = IF Chunk <= fwCredit THEN fwCredit - Chunk ELSE 0
    /\ received' = base + offset + Chunk
    /\ UNCHANGED <<setupVars, active, rpcActive, creditVars, queueVars, writerVars, spc,
                   cycleRemaining, base, length, offset, streak, pollVars, fw, stored, notes>>

Notified(on, note) == IF on THEN Append(notes, note) ELSE notes

\* The firmware opens its RPC session, or has read all of a credit that is
\* spent: it grants the whole buffer.
FwGrant ==
    /\ \/ fw = "fresh"
       \/ fw \in {"granted", "active"} /\ fwCredit = 0
    /\ fw' = IF fw = "fresh" THEN "granted" ELSE fw
    /\ fwCredit' = Credit /\ stored' = Credit
    /\ notes' = Notified(subscribed, "credit")
    /\ UNCHANGED <<setupVars, active, rpcActive, creditVars, queueVars, writerVars, spc,
                   messageVars, pollVars, received>>

\* It announces the session.
FwActivate ==
    /\ fw = "granted"
    /\ fw' = "active"
    /\ notes' = Notified(statusSubscribed, "active")
    /\ UNCHANGED <<setupVars, active, rpcActive, creditVars, queueVars, writerVars, spc,
                   messageVars, pollVars, fwCredit, stored, received>>

\* It closes the session.
FwDeactivate ==
    /\ fw = "active"
    /\ fw' = "inactive"
    /\ notes' = Notified(statusSubscribed, "inactive")
    /\ UNCHANGED <<setupVars, active, rpcActive, creditVars, queueVars, writerVars, spc,
                   messageVars, pollVars, fwCredit, stored, received>>

Arrives(note) ==
    /\ active /\ notes # <<>> /\ Head(notes) = note
    /\ notes' = Tail(notes)

\* _applyOverflowValue.
CreditArrives ==
    /\ Arrives("credit")
    /\ budget' = Credit /\ fresh' = TRUE
    /\ IF spc = "budget" THEN spc' = "top" /\ budgetPolls' = 0
                         ELSE UNCHANGED <<spc, budgetPolls>>
    /\ UNCHANGED <<setupVars, active, rpcActive, queueVars, writerVars, messageVars,
                   sessionPolls, fwVars>>

\* _applyRpcStatusValue: the session is active.
ActiveArrives ==
    /\ Arrives("active")
    /\ rpcActive' = TRUE
    /\ IF spc = "session" THEN spc' = "top" /\ sessionPolls' = 0
                          ELSE UNCHANGED <<spc, sessionPolls>>
    /\ UNCHANGED <<setupVars, active, creditVars, queueVars, writerVars, messageVars,
                   budgetPolls, fwVars>>

\* _applyRpcStatusValue: it is not, any more.
InactiveArrives ==
    /\ Arrives("inactive")
    /\ IF rpcActive THEN Down(spc)
                    ELSE UNCHANGED <<setupVars, active, rpcActive, queueVars, writerVars, spc>>
    /\ UNCHANGED <<creditVars, messageVars, pollVars, fwVars>>

\* The link drops, or the session closes the transport.
Close ==
    /\ active /\ setup \notin Pairing
    /\ Down(spc)
    /\ UNCHANGED <<creditVars, messageVars, pollVars, fwVars, notes>>

\* The user gives up while the pairing goes on.
AbortPairing ==
    /\ active /\ setup \in Pairing
    /\ Down(spc)
    /\ UNCHANGED <<creditVars, messageVars, pollVars, fwVars, notes>>

-----------------------------------------------------------------------------
OpenStep == \/ PairingRead \/ SubscribeOverflow \/ ReadCredit \/ PairingDrop
            \/ StatusAbsent \/ StatusSubscribe \/ StatusWorks \/ StatusFails \/ Opened

WriterStep == Accept \/ Park \/ Refuse

SenderStep == \/ SenderExit \/ SenderIdle \/ SenderHold \/ SenderStarve \/ SenderStart
              \/ CycleOver \/ CycleLinger \/ CycleSend

TimerStep == SessionPoll \/ BudgetPoll \/ LingerOver

WriteStep == WriteAck \/ WriteTimeout \/ WriteFail

DeviceStep == \/ Land \/ FwGrant \/ FwActivate \/ FwDeactivate
              \/ CreditArrives \/ ActiveArrives \/ InactiveArrives

Next == \/ OpenStep \/ WriterStep \/ SenderStep \/ TimerStep \/ WriteStep
        \/ DeviceStep \/ Close \/ AbortPairing

Spec == Init /\ [][Next]_vars

\* Microtasks run, timers fire, and an ATT write ends in its callback or in its
\* own timeout.  Nothing is assumed of the device.
FairSpec ==
    /\ Spec
    /\ WF_vars(WriterStep) /\ WF_vars(SenderStep) /\ WF_vars(TimerStep)
    /\ WF_vars(WriteStep)

-----------------------------------------------------------------------------
(* Properties.                                                             *)

Lands == air = "sent" /\ air' = "landed"

\* While rpcStatus gates TX no write carries a byte beyond the credit the
\* firmware granted (the comment on _drainBudgetCycle): its buffer has room.
NeverOverruns ==
    [][Lands /\ available => Chunk <= fwCredit]_vars

\* Bytes reach the device in the order they were accepted and never twice,
\* lost write callbacks and fresh credit notwithstanding.
InOrderOnce ==
    [][Lands => received <= base + offset]_vars

\* The window counts what is in the queue: rawWrite neither parks before a
\* queue with room nor overfills it.
WindowAccounts ==
    active => txQueuedBytes = taken - head

\* The bytes of the first frames.
SizeUpTo[i \in 0 .. Len(Frames)] == IF i = 0 THEN 0 ELSE SizeUpTo[i - 1] + Frames[i]

\* Every byte accepted leaves the queue, on the air or with a transport that is
\* declared dead, and a rawWrite parked on the full window returns: a device that
\* falls silent can hold neither for ever.
TxSettles ==
    /\ \A n \in 1 .. SizeUpTo[Len(Frames)] : taken >= n ~> head >= n
    /\ wpc = "parked" ~> wpc \in {"idle", "failed"}
=============================================================================
