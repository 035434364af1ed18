----------------------------- MODULE BleTxProofs -----------------------------
(***************************************************************************)
(* Proofs about BleTx, for every credit, MTU, stall limit and sequence of  *)
(* frames, and whatever the device does with rpcStatus.                    *)
(*                                                                         *)
(* MessageInv is what _sendMessage relies on (the message in hand is the   *)
(* front of the queue), ArrivalInv how far the bytes it sent have come,    *)
(* and CreditInv the accounting of the credit: what the sender may still   *)
(* spend is never more than what the firmware still accepts, except before *)
(* the firmware's session, when the seeded credit is held back.            *)
(***************************************************************************)
EXTENDS BleTx, TLAPS

\* What is left of the message the sender has in hand, or of its credit once
\* the write on the air has reached the device.
Unspent ==
    IF spc = "write" THEN cycleRemaining - offset - (IF air = "landed" THEN Chunk ELSE 0)
    ELSE IF spc \in {"cycle", "more"} THEN cycleRemaining ELSE 0

MessageInv ==
    /\ air = "none" <=> spc # "write"
    /\ spc = "write" => offset < length /\ length <= cycleRemaining
    /\ active /\ spc = "write" => base = head /\ head + length <= taken

ArrivalInv ==
    /\ air = "sent" => received <= base + offset
    /\ air = "landed" => received <= base + offset + Chunk
    /\ active /\ air = "none" => received <= head

StartInv ==
    /\ spc # "off" => setup = "open"
    /\ available => setup \in {"settle", "open", "failed"}
    /\ fw = "fresh" => notes = <<>> /\ ~rpcActive
    /\ setup # "open" /\ fw # "fresh" => fwCredit = Credit

\* Whether a notification of new credit is on its way.
Announced == \E i \in 1 .. Len(notes) : notes[i] = "credit"

NoteInv ==
    \A i \in 1 .. Len(notes) : notes[i] = "credit" =>
        /\ budget = 0 \/ (i = 1 /\ ~rpcActive)
        /\ \A j \in 1 .. Len(notes) : notes[j] = "credit" => i = j

CreditInv ==
    available =>
        /\ fw = "fresh" => Unspent = 0
        /\ fw # "fresh" => budget + Unspent <= fwCredit
        /\ Announced => fwCredit = Credit /\ Unspent = 0
        /\ NoteInv

-----------------------------------------------------------------------------
(* The data the steps handle.                                              *)

LEMMA Quantities ==
  ASSUME TypeOK
  PROVE  /\ Credit \in Nat \ {0} /\ Mtu \in Nat \ {0}
         /\ head \in Nat /\ taken \in Nat /\ head <= taken /\ txQueuedBytes \in Nat
         /\ base \in Nat /\ length \in Nat /\ offset \in Nat /\ offset <= length
         /\ cycleRemaining \in Nat /\ received \in Nat
         /\ air \in {"none", "sent", "landed"}
  BY SizesAssumption DEF TypeOK

LEMMA Credits ==
  ASSUME TypeOK
  PROVE  /\ Credit \in Nat \ {0}
         /\ budget \in 0 .. Credit /\ cycleRemaining \in 0 .. Credit
         /\ fwCredit \in 0 .. Credit /\ stored \in 0 .. Credit
         /\ length \in 0 .. Credit /\ offset \in 0 .. length
  BY SizesAssumption DEF TypeOK

LEMMA FrameSize ==
  ASSUME TypeOK, next <= Len(Frames)
  PROVE  Frames[next] \in Nat \ {0}
  BY SizesAssumption DEF TypeOK

LEMMA ChunkSize ==
  ASSUME TypeOK
  PROVE  /\ Chunk \in Nat /\ Chunk <= length - offset
         /\ offset < length => Chunk > 0
  BY SizesAssumption DEF TypeOK, Chunk, Least

LEMMA FrameCount ==
  Len(Frames) \in Nat
  BY SizesAssumption

LEMMA Limits ==
  StallLimit \in Nat \ {0} /\ StreakLimit \in Nat \ {0}
  BY SizesAssumption

LEMMA NotedHere ==
  ASSUME TypeOK
  PROVE  \A note \in {"credit", "active", "inactive"} :
            /\ Notified(subscribed, note) \in Seq({"credit", "active", "inactive"})
            /\ Notified(statusSubscribed, note) \in Seq({"credit", "active", "inactive"})
  BY DEF TypeOK, Notified

LEMMA TailTypes ==
  ASSUME TypeOK, notes # <<>>
  PROVE  Tail(notes) \in Seq({"credit", "active", "inactive"})
  BY DEF TypeOK

LEMMA NotesAfter ==
  ASSUME TypeOK, notes # <<>>
  PROVE  /\ Len(notes) \in Nat \ {0}
         /\ Len(Tail(notes)) = Len(notes) - 1
         /\ \A i \in 1 .. Len(notes) - 1 : Tail(notes)[i] = notes[i + 1]
         /\ Head(notes) = notes[1]
  BY DEF TypeOK

LEMMA NotesWith ==
  ASSUME TypeOK, NEW on \in BOOLEAN, NEW note \in {"credit", "active", "inactive"}
  PROVE  /\ Len(notes) \in Nat
         /\ ~on => Notified(on, note) = notes
         /\ on => /\ Len(Notified(on, note)) = Len(notes) + 1
                  /\ Notified(on, note)[Len(notes) + 1] = note
                  /\ \A i \in 1 .. Len(notes) : Notified(on, note)[i] = notes[i]
  BY DEF TypeOK, Notified

\* The provers take no CASE: what Released and DataSignal do to the sender.
LEMMA Releasing ==
  ASSUME TypeOK
  PROVE  /\ spc \in {"data", "session", "budget"} => Released(spc) = "top"
         /\ spc = "more" => Released(spc) = "cycle"
         /\ spc \in {"off", "top", "cycle", "write"} => Released(spc) = spc
         /\ Released(spc) = "write" <=> spc = "write"
         /\ Released(spc) = "off" <=> spc = "off"
         /\ Released("top") = "top"
         /\ spc \in SenderPc
<1>1. spc \in SenderPc
  BY DEF TypeOK
<1> QED
  BY <1>1, Zenon DEF Released, SenderPc

LEMMA Signalling ==
  ASSUME TypeOK
  PROVE  /\ spc = "data" => DataSignal(spc) = "top"
         /\ spc = "more" => DataSignal(spc) = "cycle"
         /\ spc \notin {"data", "more"} => DataSignal(spc) = spc
         /\ DataSignal(spc) = "write" <=> spc = "write"
         /\ DataSignal(spc) = "off" <=> spc = "off"
         /\ spc \in SenderPc
<1>1. spc \in SenderPc
  BY DEF TypeOK
<1> QED
  BY <1>1, Zenon DEF DataSignal, SenderPc

\* What an accepted frame does to the queue.
LEMMA Accepting ==
  ASSUME TypeOK, Accept
  PROVE  /\ taken' \in Nat /\ taken' >= taken
         /\ txQueuedBytes' = txQueuedBytes + (taken' - taken)
         /\ active /\ setup = "open" /\ spc' = DataSignal(spc)
         /\ UNCHANGED <<setupVars, active, rpcActive, creditVars, head, messageVars, fwVars,
                        notes>>
<1>1. Frames[next] \in Nat
  BY FrameSize DEF Accept, Arriving
<1>2. taken' = taken + Frames[next] /\ txQueuedBytes' = txQueuedBytes + Frames[next]
  BY DEF Accept
<1>3. /\ taken' \in Nat /\ taken' >= taken
      /\ txQueuedBytes' = txQueuedBytes + (taken' - taken)
  BY <1>1, <1>2, Quantities
<1> QED
  BY <1>3 DEF Accept, Arriving

\* What the end of a chunk does, whether its callback came or not.
ChunkOut ==
    /\ spc = "write" /\ (active' => active)
    /\ UNCHANGED <<setupVars, active, rpcActive, creditVars, taken, base, length, fwVars,
                   notes>>
    /\ \/ /\ offset + Chunk = length
          /\ head' = Least(head + length, taken)
          /\ txQueuedBytes' = ReleasedBytes(length)
          /\ cycleRemaining' = cycleRemaining - length
          /\ fresh => spc' = "top"
          /\ ~fresh => spc' = "cycle"
          /\ offset' = length /\ air' = "none"
       \/ /\ offset + Chunk # length
          /\ UNCHANGED <<head, txQueuedBytes, cycleRemaining>>
          /\ offset' = offset + Chunk
          /\ active => air' = "sent" /\ spc' = "write"
          /\ ~active => air' = "none" /\ spc' = "top"

LEMMA EndOfChunk ==
  ASSUME WriteAck \/ WriteTimeout
  PROVE  ChunkOut
<1>1. GoOn(offset + Chunk) /\ spc = "write"
  BY DEF WriteAck, WriteTimeout, SkippedChunk
<1>2. UNCHANGED <<setupVars, active, rpcActive, creditVars, fwVars, notes>>
  BY DEF WriteAck, WriteTimeout
<1>3. active' => active
  BY <1>2, Zenon
<1>4. CASE offset + Chunk = length
  BY <1>1, <1>2, <1>3, <1>4 DEF GoOn, MessageDone, ChunkOut
<1>5. CASE offset + Chunk # length
  BY <1>1, <1>2, <1>3, <1>5 DEF GoOn, NextChunk, ChunkOut, queueVars
<1> QED
  BY <1>4, <1>5

-----------------------------------------------------------------------------
(* Types, one part of TypeOK at a time.  MessageInv is needed for what a    *)
(* message takes from the credit of its cycle.                             *)

\* The set-up.
LEMMA SetupTypes ==
  ASSUME TypeOK, MessageInv, StartInv, Next
  PROVE  (/\ rpcStatus \in StatusModes
          /\ setup \in Setups)'
<1>0. /\ rpcStatus \in StatusModes
      /\ setup \in Setups
  BY DEF TypeOK
<1>1. CASE OpenStep
  BY <1>0, <1>1 DEF Setups, Pairing, OpenStep, PairingRead, SubscribeOverflow,
     ReadCredit, PairingDrop, StatusAbsent, StatusSubscribe, StatusWorks, StatusFails,
     Opened, setupVars
<1>2. CASE WriterStep
  BY <1>0, <1>2 DEF Setups, Pairing, WriterStep, Accept, Park, Refuse, setupVars
<1>3. CASE SenderStep
  BY <1>0, <1>3 DEF Setups, Pairing, SenderStep, SenderExit, SenderIdle, SenderHold,
     SenderStarve, SenderStart, CycleOver, CycleLinger, CycleSend, EndCycle, setupVars
<1>4. CASE TimerStep
  BY <1>0, <1>4 DEF Setups, Pairing, TimerStep, SessionPoll, BudgetPoll, LingerOver,
     EndCycle, Down, setupVars
<1>5. CASE WriteAck \/ WriteTimeout
  BY <1>0, <1>5 DEF Setups, Pairing, WriteAck, WriteTimeout, setupVars
<1>6. CASE WriteFail \/ Close \/ AbortPairing
  BY <1>0, <1>6 DEF Setups, Pairing, WriteFail, Close, AbortPairing, Down, setupVars
<1>7. CASE DeviceStep
  BY <1>0, <1>7 DEF Setups, Pairing, DeviceStep, Land, FwGrant, FwActivate, FwDeactivate,
     CreditArrives, ActiveArrives, InactiveArrives, Down, setupVars
<1> QED
  BY <1>1, <1>2, <1>3, <1>4, <1>5, <1>6, <1>7 DEF Next, WriteStep

\* The switches.
LEMMA SwitchTypes ==
  ASSUME TypeOK, MessageInv, StartInv, Next
  PROVE  (/\ active \in BOOLEAN /\ subscribed \in BOOLEAN /\ statusSubscribed \in BOOLEAN
          /\ available \in BOOLEAN /\ rpcActive \in BOOLEAN /\ fresh \in BOOLEAN)'
<1>0. /\ active \in BOOLEAN /\ subscribed \in BOOLEAN /\ statusSubscribed \in BOOLEAN
      /\ available \in BOOLEAN /\ rpcActive \in BOOLEAN /\ fresh \in BOOLEAN
  BY DEF TypeOK
<1>1. CASE OpenStep
  BY <1>0, <1>1 DEF OpenStep, PairingRead, SubscribeOverflow, ReadCredit, PairingDrop,
     StatusAbsent, StatusSubscribe, StatusWorks, StatusFails, Opened, setupVars, creditVars
<1>2. CASE WriterStep
  BY <1>0, <1>2 DEF WriterStep, Accept, Park, Refuse, setupVars, creditVars
<1>3. CASE SenderStep
  BY <1>0, <1>3 DEF SenderStep, SenderExit, SenderIdle, SenderHold, SenderStarve,
     SenderStart, CycleOver, CycleLinger, CycleSend, EndCycle, setupVars, creditVars
<1>4. CASE TimerStep
  BY <1>0, <1>4 DEF TimerStep, SessionPoll, BudgetPoll, LingerOver, EndCycle, Down,
     setupVars, creditVars
<1>5. CASE WriteAck \/ WriteTimeout
  BY <1>0, <1>5 DEF WriteAck, WriteTimeout, setupVars, creditVars
<1>6. CASE WriteFail \/ Close \/ AbortPairing
  BY <1>0, <1>6 DEF WriteFail, Close, AbortPairing, Down, setupVars, creditVars
<1>7. CASE DeviceStep
  BY <1>0, <1>7 DEF DeviceStep, Land, FwGrant, FwActivate, FwDeactivate, CreditArrives,
     ActiveArrives, InactiveArrives, Down, setupVars, creditVars
<1> QED
  BY <1>1, <1>2, <1>3, <1>4, <1>5, <1>6, <1>7 DEF Next, WriteStep

\* The credit.
LEMMA CreditTypes ==
  ASSUME TypeOK, MessageInv, StartInv, Next
  PROVE  (/\ budget \in 0 .. Credit /\ cycleRemaining \in 0 .. Credit
          /\ fwCredit \in 0 .. Credit /\ stored \in 0 .. Credit)'
<1>0. /\ budget \in 0 .. Credit /\ cycleRemaining \in 0 .. Credit
      /\ fwCredit \in 0 .. Credit /\ stored \in 0 .. Credit
  BY DEF TypeOK
<1>1. CASE OpenStep
  BY <1>0, <1>1, Credits DEF OpenStep, PairingRead, SubscribeOverflow, ReadCredit,
     PairingDrop, StatusAbsent, StatusSubscribe, StatusWorks, StatusFails, Opened,
     creditVars, messageVars, fwVars
<1>2. CASE Accept
  BY <1>0, <1>2, Accepting DEF creditVars, messageVars, fwVars
<1>3. CASE Park \/ Refuse
  BY <1>0, <1>3, Credits DEF Park, Refuse, creditVars, messageVars, fwVars
<1>4. CASE SenderStep
  BY <1>0, <1>4, Credits DEF SenderStep, SenderExit, SenderIdle, SenderHold,
     SenderStarve, SenderStart, CycleOver, CycleLinger, CycleSend, EndCycle, Spent,
     creditVars, messageVars, fwVars
<1>5. CASE TimerStep
  BY <1>0, <1>5, Credits DEF TimerStep, SessionPoll, BudgetPoll, LingerOver, EndCycle,
     Down, creditVars, messageVars, fwVars
<1>6. CASE WriteAck \/ WriteTimeout
  <2>1. ChunkOut
    BY <1>6, EndOfChunk
  <2> QED
    BY <1>0, <2>1, Credits DEF ChunkOut, MessageInv, creditVars, fwVars
<1>7. CASE WriteFail \/ Close \/ AbortPairing
  BY <1>0, <1>7, Credits DEF WriteFail, Close, AbortPairing, Down, creditVars,
     messageVars, fwVars
<1>8. CASE Land
  BY <1>0, <1>8, Credits, ChunkSize DEF Land, creditVars, messageVars, fwVars
<1>9. CASE FwGrant \/ FwActivate \/ FwDeactivate
  BY <1>0, <1>9, Credits DEF FwGrant, FwActivate, FwDeactivate, creditVars, messageVars,
     fwVars
<1>10. CASE CreditArrives \/ ActiveArrives \/ InactiveArrives
  BY <1>0, <1>10, Credits DEF CreditArrives, ActiveArrives, InactiveArrives, Arrives,
     Down, creditVars, messageVars, fwVars
<1> QED
  BY <1>1, <1>2, <1>3, <1>4, <1>5, <1>6, <1>7, <1>8, <1>9, <1>10 DEF Next, WriterStep,
     WriteStep, DeviceStep

\* The queue.
LEMMA QueueTypes ==
  ASSUME TypeOK, MessageInv, StartInv, Next
  PROVE  (taken \in Nat /\ head \in 0 .. taken /\ txQueuedBytes \in Nat)'
<1>0. taken \in Nat /\ head \in 0 .. taken /\ txQueuedBytes \in Nat
  BY DEF TypeOK
<1>1. CASE OpenStep
  BY <1>0, <1>1 DEF OpenStep, PairingRead, SubscribeOverflow, ReadCredit, PairingDrop,
     StatusAbsent, StatusSubscribe, StatusWorks, StatusFails, Opened, queueVars
<1>2. CASE Accept
  BY <1>0, <1>2, Quantities, Accepting
<1>3. CASE Park \/ Refuse
  BY <1>0, <1>3 DEF Park, Refuse, queueVars
<1>4. CASE SenderStep
  BY <1>0, <1>4 DEF SenderStep, SenderExit, SenderIdle, SenderHold, SenderStarve,
     SenderStart, CycleOver, CycleLinger, CycleSend, EndCycle, queueVars
<1>5. CASE TimerStep
  BY <1>0, <1>5 DEF TimerStep, SessionPoll, BudgetPoll, LingerOver, EndCycle, Down,
     queueVars
<1>6. CASE WriteAck \/ WriteTimeout
  <2>1. ChunkOut
    BY <1>6, EndOfChunk
  <2> QED
    BY <1>0, <2>1, Quantities DEF ChunkOut, ReleasedBytes, Least
<1>7. CASE WriteFail \/ Close \/ AbortPairing
  BY <1>0, <1>7 DEF WriteFail, Close, AbortPairing, Down, queueVars
<1>8. CASE DeviceStep
  BY <1>0, <1>8 DEF DeviceStep, Land, FwGrant, FwActivate, FwDeactivate, CreditArrives,
     ActiveArrives, InactiveArrives, Down, queueVars
<1> QED
  BY <1>1, <1>2, <1>3, <1>4, <1>5, <1>6, <1>7, <1>8 DEF Next, WriterStep, WriteStep

\* Its writer.
LEMMA WriterTypes ==
  ASSUME TypeOK, MessageInv, StartInv, Next
  PROVE  (/\ next \in 1 .. Len(Frames) + 1
          /\ wpc \in {"idle", "parked", "retry", "failed"})'
<1>0. /\ next \in 1 .. Len(Frames) + 1
      /\ wpc \in {"idle", "parked", "retry", "failed"}
  BY DEF TypeOK
<1>1. CASE OpenStep
  BY <1>0, <1>1, FrameCount DEF OpenStep, PairingRead, SubscribeOverflow, ReadCredit,
     PairingDrop, StatusAbsent, StatusSubscribe, StatusWorks, StatusFails, Opened,
     writerVars
<1>2. CASE WriterStep
  BY <1>0, <1>2, FrameCount DEF WriterStep, Accept, Park, Refuse, Arriving, writerVars
<1>3. CASE SenderStep
  BY <1>0, <1>3, FrameCount DEF SenderStep, SenderExit, SenderIdle, SenderHold,
     SenderStarve, SenderStart, CycleOver, CycleLinger, CycleSend, EndCycle, writerVars
<1>4. CASE TimerStep
  BY <1>0, <1>4, FrameCount DEF TimerStep, SessionPoll, BudgetPoll, LingerOver, EndCycle,
     Down, WriterWoken, writerVars
<1>5. CASE WriteAck \/ WriteTimeout
  BY <1>0, <1>5, FrameCount DEF WriteAck, WriteTimeout, GoOn, MessageDone, NextChunk,
     WriterWoken, writerVars
<1>6. CASE WriteFail \/ Close \/ AbortPairing
  BY <1>0, <1>6, FrameCount DEF WriteFail, Close, AbortPairing, Down, WriterWoken,
     writerVars
<1>7. CASE DeviceStep
  BY <1>0, <1>7, FrameCount DEF DeviceStep, Land, FwGrant, FwActivate, FwDeactivate,
     CreditArrives, ActiveArrives, InactiveArrives, Down, WriterWoken, writerVars
<1> QED
  BY <1>1, <1>2, <1>3, <1>4, <1>5, <1>6, <1>7 DEF Next, WriteStep

\* The sender and its message.
LEMMA SenderTypes ==
  ASSUME TypeOK, MessageInv, StartInv, Next
  PROVE  (/\ spc \in SenderPc
          /\ base \in Nat /\ length \in 0 .. Credit /\ offset \in 0 .. length
          /\ air \in {"none", "sent", "landed"})'
<1>0. /\ spc \in SenderPc
      /\ base \in Nat /\ length \in 0 .. Credit /\ offset \in 0 .. length
      /\ air \in {"none", "sent", "landed"}
  BY DEF TypeOK
<1>1. CASE OpenStep
  BY <1>0, <1>1 DEF SenderPc, OpenStep, PairingRead, SubscribeOverflow, ReadCredit,
     PairingDrop, StatusAbsent, StatusSubscribe, StatusWorks, StatusFails, Opened,
     messageVars
<1>2. CASE Accept
  BY <1>0, <1>2, Accepting, Signalling DEF messageVars, SenderPc
<1>3. CASE Park \/ Refuse
  BY <1>0, <1>3 DEF SenderPc, Park, Refuse, messageVars
<1>4. CASE SenderStep
  BY <1>0, <1>4, Quantities, Credits DEF SenderPc, SenderStep, SenderExit, SenderIdle,
     SenderHold, SenderStarve, SenderStart, CycleOver, CycleLinger, CycleSend, EndCycle,
     Least, messageVars
<1>5. CASE TimerStep
  BY <1>0, <1>5, Releasing DEF SenderPc, TimerStep, SessionPoll, BudgetPoll, LingerOver,
     EndCycle, Down, messageVars
<1>6. CASE WriteAck \/ WriteTimeout
  <2>1. ChunkOut
    BY <1>6, EndOfChunk
  <2> QED
    BY <1>0, <2>1, ChunkSize DEF ChunkOut, SenderPc
<1>7. CASE WriteFail \/ Close \/ AbortPairing
  BY <1>0, <1>7, Releasing DEF SenderPc, WriteFail, Close, AbortPairing, Down, messageVars
<1>8. CASE Land
  BY <1>0, <1>8 DEF SenderPc, Land, messageVars
<1>9. CASE FwGrant \/ FwActivate \/ FwDeactivate
  BY <1>0, <1>9 DEF SenderPc, FwGrant, FwActivate, FwDeactivate, messageVars
<1>10. CASE CreditArrives \/ ActiveArrives \/ InactiveArrives
  BY <1>0, <1>10, Releasing DEF SenderPc, CreditArrives, ActiveArrives, InactiveArrives,
     Arrives, Down, messageVars
<1> QED
  BY <1>1, <1>2, <1>3, <1>4, <1>5, <1>6, <1>7, <1>8, <1>9, <1>10 DEF Next, WriterStep,
     WriteStep, DeviceStep

\* Its counters.
LEMMA CounterTypes ==
  ASSUME TypeOK, MessageInv, StartInv, Next
  PROVE  (/\ streak \in 0 .. StreakLimit - 1
          /\ sessionPolls \in 0 .. StallLimit - 1 /\ budgetPolls \in 0 .. StallLimit - 1)'
<1>0. /\ streak \in 0 .. StreakLimit - 1
      /\ sessionPolls \in 0 .. StallLimit - 1 /\ budgetPolls \in 0 .. StallLimit - 1
  BY DEF TypeOK
<1>1. CASE OpenStep
  BY <1>0, <1>1, Limits DEF OpenStep, PairingRead, SubscribeOverflow, ReadCredit,
     PairingDrop, StatusAbsent, StatusSubscribe, StatusWorks, StatusFails, Opened,
     messageVars, pollVars
<1>2. CASE WriterStep
  BY <1>0, <1>2, Limits DEF WriterStep, Accept, Park, Refuse, messageVars, pollVars
<1>3. CASE SenderStep
  BY <1>0, <1>3, Limits DEF SenderStep, SenderExit, SenderIdle, SenderHold, SenderStarve,
     SenderStart, CycleOver, CycleLinger, CycleSend, EndCycle, messageVars, pollVars
<1>4. CASE TimerStep
  BY <1>0, <1>4, Limits DEF TimerStep, SessionPoll, BudgetPoll, LingerOver, EndCycle,
     Down, Stalled, messageVars, pollVars
<1>5. CASE WriteAck \/ WriteTimeout
  BY <1>0, <1>5, Limits DEF WriteAck, WriteTimeout, GoOn, MessageDone, NextChunk,
     messageVars, pollVars
<1>6. CASE WriteFail \/ Close \/ AbortPairing
  BY <1>0, <1>6, Limits DEF WriteFail, Close, AbortPairing, Down, messageVars, pollVars
<1>7. CASE DeviceStep
  BY <1>0, <1>7, Limits DEF DeviceStep, Land, FwGrant, FwActivate, FwDeactivate,
     CreditArrives, ActiveArrives, InactiveArrives, Down, messageVars, pollVars
<1> QED
  BY <1>1, <1>2, <1>3, <1>4, <1>5, <1>6, <1>7 DEF Next, WriteStep

\* The device.
LEMMA DeviceTypes ==
  ASSUME TypeOK, MessageInv, StartInv, Next
  PROVE  (/\ fw \in {"fresh", "granted", "active", "inactive"}
          /\ notes \in Seq({"credit", "active", "inactive"})
          /\ received \in Nat)'
<1>0. /\ fw \in {"fresh", "granted", "active", "inactive"}
      /\ notes \in Seq({"credit", "active", "inactive"})
      /\ received \in Nat
  BY DEF TypeOK
<1>1. CASE PairingRead \/ SubscribeOverflow \/ ReadCredit \/ PairingDrop
  <2>1. <<>> \in Seq({"credit", "active", "inactive"})
    OBVIOUS
  <2>2. notes' = notes \/ notes' = <<>>
    BY <1>1 DEF PairingRead, SubscribeOverflow, ReadCredit, PairingDrop
  <2>3. received' = received /\ (fw' = fw \/ fw' = "fresh")
    BY <1>1 DEF PairingRead, SubscribeOverflow, ReadCredit, PairingDrop, fwVars
  <2> QED
    BY <1>0, <2>1, <2>2, <2>3
<1>2. CASE StatusAbsent \/ StatusSubscribe \/ StatusWorks \/ StatusFails \/ Opened
  BY <1>0, <1>2 DEF StatusAbsent, StatusSubscribe, StatusWorks, StatusFails, Opened, fwVars
<1>3. CASE Accept
  BY <1>0, <1>3, Accepting DEF fwVars
<1>4. CASE Park \/ Refuse
  BY <1>0, <1>4 DEF Park, Refuse, fwVars
<1>5. CASE SenderStep
  BY <1>0, <1>5 DEF SenderStep, SenderExit, SenderIdle, SenderHold, SenderStarve,
     SenderStart, CycleOver, CycleLinger, CycleSend, EndCycle, fwVars
<1>6. CASE TimerStep
  BY <1>0, <1>6 DEF TimerStep, SessionPoll, BudgetPoll, LingerOver, EndCycle, Down, fwVars
<1>7. CASE WriteAck \/ WriteTimeout
  BY <1>0, <1>7 DEF WriteAck, WriteTimeout, fwVars
<1>8. CASE WriteFail \/ Close \/ AbortPairing
  BY <1>0, <1>8 DEF WriteFail, Close, AbortPairing, Down, fwVars
<1>9. CASE Land
  BY <1>0, <1>9, ChunkSize, Quantities DEF Land, fwVars
<1>10. CASE FwGrant \/ FwActivate \/ FwDeactivate
  BY <1>0, <1>10, NotedHere DEF FwGrant, FwActivate, FwDeactivate, fwVars
<1>11. CASE CreditArrives \/ ActiveArrives \/ InactiveArrives
  BY <1>0, <1>11, TailTypes DEF CreditArrives, ActiveArrives, InactiveArrives, Arrives,
     Down, fwVars
<1> QED
  BY <1>1, <1>2, <1>3, <1>4, <1>5, <1>6, <1>7, <1>8, <1>9, <1>10, <1>11 DEF Next,
     OpenStep, WriterStep, WriteStep, DeviceStep

LEMMA TypeStep ==
  ASSUME TypeOK, MessageInv, StartInv, Next
  PROVE  TypeOK'
  BY SetupTypes, SwitchTypes, CreditTypes, QueueTypes, WriterTypes, SenderTypes,
     CounterTypes,
     DeviceTypes DEF TypeOK

-----------------------------------------------------------------------------
(* The message in hand, the window, the bytes that arrive, the set-up.      *)

LEMMA MessageStep ==
  ASSUME TypeOK, MessageInv, StartInv, Next
  PROVE  MessageInv'
<1>1. CASE OpenStep
  BY <1>1, Quantities DEF MessageInv, OpenStep, PairingRead, SubscribeOverflow,
     ReadCredit, PairingDrop, StatusAbsent, StatusSubscribe, StatusWorks, StatusFails,
     Opened, StartInv, Setup, queueVars, messageVars
<1>2. CASE Accept
  BY <1>2, Quantities, Accepting, Signalling DEF MessageInv, messageVars
<1>3. CASE Park \/ Refuse
  BY <1>3, Quantities DEF MessageInv, Park, Refuse, queueVars, messageVars
<1>4. CASE SenderStep
  BY <1>4, Quantities DEF MessageInv, SenderStep, SenderExit, SenderIdle, SenderHold,
     SenderStarve, SenderStart, CycleOver, CycleLinger, CycleSend, EndCycle, Least,
     queueVars, messageVars
<1>5. CASE TimerStep
  BY <1>5, Quantities, Releasing DEF MessageInv, TimerStep, SessionPoll, BudgetPoll,
     LingerOver, EndCycle, Down, queueVars, messageVars
<1>6. CASE WriteAck \/ WriteTimeout
  <2>1. ChunkOut
    BY <1>6, EndOfChunk
  <2>2. CASE offset + Chunk = length
    BY <2>1, <2>2, Quantities DEF MessageInv, ChunkOut
  <2>3. CASE offset + Chunk # length
    BY <2>1, <2>3, Quantities, ChunkSize DEF MessageInv, ChunkOut
  <2> QED
    BY <2>2, <2>3
<1>7. CASE WriteFail \/ Close \/ AbortPairing
  BY <1>7, Quantities, Releasing DEF MessageInv, WriteFail, Close, AbortPairing, Down,
     queueVars, messageVars
<1>8. CASE Land
  BY <1>8, Quantities DEF MessageInv, Land, queueVars, messageVars
<1>9. CASE FwGrant \/ FwActivate \/ FwDeactivate
  BY <1>9, Quantities DEF MessageInv, FwGrant, FwActivate, FwDeactivate, queueVars,
     messageVars
<1>10. CASE CreditArrives \/ ActiveArrives \/ InactiveArrives
  BY <1>10, Quantities, Releasing DEF MessageInv, CreditArrives, ActiveArrives,
     InactiveArrives, Arrives, Down, queueVars, messageVars
<1> QED
  BY <1>1, <1>2, <1>3, <1>4, <1>5, <1>6, <1>7, <1>8, <1>9, <1>10 DEF Next, WriterStep,
     WriteStep, DeviceStep

LEMMA WindowStep ==
  ASSUME TypeOK, MessageInv, WindowAccounts, Next
  PROVE  WindowAccounts'
<1>1. CASE OpenStep
  BY <1>1 DEF WindowAccounts, OpenStep, PairingRead, SubscribeOverflow, ReadCredit,
     PairingDrop, StatusAbsent, StatusSubscribe, StatusWorks, StatusFails, Opened, queueVars
<1>2. CASE Accept
  BY <1>2, Quantities, Accepting DEF WindowAccounts
<1>3. CASE Park \/ Refuse
  BY <1>3 DEF WindowAccounts, Park, Refuse, queueVars
<1>4. CASE SenderStep
  BY <1>4 DEF WindowAccounts, SenderStep, SenderExit, SenderIdle, SenderHold,
     SenderStarve, SenderStart, CycleOver, CycleLinger, CycleSend, EndCycle, queueVars
<1>5. CASE TimerStep
  BY <1>5 DEF WindowAccounts, TimerStep, SessionPoll, BudgetPoll, LingerOver, EndCycle,
     Down, queueVars
<1>6. CASE WriteAck \/ WriteTimeout
  <2>1. ChunkOut
    BY <1>6, EndOfChunk
  <2> QED
    BY <2>1, Quantities DEF MessageInv, WindowAccounts, ChunkOut, ReleasedBytes, Least
<1>7. CASE WriteFail \/ Close \/ AbortPairing
  BY <1>7 DEF WindowAccounts, WriteFail, Close, AbortPairing, Down, queueVars
<1>8. CASE DeviceStep
  BY <1>8 DEF WindowAccounts, DeviceStep, Land, FwGrant, FwActivate, FwDeactivate,
     CreditArrives, ActiveArrives, InactiveArrives, Down, queueVars
<1> QED
  BY <1>1, <1>2, <1>3, <1>4, <1>5, <1>6, <1>7, <1>8 DEF Next, WriterStep, WriteStep

LEMMA ArrivalStep ==
  ASSUME TypeOK, MessageInv, StartInv, ArrivalInv, Next
  PROVE  ArrivalInv'
<1>1. CASE OpenStep
  BY <1>1, Quantities DEF MessageInv, ArrivalInv, Chunk, OpenStep, PairingRead,
     SubscribeOverflow, ReadCredit, PairingDrop, StatusAbsent, StatusSubscribe,
     StatusWorks, StatusFails, Opened, StartInv, Setup, queueVars, messageVars, fwVars
<1>2. CASE Accept
  BY <1>2, Quantities, Accepting, Signalling DEF MessageInv, ArrivalInv, Chunk,
     messageVars, fwVars
<1>3. CASE Park \/ Refuse
  BY <1>3, Quantities DEF MessageInv, ArrivalInv, Chunk, Park, Refuse, queueVars,
     messageVars, fwVars
<1>4. CASE SenderStep
  BY <1>4, Quantities DEF MessageInv, ArrivalInv, Chunk, SenderStep, SenderExit,
     SenderIdle, SenderHold, SenderStarve, SenderStart, CycleOver, CycleLinger,
     CycleSend, EndCycle, queueVars, messageVars, fwVars
<1>5. CASE TimerStep
  BY <1>5, Quantities, Releasing DEF MessageInv, ArrivalInv, Chunk, TimerStep,
     SessionPoll, BudgetPoll, LingerOver, EndCycle, Down, queueVars, messageVars, fwVars
<1>6. CASE WriteAck \/ WriteTimeout
  <2>1. ChunkOut
    BY <1>6, EndOfChunk
  <2>2. CASE offset + Chunk = length
    BY <2>1, <2>2, Quantities, ChunkSize DEF MessageInv, ArrivalInv, ChunkOut, Least, fwVars
  <2>3. CASE offset + Chunk # length
    BY <2>1, <2>3, Quantities, ChunkSize DEF MessageInv, ArrivalInv, ChunkOut, fwVars
  <2> QED
    BY <2>2, <2>3
<1>7. CASE WriteFail \/ Close \/ AbortPairing
  BY <1>7, Quantities, Releasing DEF MessageInv, ArrivalInv, Chunk, WriteFail, Close,
     AbortPairing, Down, queueVars, messageVars, fwVars
<1>8. CASE Land
  BY <1>8, Quantities, ChunkSize DEF MessageInv, ArrivalInv, Chunk, Land, queueVars,
     messageVars, fwVars
<1>9. CASE FwGrant \/ FwActivate \/ FwDeactivate
  BY <1>9, Quantities DEF MessageInv, ArrivalInv, Chunk, FwGrant, FwActivate,
     FwDeactivate, queueVars, messageVars, fwVars
<1>10. CASE CreditArrives \/ ActiveArrives \/ InactiveArrives
  BY <1>10, Quantities, Releasing DEF MessageInv, ArrivalInv, Chunk, CreditArrives,
     ActiveArrives, InactiveArrives, Arrives, Down, queueVars, messageVars, fwVars
<1> QED
  BY <1>1, <1>2, <1>3, <1>4, <1>5, <1>6, <1>7, <1>8, <1>9, <1>10 DEF Next, WriterStep,
     WriteStep, DeviceStep

LEMMA StartStep ==
  ASSUME TypeOK, MessageInv, StartInv, Next
  PROVE  StartInv'
<1>1. CASE PairingRead \/ SubscribeOverflow \/ ReadCredit \/ PairingDrop
  BY <1>1 DEF StartInv, PairingRead, SubscribeOverflow, ReadCredit, PairingDrop, Setup,
     Pairing, setupVars, fwVars
<1>2. CASE StatusAbsent \/ StatusSubscribe \/ StatusWorks \/ StatusFails \/ Opened
  <2>1. rpcActive' => rpcActive \/ fw = "active"
    BY <1>2, Zenon DEF StatusAbsent, StatusSubscribe, StatusWorks, StatusFails, Opened
  <2> QED
    BY <1>2, <2>1 DEF StartInv, StatusAbsent, StatusSubscribe, StatusWorks, StatusFails,
       Opened, Setup, fwVars
<1>3. CASE Accept
  BY <1>3, Accepting, Signalling DEF StartInv, setupVars, fwVars
<1>4. CASE Park \/ Refuse
  BY <1>4 DEF StartInv, Park, Refuse, setupVars, fwVars
<1>5. CASE SenderStep
  BY <1>5 DEF StartInv, SenderStep, SenderExit, SenderIdle, SenderHold, SenderStarve,
     SenderStart, CycleOver, CycleLinger, CycleSend, EndCycle, setupVars, fwVars
<1>6. CASE TimerStep
  BY <1>6, Releasing DEF StartInv, TimerStep, SessionPoll, BudgetPoll, LingerOver,
     EndCycle, Down, setupVars, fwVars
<1>7. CASE WriteAck \/ WriteTimeout
  <2>1. ChunkOut
    BY <1>7, EndOfChunk
  <2> QED
    BY <2>1 DEF StartInv, ChunkOut, setupVars, fwVars
<1>8. CASE WriteFail \/ Close \/ AbortPairing
  BY <1>8, Releasing DEF StartInv, WriteFail, Close, AbortPairing, Down, setupVars, fwVars
<1>9. CASE Land
  BY <1>9 DEF StartInv, Land, MessageInv, setupVars, fwVars
<1>10. CASE FwGrant \/ FwActivate \/ FwDeactivate
  BY <1>10 DEF StartInv, FwGrant, FwActivate, FwDeactivate, setupVars, fwVars
<1>11. CASE CreditArrives \/ ActiveArrives \/ InactiveArrives
  BY <1>11, Releasing DEF StartInv, CreditArrives, ActiveArrives, InactiveArrives,
     Arrives, Down, setupVars, fwVars
<1> QED
  BY <1>1, <1>2, <1>3, <1>4, <1>5, <1>6, <1>7, <1>8, <1>9, <1>10, <1>11 DEF Next,
     OpenStep, WriterStep, WriteStep, DeviceStep

-----------------------------------------------------------------------------
(* The credit.                                                             *)

\* The steps after which the sender has no more to spend than before.
Quiet == \/ SubscribeOverflow \/ StatusAbsent \/ StatusSubscribe \/ StatusFails \/ Opened
         \/ WriterStep \/ SenderExit \/ SenderIdle \/ SenderHold \/ SenderStarve
         \/ CycleOver \/ CycleLinger \/ CycleSend \/ TimerStep \/ WriteStep
         \/ Close \/ AbortPairing

\* Only the session's answer makes TX gated, and only it or a notification
\* lets the gate open.
LEMMA GateSteps ==
  ASSUME Quiet \/ SenderStart \/ Land \/ FwGrant \/ FwActivate \/ FwDeactivate
         \/ CreditArrives \/ InactiveArrives
  PROVE  (available' => available) /\ (rpcActive' => rpcActive)
<1>1. CASE SubscribeOverflow \/ StatusAbsent \/ StatusSubscribe \/ StatusFails \/ Opened
  BY <1>1 DEF SubscribeOverflow, StatusAbsent, StatusSubscribe, StatusFails, Opened
<1>2. CASE WriterStep
  BY <1>2 DEF WriterStep, Accept, Park, Refuse, setupVars
<1>3. CASE SenderStep
  BY <1>3 DEF SenderStep, SenderExit, SenderIdle, SenderHold, SenderStarve, SenderStart,
     CycleOver, CycleLinger, CycleSend, EndCycle, setupVars
<1>4. CASE TimerStep
  BY <1>4 DEF TimerStep, SessionPoll, BudgetPoll, LingerOver, EndCycle, Down, setupVars
<1>5. CASE WriteAck \/ WriteTimeout
  BY <1>5 DEF WriteAck, WriteTimeout, setupVars
<1>6. CASE WriteFail \/ Close \/ AbortPairing
  BY <1>6 DEF WriteFail, Close, AbortPairing, Down, setupVars
<1>7. CASE Land \/ FwGrant \/ FwActivate \/ FwDeactivate \/ CreditArrives \/ InactiveArrives
  BY <1>7 DEF Land, FwGrant, FwActivate, FwDeactivate, CreditArrives, InactiveArrives, Down,
     setupVars
<1> QED
  BY <1>1, <1>2, <1>3, <1>4, <1>5, <1>6, <1>7 DEF Quiet, SenderStep, WriteStep

LEMMA Lessening ==
  ASSUME NEW b \in Nat, NEW c \in Nat, NEW u \in Nat, NEW v \in Nat, NEW limit \in Nat,
         v <= u, c + v <= b + u
  PROVE  /\ u = 0 => v = 0 /\ c <= b
         /\ b + u <= limit => c + v <= limit
  OBVIOUS

\* A step that announces nothing and leaves the sender no more to spend.
LEMMA NoMoreToSpend ==
  ASSUME CreditInv, available' => available, rpcActive' => rpcActive,
         UNCHANGED <<notes, fw, fwCredit>>,
         budget \in Nat, budget' \in Nat, Unspent \in Nat, Unspent' \in Nat, fwCredit \in
         Nat,
         Unspent' <= Unspent, budget' + Unspent' <= budget + Unspent
  PROVE  CreditInv'
<1>1. CASE ~available
  BY <1>1 DEF CreditInv
<1>2. CASE available
  <2>1. Announced' <=> Announced
    BY DEF Announced
  <2>2. Announced => Unspent' = 0 /\ budget' <= budget
    <3>1. Announced => Unspent = 0
      BY <1>2, Zenon DEF CreditInv
    <3>2. Unspent = 0 => Unspent' = 0 /\ budget' <= budget
      BY Lessening
    <3> QED
      BY <3>1, <3>2
  <2>3. NoteInv'
    BY <1>2, <2>2 DEF CreditInv, NoteInv, Announced
  <2>4. fw' = "fresh" => Unspent' = 0
    BY <1>2 DEF CreditInv
  <2>5. fw' # "fresh" => budget' + Unspent' <= fwCredit'
    <3>1. fw' # "fresh" => budget + Unspent <= fwCredit'
      BY <1>2 DEF CreditInv
    <3>2. fwCredit' \in Nat
      OBVIOUS
    <3>3. budget + Unspent <= fwCredit' => budget' + Unspent' <= fwCredit'
      BY <3>2, Lessening
    <3> QED
      BY <3>1, <3>3
  <2> QED
    BY <1>2, <2>1, <2>2, <2>3, <2>4, <2>5 DEF CreditInv
<1> QED
  BY <1>1, <1>2

LEMMA UnspentSize ==
  ASSUME TypeOK, MessageInv
  PROVE  Unspent \in Nat /\ budget \in Nat /\ fwCredit \in Nat
  BY Credits, ChunkSize DEF MessageInv, Unspent

LEMMA QuietSpend ==
  ASSUME TypeOK, MessageInv, StartInv, Quiet
  PROVE  /\ Unspent' <= Unspent /\ budget' + Unspent' <= budget + Unspent
         /\ budget' \in Nat /\ Unspent' \in Nat
         /\ UNCHANGED <<notes, fw, fwCredit>>
<1> USE UnspentSize, Quantities, Credits
<1>1. CASE SubscribeOverflow \/ StatusAbsent \/ StatusSubscribe \/ StatusFails \/ Opened
  BY <1>1 DEF SubscribeOverflow, StatusAbsent, StatusSubscribe, StatusFails, Opened, Setup,
     StartInv, Unspent, Chunk, messageVars, creditVars, fwVars
<1>2. CASE Accept
  BY <1>2, Accepting, Signalling DEF Unspent, Chunk, messageVars, creditVars, fwVars
<1>3. CASE Park \/ Refuse
  BY <1>3 DEF Park, Refuse, Unspent, Chunk, messageVars, creditVars, fwVars
<1>4. CASE SenderExit \/ SenderIdle \/ SenderHold \/ SenderStarve \/ CycleLinger
  BY <1>4 DEF SenderExit, SenderIdle, SenderHold, SenderStarve, CycleLinger, Unspent, Chunk,
     messageVars, creditVars, fwVars
<1>5. CASE CycleSend
  BY <1>5 DEF CycleSend, Unspent, creditVars, fwVars
<1>6. CASE CycleOver \/ LingerOver
  BY <1>6 DEF CycleOver, LingerOver, EndCycle, Unspent, messageVars, fwVars
<1>7. CASE SessionPoll \/ BudgetPoll
  BY <1>7, Releasing DEF SessionPoll, BudgetPoll, Down, Unspent, creditVars, messageVars,
     fwVars
<1>8. CASE WriteAck \/ WriteTimeout
  <2>1. ChunkOut
    BY <1>8, EndOfChunk
  <2>2. CASE offset + Chunk = length
    BY <2>1, <2>2, ChunkSize DEF ChunkOut, MessageInv, Unspent, creditVars, fwVars
  <2>3. CASE offset + Chunk # length
    BY <2>1, <2>3, ChunkSize DEF ChunkOut, MessageInv, Unspent, creditVars, fwVars
  <2> QED
    BY <2>2, <2>3
<1>9. CASE WriteFail
  BY <1>9, Releasing DEF WriteFail, Down, Unspent, creditVars, fwVars
<1>10. CASE Close \/ AbortPairing
  <2>1. Chunk' = Chunk
    BY <1>10 DEF Close, AbortPairing, Chunk, messageVars
  <2> QED
    BY <1>10, <2>1, Releasing DEF Close, AbortPairing, Down, Unspent, SenderPc,
       creditVars, messageVars, fwVars
<1> QED
  BY <1>1, <1>2, <1>3, <1>4, <1>5, <1>6, <1>7, <1>8, <1>9, <1>10
     DEF Quiet, WriterStep, TimerStep, WriteStep

LEMMA QuietKept ==
  ASSUME TypeOK, MessageInv, StartInv, CreditInv, Quiet
  PROVE  CreditInv'
  BY GateSteps, QuietSpend, UnspentSize, NoMoreToSpend

\* The steps of the pairing come before TX is gated.
LEMMA PairingKept ==
  ASSUME StartInv, PairingRead \/ ReadCredit \/ PairingDrop
  PROVE  CreditInv'
<1>1. ~available
  BY DEF StartInv, PairingRead, ReadCredit, PairingDrop, Setup, Pairing
<1>2. available' => available
  BY DEF PairingRead, ReadCredit, PairingDrop
<1> QED
  BY <1>1, <1>2 DEF CreditInv

\* When TX becomes gated no notification is on its way: the credit is what the
\* firmware granted, or it has not granted any and has no session yet.
LEMMA GatedKept ==
  ASSUME TypeOK, StartInv, StatusWorks
  PROVE  CreditInv'
<1>1. /\ setup = "status" /\ notes' = <<>> /\ spc' = spc /\ budget' = budget
      /\ fw' = fw /\ fwCredit' = fwCredit
  BY DEF StatusWorks, Setup, creditVars, fwVars
<1>2. Unspent' = 0
  BY <1>1 DEF StartInv, Unspent
<1>3. ~Announced' /\ NoteInv'
  BY <1>1 DEF Announced, NoteInv
<1>4. fw' # "fresh" => budget' + Unspent' <= fwCredit'
  BY <1>1, <1>2, Credits DEF StartInv
<1> QED
  BY <1>2, <1>3, <1>4 DEF CreditInv

\* A cycle takes the credit over.  If more is on its way, TX is held back or
\* there is nothing to take.
LEMMA StartKept ==
  ASSUME TypeOK, MessageInv, StartInv, CreditInv, SenderStart
  PROVE  CreditInv'
<1>1. CASE ~available
  BY <1>1, GateSteps DEF CreditInv
<1>2. CASE available
  <2>1. /\ budget > 0 /\ budget' = 0 /\ spc = "top" /\ spc' = "cycle"
        /\ cycleRemaining' = budget
        /\ UNCHANGED <<notes, fw, fwCredit>>
    BY DEF SenderStart, Spent, fwVars
  <2>2. rpcActive
    BY <1>2 DEF SenderStart, Gated
  <2>3. Unspent = 0 /\ Unspent' = budget
    BY <2>1 DEF Unspent
  <2>4. fw # "fresh"
    BY <2>2 DEF StartInv
  <2>5. ~Announced
    BY <1>2, <2>1, <2>2 DEF CreditInv, NoteInv, Announced
  <2>6. ~Announced' /\ NoteInv'
    BY <2>1, <2>5 DEF Announced, NoteInv
  <2>7. budget' + Unspent' <= fwCredit'
    BY <1>2, <2>1, <2>3, <2>4, Credits DEF CreditInv
  <2> QED
    BY <2>1, <2>4, <2>6, <2>7 DEF CreditInv
<1> QED
  BY <1>1, <1>2

\* A chunk that lands takes as much from the firmware's credit as from the
\* sender's.
LEMMA LandKept ==
  ASSUME TypeOK, MessageInv, CreditInv, Land
  PROVE  CreditInv'
<1>1. CASE ~available
  BY <1>1, GateSteps DEF CreditInv
<1>2. CASE available
  <2>1. /\ air = "sent" /\ air' = "landed" /\ Chunk' = Chunk /\ budget' = budget
        /\ spc' = spc /\ cycleRemaining' = cycleRemaining /\ offset' = offset
        /\ UNCHANGED <<notes, fw>>
    BY DEF Land, Chunk, creditVars
  <2>2. spc = "write" /\ Chunk > 0 /\ Chunk \in Nat
    BY <2>1, ChunkSize DEF MessageInv
  <2>3. Unspent >= Chunk /\ Unspent' = Unspent - Chunk /\ Unspent \in Nat
    BY <2>1, <2>2, ChunkSize, Quantities DEF Unspent, MessageInv
  <2>4. fw # "fresh" /\ ~Announced
    BY <1>2, <2>2, <2>3 DEF CreditInv
  <2>5. budget + Unspent <= fwCredit
    BY <1>2, <2>4 DEF CreditInv
  <2>6. fwCredit' = fwCredit - Chunk
    BY <2>2, <2>3, <2>5, Credits DEF Land
  <2>7. budget' + Unspent' <= fwCredit'
    BY <2>1, <2>2, <2>3, <2>5, <2>6, Credits
  <2>8. ~Announced' /\ NoteInv'
    BY <2>1, <2>4 DEF Announced, NoteInv
  <2> QED
    BY <2>1, <2>4, <2>7, <2>8 DEF CreditInv
<1> QED
  BY <1>1, <1>2

\* The firmware grants only when what it granted before is spent, or before its
\* session, when TX is held back.
LEMMA GrantKept ==
  ASSUME TypeOK, MessageInv, StartInv, CreditInv, FwGrant
  PROVE  CreditInv'
<1>1. CASE ~available
  BY <1>1, GateSteps DEF CreditInv
<1>2. CASE available
  <2>1. /\ budget' = budget /\ Unspent' = Unspent /\ fw' # "fresh" /\ fwCredit' = Credit
        /\ notes' = Notified(subscribed, "credit")
    BY DEF FwGrant, Unspent, Chunk, creditVars, messageVars
  <2>2. CASE fw = "fresh"
    <3>1. Unspent = 0 /\ notes = <<>> /\ ~rpcActive
      BY <1>2, <2>2 DEF CreditInv, StartInv
    <3>2. ~rpcActive'
      BY <3>1, GateSteps
    <3>3. notes' = <<>> \/ notes' = <<"credit">>
      BY <2>1, <3>1 DEF Notified
    <3>4. NoteInv'
      BY <3>2, <3>3 DEF NoteInv
    <3> QED
      BY <2>1, <3>1, <3>4, Credits DEF CreditInv
  <2>3. CASE fw # "fresh"
    <3>1. fwCredit = 0
      BY <2>3 DEF FwGrant
    <3>2. budget = 0 /\ Unspent = 0
      <4>1. budget + Unspent <= fwCredit
        BY <1>2, <2>3 DEF CreditInv
      <4> QED
        BY <4>1, <3>1, UnspentSize
    <3>3. ~Announced
      <4>1. Announced => fwCredit = Credit
        BY <1>2, Zenon DEF CreditInv
      <4> QED
        BY <4>1, <3>1, Credits
    <3>4. NoteInv'
      <4>1. CASE subscribed
        <5>1. /\ Len(notes) \in Nat /\ Len(notes') = Len(notes) + 1
              /\ \A i \in 1 .. Len(notes) : notes'[i] = notes[i]
          BY <2>1, <4>1, NotesWith
        <5>2. \A i \in 1 .. Len(notes') : notes'[i] = "credit" => i = Len(notes) + 1
          BY <5>1, <3>3 DEF Announced
        <5> QED
          BY <2>1, <3>2, <5>2 DEF NoteInv
      <4>2. CASE ~subscribed
        BY <2>1, <3>3, <4>2 DEF Notified, NoteInv, Announced
      <4> QED
        BY <4>1, <4>2
    <3> QED
      BY <2>1, <3>2, <3>4, Credits DEF CreditInv
  <2> QED
    BY <2>2, <2>3
<1> QED
  BY <1>1, <1>2

\* What it says of its session is no credit.
LEMMA SessionNoteKept ==
  ASSUME TypeOK, CreditInv, FwActivate \/ FwDeactivate
  PROVE  CreditInv'
<1>1. CASE ~available
  BY <1>1, GateSteps DEF CreditInv
<1>2. CASE available
  <2>1. /\ budget' = budget /\ Unspent' = Unspent /\ fw # "fresh" /\ fw' # "fresh"
        /\ fwCredit' = fwCredit
    BY DEF FwActivate, FwDeactivate, Unspent, Chunk, creditVars, messageVars
  <2>2. \/ notes' = Notified(statusSubscribed, "active")
        \/ notes' = Notified(statusSubscribed, "inactive")
    BY DEF FwActivate, FwDeactivate
  <2>3. /\ \A i \in 1 .. Len(notes') : notes'[i] = "credit" =>
              i \in 1 .. Len(notes) /\ notes[i] = "credit"
    <3>1. CASE statusSubscribed
      <4>1. /\ Len(notes) \in Nat /\ Len(notes') = Len(notes) + 1
            /\ \A i \in 1 .. Len(notes) : notes'[i] = notes[i]
            /\ notes'[Len(notes) + 1] \in {"active", "inactive"}
        BY <2>2, <3>1, NotesWith
      <4> QED
        BY <4>1
    <3>2. CASE ~statusSubscribed
      BY <2>2, <3>2 DEF Notified
    <3> QED
      BY <3>1, <3>2
  <2>4. Announced' => Announced
    BY <2>3 DEF Announced
  <2>5. NoteInv'
    <3>1. NoteInv
      BY <1>2 DEF CreditInv
    <3>2. rpcActive' => rpcActive
      BY GateSteps
    <3> QED
      BY <2>1, <2>3, <3>1, <3>2 DEF NoteInv
  <2> QED
    BY <1>2, <2>1, <2>4, <2>5 DEF CreditInv
<1> QED
  BY <1>1, <1>2

\* A notification arrives: which are left, and where.
LEMMA NoteArrives ==
  ASSUME TypeOK, NEW note, Arrives(note)
  PROVE  /\ notes[1] = note /\ 1 \in 1 .. Len(notes)
         /\ \A i \in 1 .. Len(notes') : i \in Nat \ {0} /\ i + 1 \in 1 .. Len(notes)
                                        /\ notes'[i] = notes[i + 1]
  BY NotesAfter DEF Arrives

LEMMA CreditArrivesKept ==
  ASSUME TypeOK, MessageInv, StartInv, CreditInv, CreditArrives
  PROVE  CreditInv'
<1>1. CASE ~available
  BY <1>1, GateSteps DEF CreditInv
<1>2. CASE available
  <2>1. Arrives("credit") /\ budget' = Credit /\ fwCredit' = fwCredit /\ fw' = fw
    BY DEF CreditArrives, fwVars
  <2>2. Announced
    BY <2>1, NoteArrives DEF Announced
  <2>3. fwCredit = Credit /\ Unspent = 0
    BY <1>2, <2>2 DEF CreditInv
  <2>4. Unspent' = Unspent
    BY DEF CreditArrives, Unspent, Chunk, messageVars
  <2>5. ~Announced' /\ NoteInv'
    <3>1. NoteInv
      BY <1>2 DEF CreditInv
    <3>2. \A i \in 1 .. Len(notes') : notes'[i] # "credit"
      BY <2>1, <3>1, NoteArrives DEF NoteInv
    <3> QED
      BY <3>2 DEF Announced, NoteInv
  <2> QED
    BY <2>1, <2>3, <2>4, <2>5, Credits DEF CreditInv
<1> QED
  BY <1>1, <1>2

LEMMA SessionArrivesKept ==
  ASSUME TypeOK, MessageInv, StartInv, CreditInv, ActiveArrives \/ InactiveArrives
  PROVE  CreditInv'
<1>1. available' => available
  BY DEF ActiveArrives, InactiveArrives, Down, setupVars
<1>2. CASE ~available
  BY <1>1, <1>2 DEF CreditInv
<1>3. CASE available
  <2>1. /\ Arrives("active") \/ Arrives("inactive")
        /\ budget' = budget /\ fwCredit' = fwCredit /\ fw' = fw
    BY DEF ActiveArrives, InactiveArrives, fwVars, creditVars
  <2>2. Unspent' = Unspent
    <3>1. Chunk' = Chunk
      BY DEF ActiveArrives, InactiveArrives, Chunk, messageVars
    <3> QED
      BY <3>1, Releasing DEF ActiveArrives, InactiveArrives, Down, Unspent, SenderPc,
         messageVars
  <2>3. Announced' => Announced
    BY <2>1, NoteArrives DEF Announced
  <2>4. NoteInv'
    <3>1. NoteInv
      BY <1>3 DEF CreditInv
    <3>2. \A i \in 1 .. Len(notes') : notes'[i] = "credit" =>
             /\ budget' = 0
             /\ \A j \in 1 .. Len(notes') : notes'[j] = "credit" => i = j
      BY <2>1, <3>1, NoteArrives DEF NoteInv
    <3> QED
      BY <3>2 DEF NoteInv
  <2> QED
    BY <1>3, <2>1, <2>2, <2>3, <2>4 DEF CreditInv
<1> QED
  BY <1>2, <1>3

LEMMA CreditStep ==
  ASSUME TypeOK, MessageInv, StartInv, CreditInv, Next
  PROVE  CreditInv'
  BY QuietKept, PairingKept, GatedKept, StartKept, LandKept, GrantKept, SessionNoteKept,
     CreditArrivesKept, SessionArrivesKept
     DEF Next, OpenStep, SenderStep, DeviceStep, Quiet

-----------------------------------------------------------------------------
(* The invariant, and what follows.                                        *)

TxInv == TypeOK /\ MessageInv /\ StartInv

LEMMA TxInductive == Spec => []TxInv
<1>1. Init => TxInv
  <2>1. Init => MessageInv /\ StartInv
    BY DEF Init, MessageInv, StartInv
  <2>2. ASSUME Init
        PROVE  TypeOK
    <3>1. /\ Credit \in Nat \ {0} /\ StallLimit \in Nat \ {0} /\ StreakLimit \in Nat \ {0}
          /\ Len(Frames) \in Nat
      BY SizesAssumption
    <3>2. rpcStatus \in StatusModes /\ setup \in Setups
      BY <2>2 DEF Init, Setups, Pairing
    <3>3. /\ active \in BOOLEAN /\ subscribed \in BOOLEAN /\ statusSubscribed \in BOOLEAN
          /\ available \in BOOLEAN /\ rpcActive \in BOOLEAN /\ fresh \in BOOLEAN
      BY <2>2, Zenon DEF Init
    <3>4. /\ budget \in 0 .. Credit /\ cycleRemaining \in 0 .. Credit
          /\ fwCredit \in 0 .. Credit /\ stored \in 0 .. Credit
          /\ taken \in Nat /\ head \in 0 .. taken /\ txQueuedBytes \in Nat
          /\ next \in 1 .. Len(Frames) + 1
      BY <2>2, <3>1 DEF Init
    <3>5. /\ base \in Nat /\ length \in 0 .. Credit /\ offset \in 0 .. length
          /\ streak \in 0 .. StreakLimit - 1
          /\ sessionPolls \in 0 .. StallLimit - 1 /\ budgetPolls \in 0 .. StallLimit - 1
          /\ received \in Nat
      BY <2>2, <3>1 DEF Init
    <3>6. /\ wpc \in {"idle", "parked", "retry", "failed"} /\ spc \in SenderPc
          /\ air \in {"none", "sent", "landed"}
          /\ fw \in {"fresh", "granted", "active", "inactive"}
      BY <2>2 DEF Init, SenderPc
    <3>7. notes \in Seq({"credit", "active", "inactive"})
      <4>1. <<>> \in Seq({"credit", "active", "inactive"})
        OBVIOUS
      <4> QED
        BY <2>2, <4>1 DEF Init
    <3> QED
      BY <3>2, <3>3, <3>4, <3>5, <3>6, <3>7 DEF TypeOK
  <2> QED
    BY <2>1, <2>2 DEF TxInv
<1>2. TxInv /\ [Next]_vars => TxInv'
  <2>1. TxInv /\ Next => TxInv'
    BY TypeStep, MessageStep, StartStep DEF TxInv
  <2>2. TxInv /\ UNCHANGED vars => TxInv'
    BY DEF TxInv, TypeOK, MessageInv, StartInv, vars, setupVars, creditVars, queueVars,
       writerVars, messageVars, pollVars, fwVars
  <2> QED
    BY <2>1, <2>2
<1> QED
  BY <1>1, <1>2, PTL DEF Spec

\* TypeOK: every counter of the transmit path stays within its bounds, so the
\* credit of a cycle is never overspent, a message never outgrows it, and no
\* watchdog counts past its limit.
THEOREM TypeCorrect == Spec => []TypeOK
<1>1. TxInv => TypeOK
  BY DEF TxInv
<1> QED
  BY <1>1, TxInductive, PTL

\* WindowAccounts: while the transport lives _txQueuedBytes is the size of
\* _txQueue, whatever is accepted, sent, skipped or released in whichever order.
THEOREM WindowCorrect == Spec => []WindowAccounts
<1>1. Init => WindowAccounts
  BY DEF Init, WindowAccounts
<1>2. TxInv /\ WindowAccounts /\ [Next]_vars => WindowAccounts'
  <2>1. TxInv /\ WindowAccounts /\ Next => WindowAccounts'
    BY WindowStep DEF TxInv
  <2>2. WindowAccounts /\ UNCHANGED vars => WindowAccounts'
    BY DEF WindowAccounts, vars, queueVars
  <2> QED
    BY <2>1, <2>2
<1> QED
  BY <1>1, <1>2, TxInductive, PTL DEF Spec

\* InOrderOnce: a byte reaches the device after those accepted before it and
\* never twice, lost callbacks, skipped chunks and fresh credit notwithstanding.
THEOREM OrderCorrect == Spec => InOrderOnce
<1>1. Init => ArrivalInv
  BY DEF Init, ArrivalInv
<1>2. TxInv /\ ArrivalInv /\ [Next]_vars => ArrivalInv'
  <2>1. TxInv /\ ArrivalInv /\ Next => ArrivalInv'
    BY ArrivalStep DEF TxInv
  <2>2. ArrivalInv /\ UNCHANGED vars => ArrivalInv'
    BY DEF ArrivalInv, Chunk, vars, queueVars, messageVars, fwVars
  <2> QED
    BY <2>1, <2>2
<1>3. ArrivalInv => (Lands => received <= base + offset)
  BY DEF ArrivalInv, Lands
<1> QED
  BY <1>1, <1>2, <1>3, TxInductive, PTL DEF Spec, InOrderOnce

\* NeverOverruns: while rpcStatus gates TX no write carries more than the
\* firmware still accepts.
THEOREM CreditCorrect == Spec => NeverOverruns
<1>1. Init => CreditInv
  BY DEF Init, CreditInv
<1>2. TxInv /\ CreditInv /\ [Next]_vars => CreditInv'
  <2>1. TxInv /\ CreditInv /\ Next => CreditInv'
    BY CreditStep DEF TxInv
  <2>2. CreditInv /\ UNCHANGED vars => CreditInv'
    <3>1. UNCHANGED vars =>
             UNCHANGED <<available, rpcActive, budget, Unspent, fw, fwCredit, notes>>
      BY DEF vars, Unspent, Chunk, setupVars, creditVars, queueVars, writerVars,
         messageVars, pollVars, fwVars
    <3> QED
      BY <3>1 DEF CreditInv, NoteInv, Announced
  <2> QED
    BY <2>1, <2>2
<1>3. TxInv /\ CreditInv => (Lands /\ available => Chunk <= fwCredit)
  <2>1. ASSUME TxInv, CreditInv, air = "sent", available
        PROVE  Chunk <= fwCredit
    <3>1. TypeOK /\ MessageInv
      BY <2>1 DEF TxInv
    <3>2. spc = "write" /\ Chunk > 0 /\ Chunk \in Nat /\ Unspent >= Chunk
      BY <2>1, <3>1, ChunkSize, Quantities DEF MessageInv, Unspent
    <3>3. budget + Unspent <= fwCredit
      BY <2>1, <3>2 DEF CreditInv
    <3> QED
      BY <3>1, <3>2, <3>3, UnspentSize
  <2> QED
    BY <2>1 DEF Lands
<1> QED
  BY <1>1, <1>2, <1>3, TxInductive, PTL DEF Spec, NeverOverruns

=============================================================================
