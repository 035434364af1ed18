--------------------------- MODULE RpcSessionProofs ---------------------------
(***************************************************************************)
(* Theorems about RpcSession for every set of calls, every kind and        *)
(* priority of them, and every bound.                                      *)
(***************************************************************************)
EXTENDS RpcSession, TLAPS

USE CallsAssumption, BoundsAssumption

-----------------------------------------------------------------------------
(* What the helpers of the model return.                                   *)

LEMMA SignalledType ==
  ASSUME NEW w \in [Gens -> WorkerPc], NEW fires
  PROVE  Signalled(w, fires) \in [Gens -> WorkerPc]
  BY DEF Signalled, WorkerPc

LEMMA SettledType ==
  ASSUME TypeOK, NEW C, NEW how \in PendingStates
  PROVE  Settled(C, how) \in [Calls -> PendingStates]
  BY DEF Settled, TypeOK

LEMMA SentFailedType ==
  ASSUME TypeOK, NEW reqs
  PROVE  SentFailed(reqs) \in [Calls -> SentStates]
  BY DEF SentFailed, TypeOK, SentStates

LEMMA ReleasedType ==
  ASSUME TypeOK, NEW C
  PROVE  Released(C) \in Calls \cup {NoCall}
  BY DEF Released, TypeOK

LEMMA FailCallsTypes ==
  ASSUME TypeOK, NEW C, NEW how \in PendingStates, NEW unlocked,
         FailCalls(C, how, unlocked)
  PROVE  /\ pending' \in [Calls -> PendingStates]
         /\ requestQueue' \subseteq requestQueue
         /\ txGroup' \in Calls \cup {NoCall}
  BY SettledType, ReleasedType DEF FailCalls

\* A request enters the queue with a number above all those in it.
LEMMA EnqueueTypes ==
  ASSUME TypeOK, NEW c \in Calls, NEW more \in BOOLEAN, Enqueue(c, more)
  PROVE  /\ requestQueue' \subseteq Requests
         /\ requestSeq' \in Nat
         /\ \A r \in requestQueue' : r.seq < requestSeq'
         /\ wpc' \in [Gens -> WorkerPc]
<1> DEFINE new == [call |-> c, more |-> more, seq |-> requestSeq]
<1>1. /\ requestQueue' = requestQueue \cup {new}
      /\ requestSeq' = requestSeq + 1
      /\ wpc' = Signalled(wpc, TRUE)
  BY DEF Enqueue
<1>2. new \in Requests /\ requestSeq \in Nat
  BY DEF TypeOK, Requests
<1>3. \A r \in requestQueue : r.seq \in Nat /\ r.seq < requestSeq
  BY DEF TypeOK, Requests
<1>4. new.seq < requestSeq'
  BY <1>1, <1>2
<1>5. \A r \in requestQueue' : r.seq < requestSeq'
  BY <1>1, <1>2, <1>3, <1>4
<1>6. wpc' \in [Gens -> WorkerPc]
  BY <1>1, SignalledType DEF TypeOK
<1>7. requestQueue' \subseteq Requests
  BY <1>1, <1>2 DEF TypeOK
<1>8. requestSeq' \in Nat
  BY <1>1, <1>2
<1>9. QED
  BY <1>5, <1>6, <1>7, <1>8

LEMMA RegisterTypes ==
  ASSUME TypeOK, NEW c \in Calls, Register(c)
  PROVE  /\ pc' \in [Calls -> CallPc]
         /\ waitsFor' \in [Calls -> {0} \cup Gens]
         /\ pending' \in [Calls -> PendingStates]
         /\ sent' \in [Calls -> SentStates]
         /\ frames' \in [Calls -> 0 .. MaxFrames]
         /\ requestQueue' \subseteq Requests
         /\ requestSeq' \in Nat
         /\ \A r \in requestQueue' : r.seq < requestSeq'
         /\ wpc' \in [Gens -> WorkerPc]
<1>1. waitsFor' \in [Calls -> {0} \cup Gens]
  BY DEF Register, TypeOK
<1>2. CASE RegisterCall(c)
  <2>1. pc' \in [Calls -> CallPc]
    BY <1>2 DEF RegisterCall, TypeOK, CallPc
  <2>2. pending' \in [Calls -> PendingStates]
    BY <1>2 DEF RegisterCall, TypeOK, PendingStates
  <2>3. frames' \in [Calls -> 0 .. MaxFrames] /\ sent' \in [Calls -> SentStates]
    BY <1>2 DEF RegisterCall, TypeOK
  <2>4. Enqueue(c, FALSE)
    BY <1>2 DEF RegisterCall
  <2>5. QED
    BY <1>1, <2>1, <2>2, <2>3, <2>4, EnqueueTypes
<1>3. CASE RegisterBody(c)
  <2>1. pc' \in [Calls -> CallPc]
    BY <1>3 DEF RegisterBody, TypeOK, CallPc
  <2>2. pending' \in [Calls -> PendingStates]
    BY <1>3 DEF RegisterBody, TypeOK, PendingStates
  <2>3. QED
    BY <1>1, <1>3, <2>1, <2>2 DEF RegisterBody, TypeOK
<1>4. CASE RegisterSend(c)
  <2>1. pc' \in [Calls -> CallPc]
    BY <1>4 DEF RegisterSend, TypeOK, CallPc
  <2>2. sent' \in [Calls -> SentStates]
    BY <1>4 DEF RegisterSend, TypeOK, SentStates
  <2>3. frames' \in [Calls -> 0 .. MaxFrames] /\ pending' \in [Calls -> PendingStates]
    BY <1>4 DEF RegisterSend, TypeOK
  <2>4. Enqueue(c, FALSE)
    BY <1>4 DEF RegisterSend
  <2>5. QED
    BY <1>1, <2>1, <2>2, <2>3, <2>4, EnqueueTypes
<1>5. QED
  BY <1>2, <1>3, <1>4 DEF Register

-----------------------------------------------------------------------------
(* Every step keeps every variable in its type.                            *)

LEMMA InitTypeOK == Init => TypeOK
<1> SUFFICES ASSUME Init PROVE TypeOK
  OBVIOUS
<1>1. chain \in Seq(Ops)
  BY DEF Init, Ops
<1>2. /\ wpc \in [Gens -> WorkerPc] /\ batch \in [Gens -> SUBSET Requests]
      /\ pc \in [Calls -> CallPc] /\ waitsFor \in [Calls -> {0} \cup Gens]
      /\ pending \in [Calls -> PendingStates] /\ sent \in [Calls -> SentStates]
  BY DEF Init, WorkerPc, CallPc, PendingStates, SentStates
<1>3. /\ frames \in [Calls -> 0 .. MaxFrames] /\ started \in [Calls -> BOOLEAN]
      /\ finalSent \in [Calls -> BOOLEAN]
  BY DEF Init
<1>4. /\ requestQueue = {} /\ requestSeq = 0 /\ wire = {} /\ handshakes = {}
      /\ sessionGen = 0 /\ transport = 0 /\ memo = 0 /\ txGroup = NoCall
      /\ quickDropStreak = 0 /\ wasRpc = FALSE
  BY DEF Init
<1>5. tstate = "up" /\ linkPhase = "disconnected" /\ mode = "disconnected" /\ op = "idle"
  BY DEF Init
<1>6. 0 \in Nat /\ 0 \in 0 .. 2
  OBVIOUS
<1>7. QED
  BY <1>1, <1>2, <1>3, <1>4, <1>5, <1>6 DEF TypeOK

LEMMA CallStepTypeOK ==
  ASSUME TypeOK, NEW c \in Calls, CallStep(c)
  PROVE  TypeOK'
<1> USE DEF linkVars, modeVars, opVars, queueVars, workerVars, callVars
<1>1. CASE IssueInRpc(c) \/ Resume(c)
  BY <1>1, RegisterTypes DEF IssueInRpc, Resume, Register, TypeOK
<1>2. CASE IssueWithoutLink(c)
  <2>1. pc' \in [Calls -> CallPc]
    BY <1>2 DEF IssueWithoutLink, TypeOK, CallPc
  <2>2. QED
    BY <1>2, <2>1 DEF IssueWithoutLink, TypeOK
<1>3. CASE IssueAndSwitch(c)
  <2>1. memo' \in {0} \cup Gens /\ memo' # 0
    BY <1>3 DEF IssueAndSwitch, TypeOK, Gens
  <2>2. handshakes' \subseteq Gens
    BY <1>3, <2>1 DEF IssueAndSwitch, TypeOK
  <2>3. waitsFor' \in [Calls -> {0} \cup Gens]
    BY <1>3, <2>1 DEF IssueAndSwitch, TypeOK
  <2>4. pc' \in [Calls -> CallPc]
    BY <1>3 DEF IssueAndSwitch, TypeOK, CallPc
  <2>5. QED
    BY <1>3, <2>1, <2>2, <2>3, <2>4 DEF IssueAndSwitch, TypeOK
<1>4. CASE BodySend(c)
  <2>1. PICK more \in BOOLEAN : Enqueue(c, more)
    BY <1>4 DEF BodySend
  <2>2. frames' \in [Calls -> 0 .. MaxFrames]
    BY <1>4 DEF BodySend, TypeOK
  <2>3. sent' \in [Calls -> SentStates]
    BY <1>4 DEF BodySend, TypeOK, SentStates
  <2>4. QED
    BY <1>4, <2>1, <2>2, <2>3, EnqueueTypes DEF BodySend, TypeOK
<1>5. CASE BodyEnd(c)
  <2>1. pc' \in [Calls -> CallPc]
    BY <1>5 DEF BodyEnd, TypeOK, CallPc
  <2>2. QED
    BY <1>5, <2>1 DEF BodyEnd, TypeOK
<1>6. CASE BodyFail(c)
  <2>1. pc' \in [Calls -> CallPc]
    BY <1>6 DEF BodyFail, TypeOK, CallPc
  <2>2. /\ pending' \in [Calls -> PendingStates]
        /\ requestQueue' \subseteq requestQueue
        /\ txGroup' \in Calls \cup {NoCall}
    <3>1. FailCalls({c}, "aborted", {}) /\ "aborted" \in PendingStates
      BY <1>6 DEF BodyFail, PendingStates
    <3>2. QED
      BY <3>1, FailCallsTypes
  <2>3. sent' \in [Calls -> SentStates] /\ wpc' \in [Gens -> WorkerPc]
    BY <1>6, SentFailedType, SignalledType DEF BodyFail, TypeOK
  <2>4. QED
    BY <1>6, <2>1, <2>2, <2>3 DEF BodyFail, TypeOK
<1>7. CASE Return(c)
  <2>1. pc' \in [Calls -> CallPc]
    BY <1>7 DEF Return, TypeOK, CallPc
  <2>2. txGroup' \in Calls \cup {NoCall} /\ wpc' \in [Gens -> WorkerPc]
    BY <1>7, ReleasedType, SignalledType DEF Return, TypeOK
  <2>3. QED
    BY <1>7, <2>1, <2>2 DEF Return, TypeOK
<1>8. CASE Timeout(c)
  <2>1. /\ pending' \in [Calls -> PendingStates]
        /\ requestQueue' \subseteq requestQueue
        /\ txGroup' \in Calls \cup {NoCall}
    <3>1. FailCalls({c}, "timedout", {}) /\ "timedout" \in PendingStates
      BY <1>8 DEF Timeout, PendingStates
    <3>2. QED
      BY <3>1, FailCallsTypes
  <2>2. sent' \in [Calls -> SentStates] /\ wpc' \in [Gens -> WorkerPc]
    BY <1>8, SentFailedType, SignalledType DEF Timeout, TypeOK
  <2>3. QED
    BY <1>8, <2>1, <2>2 DEF Timeout, TypeOK
<1>9. CASE SendTimeout(c)
  <2>1. sent' \in [Calls -> SentStates]
    BY <1>9 DEF SendTimeout, TypeOK, SentStates
  <2>2. QED
    BY <1>9, <2>1 DEF SendTimeout, TypeOK
<1>10. CASE Respond(c)
  <2>1. pending' \in [Calls -> PendingStates]
    BY <1>10 DEF Respond, TypeOK, PendingStates
  <2>2. txGroup' \in Calls \cup {NoCall} /\ wpc' \in [Gens -> WorkerPc]
    BY <1>10, ReleasedType, SignalledType DEF Respond, TypeOK
  <2>3. QED
    BY <1>10, <2>1, <2>2 DEF Respond, TypeOK
<1>11. QED
  BY <1>1, <1>2, <1>3, <1>4, <1>5, <1>6, <1>7, <1>8, <1>9, <1>10 DEF CallStep

LEMMA WorkerStepTypeOK ==
  ASSUME TypeOK, NEW g \in Gens, WorkerStep(g)
  PROVE  TypeOK'
<1> USE DEF linkVars, modeVars, opVars, queueVars, workerVars, callVars
<1>1. CASE WorkerExit(g) \/ WorkerWait(g)
  <2>1. wpc' \in [Gens -> WorkerPc]
    BY <1>1 DEF WorkerExit, WorkerWait, TypeOK, WorkerPc
  <2>2. QED
    BY <1>1, <2>1 DEF WorkerExit, WorkerWait, TypeOK
<1>2. CASE WorkerTake(g)
  <2>1. PICK B \in Batches : /\ batch' = [batch EXCEPT ![g] = B]
                             /\ requestQueue' = requestQueue \ B
    BY <1>2 DEF WorkerTake
  <2>2. B \subseteq Requests
    BY DEF Batches, Dispatchable, TypeOK
  <2>3. batch' \in [Gens -> SUBSET Requests] /\ requestQueue' \subseteq requestQueue
    BY <2>1, <2>2 DEF TypeOK
  <2>4. wpc' \in [Gens -> WorkerPc]
    BY <1>2 DEF WorkerTake, TypeOK, WorkerPc
  <2>5. QED
    BY <1>2, <2>3, <2>4 DEF WorkerTake, TypeOK
<1>3. CASE Land(g)
  <2>1. wire' \subseteq [req : Requests, on : Gens]
    BY <1>3 DEF Land, OnWire, TypeOK
  <2>2. QED
    BY <1>3, <2>1 DEF Land, TypeOK
<1>4. CASE WriteOk(g)
  <2>1. txGroup' \in Calls \cup {NoCall}
    BY <1>4 DEF WriteOk, TypeOK, Requests
  <2>2. started' \in [Calls -> BOOLEAN] /\ finalSent' \in [Calls -> BOOLEAN]
    BY <1>4 DEF WriteOk, TypeOK
  <2>3. sent' \in [Calls -> SentStates]
    BY <1>4 DEF WriteOk, TypeOK, SentStates
  <2>4. batch' \in [Gens -> SUBSET Requests]
    BY <1>4 DEF WriteOk, TypeOK
  <2>5. [wpc EXCEPT ![g] = IF Parks(batch[g]) THEN "answer" ELSE "run"] \in [Gens -> WorkerPc]
    BY DEF TypeOK, WorkerPc
  <2>6. wpc' \in [Gens -> WorkerPc]
    BY <1>4, <2>5, SignalledType DEF WriteOk
  <2>7. QED
    BY <1>4, <2>1, <2>2, <2>3, <2>4, <2>6 DEF WriteOk, TypeOK
<1>5. CASE WriteFail(g) \/ WriteOutlived(g)
  <2>1. PICK unlocked : FailBatch(g, unlocked)
    BY <1>5 DEF WriteFail, WriteOutlived
  <2>2. /\ pending' \in [Calls -> PendingStates]
        /\ requestQueue' \subseteq requestQueue
        /\ txGroup' \in Calls \cup {NoCall}
    BY <2>1, FailCallsTypes DEF FailBatch, PendingStates
  <2>3. sent' \in [Calls -> SentStates]
    BY <2>1, SentFailedType DEF FailBatch
  <2>4. batch' \in [Gens -> SUBSET Requests]
    BY <2>1 DEF FailBatch, TypeOK
  <2>5. /\ [wpc EXCEPT ![g] = "run"] \in [Gens -> WorkerPc]
        /\ [wpc EXCEPT ![g] = "done"] \in [Gens -> WorkerPc]
    BY DEF TypeOK, WorkerPc
  <2>6. wpc' \in [Gens -> WorkerPc]
    <3>1. CASE WriteFail(g)
      BY <3>1, <2>5, SignalledType DEF WriteFail
    <3>2. CASE WriteOutlived(g)
      BY <3>2, <2>5, SignalledType DEF WriteOutlived
    <3>3. QED
      BY <1>5, <3>1, <3>2
  <2>7. QED
    BY <1>5, <2>2, <2>3, <2>4, <2>6 DEF WriteFail, WriteOutlived, TypeOK
<1>6. CASE Answered(g)
  <2>1. wpc' \in [Gens -> WorkerPc]
    BY <1>6 DEF Answered, TypeOK, WorkerPc
  <2>2. batch' \in [Gens -> SUBSET Requests]
    BY <1>6 DEF Answered, TypeOK
  <2>3. QED
    BY <1>6, <2>1, <2>2 DEF Answered, TypeOK
<1>7. QED
  BY <1>1, <1>2, <1>3, <1>4, <1>5, <1>6 DEF WorkerStep

LEMMA HandshakeEndTypeOK ==
  ASSUME TypeOK, NEW t \in Gens, HandshakeEnd(t)
  PROVE  TypeOK'
<1> USE DEF linkVars, opVars, queueVars, callVars
<1>1. memo' \in {0} \cup Gens /\ handshakes' \subseteq Gens
  BY DEF HandshakeEnd, TypeOK
<1>2. mode' \in {"disconnected", "cli", "rpc"}
  BY DEF HandshakeEnd, TypeOK
<1>3. wpc' \in [Gens -> WorkerPc]
  <2>1. CASE SwitchLands(t)
    <3>1. wpc' = Signalled(wpc, TRUE)
      BY <2>1 DEF HandshakeEnd
    <3>2. QED
      BY <3>1, SignalledType DEF TypeOK
  <2>2. CASE ~SwitchLands(t)
    BY <2>2 DEF HandshakeEnd, TypeOK
  <2>3. QED
    BY <2>1, <2>2
<1>4. QED
  BY <1>1, <1>2, <1>3 DEF HandshakeEnd, TypeOK

LEMMA LinkStepTypeOK ==
  ASSUME TypeOK, LinkStep
  PROVE  TypeOK'
<1> USE DEF linkVars, modeVars, queueVars, workerVars, callVars
<1>1. CASE Fault
  BY <1>1 DEF Fault, opVars, TypeOK
<1>2. CASE TransportClosed
  <2>1. Recovery \in Ops
    BY DEF Recovery, Ops, TypeOK
  <2>2. chain' \in Seq(Ops)
    BY <1>2, <2>1 DEF TransportClosed, TypeOK
  <2>3. QED
    BY <1>2, <2>2 DEF TransportClosed, TypeOK
<1>3. CASE Desync
  <2>1. Recovery \in Ops
    BY DEF Recovery, Ops, TypeOK
  <2>2. chain' \in Seq(Ops)
    BY <1>3, <2>1 DEF Desync, TypeOK
  <2>3. QED
    BY <1>3, <2>2 DEF Desync, TypeOK
<1>4. CASE AskDisconnect
  <2>1. [kind |-> "disconnect", gen |-> 0] \in Ops
    BY DEF Ops
  <2>2. chain' \in Seq(Ops)
    BY <1>4, <2>1 DEF AskDisconnect, TypeOK
  <2>3. QED
    BY <1>4, <2>2 DEF AskDisconnect, TypeOK
<1>5. QED
  BY <1>1, <1>2, <1>3, <1>4 DEF LinkStep

\* What teardownLocked leaves behind is well typed.
LEMMA TearDownTypes ==
  ASSUME TypeOK, TearDown
  PROVE  /\ sessionGen' \in Nat /\ transport' = 0
         /\ tstate' = "up" /\ linkPhase' = "disconnected" /\ mode' = "disconnected"
         /\ memo' = 0 /\ handshakes' = handshakes
         /\ quickDropStreak' \in 0 .. 2 /\ wasRpc' \in BOOLEAN
         /\ txGroup' = NoCall /\ requestQueue' = {} /\ requestSeq' = requestSeq
         /\ pending' \in [Calls -> PendingStates]
         /\ sent' \in [Calls -> SentStates]
         /\ wpc' \in [Gens -> WorkerPc]
         /\ UNCHANGED <<batch, wire, pc, waitsFor, started, frames, finalSent>>
<1>1. sessionGen' \in Nat
  BY DEF TearDown, TypeOK
<1>2. "ended" \in PendingStates
  BY DEF PendingStates
<1>3. pending' \in [Calls -> PendingStates]
  BY <1>2, SettledType DEF TearDown
<1>4. sent' \in [Calls -> SentStates]
  BY SentFailedType DEF TearDown
<1>5. wpc' \in [Gens -> WorkerPc]
  <2>1. wpc' = Signalled(wpc, TRUE)
    BY DEF TearDown
  <2>2. QED
    BY <2>1, SignalledType DEF TypeOK
<1>6. /\ transport' = 0 /\ memo' = 0 /\ handshakes' = handshakes
      /\ txGroup' = NoCall /\ requestQueue' = {} /\ requestSeq' = requestSeq
  BY DEF TearDown
<1>7. quickDropStreak' \in 0 .. 2
  BY DEF TearDown
<1>8. wasRpc' \in BOOLEAN
  BY DEF TearDown
<1>9. tstate' = "up" /\ linkPhase' = "disconnected" /\ mode' = "disconnected"
  BY DEF TearDown
<1>10. UNCHANGED <<batch, wire, pc, waitsFor, started, frames, finalSent>>
  BY DEF TearDown
<1>11. QED
  BY <1>1, <1>3, <1>4, <1>5, <1>6, <1>7, <1>8, <1>9, <1>10

LEMMA OpStepTypeOK ==
  ASSUME TypeOK, OpStep
  PROVE  TypeOK'
<1> USE DEF linkVars, modeVars, queueVars, workerVars, callVars
<1>1. chain # <<>> => Tail(chain) \in Seq(Ops)
  BY DEF TypeOK
<1>2. CASE Connect
  BY <1>1, <1>2 DEF Connect, Idle, BeginOpen, TypeOK
<1>3. CASE Disconnect
  BY <1>1, <1>3, TearDownTypes DEF Disconnect, Idle, TypeOK
<1>4. CASE RecoverStale
  BY <1>1, <1>4 DEF RecoverStale, Idle, TypeOK
<1>5. CASE RecoverGiveUp
  BY <1>1, <1>5, TearDownTypes DEF RecoverGiveUp, Idle, TypeOK
<1>6. CASE RecoverReconnect
  <2>1. FailCalls(StartedCalls, "lost", {}) /\ "lost" \in PendingStates
    BY <1>6 DEF RecoverReconnect, PendingStates
  <2>2. /\ pending' \in [Calls -> PendingStates]
        /\ requestQueue' \subseteq requestQueue
        /\ txGroup' \in Calls \cup {NoCall}
    BY <2>1, FailCallsTypes
  <2>3. sent' \in [Calls -> SentStates]
    BY <1>6, SentFailedType DEF RecoverReconnect
  <2>4. wpc' \in [Gens -> WorkerPc]
    <3>1. wpc' = Signalled(wpc, TRUE)
      BY <1>6 DEF RecoverReconnect
    <3>2. QED
      BY <3>1, SignalledType DEF TypeOK
  <2>5. quickDropStreak' \in 0 .. 2
    BY <1>6 DEF RecoverReconnect, TypeOK
  <2>6. wasRpc' \in BOOLEAN
    BY <1>6 DEF RecoverReconnect
  <2>7. sessionGen' \in Nat
    BY <1>6 DEF RecoverReconnect, TypeOK
  <2>8. chain' \in Seq(Ops)
    BY <1>1, <1>6 DEF RecoverReconnect, Idle
  <2>9. QED
    BY <1>6, <2>2, <2>3, <2>4, <2>5, <2>6, <2>7, <2>8 DEF RecoverReconnect, TypeOK
<1>7. CASE Reopen
  BY <1>7 DEF Reopen, BeginOpen, TypeOK
<1>8. CASE OpenOk
  <2>1. wpc' \in [Gens -> WorkerPc]
    BY <1>8 DEF OpenOk, TypeOK, WorkerPc
  <2>2. memo' \in {0} \cup Gens /\ handshakes' \subseteq Gens
    BY <1>8 DEF OpenOk, TypeOK
  <2>3. mode' \in {"disconnected", "cli", "rpc"}
    BY <1>8 DEF OpenOk
  <2>4. QED
    BY <1>8, <2>1, <2>2, <2>3 DEF OpenOk, TypeOK
<1>9. CASE OpenFail
  BY <1>9 DEF OpenFail, TypeOK
<1>10. CASE ReopenFail
  BY <1>10, TearDownTypes DEF ReopenFail, TypeOK
<1>11. QED
  BY <1>2, <1>3, <1>4, <1>5, <1>6, <1>7, <1>8, <1>9, <1>10 DEF OpStep

LEMMA NextTypeOK == TypeOK /\ [Next]_vars => TypeOK'
<1> SUFFICES ASSUME TypeOK, [Next]_vars PROVE TypeOK'
  OBVIOUS
<1>1. CASE UNCHANGED vars
  BY <1>1 DEF vars, linkVars, modeVars, opVars, queueVars, workerVars, callVars, TypeOK
<1>2. CASE Next
  BY <1>2, CallStepTypeOK, WorkerStepTypeOK, HandshakeEndTypeOK, LinkStepTypeOK, OpStepTypeOK
     DEF Next
<1>3. QED
  BY <1>1, <1>2

\* Every variable of the session keeps its type, and a queued request always
\* has a number below the next one to be given.
THEOREM TypeCorrect == Spec => []TypeOK
  BY InitTypeOK, NextTypeOK, PTL DEF Spec

-----------------------------------------------------------------------------
(* No lost wakeup.                                                         *)

\* A generation that has not begun has no worker, so a session that connects
\* finds its worker awake.
NoFutureWorker == \A g \in Gens : g > sessionGen => wpc[g] = "none"

WakeInv == NoFutureWorker /\ NoLostWakeup

\* After a signal nobody waits.
LEMMA AllAwake ==
  ASSUME NEW w \in [Gens -> WorkerPc], wpc' = Signalled(w, TRUE)
  PROVE  NoLostWakeup'
  BY DEF Signalled, NoLostWakeup

\* A queue that only shrinks gives a waiting worker nothing to do.
LEMMA NothingNew ==
  ASSUME NoLostWakeup, UNCHANGED <<sessionGen, transport, mode, txGroup>>,
         requestQueue' \subseteq requestQueue,
         \A g \in Gens : wpc'[g] = "wait" => wpc[g] = "wait"
  PROVE  NoLostWakeup'
  BY DEF NoLostWakeup, Dispatchable, Live

\* A session without transport has no worker that matters.
LEMMA NobodyLive ==
  ASSUME transport' = 0
  PROVE  NoLostWakeup'
  BY DEF NoLostWakeup, Live

LEMMA CallStepWakes ==
  ASSUME TypeOK, NoLostWakeup, NEW c \in Calls, CallStep(c)
  PROVE  NoLostWakeup'
<1> USE DEF linkVars, modeVars, opVars, queueVars, workerVars, callVars
<1>0. wpc \in [Gens -> WorkerPc]
  BY DEF TypeOK
<1>1. CASE IssueInRpc(c) \/ Resume(c)
  <2>1. UNCHANGED <<sessionGen, transport, mode, txGroup>>
    BY <1>1 DEF IssueInRpc, Resume, Register
  <2>2. CASE RegisterCall(c) \/ RegisterSend(c)
    <3>1. wpc' = Signalled(wpc, TRUE)
      BY <2>2 DEF RegisterCall, RegisterSend, Enqueue
    <3>2. QED
      BY <1>0, <3>1, AllAwake
  <2>3. CASE RegisterBody(c)
    BY <2>1, <2>3, NothingNew DEF RegisterBody
  <2>4. QED
    BY <1>1, <2>2, <2>3 DEF IssueInRpc, Resume, Register
<1>2. CASE IssueWithoutLink(c)
  BY <1>2, NothingNew DEF IssueWithoutLink
<1>3. CASE IssueAndSwitch(c)
  BY <1>3, NothingNew DEF IssueAndSwitch
<1>4. CASE BodySend(c)
  <2>1. wpc' = Signalled(wpc, TRUE)
    BY <1>4 DEF BodySend, Enqueue
  <2>2. QED
    BY <1>0, <2>1, AllAwake
<1>5. CASE BodyEnd(c)
  BY <1>5, NothingNew DEF BodyEnd
<1>6. CASE BodyFail(c) \/ Return(c) \/ Timeout(c) \/ Respond(c)
  <2>1. /\ UNCHANGED <<sessionGen, transport, mode>>
        /\ requestQueue' \subseteq requestQueue
        /\ txGroup' = Released({c}) /\ wpc' = Signalled(wpc, txGroup = c)
    BY <1>6 DEF BodyFail, Return, Timeout, Respond, FailCalls
  <2>2. CASE txGroup = c
    <3>1. wpc' = Signalled(wpc, TRUE)
      BY <2>1, <2>2
    <3>2. QED
      BY <1>0, <3>1, AllAwake
  <2>3. CASE txGroup # c
    <3>1. \A g \in Gens : wpc'[g] = wpc[g]
      BY <1>0, <2>1, <2>3 DEF Signalled
    <3>2. txGroup' = txGroup
      BY <2>1, <2>3 DEF Released
    <3>3. QED
      BY <2>1, <3>1, <3>2, NothingNew
  <2>4. QED
    BY <2>2, <2>3
<1>7. CASE SendTimeout(c)
  BY <1>7, NothingNew DEF SendTimeout
<1>8. QED
  BY <1>1, <1>2, <1>3, <1>4, <1>5, <1>6, <1>7 DEF CallStep

LEMMA WorkerStepWakes ==
  ASSUME TypeOK, NoLostWakeup, NEW g \in Gens, WorkerStep(g)
  PROVE  NoLostWakeup'
<1> USE DEF linkVars, modeVars, opVars, queueVars, workerVars, callVars
<1>0. wpc \in [Gens -> WorkerPc]
  BY DEF TypeOK
<1>1. CASE WorkerExit(g)
  <2>1. \A h \in Gens : wpc'[h] = "wait" => wpc[h] = "wait"
    BY <1>0, <1>1 DEF WorkerExit
  <2>2. QED
    BY <1>1, <2>1, NothingNew DEF WorkerExit
<1>2. CASE WorkerWait(g)
  <2>1. mode # "rpc" \/ Dispatchable(requestQueue, txGroup) = {}
    BY <1>2 DEF WorkerWait
  <2>2. UNCHANGED <<sessionGen, transport, mode, txGroup, requestQueue>>
    BY <1>2 DEF WorkerWait
  <2>3. \A h \in Gens \ {g} : wpc'[h] = wpc[h]
    BY <1>0, <1>2 DEF WorkerWait
  <2>4. QED
    BY <2>1, <2>2, <2>3 DEF NoLostWakeup, Live, Dispatchable
<1>3. CASE WorkerTake(g)
  <2>1. \A h \in Gens : wpc'[h] = "wait" => wpc[h] = "wait"
    BY <1>0, <1>3 DEF WorkerTake
  <2>2. requestQueue' \subseteq requestQueue
    BY <1>3 DEF WorkerTake
  <2>3. QED
    BY <1>3, <2>1, <2>2, NothingNew DEF WorkerTake
<1>4. CASE Land(g)
  BY <1>4, NothingNew DEF Land
<1>5. CASE WriteOk(g)
  \* Only the session's own worker is live, and it is the one that wrote.
  <2>1. \A h \in Gens : wpc'[h] = "wait" => h # sessionGen'
    <3>1. g = sessionGen' /\ wpc'[g] # "wait"
      BY <1>0, <1>5 DEF WriteOk, Signalled
    <3>2. QED
      BY <3>1
  <2>2. QED
    BY <2>1 DEF NoLostWakeup, Live
<1>6. CASE WriteFail(g)
  <2>1. \A h \in Gens : wpc'[h] = "wait" => h # sessionGen'
    <3>1. g = sessionGen' /\ wpc'[g] # "wait"
      BY <1>0, <1>6 DEF WriteFail, Signalled
    <3>2. QED
      BY <3>1
  <2>2. QED
    BY <2>1 DEF NoLostWakeup, Live
<1>7. CASE WriteOutlived(g)
  <2>1. requestQueue' \subseteq requestQueue
    BY <1>7 DEF WriteOutlived, FailBatch, FailCalls
  <2>2. UNCHANGED <<sessionGen, transport, mode>>
    BY <1>7 DEF WriteOutlived
  <2>3. wpc' = Signalled([wpc EXCEPT ![g] = "done"], txGroup' # txGroup)
    BY <1>7 DEF WriteOutlived
  <2>4. CASE txGroup' = txGroup
    <3>1. \A h \in Gens : wpc'[h] = "wait" => wpc[h] = "wait"
      BY <1>0, <2>3, <2>4 DEF Signalled
    <3>2. QED
      BY <2>1, <2>2, <2>4, <3>1, NothingNew
  <2>5. CASE txGroup' # txGroup
    <3>1. \A h \in Gens : wpc'[h] # "wait"
      BY <1>0, <2>3, <2>5 DEF Signalled
    <3>2. QED
      BY <3>1 DEF NoLostWakeup
  <2>6. QED
    BY <2>4, <2>5
<1>8. CASE Answered(g)
  <2>1. \A h \in Gens : wpc'[h] = "wait" => wpc[h] = "wait"
    BY <1>0, <1>8 DEF Answered
  <2>2. QED
    BY <1>8, <2>1, NothingNew DEF Answered
<1>9. QED
  BY <1>1, <1>2, <1>3, <1>4, <1>5, <1>6, <1>7, <1>8 DEF WorkerStep

LEMMA OtherStepWakes ==
  ASSUME TypeOK, WakeInv,
         LinkStep \/ OpStep \/ \E t \in Gens : HandshakeEnd(t)
  PROVE  NoLostWakeup'
<1> USE DEF linkVars, modeVars, opVars, queueVars, workerVars, callVars
<1>0. wpc \in [Gens -> WorkerPc]
  BY DEF TypeOK
<1>1. CASE LinkStep
  BY <1>1, NothingNew DEF WakeInv, LinkStep, Fault, TransportClosed, Desync, AskDisconnect
<1>2. ASSUME NEW t \in Gens, HandshakeEnd(t)
      PROVE  NoLostWakeup'
  <2>1. CASE SwitchLands(t)
    <3>1. wpc' = Signalled(wpc, TRUE)
      BY <1>2, <2>1 DEF HandshakeEnd
    <3>2. QED
      BY <1>0, <3>1, AllAwake
  <2>2. CASE ~SwitchLands(t)
    BY <1>2, <2>2, NothingNew DEF WakeInv, HandshakeEnd
  <2>3. QED
    BY <2>1, <2>2
<1>3. CASE Disconnect \/ RecoverGiveUp \/ RecoverReconnect \/ ReopenFail
  <2>1. transport' = 0
    BY <1>3 DEF Disconnect, RecoverGiveUp, RecoverReconnect, ReopenFail, TearDown
  <2>2. QED
    BY <2>1, NobodyLive
<1>4. CASE Connect \/ Reopen
  \* The generation that begins has no worker yet.
  <2>1. sessionGen' = sessionGen + 1 /\ wpc' = wpc
    BY <1>4 DEF Connect, Reopen, BeginOpen
  <2>2. \A g \in Gens : g = sessionGen' => wpc'[g] = "none"
    BY <2>1 DEF WakeInv, NoFutureWorker, TypeOK, Gens
  <2>3. QED
    BY <2>2 DEF NoLostWakeup, Live
<1>5. CASE RecoverStale \/ OpenFail
  BY <1>5, NothingNew DEF WakeInv, RecoverStale, OpenFail
<1>6. CASE OpenOk
  <2>1. sessionGen' = sessionGen /\ wpc'[sessionGen] = "run"
    BY <1>0, <1>6 DEF OpenOk
  <2>2. QED
    BY <2>1 DEF NoLostWakeup, Live
<1>7. QED
  BY <1>1, <1>2, <1>3, <1>4, <1>5, <1>6 DEF OpStep

\* Workers are started by the opening of a transport only, and never forgotten.
LEMMA WorkersKnown ==
  ASSUME TypeOK, Next, ~OpenOk, NEW h \in Gens
  PROVE  wpc'[h] = "none" <=> wpc[h] = "none"
<1> USE DEF linkVars, modeVars, opVars, queueVars, workerVars, callVars
<1>0. wpc \in [Gens -> WorkerPc]
  BY DEF TypeOK
<1>1. \A fires : Signalled(wpc, fires)[h] = "none" <=> wpc[h] = "none"
  BY <1>0 DEF Signalled
<1>2. CASE \E c \in Calls : CallStep(c)
  <2>1. wpc' = wpc \/ \E fires \in BOOLEAN : wpc' = Signalled(wpc, fires)
    <3>1. PICK c \in Calls : CallStep(c)
      BY <1>2
    <3>2. CASE IssueInRpc(c) \/ Resume(c)
      BY <3>2 DEF IssueInRpc, Resume, Register, RegisterCall, RegisterBody, RegisterSend, Enqueue
    <3>3. CASE BodySend(c)
      BY <3>3 DEF BodySend, Enqueue
    <3>4. CASE BodyFail(c) \/ Return(c) \/ Timeout(c) \/ Respond(c)
      <4>1. wpc' = Signalled(wpc, txGroup = c) /\ (txGroup = c) \in BOOLEAN
        BY <3>4 DEF BodyFail, Return, Timeout, Respond
      <4>2. QED
        BY <4>1
    <3>5. CASE IssueWithoutLink(c) \/ IssueAndSwitch(c) \/ BodyEnd(c) \/ SendTimeout(c)
      BY <3>5 DEF IssueWithoutLink, IssueAndSwitch, BodyEnd, SendTimeout
    <3>6. QED
      BY <3>1, <3>2, <3>3, <3>4, <3>5 DEF CallStep
  <2>2. QED
    BY <1>1, <2>1
<1>3. ASSUME NEW g \in Gens, WorkerStep(g)
      PROVE  wpc'[h] = "none" <=> wpc[h] = "none"
  <2>1. CASE WorkerExit(g) \/ WorkerWait(g) \/ WorkerTake(g) \/ Land(g) \/ Answered(g)
    BY <1>0, <2>1 DEF WorkerExit, WorkerWait, WorkerTake, Land, Answered
  <2>2. CASE WriteOk(g)
    BY <1>0, <2>2 DEF WriteOk, Signalled
  <2>3. CASE WriteFail(g)
    BY <1>0, <2>3 DEF WriteFail, Signalled
  <2>4. CASE WriteOutlived(g)
    BY <1>0, <2>4 DEF WriteOutlived, Signalled
  <2>5. QED
    BY <1>3, <2>1, <2>2, <2>3, <2>4 DEF WorkerStep
<1>4. CASE LinkStep \/ OpStep \/ \E t \in Gens : HandshakeEnd(t)
  <2>1. wpc' = wpc \/ wpc' = Signalled(wpc, TRUE)
    BY <1>4 DEF LinkStep, Fault, TransportClosed, Desync, AskDisconnect, HandshakeEnd, OpStep,
                Connect, Disconnect, RecoverStale, RecoverGiveUp, RecoverReconnect, Reopen,
                OpenFail, ReopenFail, TearDown, BeginOpen
  <2>2. QED
    BY <1>1, <2>1
<1>5. QED
  BY <1>2, <1>3, <1>4 DEF Next

\* A generation that has not begun has no worker to start or to wake.
LEMMA NoFutureWorkerKept ==
  ASSUME TypeOK, TypeOK', NoFutureWorker, Next
  PROVE  NoFutureWorker'
<1> USE DEF linkVars, modeVars, opVars, queueVars, workerVars, callVars
<1>1. CASE OpenOk
  <2>1. sessionGen' = sessionGen /\ \A g \in Gens : g # sessionGen => wpc'[g] = wpc[g]
    BY <1>1 DEF OpenOk, TypeOK
  <2>2. QED
    BY <2>1 DEF NoFutureWorker, TypeOK, Gens
<1>2. CASE ~OpenOk
  <2>1. sessionGen' \in {sessionGen, sessionGen + 1}
    BY <1>2 DEF Next, CallStep, IssueInRpc, IssueWithoutLink, IssueAndSwitch, Resume,
                BodySend, BodyEnd, BodyFail, Return, Timeout, SendTimeout, Respond, WorkerStep,
                WorkerExit, WorkerWait, WorkerTake, Land, WriteOk, WriteFail, WriteOutlived,
                Answered, HandshakeEnd, LinkStep, Fault, TransportClosed, Desync, AskDisconnect,
                OpStep, Connect, Disconnect, RecoverStale, RecoverGiveUp, RecoverReconnect,
                Reopen, OpenFail, ReopenFail, TearDown, BeginOpen
  <2>2. \A g \in Gens : g > sessionGen' => g > sessionGen
    BY <2>1 DEF TypeOK, Gens
  <2>3. QED
    BY <1>2, <2>2, WorkersKnown DEF NoFutureWorker
<1>3. QED
  BY <1>1, <1>2

LEMMA InitWakeInv == Init => WakeInv
  BY DEF Init, WakeInv, NoFutureWorker, NoLostWakeup, Live

LEMMA NextWakeInv == TypeOK /\ TypeOK' /\ WakeInv /\ [Next]_vars => WakeInv'
<1> SUFFICES ASSUME TypeOK, TypeOK', WakeInv, [Next]_vars PROVE WakeInv'
  OBVIOUS
<1>1. CASE UNCHANGED vars
  BY <1>1 DEF vars, linkVars, modeVars, opVars, queueVars, workerVars, callVars,
              WakeInv, NoFutureWorker, NoLostWakeup, Live, Dispatchable
<1>2. CASE Next
  <2>1. NoFutureWorker'
    BY <1>2, NoFutureWorkerKept DEF WakeInv
  <2>2. NoLostWakeup'
    BY <1>2, CallStepWakes, WorkerStepWakes, OtherStepWakes DEF Next, WakeInv
  <2>3. QED
    BY <2>1, <2>2 DEF WakeInv
<1>3. QED
  BY <1>1, <1>2

\* The signal of the queue is never lost: while the worker of a connected
\* session waits in RPC mode, nothing it could send is in the queue.
THEOREM NoWakeupLost == Spec => []NoLostWakeup
<1>1. TypeOK /\ WakeInv /\ [Next]_vars => (TypeOK /\ WakeInv)'
  BY NextTypeOK, NextWakeInv
<1>2. Spec => [](TypeOK /\ WakeInv)
  BY <1>1, InitTypeOK, InitWakeInv, PTL DEF Spec
<1>3. QED
  BY <1>2, PTL DEF WakeInv

-----------------------------------------------------------------------------
(* The lifecycle: the transport, phase, mode, generation and worker of the *)
(* session move together, its transport is given up only on request, and  *)
(* RPC mode is earned.                                                    *)

\* Only the first operation on the chain connects, before any generation.
ConnectFirst ==
    \A i \in 1 .. Len(chain) : chain[i].kind = "connect" => i = 1 /\ sessionGen = 0

\* While an operation awaits, the session has no transport to lose.
OpsInv == ConnectFirst /\ (op # "idle" => transport = 0 /\ sessionGen # 0)

LinkInv == Lockstep /\ OpsInv

-----------------------------------------------------------------------------
\* Popping the chain, or appending an operation that does not connect.
LEMMA ChainTail ==
  ASSUME TypeOK, ConnectFirst, chain # <<>>, chain' = Tail(chain)
  PROVE  ConnectFirst'
<1>1. /\ Len(Tail(chain)) = Len(chain) - 1
      /\ \A i \in 1 .. Len(Tail(chain)) : Tail(chain)[i] = chain[i + 1]
  BY DEF TypeOK
<1>2. Len(chain) \in Nat
  BY DEF TypeOK
<1>3. ASSUME NEW i \in 1 .. Len(Tail(chain)), Tail(chain)[i].kind = "connect"
      PROVE  FALSE
  BY <1>1, <1>2, <1>3 DEF ConnectFirst
<1>4. QED
  BY <1>3 DEF ConnectFirst

LEMMA ChainAppend ==
  ASSUME TypeOK, ConnectFirst, sessionGen' = sessionGen,
         NEW o, o.kind # "connect", chain' = Append(chain, o)
  PROVE  ConnectFirst'
<1>1. /\ Len(chain') = Len(chain) + 1 /\ Len(chain) \in Nat
      /\ \A i \in 1 .. Len(chain) : chain'[i] = chain[i]
      /\ chain'[Len(chain) + 1] = o
  BY DEF TypeOK
<1>2. QED
  BY <1>1 DEF ConnectFirst

LEMMA OpsKept ==
  ASSUME TypeOK, LinkInv, Next
  PROVE  OpsInv'
<1> USE DEF linkVars, modeVars, opVars, queueVars, workerVars, callVars
<1>1. CASE \/ \E c \in Calls : CallStep(c)
           \/ \E g \in Gens : WorkerStep(g) \/ HandshakeEnd(g)
  <2>1. UNCHANGED <<linkVars, opVars>>
    BY <1>1 DEF CallStep, IssueInRpc, IssueWithoutLink, IssueAndSwitch, Resume, BodySend,
                BodyEnd, BodyFail, Return, Timeout, SendTimeout, Respond, WorkerStep, WorkerExit,
                WorkerWait, WorkerTake, Land, WriteOk, WriteFail, WriteOutlived, Answered,
                HandshakeEnd
  <2>2. QED
    BY <2>1 DEF LinkInv, OpsInv, ConnectFirst
<1>2. CASE Fault
  BY <1>2 DEF Fault, LinkInv, OpsInv, ConnectFirst
<1>3. CASE TransportClosed \/ Desync \/ AskDisconnect
  <2>1. PICK o : o.kind # "connect" /\ chain' = Append(chain, o)
    BY <1>3 DEF TransportClosed, Desync, AskDisconnect, Recovery
  <2>2. UNCHANGED <<sessionGen, transport, op>>
    BY <1>3 DEF TransportClosed, Desync, AskDisconnect
  <2>3. QED
    BY <2>1, <2>2, ChainAppend DEF LinkInv, OpsInv
<1>4. CASE Connect \/ Disconnect \/ RecoverStale \/ RecoverGiveUp \/ RecoverReconnect
  <2>1. chain # <<>> /\ chain' = Tail(chain)
    BY <1>4 DEF Connect, Disconnect, RecoverStale, RecoverGiveUp, RecoverReconnect, Idle
  <2>2. ConnectFirst'
    BY <2>1, ChainTail DEF LinkInv, OpsInv
  <2>3. op' # "idle" => transport' = 0 /\ sessionGen' # 0
    <3>1. CASE Connect
      <4>1. Len(chain) \in Nat \ {0} /\ Head(chain) = chain[1]
        BY <2>1 DEF TypeOK
      <4>2. sessionGen = 0 /\ transport' = transport /\ sessionGen' = 1
        BY <3>1, <4>1 DEF Connect, BeginOpen, LinkInv, OpsInv, ConnectFirst
      <4>3. QED
        BY <4>2 DEF LinkInv, Lockstep, TypeOK, Gens
    <3>2. CASE Disconnect \/ RecoverGiveUp \/ RecoverReconnect
      <4>1. transport' = 0 /\ sessionGen' = sessionGen + 1
        BY <3>2 DEF Disconnect, RecoverGiveUp, RecoverReconnect, TearDown
      <4>2. sessionGen \in Nat
        BY DEF TypeOK
      <4>3. QED
        BY <4>1, <4>2
    <3>3. CASE RecoverStale
      BY <3>3 DEF RecoverStale, LinkInv, OpsInv
    <3>4. QED
      BY <1>4, <3>1, <3>2, <3>3
  <2>4. QED
    BY <2>2, <2>3 DEF OpsInv
<1>5. CASE Reopen \/ OpenOk \/ OpenFail \/ ReopenFail
  <2>1. chain' = chain /\ op # "idle"
    BY <1>5 DEF Reopen, BeginOpen, OpenOk, OpenFail, ReopenFail
  <2>2. op' # "idle" => transport' = 0 /\ sessionGen' # 0
    BY <1>5 DEF Reopen, BeginOpen, OpenOk, OpenFail, ReopenFail, LinkInv, OpsInv, TypeOK
  <2>3. \A i \in 1 .. Len(chain) : chain[i].kind # "connect"
    BY <2>1 DEF LinkInv, OpsInv, ConnectFirst
  <2>4. QED
    BY <2>1, <2>2, <2>3 DEF OpsInv, ConnectFirst
<1>6. QED
  BY <1>1, <1>2, <1>3, <1>4, <1>5 DEF Next, LinkStep, OpStep

-----------------------------------------------------------------------------
(* Lockstep.                                                               *)

\* While the link stays and its worker does not leave.
LEMMA WorkerStays ==
  ASSUME TypeOK, Lockstep, UNCHANGED <<linkVars, mode>>,
         \A g \in Gens : wpc[g] \notin {"none", "done"} /\ Live(g) => wpc'[g] \notin {"none", "done"},
         memo' # 0 => memo' = transport /\ memo' \in handshakes'
  PROVE  Lockstep'
  BY DEF Lockstep, linkVars, TypeOK, Live

LEMMA LockstepKept ==
  ASSUME TypeOK, LinkInv, Next
  PROVE  Lockstep'
<1> USE DEF modeVars, opVars, queueVars, workerVars, callVars
<1>0. wpc \in [Gens -> WorkerPc] /\ Lockstep
  BY DEF TypeOK, LinkInv
<1>1. ASSUME NEW c \in Calls, CallStep(c)
      PROVE  Lockstep'
  <2>1. UNCHANGED <<linkVars, mode>>
    BY <1>1 DEF CallStep, IssueInRpc, IssueWithoutLink, IssueAndSwitch, Resume, BodySend,
                BodyEnd, BodyFail, Return, Timeout, SendTimeout, Respond
  <2>2. wpc' = wpc \/ \E fires \in BOOLEAN : wpc' = Signalled(wpc, fires)
    <3>1. CASE IssueInRpc(c) \/ Resume(c)
      BY <3>1 DEF IssueInRpc, Resume, Register, RegisterCall, RegisterBody, RegisterSend, Enqueue
    <3>2. CASE BodySend(c)
      BY <3>2 DEF BodySend, Enqueue
    <3>3. CASE BodyFail(c) \/ Return(c) \/ Timeout(c) \/ Respond(c)
      <4>1. wpc' = Signalled(wpc, txGroup = c)
        BY <3>3 DEF BodyFail, Return, Timeout, Respond
      <4>2. (txGroup = c) \in BOOLEAN
        OBVIOUS
      <4>3. QED
        BY <4>1, <4>2
    <3>4. CASE IssueWithoutLink(c) \/ IssueAndSwitch(c) \/ BodyEnd(c) \/ SendTimeout(c)
      BY <3>4 DEF IssueWithoutLink, IssueAndSwitch, BodyEnd, SendTimeout
    <3>5. QED
      BY <1>1, <3>1, <3>2, <3>3, <3>4 DEF CallStep
  <2>3. \A g \in Gens : wpc[g] \notin {"none", "done"} => wpc'[g] \notin {"none", "done"}
    BY <1>0, <2>2 DEF Signalled
  <2>4. memo' # 0 => memo' = transport /\ memo' \in handshakes'
    <3>1. CASE IssueAndSwitch(c)
      BY <1>0, <3>1 DEF IssueAndSwitch, Lockstep
    <3>2. CASE ~IssueAndSwitch(c)
      <4>1. UNCHANGED <<memo, handshakes>>
        BY <1>1, <3>2 DEF CallStep, IssueInRpc, IssueWithoutLink, Resume, BodySend,
                          BodyEnd, BodyFail, Return, Timeout, SendTimeout, Respond
      <4>2. QED
        BY <1>0, <4>1 DEF Lockstep
    <3>3. QED
      BY <3>1, <3>2
  <2>5. QED
    BY <1>0, <2>1, <2>3, <2>4, WorkerStays
<1>2. ASSUME NEW g \in Gens, WorkerStep(g)
      PROVE  Lockstep'
  <2>1. UNCHANGED <<linkVars, mode, memo, handshakes>>
    BY <1>2 DEF WorkerStep, WorkerExit, WorkerWait, WorkerTake, Land, WriteOk, WriteFail,
                WriteOutlived, Answered
  <2>2. \A h \in Gens : wpc[h] \notin {"none", "done"} /\ Live(h) => wpc'[h] \notin {"none", "done"}
    <3>1. CASE WorkerExit(g) \/ WorkerWait(g) \/ WorkerTake(g) \/ Land(g) \/ Answered(g)
      BY <1>0, <3>1 DEF WorkerExit, WorkerWait, WorkerTake, Land, Answered
    <3>2. CASE WriteOk(g)
      BY <1>0, <3>2 DEF WriteOk, Signalled
    <3>3. CASE WriteFail(g)
      BY <1>0, <3>3 DEF WriteFail, Signalled
    <3>4. CASE WriteOutlived(g)
      BY <1>0, <3>4 DEF WriteOutlived, Signalled, Live
    <3>5. QED
      BY <1>2, <3>1, <3>2, <3>3, <3>4 DEF WorkerStep
  <2>3. QED
    BY <1>0, <2>1, <2>2, WorkerStays DEF Lockstep
<1>3. ASSUME NEW t \in Gens, HandshakeEnd(t)
      PROVE  Lockstep'
  <2>1. UNCHANGED linkVars /\ \A g \in Gens : wpc'[g] = wpc[g] \/ wpc'[g] = "run"
    BY <1>0, <1>3 DEF HandshakeEnd, Signalled
  <2>2. memo' # 0 => memo' = transport /\ memo' \in handshakes'
    BY <1>0, <1>3 DEF HandshakeEnd, Lockstep
  <2>3. CASE SwitchLands(t)
    <3>1. mode' = "rpc" /\ transport # 0
      BY <1>3, <2>3 DEF HandshakeEnd, SwitchLands, Gens
    <3>2. QED
      BY <1>0, <2>1, <2>2, <3>1 DEF Lockstep, linkVars, TypeOK
  <2>4. CASE ~SwitchLands(t)
    <3>1. mode' = mode
      BY <1>3, <2>4 DEF HandshakeEnd
    <3>2. QED
      BY <1>0, <2>1, <2>2, <3>1, WorkerStays
  <2>5. QED
    BY <2>3, <2>4
<1>4. CASE LinkStep
  <2>1. UNCHANGED <<sessionGen, transport, linkPhase, modeVars, wpc>>
    BY <1>4 DEF LinkStep, Fault, TransportClosed, Desync, AskDisconnect, linkVars
  <2>2. QED
    BY <1>0, <2>1 DEF Lockstep
<1>5. CASE Disconnect \/ RecoverGiveUp \/ RecoverReconnect \/ ReopenFail
  <2>1. transport' = 0 /\ linkPhase' # "connected" /\ mode' = "disconnected" /\ memo' = 0
    BY <1>5 DEF Disconnect, RecoverGiveUp, RecoverReconnect, ReopenFail, TearDown
  <2>2. QED
    BY <2>1 DEF Lockstep
<1>6. CASE Connect \/ Reopen
  <2>1. transport = 0
    <3>1. CASE Connect
      <4>1. Len(chain) \in Nat \ {0} /\ Head(chain) = chain[1]
        BY <3>1 DEF Connect, Idle, TypeOK
      <4>2. sessionGen = 0
        BY <3>1, <4>1 DEF Connect, LinkInv, OpsInv, ConnectFirst
      <4>3. QED
        BY <1>0, <4>2 DEF Lockstep, TypeOK, Gens
    <3>2. CASE Reopen
      BY <3>2 DEF Reopen, LinkInv, OpsInv
    <3>3. QED
      BY <1>6, <3>1, <3>2
  <2>2. transport' = transport /\ linkPhase' = "connecting" /\ UNCHANGED modeVars
    BY <1>6 DEF Connect, Reopen, BeginOpen
  <2>3. QED
    BY <1>0, <2>1, <2>2 DEF Lockstep
<1>7. CASE RecoverStale
  BY <1>0, <1>7 DEF RecoverStale, Lockstep, linkVars
<1>8. CASE OpenFail
  BY <1>0, <1>8 DEF OpenFail, LinkInv, OpsInv, Lockstep
<1>9. CASE OpenOk
  <2>1. /\ transport' = sessionGen /\ sessionGen' = sessionGen /\ sessionGen # 0
        /\ linkPhase' = "connected" /\ mode' # "disconnected" /\ sessionGen \in Gens
    BY <1>9 DEF OpenOk, Gens
  <2>2. wpc'[sessionGen] = "run"
    BY <1>0, <1>9 DEF OpenOk
  <2>3. memo' # 0 => memo' = transport' /\ memo' \in handshakes'
    <3>1. memo = 0
      BY <1>0, <1>9 DEF OpenOk, LinkInv, OpsInv, Lockstep
    <3>2. QED
      BY <1>9, <3>1 DEF OpenOk
  <2>4. QED
    BY <2>1, <2>2, <2>3 DEF Lockstep
<1>10. QED
  BY <1>1, <1>2, <1>3, <1>4, <1>5, <1>6, <1>7, <1>8, <1>9 DEF Next, OpStep

LEMMA InitLinkInv == Init => LinkInv
  BY DEF Init, LinkInv, Lockstep, OpsInv, ConnectFirst

LEMMA NextLinkInv == TypeOK /\ LinkInv /\ [Next]_vars => LinkInv'
<1> SUFFICES ASSUME TypeOK, LinkInv, [Next]_vars PROVE LinkInv'
  OBVIOUS
<1>1. CASE UNCHANGED vars
  BY <1>1 DEF vars, linkVars, modeVars, opVars, workerVars, LinkInv, Lockstep, OpsInv, ConnectFirst
<1>2. CASE Next
  BY <1>2, OpsKept, LockstepKept DEF LinkInv
<1>3. QED
  BY <1>1, <1>2

LEMMA LinkInvHolds == Spec => [](TypeOK /\ LinkInv)
<1>1. TypeOK /\ LinkInv /\ [Next]_vars => (TypeOK /\ LinkInv)'
  BY NextTypeOK, NextLinkInv
<1>2. QED
  BY <1>1, InitTypeOK, InitLinkInv, PTL DEF Spec

\* Transport, phase, mode, generation, worker and pending switch move together.
THEOREM LockstepHolds == Spec => []Lockstep
  BY LinkInvHolds, PTL DEF LinkInv

-----------------------------------------------------------------------------
(* Action properties.                                                      *)

\* A transport is given up only by the user, or by a recovery that was asked
\* for while it was the session's transport.
THEOREM NoTeardownUnasked == Spec => NoSpuriousTeardown
<1> DEFINE Asked == transport # 0 /\ transport' # transport
                    => /\ op = "idle"
                       /\ \/ Head(chain).kind = "disconnect"
                          \/ Head(chain).kind = "recover" /\ Head(chain).gen = transport
<1>1. LinkInv /\ [Next]_vars => [Asked]_vars
  <2> SUFFICES ASSUME LinkInv, Next PROVE Asked
    OBVIOUS
  <2> USE DEF linkVars, modeVars, opVars, queueVars, workerVars, callVars
  <2>1. CASE \/ \E c \in Calls : CallStep(c)
             \/ \E g \in Gens : WorkerStep(g) \/ HandshakeEnd(g)
             \/ LinkStep
    <3>1. transport' = transport
      BY <2>1 DEF CallStep, IssueInRpc, IssueWithoutLink, IssueAndSwitch, Resume, BodySend,
                BodyEnd, BodyFail, Return, Timeout, SendTimeout, Respond, WorkerStep, WorkerExit,
                WorkerWait, WorkerTake, Land, WriteOk, WriteFail, WriteOutlived, Answered,
                HandshakeEnd, LinkStep, Fault, TransportClosed, Desync, AskDisconnect
    <3>2. QED
      BY <3>1
  <2>2. CASE Connect \/ RecoverStale \/ Reopen \/ OpenFail
    BY <2>2 DEF Connect, RecoverStale, Reopen, OpenFail, BeginOpen
  <2>3. CASE Disconnect
    BY <2>3 DEF Disconnect, Idle
  <2>4. CASE RecoverGiveUp \/ RecoverReconnect
    BY <2>4 DEF RecoverGiveUp, RecoverReconnect, Idle, Stale, LinkInv, Lockstep
  <2>5. CASE OpenOk \/ ReopenFail
    BY <2>5 DEF OpenOk, ReopenFail, LinkInv, OpsInv
  <2>6. QED
    BY <2>1, <2>2, <2>3, <2>4, <2>5 DEF Next, OpStep
<1>2. QED
  BY <1>1, LinkInvHolds, PTL DEF Spec, NoSpuriousTeardown

\* RPC mode is declared only when the handshake with the session's present
\* transport ends, on every system whose transports open in CLI mode.
THEOREM RpcModeIsEarned == Spec => RpcModeEarned
<1> DEFINE Earned == mode # "rpc" /\ mode' = "rpc" /\ SupportsCli
                     => /\ transport' = transport
                        /\ transport \in handshakes \ handshakes'
<1>1. [Next]_vars => [Earned]_vars
  <2> SUFFICES ASSUME Next PROVE Earned
    OBVIOUS
  <2> USE DEF linkVars, modeVars, opVars, queueVars, workerVars, callVars
  <2>1. CASE \E t \in Gens : HandshakeEnd(t)
    BY <2>1 DEF HandshakeEnd, SwitchLands
  <2>2. CASE OpenOk
    BY <2>2 DEF OpenOk
  <2>3. CASE Disconnect \/ RecoverGiveUp \/ RecoverReconnect \/ ReopenFail
    BY <2>3 DEF Disconnect, RecoverGiveUp, RecoverReconnect, ReopenFail, TearDown
  <2>4. CASE \/ \E c \in Calls : CallStep(c)
             \/ \E g \in Gens : WorkerStep(g)
             \/ LinkStep
             \/ Connect \/ RecoverStale \/ Reopen \/ OpenFail
    <3>1. mode' = mode
      BY <2>4 DEF CallStep, IssueInRpc, IssueWithoutLink, IssueAndSwitch, Resume, BodySend,
                BodyEnd, BodyFail, Return, Timeout, SendTimeout, Respond, WorkerStep, WorkerExit,
                WorkerWait, WorkerTake, Land, WriteOk, WriteFail, WriteOutlived, Answered,
                LinkStep, Fault, TransportClosed, Desync, AskDisconnect, Connect, RecoverStale,
                Reopen, OpenFail, BeginOpen
    <3>2. QED
      BY <3>1
  <2>5. QED
    BY <2>1, <2>2, <2>3, <2>4 DEF Next, OpStep
<1>2. QED
  BY <1>1, PTL DEF Spec, RpcModeEarned

-----------------------------------------------------------------------------
(* The TX group is never leaked.                                           *)
(*                                                                         *)
(* NoGroupLeak is not inductive: when a write ends well, the worker locks  *)
(* or unlocks the group for calls it looked at when it took the batch.     *)
(* What makes that safe is CarryInv, about the frames still on their way:  *)
(* a multi-frame call has at most one, in the queue or in one write, its   *)
(* body waits for it, and it travels alone.                                *)

\* The frames on their way: those queued, and those in the write of a worker.
Places == {0} \cup Gens

At(x) == IF x = 0 THEN requestQueue ELSE IF wpc[x] = "write" THEN batch[x] ELSE {}

IsMulti(r) == Kind[r.call] = "multi"

\* The body of the call waits for this frame.
BodyWaits(c) == sent[c] = "waiting" /\ pc[c] = "body" /\ ~finalSent[c]

CarryOwner == \A x \in Places : \A r \in At(x) :
    /\ r.more => IsMulti(r)
    /\ IsMulti(r) => BodyWaits(r.call)

CarryOnce == \A x, y \in Places : \A r \in At(x), s \in At(y) :
    IsMulti(r) /\ r.call = s.call => x = y /\ r = s

CarryAlone == \A g \in Gens : \A r \in At(g) : IsMulti(r) => At(g) = {r}

CarryInv == CarryOwner /\ CarryOnce /\ CarryAlone

\* Only multi-frame calls have a body.
BodiesMulti == \A c \in Calls : pc[c] = "body" => Kind[c] = "multi"

-----------------------------------------------------------------------------
(* Two ways to keep CarryInv: to carry no more than before, leaving alone  *)
(* the calls that are still carried, or to queue one frame more.           *)

Carried(c) == \E x \in Places : \E r \in At(x) : r.call = c

Undisturbed(c) == UNCHANGED <<sent[c], pc[c], finalSent[c]>>

LEMMA CarryShrinks ==
  ASSUME CarryInv, \A x \in Places : At(x)' \subseteq At(x),
         \A c \in Calls : Kind[c] = "multi" /\ Carried(c)' => Undisturbed(c),
         \A x \in Places : At(x) \subseteq Requests
  PROVE  CarryInv'
<1>1. CarryOwner'
  <2> SUFFICES ASSUME NEW x \in Places, NEW r \in At(x)'
               PROVE  /\ r.more => IsMulti(r)
                      /\ IsMulti(r) => BodyWaits(r.call)'
    BY DEF CarryOwner, IsMulti
  <2>1. r \in At(x) /\ r.call \in Calls
    BY DEF Requests
  <2>2. IsMulti(r) => Undisturbed(r.call)
    BY <2>1 DEF Carried, IsMulti
  <2>3. QED
    BY <2>1, <2>2 DEF CarryInv, CarryOwner, BodyWaits, Undisturbed
<1>2. CarryOnce'
  BY DEF CarryInv, CarryOnce, IsMulti
<1>3. CarryAlone'
  <2> SUFFICES ASSUME NEW g \in Gens, NEW r \in At(g)', IsMulti(r)
               PROVE  At(g)' = {r}
    BY DEF CarryAlone, IsMulti
  <2>1. At(g)' \subseteq At(g)
    BY DEF Places
  <2>2. At(g) = {r}
    BY <2>1 DEF CarryInv, CarryAlone
  <2>3. QED
    BY <2>1, <2>2
<1>4. QED
  BY <1>1, <1>2, <1>3 DEF CarryInv

LEMMA CarryEnqueues ==
  ASSUME TypeOK, CarryInv, NEW c \in Calls, NEW more \in BOOLEAN, Enqueue(c, more),
         more => Kind[c] = "multi",
         Kind[c] = "multi" => BodyWaits(c)' /\ sent[c] # "waiting",
         \A d \in Calls \ {c} : Undisturbed(d),
         batch' = batch,
         \A x \in Places : At(x) \subseteq Requests
  PROVE  CarryInv'
<1> DEFINE new == [call |-> c, more |-> more, seq |-> requestSeq]
<1>1. /\ requestQueue' = requestQueue \cup {new}
      /\ \A g \in Gens : wpc'[g] = "write" <=> wpc[g] = "write"
  BY DEF Enqueue, Signalled, TypeOK
<1>2. new.call = c /\ new.more = more
  OBVIOUS
<1> HIDE DEF new
<1>3. 0 \notin Gens
  BY DEF Gens
<1>4. /\ At(0)' = At(0) \cup {new}
      /\ \A g \in Gens : At(g)' = At(g)
  BY <1>1, <1>3 DEF At
<1>5. \A x \in Places : \A r \in At(x)' : r \in At(x) \/ (x = 0 /\ r = new)
  BY <1>4 DEF Places
<1>6. \A x \in Places : \A r \in At(x) : IsMulti(r) => r.call # c
  BY DEF CarryInv, CarryOwner, BodyWaits, IsMulti
<1>7. CarryOwner'
  <2> SUFFICES ASSUME NEW x \in Places, NEW r \in At(x)'
               PROVE  /\ r.more => IsMulti(r)
                      /\ IsMulti(r) => BodyWaits(r.call)'
    BY DEF CarryOwner, IsMulti
  <2>1. CASE r \in At(x)
    <3>1. IsMulti(r) => r.call \in Calls \ {c}
      BY <1>6, <2>1 DEF Requests
    <3>2. IsMulti(r) => Undisturbed(r.call)
      BY <3>1
    <3>3. QED
      BY <2>1, <3>2 DEF CarryInv, CarryOwner, BodyWaits, Undisturbed
  <2>2. CASE r = new
    BY <1>2, <2>2 DEF IsMulti
  <2>3. QED
    BY <1>5, <2>1, <2>2
<1>8. CarryOnce'
  <2> SUFFICES ASSUME NEW x \in Places, NEW y \in Places, NEW r \in At(x)', NEW s \in At(y)',
                      IsMulti(r), r.call = s.call
               PROVE  x = y /\ r = s
    BY DEF CarryOnce, IsMulti
  <2>1. IsMulti(s)
    BY DEF IsMulti
  <2>2. CASE r \in At(x) /\ s \in At(y)
    BY <2>2 DEF CarryInv, CarryOnce
  <2>3. QED
    BY <1>2, <1>5, <1>6, <2>1, <2>2
<1>9. CarryAlone'
  BY <1>4 DEF CarryInv, CarryAlone, IsMulti
<1>10. QED
  BY <1>7, <1>8, <1>9 DEF CarryInv

LEMMA AtRequests == TypeOK => \A x \in Places : At(x) \subseteq Requests
  BY DEF TypeOK, At, Places

\* A signal moves no worker in or out of a write.
LEMMA SignalledWrites ==
  ASSUME TypeOK, NEW fires, wpc' = Signalled(wpc, fires)
  PROVE  \A g \in Gens : wpc'[g] = "write" <=> wpc[g] = "write"
  BY DEF Signalled, TypeOK

\* When no write begins or ends, only the queue can carry less.
LEMMA QueueShrinks ==
  ASSUME TypeOK, CarryInv, requestQueue' \subseteq requestQueue, batch' = batch,
         \A g \in Gens : wpc'[g] = "write" => wpc[g] = "write",
         \A c \in Calls : Kind[c] = "multi" /\ Carried(c)' => Undisturbed(c)
  PROVE  CarryInv'
<1>1. \A x \in Places : At(x)' \subseteq At(x)
  BY DEF At, Places
<1>2. QED
  BY <1>1, AtRequests, CarryShrinks

\* What was not carried and is not queued is not carried.
LEMMA CarriedBefore ==
  ASSUME requestQueue' \subseteq requestQueue, batch' = batch,
         \A g \in Gens : wpc'[g] = "write" => wpc[g] = "write",
         NEW c, Carried(c)'
  PROVE  Carried(c)
<1>1. \A x \in Places : At(x)' \subseteq At(x)
  BY DEF At, Places
<1>2. QED
  BY <1>1 DEF Carried

LEMMA CarriedWaits ==
  ASSUME CarryInv, NEW c, Kind[c] = "multi", Carried(c)
  PROVE  BodyWaits(c)
  BY DEF CarryInv, CarryOwner, Carried, IsMulti

\* Requests that fail for good, taken out of the one place where they were, fail
\* no multi-frame call that is still carried.
LEMMA FailedNotCarried ==
  ASSUME TypeOK, CarryInv, NEW x \in Places, NEW reqs \in SUBSET At(x),
         sent' = SentFailed(reqs), At(x)' \cap reqs = {},
         \A y \in Places : At(y)' \subseteq At(y),
         NEW d \in Calls, Kind[d] = "multi", Carried(d)'
  PROVE  sent'[d] = sent[d]
<1>1. PICK y \in Places : \E s \in At(y)' : s.call = d
  BY DEF Carried
<1>2. ~ \E r \in reqs : r.call = d
  BY <1>1 DEF CarryInv, CarryOnce, IsMulti
<1>3. QED
  BY <1>2 DEF SentFailed

LEMMA CallStepCarries ==
  ASSUME TypeOK, CarryInv, BodiesMulti, NEW c \in Calls, CallStep(c)
  PROVE  CarryInv'
<1> USE DEF linkVars, modeVars, opVars, queueVars, workerVars, callVars
<1>0. \A x \in Places : At(x) \subseteq Requests
  BY AtRequests
<1>1. CASE IssueInRpc(c) \/ Resume(c)
  <2>1. Register(c) /\ pc[c] \in {"idle", "switching"} /\ UNCHANGED <<batch, finalSent>>
    BY <1>1 DEF IssueInRpc, Resume, Register
  <2>2. CASE RegisterCall(c) \/ RegisterSend(c)
    <3>1. Enqueue(c, FALSE) /\ Kind[c] # "multi"
      BY <2>2 DEF RegisterCall, RegisterSend
    <3>2. \A d \in Calls \ {c} : Undisturbed(d)
      BY <2>1, <2>2 DEF RegisterCall, RegisterSend, Undisturbed, TypeOK
    <3>3. QED
      BY <1>0, <2>1, <3>1, <3>2, CarryEnqueues
  <2>3. CASE RegisterBody(c)
    <3>1. UNCHANGED <<requestQueue, batch, wpc>>
      BY <2>1, <2>3 DEF RegisterBody
    <3>2. \A d \in Calls : Kind[d] = "multi" /\ Carried(d)' => Undisturbed(d)
      <4> SUFFICES ASSUME NEW d \in Calls, Kind[d] = "multi", Carried(d)'
                   PROVE  Undisturbed(d)
        OBVIOUS
      <4>1. BodyWaits(d)
        BY <3>1, CarriedBefore, CarriedWaits
      <4>2. d # c
        BY <2>1, <4>1 DEF BodyWaits
      <4>3. QED
        BY <2>1, <2>3, <4>2 DEF RegisterBody, Undisturbed, TypeOK
    <3>3. QED
      BY <3>1, <3>2, QueueShrinks
  <2>4. QED
    BY <2>1, <2>2, <2>3 DEF Register
<1>2. CASE IssueWithoutLink(c) \/ IssueAndSwitch(c) \/ BodyEnd(c)
  <2>1. UNCHANGED <<requestQueue, batch, wpc, sent, finalSent>>
    BY <1>2 DEF IssueWithoutLink, IssueAndSwitch, BodyEnd
  <2>2. ~BodyWaits(c)
    BY <1>2 DEF IssueWithoutLink, IssueAndSwitch, BodyEnd, BodyWaits
  <2>3. \A d \in Calls \ {c} : pc'[d] = pc[d]
    BY <1>2 DEF IssueWithoutLink, IssueAndSwitch, BodyEnd, TypeOK
  <2>4. \A d \in Calls : Kind[d] = "multi" /\ Carried(d)' => Undisturbed(d)
    BY <2>1, <2>2, <2>3, CarriedBefore, CarriedWaits DEF Undisturbed
  <2>5. QED
    BY <2>1, <2>4, QueueShrinks
<1>3. CASE BodySend(c)
  <2>1. PICK more \in BOOLEAN : Enqueue(c, more)
    BY <1>3 DEF BodySend
  <2>2. UNCHANGED <<pc, finalSent, batch>> /\ sent[c] # "waiting"
    BY <1>3 DEF BodySend
  <2>3. sent' = [sent EXCEPT ![c] = "waiting"]
    BY <1>3 DEF BodySend
  <2>4. \A d \in Calls \ {c} : Undisturbed(d)
    BY <2>2, <2>3 DEF Undisturbed, TypeOK
  <2>5. BodyWaits(c)'
    BY <1>3, <2>2, <2>3 DEF BodySend, BodyWaits, TypeOK
  <2>6. Kind[c] = "multi"
    BY <1>3 DEF BodySend, BodiesMulti
  <2>7. QED
    BY <1>0, <2>1, <2>2, <2>4, <2>5, <2>6, CarryEnqueues
<1>4. CASE BodyFail(c) \/ Timeout(c)
  <2>1. /\ requestQueue' = requestQueue \ QueuedOf({c})
        /\ sent' = SentFailed(QueuedOf({c}))
        /\ UNCHANGED <<batch, finalSent>>
        /\ wpc' = Signalled(wpc, txGroup = c)
    BY <1>4 DEF BodyFail, Timeout, FailCalls
  <2>2. \A g \in Gens : wpc'[g] = "write" <=> wpc[g] = "write"
    BY <2>1, SignalledWrites
  <2>3. /\ 0 \in Places /\ QueuedOf({c}) \in SUBSET At(0)
        /\ At(0)' \cap QueuedOf({c}) = {}
    BY <2>1 DEF Places, At, QueuedOf
  <2>4. \A y \in Places : At(y)' \subseteq At(y)
    BY <2>1, <2>2 DEF Places, At
  <2>5. \A d \in Calls : Kind[d] = "multi" /\ Carried(d)' => sent'[d] = sent[d]
    BY <2>1, <2>3, <2>4, FailedNotCarried
  <2>6. \A d \in Calls : Kind[d] = "multi" /\ Carried(d)' => BodyWaits(d)
    BY <2>1, <2>2, CarriedBefore, CarriedWaits
  <2>7. ~BodyWaits(c) \/ pc' = pc
    BY <1>4 DEF BodyFail, Timeout, BodyWaits
  <2>8. \A d \in Calls \ {c} : pc'[d] = pc[d]
    BY <1>4 DEF BodyFail, Timeout, TypeOK
  <2>9. \A d \in Calls : Kind[d] = "multi" /\ Carried(d)' => Undisturbed(d)
    BY <2>1, <2>5, <2>6, <2>7, <2>8 DEF Undisturbed
  <2>10. QED
    BY <1>0, <2>4, <2>9, CarryShrinks
<1>5. CASE Return(c) \/ Respond(c)
  <2>1. /\ wpc' = Signalled(wpc, txGroup = c)
        /\ UNCHANGED <<requestQueue, batch, sent, finalSent>>
        /\ ~BodyWaits(c) \/ pc' = pc
        /\ \A d \in Calls \ {c} : pc'[d] = pc[d]
    BY <1>5 DEF Return, Respond, BodyWaits, TypeOK
  <2>2. \A g \in Gens : wpc'[g] = "write" <=> wpc[g] = "write"
    BY <2>1, SignalledWrites
  <2>3. \A d \in Calls : Kind[d] = "multi" /\ Carried(d)' => Undisturbed(d)
    BY <2>1, <2>2, CarriedBefore, CarriedWaits DEF Undisturbed
  <2>4. QED
    BY <2>1, <2>2, <2>3, QueueShrinks
<1>6. CASE SendTimeout(c)
  <2>1. /\ UNCHANGED <<batch, wpc, pc, finalSent>>
        /\ requestQueue' \subseteq requestQueue
        /\ Kind[c] # "multi"
        /\ \A d \in Calls \ {c} : sent'[d] = sent[d]
    BY <1>6 DEF SendTimeout, TypeOK
  <2>2. \A d \in Calls : Kind[d] = "multi" /\ Carried(d)' => Undisturbed(d)
    BY <2>1 DEF Undisturbed
  <2>3. QED
    BY <2>1, <2>2, QueueShrinks
<1>7. QED
  BY <1>1, <1>2, <1>3, <1>4, <1>5, <1>6 DEF CallStep

\* When worker g is in no write after the step, it carries nothing.
LEMMA WriterLeaves ==
  ASSUME NEW g \in Gens, wpc'[g] # "write", requestQueue' \subseteq requestQueue,
         \A h \in Gens \ {g} : batch'[h] = batch[h] /\ (wpc'[h] = "write" => wpc[h] = "write")
  PROVE  At(g)' = {} /\ \A x \in Places : At(x)' \subseteq At(x)
<1>1. g # 0
  BY DEF Gens
<1>2. At(g)' = {}
  BY <1>1 DEF At
<1>3. ASSUME NEW x \in Places \ {g} PROVE At(x)' \subseteq At(x)
  BY <1>3 DEF At, Places
<1>4. QED
  BY <1>2, <1>3

\* Calls whose frame was in a write that has ended are carried no more.
LEMMA WrittenNotCarried ==
  ASSUME CarryInv, NEW g \in Gens, At(g)' = {}, \A x \in Places : At(x)' \subseteq At(x),
         NEW r \in At(g), IsMulti(r)
  PROVE  ~Carried(r.call)'
  BY DEF CarryInv, CarryOnce, Carried, Places

LEMMA TakeCarries ==
  ASSUME TypeOK, CarryInv, NEW g \in Gens, WorkerTake(g)
  PROVE  CarryInv'
<1> USE DEF linkVars, modeVars, opVars, queueVars, workerVars, callVars
<1>1. PICK B \in Batches : /\ batch' = [batch EXCEPT ![g] = B]
                           /\ requestQueue' = requestQueue \ B
  BY DEF WorkerTake
<1>2. /\ B \subseteq requestQueue
      /\ \A r \in B : Batchable(r) \/ B = {r}
  BY <1>1 DEF Batches, Dispatchable
<1>3. 0 \notin Gens
  BY DEF Gens
<1>4. At(g)' = B /\ At(0)' = At(0) \ B /\ At(0) = requestQueue
  BY <1>1, <1>3 DEF WorkerTake, At, TypeOK
<1>5. \A h \in Gens \ {g} : At(h)' = At(h)
  BY <1>1, <1>3 DEF WorkerTake, At, TypeOK
<1>6. At(g) = {}
  BY <1>3 DEF WorkerTake, At
<1>7. UNCHANGED <<sent, pc, finalSent>>
  BY DEF WorkerTake
\* Whatever is carried now was carried before, at a place the move decides.
<1> DEFINE From(x) == IF x = g THEN 0 ELSE x
<1>8. \A x \in Places : From(x) \in Places /\ At(x)' \subseteq At(From(x))
  BY <1>2, <1>4, <1>5 DEF Places
<1>9. CarryOwner'
  BY <1>7, <1>8 DEF CarryInv, CarryOwner, IsMulti, BodyWaits
<1>10. CarryOnce'
  <2> SUFFICES ASSUME NEW x \in Places, NEW y \in Places, NEW r \in At(x)', NEW s \in At(y)',
                      IsMulti(r), r.call = s.call
               PROVE  x = y /\ r = s
    BY DEF CarryOnce, IsMulti
  <2>1. From(x) = From(y) /\ r = s
    BY <1>8 DEF CarryInv, CarryOnce
  <2>2. ~(x = g /\ y = 0) /\ ~(x = 0 /\ y = g)
    BY <1>4, <2>1
  <2>3. QED
    BY <2>1, <2>2
<1>11. CarryAlone'
  <2> SUFFICES ASSUME NEW h \in Gens, NEW r \in At(h)', IsMulti(r)
               PROVE  At(h)' = {r}
    BY DEF CarryAlone, IsMulti
  <2>1. CASE h = g
    BY <1>2, <1>4, <2>1 DEF Batchable, HoldsTxUntilAnswer, IsMulti
  <2>2. CASE h # g
    BY <1>5, <2>2 DEF CarryInv, CarryAlone
  <2>3. QED
    BY <2>1, <2>2
<1>12. QED
  BY <1>9, <1>10, <1>11 DEF CarryInv

LEMMA WorkerStepCarries ==
  ASSUME TypeOK, CarryInv, NEW g \in Gens, WorkerStep(g)
  PROVE  CarryInv'
<1> USE DEF linkVars, modeVars, opVars, queueVars, workerVars, callVars
<1>0. /\ \A x \in Places : At(x) \subseteq Requests
      /\ wpc \in [Gens -> WorkerPc] /\ batch \in [Gens -> SUBSET Requests]
      /\ 0 \notin Gens
  BY AtRequests DEF TypeOK, Gens
<1>1. CASE WorkerExit(g) \/ WorkerWait(g) \/ Answered(g)
  <2>1. /\ wpc'[g] # "write" /\ requestQueue' = requestQueue
        /\ \A h \in Gens \ {g} : batch'[h] = batch[h] /\ wpc'[h] = wpc[h]
        /\ UNCHANGED <<sent, pc, finalSent>>
    BY <1>0, <1>1 DEF WorkerExit, WorkerWait, Answered
  <2>2. \A x \in Places : At(x)' \subseteq At(x)
    BY <2>1, WriterLeaves
  <2>3. QED
    BY <1>0, <2>1, <2>2, CarryShrinks DEF Undisturbed
<1>2. CASE WorkerTake(g)
  BY <1>2, TakeCarries
<1>3. CASE Land(g)
  BY <1>3, QueueShrinks DEF Land, Undisturbed
<1>4. CASE WriteOk(g)
  <2>1. /\ wpc[g] = "write" /\ UNCHANGED <<requestQueue, pc>>
        /\ \A h \in Gens \ {g} : batch'[h] = batch[h]
    BY <1>0, <1>4 DEF WriteOk
  <2>2. /\ wpc'[g] # "write"
        /\ \A h \in Gens \ {g} : wpc'[h] = "write" => wpc[h] = "write"
    BY <1>0, <1>4 DEF WriteOk, Signalled
  <2>3. At(g)' = {} /\ \A x \in Places : At(x)' \subseteq At(x)
    BY <2>1, <2>2, WriterLeaves
  <2>4. At(g) = batch[g]
    BY <1>0, <2>1 DEF At
  <2>5. \A d \in Calls : (\A r \in batch[g] : r.call # d)
            => sent'[d] = sent[d] /\ finalSent'[d] = finalSent[d]
    <3>1. \A d \in Calls : (\A r \in batch[g] : r.call # d) => sent'[d] = sent[d]
      BY <1>4 DEF WriteOk
    <3>2. \A d \in Calls : (\A r \in batch[g] : r.call # d) => finalSent'[d] = finalSent[d]
      <4>1. finalSent' = [c \in Calls |-> \/ finalSent[c]
                              \/ c \in {r.call : r \in {s \in batch[g] : ~s.more}}]
        BY <1>4 DEF WriteOk
      <4>2. finalSent \in [Calls -> BOOLEAN]
        BY DEF TypeOK
      <4>3. QED
        BY <4>1, <4>2
    <3>3. QED
      BY <3>1, <3>2
  <2>6. \A d \in Calls : Kind[d] = "multi" /\ Carried(d)' => Undisturbed(d)
    <3> SUFFICES ASSUME NEW d \in Calls, Kind[d] = "multi", Carried(d)'
                 PROVE  Undisturbed(d)
      OBVIOUS
    <3>1. \A r \in batch[g] : r.call # d
      BY <2>3, <2>4, WrittenNotCarried DEF IsMulti
    <3>2. QED
      BY <2>1, <2>5, <3>1 DEF Undisturbed
  <2>7. QED
    BY <1>0, <2>3, <2>6, CarryShrinks
<1>5. CASE WriteFail(g) \/ WriteOutlived(g)
  <2>1. /\ wpc[g] = "write" /\ UNCHANGED <<pc, finalSent>>
        /\ sent' = SentFailed(batch[g])
        /\ batch' = [batch EXCEPT ![g] = {}]
        /\ requestQueue' \subseteq requestQueue
    BY <1>5 DEF WriteFail, WriteOutlived, FailBatch, FailCalls
  <2>2. /\ wpc'[g] # "write"
        /\ \A h \in Gens \ {g} : wpc'[h] = "write" => wpc[h] = "write"
    <3>1. CASE WriteFail(g)
      BY <1>0, <3>1 DEF WriteFail, Signalled
    <3>2. CASE WriteOutlived(g)
      BY <1>0, <3>2 DEF WriteOutlived, Signalled
    <3>3. QED
      BY <1>5, <3>1, <3>2
  <2>3. \A h \in Gens \ {g} : batch'[h] = batch[h]
    BY <1>0, <2>1
  <2>4. At(g)' = {} /\ \A x \in Places : At(x)' \subseteq At(x)
    BY <2>1, <2>2, <2>3, WriterLeaves
  <2>5. batch[g] \in SUBSET At(g) /\ g \in Places
    BY <1>0, <2>1 DEF At, Places
  <2>6. \A d \in Calls : Kind[d] = "multi" /\ Carried(d)' => sent'[d] = sent[d]
    BY <2>1, <2>4, <2>5, FailedNotCarried
  <2>7. QED
    BY <1>0, <2>1, <2>4, <2>6, CarryShrinks DEF Undisturbed
<1>6. QED
  BY <1>1, <1>2, <1>3, <1>4, <1>5 DEF WorkerStep

LEMMA OtherStepCarries ==
  ASSUME TypeOK, CarryInv, LinkStep \/ OpStep \/ \E t \in Gens : HandshakeEnd(t)
  PROVE  CarryInv'
<1> USE DEF linkVars, modeVars, opVars, queueVars, workerVars, callVars
<1>0. wpc \in [Gens -> WorkerPc] /\ 0 \notin Gens
  BY DEF TypeOK, Gens
<1>1. CASE LinkStep
  <2>1. UNCHANGED <<requestQueue, batch, wpc, sent, pc, finalSent>>
    BY <1>1 DEF LinkStep, Fault, TransportClosed, Desync, AskDisconnect
  <2>2. QED
    BY <2>1, QueueShrinks DEF Undisturbed
<1>2. ASSUME NEW t \in Gens, HandshakeEnd(t)
      PROVE  CarryInv'
  <2>1. UNCHANGED <<requestQueue, batch, sent, pc, finalSent>>
    BY <1>2 DEF HandshakeEnd
  <2>2. \A g \in Gens : wpc'[g] = "write" => wpc[g] = "write"
    BY <1>0, <1>2 DEF HandshakeEnd, Signalled
  <2>3. QED
    BY <2>1, <2>2, QueueShrinks DEF Undisturbed
<1>3. CASE Disconnect \/ RecoverGiveUp \/ RecoverReconnect \/ ReopenFail
  \* The session ends or drops: the calls whose queued frames fail are those
  \* that leave the queue.
  <2>1. PICK reqs : /\ reqs \in SUBSET requestQueue
                    /\ requestQueue' = requestQueue \ reqs
                    /\ sent' = SentFailed(reqs)
    <3>1. CASE RecoverReconnect
      BY <3>1 DEF RecoverReconnect, FailCalls, QueuedOf
    <3>2. CASE Disconnect \/ RecoverGiveUp \/ ReopenFail
      BY <3>2 DEF Disconnect, RecoverGiveUp, ReopenFail, TearDown
    <3>3. QED
      BY <1>3, <3>1, <3>2
  <2>2. wpc' = Signalled(wpc, TRUE) /\ UNCHANGED <<batch, pc, finalSent>>
    BY <1>3 DEF Disconnect, RecoverGiveUp, RecoverReconnect, ReopenFail, TearDown
  <2>3. \A g \in Gens : wpc'[g] = "write" <=> wpc[g] = "write"
    BY <1>0, <2>2 DEF Signalled
  <2>4. /\ 0 \in Places /\ reqs \in SUBSET At(0) /\ At(0)' \cap reqs = {}
        /\ \A y \in Places : At(y)' \subseteq At(y)
    BY <2>1, <2>2, <2>3 DEF Places, At
  <2>5. \A d \in Calls : Kind[d] = "multi" /\ Carried(d)' => sent'[d] = sent[d]
    BY <2>1, <2>4, FailedNotCarried
  <2>6. QED
    BY <2>2, <2>4, <2>5, AtRequests, CarryShrinks DEF Undisturbed
<1>4. CASE Connect \/ Reopen \/ RecoverStale \/ OpenFail
  <2>1. UNCHANGED <<requestQueue, batch, wpc, sent, pc, finalSent>>
    BY <1>4 DEF Connect, Reopen, BeginOpen, RecoverStale, OpenFail
  <2>2. QED
    BY <2>1, QueueShrinks DEF Undisturbed
<1>5. CASE OpenOk
  BY <1>0, <1>5, QueueShrinks DEF OpenOk, Undisturbed
<1>6. QED
  BY <1>1, <1>2, <1>3, <1>4, <1>5 DEF OpStep

-----------------------------------------------------------------------------
(* The invariant, and the group.                                           *)

GroupInv == BodiesMulti /\ CarryInv /\ NoGroupLeak

LEMMA BodiesMultiKept ==
  ASSUME TypeOK, BodiesMulti, Next
  PROVE  BodiesMulti'
<1> USE DEF linkVars, modeVars, opVars, queueVars, workerVars, callVars
<1>1. ASSUME NEW c \in Calls, CallStep(c)
      PROVE  BodiesMulti'
  <2>1. CASE IssueInRpc(c) \/ Resume(c)
    BY <2>1 DEF IssueInRpc, Resume, Register, RegisterCall, RegisterBody, RegisterSend,
                BodiesMulti, TypeOK
  <2>2. CASE ~(IssueInRpc(c) \/ Resume(c))
    <3>1. \A d \in Calls : pc'[d] = "body" => pc[d] = "body"
      BY <1>1, <2>2 DEF CallStep, IssueWithoutLink, IssueAndSwitch, BodySend, BodyEnd, BodyFail,
                  Return, Timeout, SendTimeout, Respond, TypeOK
    <3>2. QED
      BY <3>1 DEF BodiesMulti
  <2>3. QED
    BY <2>1, <2>2
<1>2. ASSUME \/ \E g \in Gens : WorkerStep(g) \/ HandshakeEnd(g)
             \/ LinkStep \/ OpStep
      PROVE  pc' = pc
  BY <1>2 DEF WorkerStep, WorkerExit, WorkerWait, WorkerTake, Land, WriteOk, WriteFail,
              WriteOutlived, Answered, HandshakeEnd, LinkStep, Fault, TransportClosed, Desync,
              AskDisconnect, OpStep, Connect, Disconnect, RecoverStale, RecoverGiveUp,
              RecoverReconnect, Reopen, OpenOk, OpenFail, ReopenFail, TearDown, BeginOpen
<1>3. QED
  BY <1>1, <1>2 DEF Next, BodiesMulti

\* A group that is released, or whose owner is left alone, is not leaked.
LEMMA GroupStays ==
  ASSUME NoGroupLeak, txGroup' \in {txGroup, NoCall},
         txGroup' # NoCall => /\ pc'[txGroup] = "body" \/ pc'[txGroup] = pc[txGroup]
                              /\ finalSent'[txGroup] = finalSent[txGroup]
  PROVE  NoGroupLeak'
  BY DEF NoGroupLeak

\* Each step but the end of a write only ever releases the group.
LEMMA GroupKept ==
  ASSUME TypeOK, NoGroupLeak, Next, \A g \in Gens : ~WriteOk(g)
  PROVE  NoGroupLeak'
<1> USE DEF linkVars, modeVars, opVars, queueVars, workerVars, callVars
<1>1. ASSUME NEW c \in Calls, CallStep(c)
      PROVE  NoGroupLeak'
  <2>1. CASE IssueInRpc(c) \/ Resume(c)
    <3>1. UNCHANGED <<txGroup, finalSent>>
      BY <2>1 DEF IssueInRpc, Resume, Register
    <3>2. \A d \in Calls : pc[d] = "body" => pc'[d] = "body"
      BY <2>1 DEF IssueInRpc, Resume, Register, RegisterCall, RegisterBody, RegisterSend, TypeOK
    <3>3. QED
      BY <3>1, <3>2 DEF NoGroupLeak, TypeOK
  <2>2. CASE IssueWithoutLink(c) \/ IssueAndSwitch(c) \/ BodySend(c) \/ SendTimeout(c)
    <3>1. UNCHANGED <<txGroup, finalSent>>
      BY <2>2 DEF IssueWithoutLink, IssueAndSwitch, BodySend, SendTimeout
    <3>2. \A d \in Calls : pc[d] = "body" => pc'[d] = "body"
      BY <2>2 DEF IssueWithoutLink, IssueAndSwitch, BodySend, SendTimeout, TypeOK
    <3>3. QED
      BY <3>1, <3>2 DEF NoGroupLeak, TypeOK
  <2>3. CASE BodyEnd(c)
    BY <2>3 DEF BodyEnd, NoGroupLeak, TypeOK
  <2>4. CASE BodyFail(c) \/ Return(c) \/ Timeout(c) \/ Respond(c)
    <3>1. txGroup' = Released({c}) /\ UNCHANGED finalSent
      BY <2>4 DEF BodyFail, Return, Timeout, Respond, FailCalls
    <3>2. \A d \in Calls \ {c} : pc'[d] = pc[d]
      BY <2>4 DEF BodyFail, Return, Timeout, Respond, TypeOK
    <3>3. QED
      BY <3>1, <3>2, GroupStays DEF Released, TypeOK
  <2>5. QED
    BY <1>1, <2>1, <2>2, <2>3, <2>4 DEF CallStep
<1>2. ASSUME NEW g \in Gens, WorkerStep(g) \/ HandshakeEnd(g)
      PROVE  NoGroupLeak'
  <2>1. UNCHANGED <<pc, finalSent>> /\ txGroup' \in {txGroup, NoCall}
    BY <1>2 DEF WorkerStep, WorkerExit, WorkerWait, WorkerTake, Land, WriteFail, WriteOutlived,
                Answered, HandshakeEnd, FailBatch, FailCalls, Released
  <2>2. QED
    BY <2>1, GroupStays
<1>3. CASE LinkStep \/ OpStep
  <2>1. UNCHANGED <<pc, finalSent>>
    BY <1>3 DEF LinkStep, Fault, TransportClosed, Desync, AskDisconnect, OpStep, Connect,
              Disconnect, RecoverStale, RecoverGiveUp, RecoverReconnect, Reopen, OpenOk, OpenFail,
              ReopenFail, TearDown, BeginOpen
  <2>2. txGroup' \in {txGroup, NoCall}
    BY <1>3 DEF LinkStep, Fault, TransportClosed, Desync, AskDisconnect, OpStep, Connect,
              Disconnect, RecoverStale, RecoverGiveUp, RecoverReconnect, Reopen, OpenOk, OpenFail,
              ReopenFail, TearDown, BeginOpen, FailCalls, Released
  <2>3. QED
    BY <2>1, <2>2, GroupStays
<1>4. QED
  BY <1>1, <1>2, <1>3 DEF Next

\* A write that ends well locks the group for a call whose body waits for the
\* frame just sent, or unlocks it.
LEMMA WriteOkGroup ==
  ASSUME TypeOK, CarryInv, NoGroupLeak, NEW g \in Gens, WriteOk(g)
  PROVE  NoGroupLeak'
<1> USE DEF linkVars, modeVars, opVars, queueVars, workerVars, callVars
<1> DEFINE B == batch[g]
           mids == {r.call : r \in {s \in B : s.more}}
           finals == {r.call : r \in {s \in B : ~s.more}}
           locked == IF mids # {} THEN CHOOSE c \in mids : TRUE ELSE txGroup
<1>1. /\ txGroup' = IF locked \in finals THEN NoCall ELSE locked
      /\ finalSent' = [c \in Calls |-> finalSent[c] \/ c \in finals]
      /\ pc' = pc
  BY DEF WriteOk
<1>2. At(g) = B /\ B \subseteq Requests /\ g \in Places
  <2>1. wpc[g] = "write" /\ g # 0
    BY DEF WriteOk, Gens
  <2>2. At(g) = B
    BY <2>1 DEF At
  <2>3. B \subseteq Requests /\ g \in Places
    BY DEF TypeOK, Places
  <2>4. QED
    BY <2>2, <2>3
<1>3. CASE mids # {}
  <2>1. locked \in mids
    BY <1>3
  <2>2. PICK r \in B : r.more /\ r.call = locked
    BY <2>1
  <2>3. IsMulti(r) /\ BodyWaits(r.call)
    BY <1>2, <2>2 DEF CarryInv, CarryOwner
  <2>4. B = {r}
    BY <1>2, <2>3 DEF CarryInv, CarryAlone
  <2>5. finals = {}
    BY <2>2, <2>4
  <2>6. txGroup' = r.call /\ r.call \in Calls
    BY <1>1, <1>2, <2>2, <2>5 DEF Requests
  <2>7. ~finalSent'[r.call]
    BY <1>1, <2>3, <2>5, <2>6 DEF BodyWaits
  <2>8. QED
    BY <1>1, <2>3, <2>6, <2>7 DEF NoGroupLeak, BodyWaits, IsMulti
<1>4. CASE mids = {}
  <2>1. txGroup' = IF txGroup \in finals THEN NoCall ELSE txGroup
    BY <1>1, <1>4
  <2>2. txGroup \in Calls /\ txGroup \notin finals => finalSent'[txGroup] = finalSent[txGroup]
    BY <1>1 DEF TypeOK
  <2> HIDE DEF finals
  <2>3. QED
    BY <1>1, <2>1, <2>2, GroupStays DEF TypeOK
<1>5. QED
  BY <1>3, <1>4

LEMMA InitGroupInv == Init => GroupInv
<1> SUFFICES ASSUME Init PROVE GroupInv
  OBVIOUS
<1>1. \A x \in Places : At(x) = {}
  BY DEF Init, At, Places
<1>2. CarryInv
  BY <1>1 DEF CarryInv, CarryOwner, CarryOnce, CarryAlone, Places
<1>3. BodiesMulti /\ NoGroupLeak
  BY DEF Init, BodiesMulti, NoGroupLeak
<1>4. QED
  BY <1>2, <1>3 DEF GroupInv

LEMMA NextGroupInv == TypeOK /\ GroupInv /\ [Next]_vars => GroupInv'
<1> SUFFICES ASSUME TypeOK, GroupInv, [Next]_vars PROVE GroupInv'
  OBVIOUS
<1> USE DEF GroupInv
<1>1. CASE UNCHANGED vars
  <2> USE <1>1 DEF vars, linkVars, modeVars, opVars, queueVars, workerVars, callVars
  <2>1. CarryInv'
    BY QueueShrinks DEF Undisturbed
  <2>2. BodiesMulti' /\ NoGroupLeak'
    BY DEF BodiesMulti, NoGroupLeak
  <2>3. QED
    BY <2>1, <2>2
<1>2. CASE Next
  <2>1. BodiesMulti'
    BY <1>2, BodiesMultiKept
  <2>2. CarryInv'
    BY <1>2, CallStepCarries, WorkerStepCarries, OtherStepCarries DEF Next
  <2>3. NoGroupLeak'
    BY <1>2, GroupKept, WriteOkGroup
  <2>4. QED
    BY <2>1, <2>2, <2>3
<1>3. QED
  BY <1>1, <1>2

\* The TX group is never left locked by a command nobody will finish: only a
\* multi-frame call whose body still runs, with its final frame to come, owns it.
THEOREM GroupNeverLeaks == Spec => []NoGroupLeak
<1>1. TypeOK /\ GroupInv /\ [Next]_vars => (TypeOK /\ GroupInv)'
  BY NextTypeOK, NextGroupInv
<1>2. Spec => [](TypeOK /\ GroupInv)
  BY <1>1, InitTypeOK, InitGroupInv, PTL DEF Spec
<1>3. QED
  BY <1>2, PTL DEF GroupInv

-----------------------------------------------------------------------------
(* What reaches the device: each request once at most and in order, no     *)
(* command cut into, and the promise of RpcCalls kept.                     *)
(*                                                                         *)
(* All three are about the wire, which only grows.  They follow from       *)
(* relating it to the frames still on their way (the places above): a call *)
(* has one frame on its way at most, made after all of its frames that     *)
(* went out; a final frame is a call's last; and while a command must not  *)
(* be overlapped, either its worker still holds its frame or the TX group  *)
(* is its own.                                                             *)

\* The call is not in the tables of the session yet.
Unmade(c) == pc[c] \in {"idle", "switching"}

Up(g) == transport = g /\ tstate = "up"

\* The requests worker g is busy with: writing them, or awaiting their answer.
Held(g) == IF wpc[g] \in {"write", "answer"} THEN batch[g] ELSE {}

\* All frames at x are out already, though their sender has not heard of it.
Out(x) == x \in Gens /\ \A r \in At(x) : OnWire(r, x) \in wire

\* The frames at x were made after all frames of their calls that are out.
Fresh(x) == \A r \in At(x) : \A v \in wire : v.req.call = r.call => v.req.seq < r.seq

OnceInv == \A x, y \in Places : \A r \in At(x), s \in At(y) : r.call = s.call => x = y /\ r = s

UnmadeInv == \A c \in Calls : Unmade(c) => ~Carried(c) /\ \A v \in wire : v.req.call # c

SeqInv == /\ \A x \in Places : \A r \in At(x) : r.seq < requestSeq
          /\ \A v \in wire : v.req.seq < requestSeq

OrderInv == \A x \in Places : Out(x) \/ Fresh(x)

\* A call whose final frame is out carries nothing else.
FinalInv ==
    \A v \in wire : ~v.req.more =>
        \A x \in Places : \A r \in At(x) : r.call = v.req.call => r = v.req

HistInv == OnceInv /\ UnmadeInv /\ SeqInv /\ OrderInv /\ FinalInv

\* Only multi-frame calls send frames with more to follow, and what is held
\* until its answer is written alone.
FormInv ==
    /\ \A v \in wire : v.req.more => IsMulti(v.req)
    /\ \A g \in Gens : \A r \in At(g) : Batchable(r) \/ At(g) = {r}

\* The body of a call whose final frame is out sends no other: it knows, or its
\* frame failed, or it still waits to hear.
ToldInv ==
    \A v \in wire : ~v.req.more /\ IsMulti(v.req) =>
        \/ finalSent[v.req.call]
        \/ sent[v.req.call] = "failed"
        \/ v.req \in At(v.on)

\* An open command that sends more frames sends them all to one transport.
OneLinkInv ==
    \A v \in wire : Open(v.req.call) /\ IsMulti(v.req) =>
        \/ v.on = transport /\ started[v.req.call]
        \/ sent[v.req.call] = "failed"
        \/ v.req \in At(v.on)

\* A worker belongs to a generation that is over or to the present transport,
\* and only workers that were started have written.
WorkerGen ==
    /\ \A g \in Gens : wpc[g] # "none" => g < sessionGen \/ g = transport
    /\ \A v \in wire : wpc[v.on] # "none"

\* While a command that must not be overlapped is unanswered, the worker of its
\* transport holds its final frame.
HoldInv ==
    \A v \in wire :
        ~v.req.more /\ HoldsTxUntilAnswer(v.req) /\ Open(v.req.call) /\ Up(v.on)
            => v.req \in Held(v.on)

\* While a command is in the middle of its frames, its last frame is still in the
\* write, or the TX group is its own and so is all that may be written.
MidInv ==
    \A g \in Gens : \A c \in MidStream(g) :
        Open(c) /\ Up(g) =>
            \/ \E r \in At(g) : r.call = c /\ OnWire(r, g) \in wire
            \/ /\ txGroup = c
               /\ \A r \in At(g) : r.call = c \/ r.call \in Interleavable

-----------------------------------------------------------------------------
(* The steps.  All that is not a worker's leaves the writes and the wire   *)
(* alone, and may queue one frame.                                         *)

\* One more frame of call c is queued.
Adds(c, more) ==
    /\ At(0)' = At(0) \cup {[call |-> c, more |-> more, seq |-> requestSeq]}
    /\ requestSeq' = requestSeq + 1
    /\ ~Unmade(c)'
    /\ \/ Unmade(c)
       \/ pc[c] = "body" /\ sent[c] \in {"none", "sent"} /\ ~finalSent[c]

\* No frame is queued.
AddsNone == At(0)' \subseteq At(0) /\ requestSeq' = requestSeq

Queues == AddsNone \/ \E c \in Calls, more \in BOOLEAN : Adds(c, more)

\* What becomes of the calls.
CallsMove ==
    /\ \A d \in Calls : Unmade(d)' => Unmade(d)
    /\ \A d \in Calls : Open(d)' => Open(d) \/ Unmade(d)
    /\ UNCHANGED <<finalSent, started>>
    /\ \A d \in Calls : Kind[d] = "multi" /\ sent[d] = "failed" => sent'[d] = "failed"
    /\ \A d \in Calls : txGroup = d /\ Open(d)' => txGroup' = d

\* What becomes of the link and its worker.
LinkMoves ==
    /\ \A g \in Gens : Up(g)' => Up(g) \/ wpc[g] = "none"
    /\ \/ transport' = transport
       \/ transport = 0
       \/ \A d \in Calls : Open(d)' => ~started[d] \/ Unmade(d)

WritesStay == wire' = wire /\ \A g \in Gens : At(g)' = At(g) /\ Held(g)' = Held(g)

Outside == Queues /\ CallsMove /\ LinkMoves /\ WritesStay

LEMMA WritesStayWhen ==
  ASSUME TypeOK, UNCHANGED <<batch, wire>>,
         \A g \in Gens : \/ wpc'[g] = wpc[g]
                         \/ wpc[g] \notin {"write", "answer"} /\ wpc'[g] = "run"
  PROVE  WritesStay
<1>1. 0 \notin Gens
  BY DEF Gens
<1>2. QED
  BY <1>1 DEF WritesStay, At, Held

LEMMA SignalStays ==
  ASSUME TypeOK, NEW fires, wpc' = Signalled(wpc, fires)
  PROVE  \A g \in Gens : \/ wpc'[g] = wpc[g]
                         \/ wpc[g] \notin {"write", "answer"} /\ wpc'[g] = "run"
  BY DEF Signalled, TypeOK

LEMMA EnqueueAdds ==
  ASSUME NEW c \in Calls, NEW more \in BOOLEAN, Enqueue(c, more), ~Unmade(c)',
         \/ Unmade(c)
         \/ pc[c] = "body" /\ sent[c] \in {"none", "sent"} /\ ~finalSent[c]
  PROVE  Queues
  BY DEF Enqueue, Adds, At, Queues

\* A call that only registers, fails, settles or ends leaves the link alone.
LEMMA CallStepOutside ==
  ASSUME TypeOK, GroupInv, NEW c \in Calls, CallStep(c)
  PROVE  Outside
<1> USE DEF linkVars, modeVars, opVars, queueVars, workerVars, callVars
<1>0. /\ pc \in [Calls -> CallPc] /\ pending \in [Calls -> PendingStates]
      /\ sent \in [Calls -> SentStates] /\ At(0) = requestQueue
  BY DEF TypeOK, At
<1>1. UNCHANGED <<transport, tstate, finalSent, started, batch, wire>>
  BY DEF CallStep, IssueInRpc, IssueWithoutLink, IssueAndSwitch, Resume, Register, BodySend,
         BodyEnd, BodyFail, Return, Timeout, SendTimeout, Respond
<1>2. LinkMoves
  BY <1>1 DEF LinkMoves, Up
<1>3. WritesStay
  <2>1. wpc' = wpc \/ \E fires \in BOOLEAN : wpc' = Signalled(wpc, fires)
    <3>1. CASE IssueInRpc(c) \/ Resume(c)
      BY <3>1 DEF IssueInRpc, Resume, Register, RegisterCall, RegisterBody, RegisterSend, Enqueue
    <3>2. CASE BodySend(c)
      BY <3>2 DEF BodySend, Enqueue
    <3>3. CASE BodyFail(c) \/ Return(c) \/ Timeout(c) \/ Respond(c)
      <4>1. wpc' = Signalled(wpc, txGroup = c) /\ (txGroup = c) \in BOOLEAN
        BY <3>3 DEF BodyFail, Return, Timeout, Respond
      <4>2. QED
        BY <4>1
    <3>4. CASE IssueWithoutLink(c) \/ IssueAndSwitch(c) \/ BodyEnd(c) \/ SendTimeout(c)
      BY <3>4 DEF IssueWithoutLink, IssueAndSwitch, BodyEnd, SendTimeout
    <3>5. QED
      BY <3>1, <3>2, <3>3, <3>4 DEF CallStep
  <2>2. QED
    BY <1>1, <2>1, SignalStays, WritesStayWhen
<1>4. Queues /\ CallsMove
  <2>1. CASE IssueInRpc(c) \/ Resume(c)
    <3>1. Register(c) /\ Unmade(c) /\ txGroup' = txGroup
      BY <2>1 DEF IssueInRpc, Resume, Register, Unmade
    <3>2. CASE RegisterCall(c) \/ RegisterSend(c)
      <4>1. /\ Enqueue(c, FALSE) /\ pc' = [pc EXCEPT ![c] = "await"] /\ Kind[c] # "multi"
            /\ pending' = pending \/ pending' = [pending EXCEPT ![c] = "open"]
            /\ sent' = sent \/ sent' = [sent EXCEPT ![c] = "waiting"]
        BY <3>2 DEF RegisterCall, RegisterSend
      <4>2. Queues
        BY <1>0, <3>1, <4>1, EnqueueAdds DEF Unmade
      <4>3. CallsMove
        BY <1>0, <1>1, <3>1, <4>1 DEF CallsMove, Unmade, Open
      <4>4. QED
        BY <4>2, <4>3
    <3>3. CASE RegisterBody(c)
      <4>1. /\ UNCHANGED <<requestQueue, requestSeq, sent>>
            /\ pc' = [pc EXCEPT ![c] = "body"]
            /\ pending' = [pending EXCEPT ![c] = "open"]
        BY <3>3 DEF RegisterBody
      <4>2. Queues
        BY <4>1 DEF Queues, AddsNone, At
      <4>3. CallsMove
        BY <1>0, <1>1, <3>1, <4>1 DEF CallsMove, Unmade, Open
      <4>4. QED
        BY <4>2, <4>3
    <3>4. QED
      BY <3>1, <3>2, <3>3 DEF Register
  <2>2. CASE IssueWithoutLink(c) \/ IssueAndSwitch(c) \/ BodyEnd(c)
    <3>1. /\ UNCHANGED <<requestQueue, requestSeq, sent, pending, txGroup>>
          /\ \A d \in Calls : Unmade(d)' => Unmade(d)
      BY <1>0, <2>2 DEF IssueWithoutLink, IssueAndSwitch, BodyEnd, Unmade
    <3>2. QED
      BY <1>1, <3>1 DEF Queues, AddsNone, At, CallsMove, Open
  <2>3. CASE BodySend(c)
    <3>1. /\ UNCHANGED <<pc, pending, txGroup>> /\ sent[c] \in {"none", "sent"}
          /\ sent' = [sent EXCEPT ![c] = "waiting"]
          /\ pc[c] = "body" /\ ~finalSent[c]
          /\ \E more \in BOOLEAN : Enqueue(c, more)
      BY <2>3 DEF BodySend
    <3>2. Queues
      BY <3>1, EnqueueAdds DEF Unmade
    <3>3. CallsMove
      BY <1>0, <1>1, <3>1 DEF CallsMove, Unmade, Open
    <3>4. QED
      BY <3>2, <3>3
  <2>4. CASE BodyFail(c) \/ Timeout(c)
    <3>1. /\ requestQueue' \subseteq requestQueue /\ requestSeq' = requestSeq
          /\ txGroup' = Released({c})
          /\ \E how \in {"aborted", "timedout"} : pending' = Settled({c}, how)
          /\ sent' = SentFailed(QueuedOf({c}))
          /\ \A d \in Calls : Unmade(d)' => Unmade(d)
      BY <1>0, <2>4 DEF BodyFail, Timeout, FailCalls, Unmade
    <3>2. \A d \in Calls : (Open(d)' => Open(d)) /\ ~Open(c)'
      BY <1>0, <3>1 DEF Settled, Open
    <3>3. \A d \in Calls : sent[d] = "failed" => sent'[d] = "failed"
      BY <3>1 DEF SentFailed
    <3>4. QED
      BY <1>1, <3>1, <3>2, <3>3 DEF Queues, AddsNone, At, CallsMove, Released
  <2>5. CASE Return(c)
    <3>1. /\ UNCHANGED <<requestQueue, requestSeq, sent, pending>>
          /\ txGroup' = Released({c}) /\ pc[c] = "await"
          /\ \A d \in Calls : Unmade(d)' => Unmade(d)
      BY <1>0, <2>5 DEF Return, Unmade
    <3>2. txGroup # c
      BY <3>1, CallsAssumption DEF GroupInv, NoGroupLeak
    <3>3. txGroup' = txGroup
      BY <3>1, <3>2 DEF Released
    <3>4. QED
      BY <1>1, <3>1, <3>3 DEF Queues, AddsNone, At, CallsMove, Open
  <2>6. CASE Respond(c)
    <3>1. /\ UNCHANGED <<requestQueue, requestSeq, sent, pc>>
          /\ txGroup' = Released({c})
          /\ \E answer \in {"ok", "refused"} : pending' = [pending EXCEPT ![c] = answer]
      BY <2>6 DEF Respond
    <3>2. \A d \in Calls : (Open(d)' => Open(d)) /\ ~Open(c)'
      BY <1>0, <3>1 DEF Open
    <3>3. QED
      BY <1>1, <3>1, <3>2 DEF Queues, AddsNone, At, CallsMove, Released, Unmade
  <2>7. CASE SendTimeout(c)
    <3>1. /\ requestQueue' \subseteq requestQueue
          /\ UNCHANGED <<requestSeq, pc, pending, txGroup>>
          /\ sent' = [sent EXCEPT ![c] = "failed"]
      BY <2>7 DEF SendTimeout
    <3>2. QED
      BY <1>0, <1>1, <3>1 DEF Queues, AddsNone, At, CallsMove, Open, Unmade
  <2>8. QED
    BY <2>1, <2>2, <2>3, <2>4, <2>5, <2>6, <2>7 DEF CallStep
<1>5. QED
  BY <1>2, <1>3, <1>4 DEF Outside

\* The end of a handshake, and what happens to the link.
LEMMA LinkStepOutside ==
  ASSUME TypeOK, LinkStep \/ \E t \in Gens : HandshakeEnd(t)
  PROVE  Outside
<1> USE DEF linkVars, modeVars, opVars, queueVars, workerVars, callVars
<1>1. /\ UNCHANGED <<transport, batch, wire, queueVars, callVars>>
      /\ tstate' = "up" => tstate = "up"
      /\ wpc' = wpc \/ wpc' = Signalled(wpc, TRUE)
  BY DEF LinkStep, Fault, TransportClosed, Desync, AskDisconnect, HandshakeEnd
<1>2. WritesStay
  BY <1>1, SignalStays, WritesStayWhen
<1>3. QED
  BY <1>1, <1>2 DEF Outside, Queues, AddsNone, At, CallsMove, LinkMoves, Up, Open, Unmade

\* The session ends or drops: every call that reached the device is settled.
LEMMA SessionEnds ==
  ASSUME TypeOK, Disconnect \/ RecoverGiveUp \/ RecoverReconnect \/ ReopenFail
  PROVE  Outside
<1> USE DEF linkVars, modeVars, opVars, queueVars, workerVars, callVars
<1>1. /\ transport' = 0 /\ UNCHANGED <<batch, wire, requestSeq, pc, finalSent, started>>
      /\ wpc' = Signalled(wpc, TRUE)
      /\ requestQueue' \subseteq requestQueue
  BY DEF Disconnect, RecoverGiveUp, RecoverReconnect, ReopenFail, TearDown, FailCalls
<1>2. WritesStay
  BY <1>1, SignalStays, WritesStayWhen
<1>3. \A d \in Calls : /\ Open(d)' => Open(d) /\ ~started[d]
                       /\ txGroup = d /\ Open(d)' => txGroup' = d
                       /\ sent[d] = "failed" => sent'[d] = "failed"
  <2>1. CASE RecoverReconnect
    <3>1. /\ pending' = Settled(StartedCalls, "lost") /\ txGroup' = Released(StartedCalls)
          /\ sent' = SentFailed(QueuedOf(StartedCalls))
      BY <2>1 DEF RecoverReconnect, FailCalls
    <3>2. \A d \in Calls : Open(d)' => Open(d) /\ d \notin StartedCalls
      BY <3>1 DEF Settled, Open
    <3>3. \A d \in Calls : Open(d)' => ~started[d]
      BY <3>2 DEF StartedCalls
    <3>4. \A d \in Calls : txGroup = d /\ Open(d)' => txGroup' = d
      BY <3>1, <3>2 DEF Released, StartedCalls
    <3>5. QED
      BY <3>1, <3>2, <3>3, <3>4 DEF SentFailed
  <2>2. CASE Disconnect \/ RecoverGiveUp \/ ReopenFail
    <3>1. pending' = Settled(Calls, "ended") /\ sent' = SentFailed(requestQueue)
      BY <2>2 DEF Disconnect, RecoverGiveUp, ReopenFail, TearDown
    <3>2. \A d \in Calls : ~Open(d)'
      BY <3>1 DEF Settled, Open
    <3>3. QED
      BY <3>1, <3>2 DEF SentFailed
  <2>3. QED
    BY <2>1, <2>2
<1>4. \A g \in Gens : ~Up(g)'
  BY <1>1 DEF Up, Gens
<1>5. Queues
  BY <1>1 DEF Queues, AddsNone, At
<1>6. CallsMove
  BY <1>1, <1>3 DEF CallsMove, Unmade
<1>7. LinkMoves
  BY <1>3, <1>4 DEF LinkMoves
<1>8. QED
  BY <1>2, <1>5, <1>6, <1>7 DEF Outside

LEMMA OpStepOutside ==
  ASSUME TypeOK, NoFutureWorker, LinkInv, WorkerGen, OpStep
  PROVE  Outside
<1> USE DEF linkVars, modeVars, opVars, queueVars, workerVars, callVars
<1>1. CASE Connect \/ Reopen \/ RecoverStale \/ OpenFail
  <2>1. UNCHANGED <<transport, tstate, batch, wpc, wire, queueVars, callVars>>
    BY <1>1 DEF Connect, Reopen, BeginOpen, RecoverStale, OpenFail
  <2>2. WritesStay
    BY <2>1, WritesStayWhen
  <2>3. QED
    BY <2>1, <2>2 DEF Outside, Queues, AddsNone, At, CallsMove, LinkMoves, Up, Open, Unmade
<1>2. CASE OpenOk
  \* The generation that opens has no worker yet.
  <2>1. /\ UNCHANGED <<batch, wire, queueVars, callVars>> /\ sessionGen \in Gens
        /\ transport' = sessionGen /\ wpc' = [wpc EXCEPT ![sessionGen] = "run"]
        /\ op # "idle"
    BY <1>2 DEF OpenOk
  <2>2. transport = 0
    BY <2>1 DEF LinkInv, OpsInv
  <2>3. wpc[sessionGen] = "none"
    BY <2>1, <2>2 DEF WorkerGen, Gens
  <2>4. WritesStay
    BY <2>1, <2>3, WritesStayWhen DEF TypeOK
  <2>5. \A g \in Gens : Up(g)' => wpc[g] = "none"
    BY <2>1, <2>3 DEF Up
  <2>6. QED
    BY <2>1, <2>2, <2>4, <2>5 DEF Outside, Queues, AddsNone, At, CallsMove, LinkMoves, Open, Unmade
<1>3. CASE Disconnect \/ RecoverGiveUp \/ RecoverReconnect \/ ReopenFail
  BY <1>3, SessionEnds
<1>4. QED
  BY <1>1, <1>2, <1>3 DEF OpStep

-----------------------------------------------------------------------------
(* The worker's steps.                                                     *)

\* The other workers keep what they hold.
OthersStay(g) == \A h \in Gens \ {g} : At(h)' = At(h) /\ Held(h)' = Held(h)

\* The worker ends or starts no write, or ends one: nothing else is carried.
Ends(g) ==
    /\ At(0)' \subseteq At(0) /\ At(g)' = {} /\ OthersStay(g)
    /\ UNCHANGED <<wire, requestSeq, pc, transport, tstate>>

Takes(g) ==
    /\ At(g) = {} /\ Held(g) = {}
    /\ At(g)' \subseteq At(0) /\ At(0)' = At(0) \ At(g)' /\ OthersStay(g)
    /\ \A r \in At(g)' : Batchable(r) \/ At(g)' = {r}
    /\ At(g)' \subseteq Dispatchable(requestQueue, txGroup)
    /\ UNCHANGED <<wire, requestSeq, callVars, txGroup, transport, tstate>>

Lands(g) ==
    /\ ~Out(g) /\ Up(g) /\ At(g) \subseteq Held(g)
    /\ wire' = wire \cup {OnWire(r, g) : r \in At(g)}
    /\ At(0)' = At(0) /\ \A h \in Gens : At(h)' = At(h) /\ Held(h)' = Held(h)
    /\ UNCHANGED <<requestSeq, callVars, txGroup, transport, tstate>>

LEMMA OthersStayWhen ==
  ASSUME TypeOK, NEW g \in Gens,
         \A h \in Gens \ {g} : /\ batch'[h] = batch[h]
                               /\ \/ wpc'[h] = wpc[h]
                                  \/ wpc[h] \notin {"write", "answer"} /\ wpc'[h] = "run"
  PROVE  OthersStay(g)
<1>1. 0 \notin Gens
  BY DEF Gens
<1>2. QED
  BY <1>1 DEF OthersStay, At, Held

LEMMA HeldInWrite ==
  ASSUME NEW g \in Gens, At(g) # {}
  PROVE  Held(g) = At(g)
  BY DEF At, Held, Gens

LEMMA TakeDoes ==
  ASSUME TypeOK, NEW g \in Gens, WorkerTake(g)
  PROVE  Takes(g)
<1> USE DEF linkVars, modeVars, opVars, queueVars, workerVars, callVars
<1>0. wpc \in [Gens -> WorkerPc] /\ batch \in [Gens -> SUBSET Requests] /\ g # 0
  BY DEF TypeOK, Gens
<1>1. PICK B \in Batches : /\ batch' = [batch EXCEPT ![g] = B]
                           /\ requestQueue' = requestQueue \ B
  BY DEF WorkerTake
<1>2. wpc[g] = "run" /\ wpc' = [wpc EXCEPT ![g] = "write"]
  BY DEF WorkerTake
<1>3. At(g)' = B /\ At(g) = {} /\ Held(g) = {}
  BY <1>0, <1>1, <1>2 DEF At, Held
<1>4. At(0)' = At(0) \ B
  BY <1>1 DEF At
<1>5. OthersStay(g)
  BY <1>0, <1>1, <1>2, OthersStayWhen
<1>6. /\ B \subseteq Dispatchable(requestQueue, txGroup)
      /\ \A r \in B : Batchable(r) \/ B = {r}
  BY <1>1 DEF Batches
<1>7. B \subseteq At(0)
  BY <1>6 DEF Dispatchable, At
<1>8. UNCHANGED <<wire, requestSeq, callVars, txGroup, transport, tstate>>
  BY DEF WorkerTake
<1>9. QED
  BY <1>3, <1>4, <1>5, <1>6, <1>7, <1>8 DEF Takes

LEMMA LandDoes ==
  ASSUME TypeOK, NEW g \in Gens, Land(g)
  PROVE  Lands(g)
<1> USE DEF linkVars, modeVars, opVars, queueVars, workerVars, callVars
<1>0. g # 0 /\ wpc[g] = "write"
  BY DEF Gens, Land
<1>1. At(g) = batch[g] /\ Held(g) = batch[g]
  BY <1>0 DEF At, Held
<1>2. ~Out(g) /\ Up(g)
  BY <1>1 DEF Land, Out, Landed, Up
<1>3. wire' = wire \cup {OnWire(r, g) : r \in At(g)}
  BY <1>1 DEF Land
<1>4. UNCHANGED <<requestQueue, wpc, batch>>
  BY DEF Land
<1>5. At(0)' = At(0) /\ \A h \in Gens : At(h)' = At(h) /\ Held(h)' = Held(h)
  BY <1>4 DEF At, Held
<1>6. QED
  BY <1>1, <1>2, <1>3, <1>5 DEF Lands, Land

\* What the other worker steps do to the worker itself.
LEMMA EndDoes ==
  ASSUME TypeOK, NEW g \in Gens,
         \/ WorkerExit(g) \/ WorkerWait(g) \/ Answered(g)
         \/ WriteOk(g) \/ WriteFail(g) \/ WriteOutlived(g)
  PROVE  Ends(g)
<1> USE DEF linkVars, modeVars, opVars, queueVars, workerVars, callVars
<1>0. /\ wpc \in [Gens -> WorkerPc] /\ batch \in [Gens -> SUBSET Requests]
      /\ g # 0
  BY DEF TypeOK, Gens
<1>1. /\ UNCHANGED <<wire, requestSeq, pc, transport, tstate>>
      /\ requestQueue' \subseteq requestQueue
  BY DEF WorkerExit, WorkerWait, Answered, WriteOk, WriteFail, WriteOutlived, FailBatch, FailCalls
<1>2. /\ wpc'[g] # "write"
      /\ \A h \in Gens \ {g} : /\ batch'[h] = batch[h]
                               /\ \/ wpc'[h] = wpc[h]
                                  \/ wpc[h] \notin {"write", "answer"} /\ wpc'[h] = "run"
  <2>1. CASE WorkerExit(g) \/ WorkerWait(g) \/ Answered(g)
    BY <1>0, <2>1 DEF WorkerExit, WorkerWait, Answered
  <2>2. CASE WriteOk(g)
    BY <1>0, <2>2 DEF WriteOk, Signalled
  <2>3. CASE WriteFail(g)
    BY <1>0, <2>3 DEF WriteFail, Signalled, FailBatch
  <2>4. CASE WriteOutlived(g)
    BY <1>0, <2>4 DEF WriteOutlived, Signalled, FailBatch
  <2>5. QED
    BY <2>1, <2>2, <2>3, <2>4
<1>3. At(g)' = {} /\ At(0)' \subseteq At(0)
  BY <1>0, <1>1, <1>2 DEF At
<1>4. QED
  BY <1>1, <1>2, <1>3, OthersStayWhen DEF Ends

-----------------------------------------------------------------------------
(* HistInv, for each kind of step.                                         *)

\* Less is carried and nothing else happens.
LEMMA HistLess ==
  ASSUME HistInv, UNCHANGED <<wire, requestSeq>>,
         \A x \in Places : At(x)' \subseteq At(x),
         \A c \in Calls : Unmade(c)' => Unmade(c)
  PROVE  HistInv'
<1>1. OnceInv'
  BY DEF HistInv, OnceInv
<1>2. UnmadeInv'
  BY DEF HistInv, UnmadeInv, Carried
<1>3. SeqInv'
  BY DEF HistInv, SeqInv
<1>4. OrderInv'
  <2>1. ASSUME NEW x \in Places PROVE Out(x)' \/ Fresh(x)'
    <3>1. Out(x) => Out(x)'
      BY DEF Out, OnWire
    <3>2. Fresh(x) => Fresh(x)'
      BY DEF Fresh
    <3>3. QED
      BY <3>1, <3>2 DEF HistInv, OrderInv
  <2>2. QED
    BY <2>1 DEF OrderInv
<1>5. FinalInv'
  BY DEF HistInv, FinalInv
<1>6. QED
  BY <1>1, <1>2, <1>3, <1>4, <1>5 DEF HistInv

\* One frame more is queued, of a call that carries none.
LEMMA HistAdds ==
  ASSUME TypeOK, GroupInv, HistInv, ToldInv, NEW c \in Calls, NEW more \in BOOLEAN, Adds(c, more),
         wire' = wire, \A g \in Gens : At(g)' = At(g),
         \A d \in Calls : Unmade(d)' => Unmade(d)
  PROVE  HistInv'
<1> DEFINE new == [call |-> c, more |-> more, seq |-> requestSeq]
<1>0. /\ \A v \in wire : v.req \in Requests /\ v.on \in Gens
      /\ \A x \in Places : At(x) \subseteq Requests
      /\ requestSeq \in Nat
  BY AtRequests DEF TypeOK
<1>1. /\ At(0)' = At(0) \cup {new} /\ requestSeq' = requestSeq + 1 /\ ~Unmade(c)'
      /\ new.call = c /\ new.seq = requestSeq
  BY DEF Adds
<1> HIDE DEF new
<1>2. \A x \in Places : \A r \in At(x)' : r \in At(x) \/ (x = 0 /\ r = new)
  BY <1>1 DEF Places
<1>3. ~Carried(c)
  <2>1. CASE Unmade(c)
    BY <2>1 DEF HistInv, UnmadeInv
  <2>2. CASE pc[c] = "body" /\ sent[c] \in {"none", "sent"} /\ ~finalSent[c]
    BY <2>2, CarriedWaits DEF GroupInv, BodiesMulti, BodyWaits
  <2>3. QED
    BY <2>1, <2>2 DEF Adds
<1>4. \A x \in Places : \A r \in At(x) : r.call # c
  BY <1>3 DEF Carried
<1>5. \A v \in wire : v.req.call = c => v.req.more
  <2>1. CASE Unmade(c)
    BY <2>1 DEF HistInv, UnmadeInv
  <2>2. CASE pc[c] = "body" /\ sent[c] \in {"none", "sent"} /\ ~finalSent[c]
    <3> SUFFICES ASSUME NEW v \in wire, v.req.call = c, ~v.req.more PROVE FALSE
      OBVIOUS
    <3>1. IsMulti(v.req)
      BY <2>2 DEF GroupInv, BodiesMulti, IsMulti
    <3>2. v.req \in At(v.on)
      BY <2>2, <3>1 DEF ToldInv
    <3>3. QED
      BY <1>0, <1>4, <3>2 DEF Places
  <2>3. QED
    BY <2>1, <2>2 DEF Adds
<1>6. OnceInv'
  <2> SUFFICES ASSUME NEW x \in Places, NEW y \in Places, NEW r \in At(x)', NEW s \in At(y)',
                      r.call = s.call
               PROVE  x = y /\ r = s
    BY DEF OnceInv
  <2>1. CASE r \in At(x) /\ s \in At(y)
    BY <2>1 DEF HistInv, OnceInv
  <2>2. QED
    BY <1>1, <1>2, <1>4, <2>1
<1>7. UnmadeInv'
  <2> SUFFICES ASSUME NEW d \in Calls, Unmade(d)'
               PROVE  ~Carried(d)' /\ \A v \in wire' : v.req.call # d
    BY DEF UnmadeInv
  <2>1. d # c /\ Unmade(d)
    BY <1>1
  <2>2. ~Carried(d) /\ \A v \in wire : v.req.call # d
    BY <2>1 DEF HistInv, UnmadeInv
  <2>3. QED
    BY <1>1, <1>2, <2>1, <2>2 DEF Carried
<1>8. SeqInv'
  <2>1. \A r \in Requests : r.seq \in Nat
    BY DEF Requests
  <2>2. \A x \in Places : \A r \in At(x)' : r.seq < requestSeq'
    <3> SUFFICES ASSUME NEW x \in Places, NEW r \in At(x)' PROVE r.seq < requestSeq'
      OBVIOUS
    <3>1. CASE r \in At(x)
      BY <1>0, <1>1, <2>1, <3>1 DEF HistInv, SeqInv
    <3>2. CASE r = new
      BY <1>0, <1>1, <3>2
    <3>3. QED
      BY <1>2, <3>1, <3>2
  <2>3. \A v \in wire' : v.req.seq < requestSeq'
    BY <1>0, <1>1, <2>1 DEF HistInv, SeqInv
  <2>4. QED
    BY <2>2, <2>3 DEF SeqInv
<1>9. OrderInv'
  <2>1. 0 \in Places /\ 0 \notin Gens
    BY DEF Places, Gens
  <2>2. Fresh(0)
    BY <2>1 DEF HistInv, OrderInv, Out
  <2>3. Fresh(0)'
    BY <1>1, <2>2 DEF Fresh, HistInv, SeqInv
  <2>4. ASSUME NEW g \in Gens PROVE (Out(g) => Out(g)') /\ (Fresh(g) => Fresh(g)')
    BY DEF Out, Fresh, OnWire
  <2>5. QED
    BY <2>3, <2>4 DEF HistInv, OrderInv, Places
<1>10. FinalInv'
  <2> SUFFICES ASSUME NEW v \in wire, ~v.req.more, NEW x \in Places, NEW r \in At(x)',
                      r.call = v.req.call
               PROVE  r = v.req
    BY DEF FinalInv
  <2>1. r # new
    BY <1>1, <1>5
  <2>2. QED
    BY <1>2, <2>1 DEF HistInv, FinalInv
<1>11. QED
  BY <1>6, <1>7, <1>8, <1>9, <1>10 DEF HistInv

\* A batch moves from the queue to a worker.
LEMMA HistTakes ==
  ASSUME HistInv, NEW g \in Gens, Takes(g)
  PROVE  HistInv'
<1>0. g # 0 /\ 0 \in Places /\ 0 \notin Gens
  BY DEF Gens, Places
<1> DEFINE From(x) == IF x = g THEN 0 ELSE x
<1>1. /\ UNCHANGED <<wire, requestSeq, pc>>
      /\ At(0)' = At(0) \ At(g)'
      /\ \A x \in Places : From(x) \in Places /\ At(x)' \subseteq At(From(x))
      /\ \A h \in Gens \ {g} : At(h)' = At(h)
  BY <1>0 DEF Takes, OthersStay, Places, callVars
<1>2. \A c \in Calls : Unmade(c)' => Unmade(c)
  BY <1>1 DEF Unmade
<1>3. OnceInv'
  <2> SUFFICES ASSUME NEW x \in Places, NEW y \in Places, NEW r \in At(x)', NEW s \in At(y)',
                      r.call = s.call
               PROVE  x = y /\ r = s
    BY DEF OnceInv
  <2>1. From(x) = From(y) /\ r = s
    BY <1>1 DEF HistInv, OnceInv
  <2>2. ~(x = g /\ y = 0) /\ ~(x = 0 /\ y = g)
    BY <1>1, <2>1
  <2>3. QED
    BY <2>1, <2>2
<1>4. UnmadeInv'
  BY <1>1, <1>2 DEF HistInv, UnmadeInv, Carried
<1>5. SeqInv'
  BY <1>1 DEF HistInv, SeqInv
<1>6. OrderInv'
  <2>1. Fresh(0)
    BY <1>0 DEF HistInv, OrderInv, Out
  <2>2. Fresh(0)' /\ Fresh(g)'
    <3>1. At(0)' \subseteq At(0) /\ At(g)' \subseteq At(0)
      BY DEF Takes
    <3>2. QED
      BY <1>1, <2>1, <3>1 DEF Fresh
  <2>3. ASSUME NEW h \in Gens \ {g} PROVE (Out(h) => Out(h)') /\ (Fresh(h) => Fresh(h)')
    BY <1>1, <2>3 DEF Out, Fresh, OnWire
  <2>4. QED
    BY <2>2, <2>3 DEF HistInv, OrderInv, Places
<1>7. FinalInv'
  BY <1>1 DEF HistInv, FinalInv
<1>8. QED
  BY <1>3, <1>4, <1>5, <1>6, <1>7 DEF HistInv

\* A write reaches the transport.
LEMMA HistLands ==
  ASSUME TypeOK, HistInv, NEW g \in Gens, Lands(g)
  PROVE  HistInv'
<1>0. g \in Places /\ 0 \notin Gens
  BY DEF Places, Gens
<1>1. /\ UNCHANGED <<requestSeq, pc>>
      /\ \A x \in Places : At(x)' = At(x)
      /\ wire' = wire \cup {OnWire(r, g) : r \in At(g)}
  BY DEF Lands, callVars, Places
<1>2. \A v \in wire' : v \in wire \/ (v.on = g /\ v.req \in At(g))
  BY <1>1 DEF OnWire
<1>3. \A c \in Calls : (Unmade(c)' => Unmade(c)) /\ (Carried(c)' => Carried(c))
  BY <1>1 DEF Unmade, Carried
<1>4. OnceInv'
  BY <1>1 DEF HistInv, OnceInv
<1>5. UnmadeInv'
  <2> SUFFICES ASSUME NEW d \in Calls, Unmade(d)'
               PROVE  ~Carried(d)' /\ \A v \in wire' : v.req.call # d
    BY DEF UnmadeInv
  <2>1. ~Carried(d) /\ \A v \in wire : v.req.call # d
    BY <1>3 DEF HistInv, UnmadeInv
  <2>2. \A r \in At(g) : r.call # d
    BY <1>0, <2>1 DEF Carried
  <2>3. QED
    BY <1>2, <1>3, <2>1, <2>2
<1>6. SeqInv'
  BY <1>0, <1>1, <1>2 DEF HistInv, SeqInv
<1>7. OrderInv'
  <2>1. Out(g)'
    BY <1>0, <1>1 DEF Out
  <2>2. ASSUME NEW x \in Places \ {g} PROVE Out(x)' \/ Fresh(x)'
    <3>1. CASE Out(x)
      BY <1>1, <2>2, <3>1 DEF Out, OnWire
    <3>2. CASE Fresh(x)
      <4>1. \A r \in At(x), s \in At(g) : r.call # s.call
        BY <1>0, <2>2 DEF HistInv, OnceInv
      <4>2. QED
        BY <1>1, <1>2, <2>2, <3>2, <4>1 DEF Fresh
    <3>3. QED
      BY <2>2, <3>1, <3>2 DEF HistInv, OrderInv
  <2>3. QED
    BY <2>1, <2>2 DEF OrderInv
<1>8. FinalInv'
  <2> SUFFICES ASSUME NEW v \in wire', ~v.req.more, NEW x \in Places, NEW r \in At(x),
                      r.call = v.req.call
               PROVE  r = v.req
    BY <1>1 DEF FinalInv
  <2>1. CASE v \in wire
    BY <2>1 DEF HistInv, FinalInv
  <2>2. CASE v.req \in At(g)
    BY <1>0, <2>2 DEF HistInv, OnceInv
  <2>3. QED
    BY <1>2, <2>1, <2>2
<1>9. QED
  BY <1>4, <1>5, <1>6, <1>7, <1>8 DEF HistInv

-----------------------------------------------------------------------------
(* What the end of a write tells its senders.                              *)

Tells(g) ==
    /\ \A r \in At(g) : IsMulti(r) =>
          \/ sent'[r.call] = "failed"
          \/ started'[r.call] /\ transport = g /\ (~r.more => finalSent'[r.call])
    /\ \A d \in Calls : /\ finalSent[d] => finalSent'[d]
                        /\ started[d] => started'[d]
                        /\ Kind[d] = "multi" /\ sent[d] = "failed" => sent'[d] = "failed"
                        /\ Open(d)' => Open(d)

\* The worker keeps the requests it must not let go of.
KeepsHold(g) ==
    \A r \in Held(g) :
        ~r.more /\ HoldsTxUntilAnswer(r) /\ Open(r.call)' /\ Up(g) => r \in Held(g)'

LEMMA WriteOkDoes ==
  ASSUME TypeOK, WorkerGen, NEW g \in Gens, WriteOk(g)
  PROVE  Tells(g) /\ KeepsHold(g)
<1> USE DEF linkVars, modeVars, opVars, queueVars, workerVars, callVars
<1>0. /\ wpc \in [Gens -> WorkerPc] /\ batch \in [Gens -> SUBSET Requests]
      /\ g # 0 /\ wpc[g] = "write" /\ g = sessionGen
  BY DEF TypeOK, Gens, WriteOk
<1>1. At(g) = batch[g] /\ Held(g) = batch[g] /\ \A r \in batch[g] : r.call \in Calls
  BY <1>0 DEF At, Held, Requests
<1>2. transport = g
  <2>1. sessionGen \in Nat
    BY DEF TypeOK
  <2>2. QED
    BY <1>0, <2>1 DEF WorkerGen
<1>3. /\ started' = [c \in Calls |-> \/ started[c]
                          \/ c \in {r.call : r \in {s \in batch[g] : s.more}}
                                   \cup {r.call : r \in {s \in batch[g] : ~s.more}}]
      /\ finalSent' = [c \in Calls |-> \/ finalSent[c]
                          \/ c \in {r.call : r \in {s \in batch[g] : ~s.more}}]
      /\ \A d \in Calls : sent[d] = "failed" => sent'[d] = "failed"
      /\ pending' = pending
  BY DEF WriteOk
<1>4. started \in [Calls -> BOOLEAN] /\ finalSent \in [Calls -> BOOLEAN]
  BY DEF TypeOK
<1>5. \A r \in batch[g] : started'[r.call] /\ (~r.more => finalSent'[r.call])
  BY <1>1, <1>3, <1>4
<1>6. \A d \in Calls : (finalSent[d] => finalSent'[d]) /\ (started[d] => started'[d])
  BY <1>3, <1>4
<1>7. Tells(g)
  BY <1>1, <1>2, <1>3, <1>5, <1>6 DEF Tells, Open
<1>8. KeepsHold(g)
  <2> SUFFICES ASSUME NEW r \in batch[g], ~r.more, HoldsTxUntilAnswer(r), Open(r.call)'
               PROVE  r \in Held(g)'
    BY <1>1 DEF KeepsHold
  <2>1. Parks(batch[g])
    BY <1>3 DEF Parks, Open
  <2>2. batch' = batch /\ wpc'[g] = "answer"
    BY <1>0, <2>1 DEF WriteOk, Signalled
  <2>3. QED
    BY <2>2 DEF Held
<1>9. QED
  BY <1>7, <1>8

LEMMA WriteLostDoes ==
  ASSUME TypeOK, GroupInv, LinkInv, NEW g \in Gens, WriteFail(g) \/ WriteOutlived(g)
  PROVE  Tells(g) /\ KeepsHold(g) /\ ~Up(g)
<1> USE DEF linkVars, modeVars, opVars, queueVars, workerVars, callVars
<1>0. g # 0 /\ wpc[g] = "write" /\ At(g) = batch[g] /\ g \in Places
  BY DEF Gens, Places, At, WriteFail, WriteOutlived
<1>1. /\ sent' = SentFailed(batch[g])
      /\ \E C \in SUBSET Calls : pending' = Settled(C, "lost")
      /\ UNCHANGED <<started, finalSent>>
  BY DEF WriteFail, WriteOutlived, FailBatch, FailCalls
<1>2. \A d \in Calls : Open(d)' => Open(d)
  BY <1>1 DEF Settled, Open
<1>3. \A r \in batch[g] : IsMulti(r) => r.call \in Calls /\ sent[r.call] = "waiting"
  BY <1>0 DEF GroupInv, CarryInv, CarryOwner, BodyWaits, TypeOK, Requests
<1>4. Tells(g)
  BY <1>0, <1>1, <1>2, <1>3 DEF Tells, SentFailed
<1>5. ~Up(g)
  BY <1>0 DEF WriteFail, WriteOutlived, Up, LinkInv, Lockstep
<1>6. QED
  BY <1>4, <1>5 DEF KeepsHold

LEMMA NoWriteDoes ==
  ASSUME TypeOK, NEW g \in Gens, WorkerExit(g) \/ WorkerWait(g) \/ Answered(g)
  PROVE  Tells(g) /\ KeepsHold(g) /\ At(g) = {} /\ UNCHANGED callVars
<1> USE DEF linkVars, modeVars, opVars, queueVars, workerVars, callVars
<1>1. g # 0 /\ wpc[g] # "write" /\ UNCHANGED callVars
  BY DEF Gens, WorkerExit, WorkerWait, Answered
<1>2. At(g) = {}
  BY <1>1 DEF At
<1>3. Tells(g)
  BY <1>1, <1>2 DEF Tells, Open
<1>4. KeepsHold(g)
  <2>1. CASE Answered(g)
    BY <1>1, <2>1 DEF Answered, KeepsHold, Held, Open
  <2>2. CASE WorkerExit(g) \/ WorkerWait(g)
    BY <2>2 DEF WorkerExit, WorkerWait, KeepsHold, Held
  <2>3. QED
    BY <2>1, <2>2
<1>5. QED
  BY <1>1, <1>2, <1>3, <1>4

\* The kinds of steps there are.
Finishes(g) == Ends(g) /\ Tells(g) /\ KeepsHold(g)

LEMMA StepKinds ==
  ASSUME TypeOK, GroupInv, LinkInv, NoFutureWorker, WorkerGen, Next
  PROVE  Outside \/ \E g \in Gens : Takes(g) \/ Lands(g) \/ Finishes(g)
<1>1. ASSUME NEW g \in Gens, WorkerStep(g)
      PROVE  Takes(g) \/ Lands(g) \/ Finishes(g)
  BY <1>1, TakeDoes, LandDoes, EndDoes, WriteOkDoes, WriteLostDoes, NoWriteDoes
     DEF WorkerStep, Finishes
<1>2. QED
  BY <1>1, CallStepOutside, LinkStepOutside, OpStepOutside DEF Next

-----------------------------------------------------------------------------
(* The wire and the bodies.                                                *)

LEMMA HistKept ==
  ASSUME TypeOK, GroupInv, HistInv, ToldInv,
         Outside \/ \E g \in Gens : Takes(g) \/ Lands(g) \/ Finishes(g)
  PROVE  HistInv'
<1>1. CASE Outside
  <2>1. /\ wire' = wire /\ \A g \in Gens : At(g)' = At(g)
        /\ \A d \in Calls : Unmade(d)' => Unmade(d)
    BY <1>1 DEF Outside, WritesStay, CallsMove
  <2>2. CASE AddsNone
    <3>1. requestSeq' = requestSeq /\ \A x \in Places : At(x)' \subseteq At(x)
      BY <2>1, <2>2 DEF AddsNone, Places
    <3>2. QED
      BY <2>1, <3>1, HistLess
  <2>3. ASSUME NEW c \in Calls, NEW more \in BOOLEAN, Adds(c, more) PROVE HistInv'
    BY <2>1, <2>3, HistAdds
  <2>4. QED
    BY <1>1, <2>2, <2>3 DEF Outside, Queues
<1>2. ASSUME NEW g \in Gens, Ends(g) PROVE HistInv'
  <2>1. /\ UNCHANGED <<wire, requestSeq>> /\ \A c \in Calls : Unmade(c)' => Unmade(c)
    BY <1>2 DEF Ends, Unmade
  <2>2. \A x \in Places : At(x)' \subseteq At(x)
    BY <1>2 DEF Ends, OthersStay, Places
  <2>3. QED
    BY <2>1, <2>2, HistLess
<1>3. QED
  BY <1>1, <1>2, HistTakes, HistLands DEF Finishes

LEMMA FormKept ==
  ASSUME TypeOK, GroupInv, FormInv,
         Outside \/ \E g \in Gens : Takes(g) \/ Lands(g) \/ Finishes(g)
  PROVE  FormInv'
<1>1. CASE Outside
  BY <1>1 DEF Outside, WritesStay, FormInv, IsMulti, Batchable, HoldsTxUntilAnswer
<1>2. ASSUME NEW g \in Gens, Takes(g) PROVE FormInv'
  <2>1. wire' = wire /\ \A h \in Gens \ {g} : At(h)' = At(h)
    BY <1>2 DEF Takes, OthersStay
  <2>2. \A r \in At(g)' : Batchable(r) \/ At(g)' = {r}
    BY <1>2 DEF Takes
  <2>3. QED
    BY <2>1, <2>2 DEF FormInv, IsMulti, Batchable, HoldsTxUntilAnswer
<1>3. ASSUME NEW g \in Gens, Lands(g) PROVE FormInv'
  <2>1. \A h \in Gens : At(h)' = At(h)
    BY <1>3 DEF Lands
  <2>2. \A v \in wire' : v \in wire \/ v.req \in At(g)
    BY <1>3 DEF Lands, OnWire
  <2>3. \A r \in At(g) : r.more => IsMulti(r)
    BY DEF GroupInv, CarryInv, CarryOwner, Places
  <2>4. \A v \in wire' : v.req.more => IsMulti(v.req)
    BY <2>2, <2>3 DEF FormInv
  <2>5. QED
    BY <2>1, <2>4 DEF FormInv, IsMulti, Batchable, HoldsTxUntilAnswer
<1>4. ASSUME NEW g \in Gens, Ends(g) PROVE FormInv'
  <2>1. wire' = wire /\ At(g)' = {} /\ \A h \in Gens \ {g} : At(h)' = At(h)
    BY <1>4 DEF Ends, OthersStay
  <2>2. QED
    BY <2>1 DEF FormInv, IsMulti, Batchable, HoldsTxUntilAnswer
<1>5. QED
  BY <1>1, <1>2, <1>3, <1>4 DEF Finishes

LEMMA ToldKept ==
  ASSUME TypeOK, ToldInv,
         Outside \/ \E g \in Gens : Takes(g) \/ Lands(g) \/ Finishes(g)
  PROVE  ToldInv'
<1>0. \A v \in wire : v.req.call \in Calls /\ v.on \in Gens
  BY DEF TypeOK, Requests
<1>1. CASE Outside
  <2>1. /\ wire' = wire /\ \A g \in Gens : At(g)' = At(g)
        /\ finalSent' = finalSent
        /\ \A d \in Calls : Kind[d] = "multi" /\ sent[d] = "failed" => sent'[d] = "failed"
    BY <1>1 DEF Outside, WritesStay, CallsMove
  <2>2. QED
    BY <1>0, <2>1 DEF ToldInv, IsMulti
<1>2. ASSUME NEW g \in Gens, Takes(g) PROVE ToldInv'
  <2>1. /\ wire' = wire /\ At(g) = {} /\ UNCHANGED <<finalSent, sent>>
        /\ \A h \in Gens \ {g} : At(h)' = At(h)
    BY <1>2 DEF Takes, OthersStay, callVars
  <2>2. QED
    BY <1>0, <2>1 DEF ToldInv, IsMulti
<1>3. ASSUME NEW g \in Gens, Lands(g) PROVE ToldInv'
  <2>1. \A h \in Gens : At(h)' = At(h)
    BY <1>3 DEF Lands
  <2>2. \A v \in wire' : v \in wire \/ (v.on = g /\ v.req \in At(g))
    BY <1>3 DEF Lands, OnWire
  <2>3. UNCHANGED <<finalSent, sent>>
    BY <1>3 DEF Lands, callVars
  <2>4. QED
    BY <1>0, <2>1, <2>2, <2>3 DEF ToldInv, IsMulti
<1>4. ASSUME NEW g \in Gens, Finishes(g) PROVE ToldInv'
  <2>1. wire' = wire /\ \A h \in Gens \ {g} : At(h)' = At(h)
    BY <1>4 DEF Finishes, Ends, OthersStay
  <2>2. /\ \A r \in At(g) : IsMulti(r) /\ ~r.more => sent'[r.call] = "failed" \/ finalSent'[r.call]
        /\ \A d \in Calls : /\ finalSent[d] => finalSent'[d]
                            /\ Kind[d] = "multi" /\ sent[d] = "failed" => sent'[d] = "failed"
    BY <1>4 DEF Finishes, Tells
  <2>3. QED
    BY <1>0, <2>1, <2>2 DEF ToldInv, IsMulti
<1>5. QED
  BY <1>1, <1>2, <1>3, <1>4

LEMMA OneLinkKept ==
  ASSUME TypeOK, HistInv, OneLinkInv,
         Outside \/ \E g \in Gens : Takes(g) \/ Lands(g) \/ Finishes(g)
  PROVE  OneLinkInv'
<1>0. \A v \in wire : v.req.call \in Calls /\ v.on \in Gens /\ v.on # 0
  BY DEF TypeOK, Requests, Gens
<1>1. CASE Outside
  <2>1. /\ wire' = wire /\ \A g \in Gens : At(g)' = At(g)
        /\ started' = started
        /\ \A d \in Calls : Kind[d] = "multi" /\ sent[d] = "failed" => sent'[d] = "failed"
        /\ \A d \in Calls : Open(d)' => Open(d) \/ Unmade(d)
        /\ \/ transport' = transport
           \/ transport = 0
           \/ \A d \in Calls : Open(d)' => ~started[d] \/ Unmade(d)
    BY <1>1 DEF Outside, WritesStay, CallsMove, LinkMoves
  <2> SUFFICES ASSUME NEW v \in wire, Open(v.req.call)', IsMulti(v.req)
               PROVE  \/ v.on = transport' /\ started'[v.req.call]
                      \/ sent'[v.req.call] = "failed"
                      \/ v.req \in At(v.on)'
    BY <2>1 DEF OneLinkInv, IsMulti
  <2>2. ~Unmade(v.req.call)
    BY <1>0 DEF HistInv, UnmadeInv
  <2>3. Open(v.req.call)
    BY <1>0, <2>1, <2>2
  <2>4. CASE v.on = transport /\ started[v.req.call]
    BY <1>0, <2>1, <2>2, <2>4
  <2>5. CASE sent[v.req.call] = "failed"
    BY <1>0, <2>1, <2>5 DEF IsMulti
  <2>6. CASE v.req \in At(v.on)
    BY <1>0, <2>1, <2>6
  <2>7. QED
    BY <2>3, <2>4, <2>5, <2>6 DEF OneLinkInv
<1>2. ASSUME NEW g \in Gens, Takes(g) PROVE OneLinkInv'
  <2>1. /\ wire' = wire /\ At(g) = {} /\ UNCHANGED <<started, sent, pending, transport>>
        /\ \A h \in Gens \ {g} : At(h)' = At(h)
    BY <1>2 DEF Takes, OthersStay, callVars
  <2>2. QED
    BY <1>0, <2>1 DEF OneLinkInv, IsMulti, Open
<1>3. ASSUME NEW g \in Gens, Lands(g) PROVE OneLinkInv'
  <2>1. \A h \in Gens : At(h)' = At(h)
    BY <1>3 DEF Lands
  <2>2. \A v \in wire' : v \in wire \/ (v.on = g /\ v.req \in At(g))
    BY <1>3 DEF Lands, OnWire
  <2>3. UNCHANGED <<started, sent, pending, transport>>
    BY <1>3 DEF Lands, callVars
  <2>4. QED
    BY <1>0, <2>1, <2>2, <2>3 DEF OneLinkInv, IsMulti, Open
<1>4. ASSUME NEW g \in Gens, Finishes(g) PROVE OneLinkInv'
  <2>1. wire' = wire /\ transport' = transport /\ \A h \in Gens \ {g} : At(h)' = At(h)
    BY <1>4 DEF Finishes, Ends, OthersStay
  <2>2. /\ \A r \in At(g) : IsMulti(r) =>
              sent'[r.call] = "failed" \/ (started'[r.call] /\ transport = g)
        /\ \A d \in Calls : /\ started[d] => started'[d]
                            /\ Kind[d] = "multi" /\ sent[d] = "failed" => sent'[d] = "failed"
                            /\ Open(d)' => Open(d)
    BY <1>4 DEF Finishes, Tells
  <2>3. QED
    BY <1>0, <2>1, <2>2 DEF OneLinkInv, IsMulti
<1>5. QED
  BY <1>1, <1>2, <1>3, <1>4

-----------------------------------------------------------------------------
(* Workers and generations; what is held; who has the TX group.            *)

LEMMA WorkerGenKept ==
  ASSUME TypeOK, LinkInv, WorkerGen, Next
  PROVE  WorkerGen'
<1> USE DEF linkVars, modeVars, opVars, queueVars, workerVars, callVars
<1>0. /\ wpc \in [Gens -> WorkerPc] /\ sessionGen \in Nat /\ transport \in {0} \cup Gens
      /\ transport # 0 => transport = sessionGen
      /\ \A v \in wire : v.on \in Gens
  BY DEF TypeOK, LinkInv, Lockstep
<1>1. \A v \in wire' : v \in wire \/ (v.on \in Gens /\ wpc[v.on] # "none")
  <2>1. CASE \E g \in Gens : Land(g)
    BY <2>1 DEF Land, OnWire
  <2>2. CASE ~\E g \in Gens : Land(g)
    <3>1. wire' = wire
      BY <2>2 DEF Next, CallStep, IssueInRpc, IssueWithoutLink, IssueAndSwitch, Resume, Register,
                  BodySend, BodyEnd, BodyFail, Return, Timeout, SendTimeout, Respond, WorkerStep,
                  WorkerExit, WorkerWait, WorkerTake, WriteOk, WriteFail, WriteOutlived, Answered,
                  HandshakeEnd, LinkStep, Fault, TransportClosed, Desync, AskDisconnect, OpStep,
                  Connect, Disconnect, RecoverStale, RecoverGiveUp, RecoverReconnect, Reopen,
                  OpenOk, OpenFail, ReopenFail, TearDown, BeginOpen
    <3>2. QED
      BY <3>1
  <2>3. QED
    BY <2>1, <2>2
<1>2. \A v \in wire' : v.on \in Gens /\ wpc[v.on] # "none"
  BY <1>0, <1>1 DEF WorkerGen
<1>3. CASE OpenOk
  <2>1. /\ sessionGen' = sessionGen /\ transport' = sessionGen
        /\ wpc' = [wpc EXCEPT ![sessionGen] = "run"] /\ transport = 0
    BY <1>3 DEF OpenOk, LinkInv, OpsInv
  <2>2. \A g \in Gens : wpc'[g] # "none" => g < sessionGen \/ g = sessionGen
    BY <1>0, <2>1 DEF WorkerGen, Gens
  <2>3. \A v \in wire' : wpc'[v.on] # "none"
    BY <1>0, <1>2, <2>1
  <2>4. QED
    BY <2>1, <2>2, <2>3 DEF WorkerGen
<1>4. CASE ~OpenOk
  <2>1. \A g \in Gens : wpc'[g] = "none" <=> wpc[g] = "none"
    BY <1>4, WorkersKnown
  <2>2. \A v \in wire' : wpc'[v.on] # "none"
    BY <1>2, <2>1
  <2>3. \/ UNCHANGED <<sessionGen, transport>>
        \/ sessionGen' = sessionGen + 1 /\ transport' \in {0, transport}
    BY <1>4 DEF Next, CallStep, IssueInRpc, IssueWithoutLink, IssueAndSwitch, Resume,
                BodySend, BodyEnd, BodyFail, Return, Timeout, SendTimeout, Respond, WorkerStep,
                WorkerExit, WorkerWait, WorkerTake, Land, WriteOk, WriteFail, WriteOutlived,
                Answered, HandshakeEnd, LinkStep, Fault, TransportClosed, Desync, AskDisconnect,
                OpStep, Connect, Disconnect, RecoverStale, RecoverGiveUp, RecoverReconnect,
                Reopen, OpenFail, ReopenFail, TearDown, BeginOpen
  <2>4. \A g \in Gens : wpc[g] # "none" => g < sessionGen + 1 /\ (g < sessionGen \/ g = transport)
    BY <1>0 DEF WorkerGen, Gens
  <2>5. \A g \in Gens : wpc'[g] # "none" => g < sessionGen' \/ g = transport'
    BY <2>1, <2>3, <2>4
  <2>6. QED
    BY <2>2, <2>5 DEF WorkerGen
<1>5. QED
  BY <1>3, <1>4

LEMMA HoldKept ==
  ASSUME TypeOK, HistInv, WorkerGen, HoldInv,
         Outside \/ \E g \in Gens : Takes(g) \/ Lands(g) \/ Finishes(g)
  PROVE  HoldInv'
<1>0. \A v \in wire : v.req.call \in Calls /\ v.on \in Gens /\ wpc[v.on] # "none"
  BY DEF TypeOK, Requests, WorkerGen
<1>1. CASE Outside
  <2>1. /\ wire' = wire /\ \A g \in Gens : Held(g)' = Held(g)
        /\ \A g \in Gens : Up(g)' => Up(g) \/ wpc[g] = "none"
        /\ \A d \in Calls : Open(d)' => Open(d) \/ Unmade(d)
    BY <1>1 DEF Outside, WritesStay, CallsMove, LinkMoves
  <2>2. \A v \in wire : ~Unmade(v.req.call)
    BY <1>0 DEF HistInv, UnmadeInv
  <2>3. QED
    BY <1>0, <2>1, <2>2 DEF HoldInv, HoldsTxUntilAnswer
<1>2. ASSUME NEW g \in Gens, Takes(g) PROVE HoldInv'
  <2>1. /\ wire' = wire /\ Held(g) = {} /\ UNCHANGED <<pending, transport, tstate>>
        /\ \A h \in Gens \ {g} : Held(h)' = Held(h)
    BY <1>2 DEF Takes, OthersStay, callVars
  <2>2. QED
    BY <1>0, <2>1 DEF HoldInv, HoldsTxUntilAnswer, Open, Up
<1>3. ASSUME NEW g \in Gens, Lands(g) PROVE HoldInv'
  <2>1. /\ \A h \in Gens : Held(h)' = Held(h)
        /\ UNCHANGED <<pending, transport, tstate>>
    BY <1>3 DEF Lands, callVars
  <2>2. \A v \in wire' : v \in wire \/ (v.on = g /\ v.req \in Held(g))
    BY <1>3 DEF Lands, OnWire
  <2>3. QED
    BY <1>0, <2>1, <2>2 DEF HoldInv, HoldsTxUntilAnswer, Open, Up
<1>4. ASSUME NEW g \in Gens, Finishes(g) PROVE HoldInv'
  <2>1. /\ wire' = wire /\ UNCHANGED <<transport, tstate>>
        /\ \A h \in Gens \ {g} : Held(h)' = Held(h)
    BY <1>4 DEF Finishes, Ends, OthersStay
  <2>2. \A d \in Calls : Open(d)' => Open(d)
    BY <1>4 DEF Finishes, Tells
  <2>3. \A r \in Held(g) :
           ~r.more /\ HoldsTxUntilAnswer(r) /\ Open(r.call)' /\ Up(g) => r \in Held(g)'
    BY <1>4 DEF Finishes, KeepsHold
  <2>4. \A h : Up(h)' = Up(h)
    BY <2>1 DEF Up
  <2>5. QED
    BY <1>0, <2>1, <2>2, <2>3, <2>4 DEF HoldInv, HoldsTxUntilAnswer
<1>5. QED
  BY <1>1, <1>2, <1>3, <1>4

LEMMA MidStreamSame ==
  ASSUME wire' = wire, NEW g
  PROVE  MidStream(g)' = MidStream(g)
  BY DEF MidStream

LEMMA MidOutside ==
  ASSUME TypeOK, HistInv, WorkerGen, MidInv, Outside
  PROVE  MidInv'
<1>1. /\ wire' = wire /\ \A g \in Gens : At(g)' = At(g)
      /\ \A g \in Gens : Up(g)' => Up(g) \/ wpc[g] = "none"
      /\ \A d \in Calls : Open(d)' => Open(d) \/ Unmade(d)
      /\ \A d \in Calls : txGroup = d /\ Open(d)' => txGroup' = d
  BY DEF Outside, WritesStay, CallsMove, LinkMoves
<1> SUFFICES ASSUME NEW g \in Gens, NEW c \in MidStream(g), Open(c)', Up(g)'
             PROVE  \/ \E r \in At(g) : r.call = c /\ OnWire(r, g) \in wire
                    \/ /\ txGroup' = c
                       /\ \A r \in At(g) : r.call = c \/ r.call \in Interleavable
  BY <1>1, MidStreamSame DEF MidInv, OnWire
<1>2. c \in Calls /\ \E w \in wire : w.on = g /\ w.req.call = c
  BY DEF MidStream
<1>3. ~Unmade(c) /\ wpc[g] # "none"
  BY <1>2 DEF HistInv, UnmadeInv, WorkerGen
<1>4. Open(c) /\ Up(g)
  BY <1>1, <1>2, <1>3
<1>5. QED
  BY <1>1, <1>2, <1>4 DEF MidInv

LEMMA MidTakes ==
  ASSUME TypeOK, MidInv, NEW g \in Gens, Takes(g)
  PROVE  MidInv'
<1>1. /\ wire' = wire /\ At(g) = {} /\ UNCHANGED <<pending, transport, tstate, txGroup>>
      /\ \A h \in Gens \ {g} : At(h)' = At(h)
      /\ At(g)' \subseteq Dispatchable(requestQueue, txGroup)
  BY DEF Takes, OthersStay, callVars
<1> SUFFICES ASSUME NEW h \in Gens, NEW c \in MidStream(h), Open(c), Up(h)
             PROVE  \/ \E r \in At(h)' : r.call = c /\ OnWire(r, h) \in wire
                    \/ /\ txGroup = c
                       /\ \A r \in At(h)' : r.call = c \/ r.call \in Interleavable
  BY <1>1, MidStreamSame DEF MidInv, OnWire, Open, Up
<1>2. CASE h = g
  <2>1. txGroup = c /\ c \in Calls
    BY <1>1, <1>2 DEF MidInv, MidStream
  <2>2. QED
    BY <1>1, <1>2, <2>1, CallsAssumption DEF Dispatchable
<1>3. CASE h # g
  BY <1>1, <1>3 DEF MidInv
<1>4. QED
  BY <1>2, <1>3

LEMMA MidLands ==
  ASSUME TypeOK, GroupInv, MidInv, NEW g \in Gens, Lands(g)
  PROVE  MidInv'
<1>1. /\ ~Out(g) /\ Up(g) /\ UNCHANGED <<pending, transport, tstate, txGroup>>
      /\ wire' = wire \cup {OnWire(r, g) : r \in At(g)}
      /\ \A h \in Gens : At(h)' = At(h)
  BY DEF Lands, callVars
<1>2. \A v \in wire' : v \in wire \/ \E r \in At(g) : v = OnWire(r, g)
  BY <1>1
<1> SUFFICES ASSUME NEW h \in Gens, NEW c \in MidStream(h)', Open(c), Up(h)
             PROVE  \/ \E r \in At(h) : r.call = c /\ OnWire(r, h) \in wire'
                    \/ /\ txGroup = c
                       /\ \A r \in At(h) : r.call = c \/ r.call \in Interleavable
  BY <1>1 DEF MidInv, OnWire, Open, Up
<1>3. h = g /\ c \in Calls
  BY <1>1 DEF Up, MidStream
<1>4. CASE c \in MidStream(g)
  BY <1>1, <1>3, <1>4 DEF MidInv
<1>5. CASE c \notin MidStream(g)
  \* Its first frame on this transport has just landed.
  <2>1. PICK v \in wire' : v.on = g /\ v.req.call = c
    BY <1>3 DEF MidStream
  <2>2. ~\E w \in wire : w.on = g /\ w.req.call = c /\ ~w.req.more
    BY <1>1, <1>3 DEF MidStream
  <2>3. v \notin wire
    BY <1>3, <1>5, <2>1, <2>2 DEF MidStream
  <2>4. PICK r \in At(g) : v = OnWire(r, g)
    BY <1>2, <2>3
  <2>5. r.call = c /\ OnWire(r, g) \in wire'
    BY <2>1, <2>4 DEF OnWire
  <2>6. QED
    BY <1>3, <2>5
<1>6. QED
  BY <1>4, <1>5

\* A worker that ends no write, or whose write is lost.
LEMMA MidEnds ==
  ASSUME MidInv, NEW g \in Gens, Ends(g),
         \A d \in Calls : Open(d)' => Open(d),
         \A h \in Gens, d \in Calls : Up(h) /\ txGroup = d /\ Open(d)' => txGroup' = d,
         Up(g) => At(g) = {}
  PROVE  MidInv'
<1>1. /\ wire' = wire /\ At(g)' = {} /\ UNCHANGED <<transport, tstate>>
      /\ \A h \in Gens \ {g} : At(h)' = At(h)
  BY DEF Ends, OthersStay
<1> SUFFICES ASSUME NEW h \in Gens, NEW c \in MidStream(h), Open(c)', Up(h)
             PROVE  \/ \E r \in At(h)' : r.call = c /\ OnWire(r, h) \in wire
                    \/ /\ txGroup' = c
                       /\ \A r \in At(h)' : r.call = c \/ r.call \in Interleavable
  BY <1>1, MidStreamSame DEF MidInv, OnWire, Up
<1>2. Open(c) /\ c \in Calls
  BY DEF MidStream
<1>3. CASE h = g
  BY <1>1, <1>2, <1>3 DEF MidInv
<1>4. CASE h # g
  BY <1>1, <1>2, <1>4 DEF MidInv
<1>5. QED
  BY <1>3, <1>4

\* A write that ended well locks the group for the command it belongs to.
LEMMA MidWriteOk ==
  ASSUME TypeOK, GroupInv, WorkerGen, MidInv, NEW g \in Gens, WriteOk(g), Ends(g)
  PROVE  MidInv'
<1> USE DEF linkVars, modeVars, opVars, queueVars, workerVars, callVars
<1> DEFINE mids == {r.call : r \in {s \in batch[g] : s.more}}
           finals == {r.call : r \in {s \in batch[g] : ~s.more}}
           locked == IF mids # {} THEN CHOOSE c \in mids : TRUE ELSE txGroup
<1>1. /\ wire' = wire /\ At(g)' = {} /\ UNCHANGED <<transport, tstate>>
      /\ txGroup' = IF locked \in finals THEN NoCall ELSE locked
      /\ pending' = pending
  BY DEF Ends, WriteOk
<1>2. wpc[g] = "write" /\ g # 0 /\ g = sessionGen
  BY DEF WriteOk, Gens
<1>3. /\ At(g) = batch[g] /\ batch[g] \subseteq Requests /\ g \in Places
      /\ transport = g
      /\ \A r \in batch[g] : OnWire(r, g) \in wire
  <2>1. transport = g
    BY <1>2 DEF WorkerGen, TypeOK
  <2>2. \A r \in batch[g] : OnWire(r, g) \in wire
    BY DEF WriteOk, Landed
  <2>3. QED
    BY <1>2, <2>1, <2>2 DEF At, TypeOK, Places
<1> SUFFICES ASSUME NEW h \in Gens, NEW c \in MidStream(h), Open(c), Up(h)
             PROVE  \/ \E r \in At(h)' : r.call = c /\ OnWire(r, h) \in wire
                    \/ /\ txGroup' = c
                       /\ \A r \in At(h)' : r.call = c \/ r.call \in Interleavable
  BY <1>1, MidStreamSame DEF MidInv, OnWire, Up, Open
<1>4. h = g /\ c \in Calls
  BY <1>3 DEF Up, MidStream
<1>5. CASE \E r \in batch[g] : r.call = c
  <2>1. PICK r \in batch[g] : r.call = c
    BY <1>5
  <2>2. r.more
    BY <1>3, <1>4, <2>1 DEF MidStream, OnWire
  <2>3. batch[g] = {r}
    BY <1>3, <2>2 DEF GroupInv, CarryInv, CarryOwner, CarryAlone
  <2>4. mids = {c} /\ finals = {}
    BY <2>1, <2>2, <2>3
  <2>5. locked = c
    BY <2>4
  <2>6. txGroup' = c
    BY <1>1, <2>4, <2>5
  <2>7. QED
    BY <1>1, <1>4, <2>6
<1>6. CASE ~\E r \in batch[g] : r.call = c
  <2>1. txGroup = c /\ \A r \in batch[g] : r.call \in Interleavable
    BY <1>3, <1>4, <1>6 DEF MidInv
  <2>2. \A r \in batch[g] : ~r.more
    <3>1. \A r \in batch[g] : ~IsMulti(r)
      BY <2>1, CallsAssumption DEF IsMulti
    <3>2. QED
      BY <1>3, <3>1 DEF GroupInv, CarryInv, CarryOwner
  <2>3. mids = {} /\ c \notin finals
    BY <1>6, <2>2
  <2>4. locked = c
    BY <2>1, <2>3
  <2> HIDE DEF finals, mids, locked
  <2>5. txGroup' = c
    BY <1>1, <2>3, <2>4
  <2>6. QED
    BY <1>1, <1>4, <2>5
<1>7. QED
  BY <1>5, <1>6

LEMMA MidKept ==
  ASSUME TypeOK, GroupInv, LinkInv, NoFutureWorker, WorkerGen, HistInv, MidInv, Next
  PROVE  MidInv'
<1> USE DEF linkVars, modeVars, opVars, queueVars, workerVars, callVars
<1>1. ASSUME NEW g \in Gens, WorkerStep(g)
      PROVE  MidInv'
  <2>1. CASE WorkerTake(g)
    BY <2>1, TakeDoes, MidTakes
  <2>2. CASE Land(g)
    BY <2>2, LandDoes, MidLands
  <2>3. CASE WriteOk(g)
    BY <2>3, EndDoes, MidWriteOk
  <2>4. CASE WriteFail(g) \/ WriteOutlived(g)
    <3>1. Ends(g) /\ Tells(g) /\ ~Up(g)
      BY <2>4, EndDoes, WriteLostDoes
    <3>2. \A h \in Gens, d \in Calls : Up(h) /\ txGroup = d /\ Open(d)' => txGroup' = d
      <4>1. CASE WriteFail(g)
        BY <4>1 DEF WriteFail, Up
      <4>2. CASE WriteOutlived(g)
        <5>1. PICK C \in SUBSET Calls : pending' = Settled(C, "lost") /\ txGroup' = Released(C)
          BY <4>2 DEF WriteOutlived, FailBatch, FailCalls
        <5>2. \A d \in Calls : Open(d)' => d \notin C
          BY <5>1 DEF Settled, Open
        <5>3. QED
          BY <5>1, <5>2 DEF Released
      <4>3. QED
        BY <2>4, <4>1, <4>2
    <3>3. QED
      BY <3>1, <3>2, MidEnds DEF Tells
  <2>5. CASE WorkerExit(g) \/ WorkerWait(g) \/ Answered(g)
    <3>1. Ends(g) /\ Tells(g) /\ At(g) = {}
      BY <2>5, EndDoes, NoWriteDoes
    <3>2. txGroup' = txGroup
      BY <2>5 DEF WorkerExit, WorkerWait, Answered
    <3>3. QED
      BY <3>1, <3>2, MidEnds DEF Tells
  <2>6. QED
    BY <1>1, <2>1, <2>2, <2>3, <2>4, <2>5 DEF WorkerStep
<1>2. ASSUME ~\E g \in Gens : WorkerStep(g)
      PROVE  MidInv'
  <2>1. Outside
    BY <1>2, CallStepOutside, LinkStepOutside, OpStepOutside DEF Next
  <2>2. QED
    BY <2>1, MidOutside
<1>3. QED
  BY <1>1, <1>2

-----------------------------------------------------------------------------
(* The invariant.                                                          *)

WireInv == /\ HistInv /\ FormInv /\ ToldInv /\ OneLinkInv
           /\ WorkerGen /\ HoldInv /\ MidInv

SessionInv == TypeOK /\ GroupInv /\ LinkInv /\ WakeInv /\ WireInv

LEMMA InitSessionInv == Init => SessionInv
<1> SUFFICES ASSUME Init PROVE SessionInv
  OBVIOUS
<1>1. wire = {} /\ \A x \in Places : At(x) = {}
  BY DEF Init, At, Places
<1>2. HistInv
  BY <1>1 DEF HistInv, OnceInv, UnmadeInv, Carried, SeqInv, OrderInv, Fresh, FinalInv
<1>3. FormInv
  BY <1>1 DEF FormInv, Places
<1>4. WorkerGen /\ ToldInv /\ OneLinkInv /\ HoldInv
  BY <1>1 DEF Init, WorkerGen, ToldInv, OneLinkInv, HoldInv
<1>5. MidInv
  BY <1>1 DEF MidInv, MidStream
<1>6. QED
  BY <1>2, <1>3, <1>4, <1>5, InitTypeOK, InitGroupInv, InitLinkInv, InitWakeInv
     DEF SessionInv, WireInv

LEMMA WireKept ==
  ASSUME SessionInv, Next
  PROVE  WireInv'
<1> USE DEF SessionInv, WireInv, WakeInv
<1>1. Outside \/ \E g \in Gens : Takes(g) \/ Lands(g) \/ Finishes(g)
  BY StepKinds
<1>2. HistInv'
  BY <1>1, HistKept
<1>3. FormInv' /\ ToldInv'
  BY <1>1, FormKept, ToldKept
<1>4. OneLinkInv'
  BY <1>1, OneLinkKept
<1>5. WorkerGen'
  BY WorkerGenKept
<1>6. HoldInv'
  BY <1>1, HoldKept
<1>7. MidInv'
  BY MidKept
<1>8. QED
  BY <1>2, <1>3, <1>4, <1>5, <1>6, <1>7

LEMMA NextSessionInv == SessionInv /\ [Next]_vars => SessionInv'
<1> SUFFICES ASSUME SessionInv, [Next]_vars PROVE SessionInv'
  OBVIOUS
<1>1. TypeOK' /\ GroupInv' /\ LinkInv' /\ WakeInv'
  BY NextTypeOK, NextGroupInv, NextLinkInv, NextWakeInv DEF SessionInv
<1>2. CASE UNCHANGED vars
  <2> USE <1>2 DEF vars, linkVars, modeVars, opVars, queueVars, workerVars, callVars
  <2>1. \A x : At(x)' = At(x) /\ Held(x)' = Held(x) /\ Up(x)' = Up(x)
    BY DEF At, Held, Up
  <2>2. HistInv'
    BY <2>1, HistLess DEF SessionInv, WireInv, Unmade
  <2>3. FormInv' /\ WorkerGen'
    BY <2>1 DEF SessionInv, WireInv, FormInv, WorkerGen, IsMulti, Batchable, HoldsTxUntilAnswer
  <2>4. ToldInv' /\ OneLinkInv' /\ HoldInv'
    BY <2>1 DEF SessionInv, WireInv, ToldInv, OneLinkInv, HoldInv, IsMulti, Open,
                HoldsTxUntilAnswer
  <2>5. MidInv'
    BY <2>1, MidStreamSame DEF SessionInv, WireInv, MidInv, Open, OnWire
  <2>6. QED
    BY <1>1, <2>2, <2>3, <2>4, <2>5 DEF SessionInv, WireInv
<1>3. CASE Next
  BY <1>1, <1>3, WireKept DEF SessionInv
<1>4. QED
  BY <1>2, <1>3

LEMMA SessionInvHolds == Spec => []SessionInv
  BY InitSessionInv, NextSessionInv, PTL DEF Spec

-----------------------------------------------------------------------------
(* What lands.                                                             *)

\* Frames reach the device in one kind of step.
LEMMA LandingIs ==
  ASSUME SessionInv, Next, NEW w \in Landing
  PROVE  /\ Lands(w.on) /\ w.on \in Gens
         /\ w.req \in At(w.on) /\ w = OnWire(w.req, w.on)
<1>1. Outside \/ \E g \in Gens : Takes(g) \/ Lands(g) \/ Finishes(g)
  BY StepKinds DEF SessionInv, WakeInv, WireInv
<1>2. PICK g \in Gens : Lands(g)
  BY <1>1 DEF Outside, WritesStay, Takes, Finishes, Ends, Landing
<1>3. PICK r \in At(g) : w = OnWire(r, g)
  BY <1>2 DEF Lands, Landing
<1>4. w.on = g /\ w.req = r
  BY <1>3 DEF OnWire
<1>5. QED
  BY <1>2, <1>3, <1>4

\* A request reaches a device once at most, whatever outlives a reconnect, and
\* the frames of one command land in the order they were made.
THEOREM OnceAndInOrder == Spec => AtMostOnceInOrder
<1> DEFINE InOrder == \A w \in Landing : \A v \in wire :
                         w.req.call = v.req.call => v.req.seq < w.req.seq
<1>1. SessionInv /\ [Next]_vars => [InOrder]_vars
  <2> SUFFICES ASSUME SessionInv, Next, NEW w \in Landing, NEW v \in wire,
                      w.req.call = v.req.call
               PROVE  v.req.seq < w.req.seq
    OBVIOUS
  <2>1. Lands(w.on) /\ w.on \in Gens /\ w.req \in At(w.on)
    BY LandingIs
  <2>2. Fresh(w.on)
    BY <2>1 DEF SessionInv, WireInv, HistInv, OrderInv, Lands, Places
  <2>3. QED
    BY <2>1, <2>2 DEF Fresh
<1>2. QED
  BY <1>1, SessionInvHolds, PTL DEF Spec, AtMostOnceInOrder

\* Nothing but an interleavable request lands between the frames of an open
\* command, and nothing at all while a command that must not be overlapped is
\* unanswered.
THEOREM NeverCutInto == Spec => NothingCutsIn
<1> DEFINE Whole(w) ==
             /\ \A c \in MidStream(w.on) :
                   Open(c) => w.req.call = c \/ w.req.call \in Interleavable
             /\ \A v \in wire :
                   v.on = w.on /\ ~v.req.more /\ HoldsTxUntilAnswer(v.req) => ~Open(v.req.call)
<1>1. SessionInv /\ [Next]_vars => [\A w \in Landing : Whole(w)]_vars
  <2> SUFFICES ASSUME SessionInv, Next, NEW w \in Landing
               PROVE  Whole(w)
    OBVIOUS
  <2> DEFINE g == w.on
  <2>1. Lands(g) /\ g \in Gens /\ w.req \in At(g)
    BY LandingIs
  <2>2. ~Out(g) /\ Up(g) /\ At(g) \subseteq Requests
    BY <2>1, AtRequests DEF Lands, SessionInv, Places
  <2>3. ASSUME NEW r \in At(g), OnWire(r, g) \in wire
        PROVE  At(g) # {r}
    BY <2>1, <2>2, <2>3 DEF Out
  <2>4. ASSUME NEW c \in MidStream(g), Open(c)
        PROVE  w.req.call = c \/ w.req.call \in Interleavable
    <3>1. CASE \E r \in At(g) : r.call = c /\ OnWire(r, g) \in wire
      <4>1. PICK r \in At(g) : r.call = c /\ OnWire(r, g) \in wire
        BY <3>1
      <4>2. r.more
        BY <4>1, <2>4 DEF MidStream, OnWire
      <4>3. At(g) = {r}
        BY <2>1, <4>2 DEF SessionInv, GroupInv, CarryInv, CarryOwner, CarryAlone, Places
      <4>4. QED
        BY <2>3, <4>1, <4>3
    <3>2. CASE \A r \in At(g) : r.call = c \/ r.call \in Interleavable
      BY <2>1, <3>2
    <3>3. QED
      BY <2>1, <2>2, <2>4, <3>1, <3>2 DEF SessionInv, WireInv, MidInv
  <2>5. ASSUME NEW v \in wire, v.on = g, ~v.req.more, HoldsTxUntilAnswer(v.req), Open(v.req.call)
        PROVE  FALSE
    <3>1. v.req \in Held(g)
      BY <2>2, <2>5 DEF SessionInv, WireInv, HoldInv
    <3>2. v.req \in At(g)
      BY <2>1, <3>1, HeldInWrite
    <3>3. At(g) = {v.req}
      BY <2>1, <2>5, <3>2 DEF SessionInv, WireInv, FormInv, Batchable
    <3>4. v = OnWire(v.req, g)
      BY <2>5 DEF SessionInv, TypeOK, OnWire
    <3>5. QED
      BY <2>3, <2>5, <3>2, <3>3, <3>4
  <2>6. QED
    BY <2>4, <2>5
<1>2. QED
  BY <1>1, SessionInvHolds, PTL DEF Spec, NothingCutsIn

-----------------------------------------------------------------------------
(* RpcCalls.  A call is "new" until it is made, and its status then only   *)
(* moves as the abstract specification lets it.                            *)

Known(c) == IF Kind[c] = "send" THEN sent[c] # "none" ELSE pending[c] # "absent"

StatusInv == \A c \in Calls :
    /\ Unmade(c) => pending[c] = "absent" /\ sent[c] = "none"
    /\ pc[c] \in {"body", "await", "returned"} => Known(c)

Lost == {"refused", "timedout", "lost", "ended", "aborted"}

\* What a step may do to a call that is not being made in it.
Moves(d) ==
    /\ pending'[d] = pending[d] \/ (Open(d) /\ pending'[d] \in Lost \cup {"ok"})
    /\ \/ sent'[d] = sent[d]
       \/ sent[d] = "waiting" /\ sent'[d] \in {"sent", "failed"}
       \/ pc[d] = "body" /\ sent'[d] = "waiting"
    /\ \/ pc'[d] \in {pc[d], "threw"}
       \/ pc[d] = "idle" /\ pc'[d] = "switching"
       \/ pc[d] \in {"body", "await"} /\ pc'[d] \in {"await", "returned"}
    /\ pc[d] = "threw" => pc'[d] = "threw"

\* It does not succeed.
Loses(d) ==
    /\ pending'[d] = "ok" => pending[d] = "ok"
    /\ Kind[d] = "send" /\ sent'[d] = "sent" => sent[d] = "sent"

\* It is made.
Made(c) ==
    /\ Unmade(c) /\ pc'[c] \in {"body", "await"}
    /\ IF Kind[c] = "send" THEN sent'[c] = "waiting" /\ UNCHANGED pending
                           ELSE pending'[c] = "open" /\ UNCHANGED sent
    /\ \A d \in Calls \ {c} : UNCHANGED <<pending[d], sent[d], pc[d]>>

Fails(d) == \/ StatusOf(d)' = StatusOf(d)
            \/ StatusOf(d) \in {"new", "open"} /\ StatusOf(d)' = "failed"

LEMMA MovesStatusInv ==
  ASSUME TypeOK, StatusInv, NEW c \in Calls, Moves(c) \/ Made(c)
  PROVE  /\ Unmade(c)' => pending'[c] = "absent" /\ sent'[c] = "none"
         /\ pc'[c] \in {"body", "await", "returned"} => Known(c)'
<1>1. CASE Made(c)
  BY <1>1 DEF Made, Unmade, Known
<1>2. CASE Moves(c)
  <2>1. Unmade(c)' => Unmade(c) /\ pending'[c] = pending[c] /\ sent'[c] = sent[c]
    BY <1>2 DEF Moves, Unmade, StatusInv, Open
  <2>2. pc'[c] \in {"body", "await", "returned"} => pc[c] \in {"body", "await", "returned"}
    BY <1>2 DEF Moves
  <2>3. Known(c) => Known(c)'
    BY <1>2 DEF Moves, Known, Lost
  <2>4. QED
    BY <2>1, <2>2, <2>3 DEF StatusInv
<1>3. QED
  BY <1>1, <1>2

\* A call that moves without success stays as it is or fails.
LEMMA MovesFails ==
  ASSUME TypeOK, TypeOK', BodiesMulti, NEW d \in Calls, Moves(d), Loses(d)
  PROVE  Fails(d)
<1>1. pending[d] \in PendingStates /\ sent[d] \in SentStates
  BY DEF TypeOK
<1>2. CASE Kind[d] = "send"
  <2>1. sent'[d] = sent[d] \/ (sent[d] = "waiting" /\ sent'[d] = "failed")
    BY <1>2 DEF Moves, Loses, BodiesMulti
  <2>2. QED
    BY <1>1, <1>2, <2>1 DEF Moves, Fails, StatusOf, SentStates
<1>3. CASE Kind[d] # "send"
  <2>1. pending'[d] = pending[d] \/ (pending[d] = "open" /\ pending'[d] \in Lost)
    BY DEF Moves, Loses, Open
  <2>2. QED
    BY <1>1, <1>3, <2>1 DEF Moves, Fails, StatusOf, PendingStates, Lost
<1>4. QED
  BY <1>2, <1>3

-----------------------------------------------------------------------------
(* Each step, for the calls.                                               *)

LEMMA SettledMoves ==
  ASSUME TypeOK, NEW C, NEW how \in Lost, pending' = Settled(C, how), NEW d \in Calls
  PROVE  /\ pending'[d] = pending[d] \/ (Open(d) /\ pending'[d] \in Lost)
         /\ pending'[d] = "ok" => pending[d] = "ok"
  BY DEF Settled, Open, TypeOK, Lost

LEMMA SentFailedMoves ==
  ASSUME TypeOK, NEW reqs, sent' = SentFailed(reqs), NEW d \in Calls
  PROVE  sent'[d] = sent[d] \/ (sent[d] = "waiting" /\ sent'[d] = "failed")
  BY DEF SentFailed, TypeOK

LEMMA CallStepMoves ==
  ASSUME TypeOK, NEW c \in Calls, CallStep(c)
  PROVE  \/ Made(c)
         \/ (\A d \in Calls : Moves(d)) /\ (Respond(c) \/ \A d \in Calls : Loses(d))
<1> USE DEF linkVars, modeVars, opVars, queueVars, workerVars, callVars
<1>0. /\ pc \in [Calls -> CallPc] /\ pending \in [Calls -> PendingStates]
      /\ sent \in [Calls -> SentStates]
  BY DEF TypeOK
<1>1. CASE IssueInRpc(c) \/ Resume(c)
  <2>1. Register(c) /\ Unmade(c)
    BY <1>1 DEF IssueInRpc, Resume, Unmade
  <2>2. CASE RegisterCall(c)
    BY <1>0, <2>1, <2>2 DEF RegisterCall, Made
  <2>3. CASE RegisterSend(c)
    BY <1>0, <2>1, <2>3 DEF RegisterSend, Made
  <2>4. CASE RegisterBody(c)
    BY <1>0, <2>1, <2>4 DEF RegisterBody, Made
  <2>5. QED
    BY <2>1, <2>2, <2>3, <2>4 DEF Register
<1>2. CASE IssueWithoutLink(c) \/ IssueAndSwitch(c) \/ BodyEnd(c) \/ Return(c)
  BY <1>0, <1>2 DEF IssueWithoutLink, IssueAndSwitch, BodyEnd, Return, Moves, Loses
<1>3. CASE BodySend(c)
  BY <1>0, <1>3 DEF BodySend, Moves, Loses
<1>4. CASE BodyFail(c) \/ Timeout(c)
  <2>1. PICK how \in Lost : pending' = Settled({c}, how)
    BY <1>4 DEF BodyFail, Timeout, FailCalls, Lost
  <2>2. sent' = SentFailed(QueuedOf({c}))
    BY <1>4 DEF BodyFail, Timeout
  <2>3. \A d \in Calls : pc'[d] \in {pc[d], "threw"}
    BY <1>0, <1>4 DEF BodyFail, Timeout
  <2>4. QED
    BY <2>1, <2>2, <2>3, SettledMoves, SentFailedMoves DEF Moves, Loses
<1>5. CASE SendTimeout(c)
  BY <1>0, <1>5 DEF SendTimeout, Moves, Loses
<1>6. CASE Respond(c)
  <2>1. PICK answer \in {"ok", "refused"} : pending' = [pending EXCEPT ![c] = answer]
    BY <1>6 DEF Respond
  <2>2. \A d \in Calls : Moves(d)
    BY <1>0, <1>6, <2>1 DEF Respond, Moves, Lost
  <2>3. QED
    BY <1>6, <2>2
<1>7. QED
  BY <1>1, <1>2, <1>3, <1>4, <1>5, <1>6 DEF CallStep

LEMMA WorkerStepMoves ==
  ASSUME TypeOK, NEW g \in Gens, WorkerStep(g)
  PROVE  /\ \A d \in Calls : Moves(d)
         /\ WriteOk(g) \/ \A d \in Calls : Loses(d)
<1> USE DEF linkVars, modeVars, opVars, queueVars, workerVars, callVars
<1>1. CASE WorkerExit(g) \/ WorkerWait(g) \/ WorkerTake(g) \/ Land(g) \/ Answered(g)
  BY <1>1 DEF WorkerExit, WorkerWait, WorkerTake, Land, Answered, Moves, Loses
<1>2. CASE WriteOk(g)
  <2>1. /\ pending' = pending /\ pc' = pc
        /\ \A d \in Calls : sent'[d] = sent[d] \/ (sent[d] = "waiting" /\ sent'[d] = "sent")
    BY <1>2 DEF WriteOk
  <2>2. QED
    BY <1>2, <2>1 DEF Moves
<1>3. CASE WriteFail(g) \/ WriteOutlived(g)
  <2>1. PICK C : pending' = Settled(C, "lost")
    BY <1>3 DEF WriteFail, WriteOutlived, FailBatch, FailCalls
  <2>2. sent' = SentFailed(batch[g]) /\ pc' = pc /\ "lost" \in Lost
    BY <1>3 DEF WriteFail, WriteOutlived, FailBatch, Lost
  <2>3. QED
    BY <2>1, <2>2, SettledMoves, SentFailedMoves DEF Moves, Loses
<1>4. QED
  BY <1>1, <1>2, <1>3 DEF WorkerStep

LEMMA OtherStepMoves ==
  ASSUME TypeOK, LinkStep \/ OpStep \/ \E t \in Gens : HandshakeEnd(t)
  PROVE  \A d \in Calls : Moves(d) /\ Loses(d)
<1> USE DEF linkVars, modeVars, opVars, queueVars, workerVars, callVars
<1>1. CASE Disconnect \/ RecoverGiveUp \/ RecoverReconnect \/ ReopenFail
  <2>1. PICK C : \E how \in Lost : pending' = Settled(C, how)
    <3>1. CASE RecoverReconnect
      <4>1. pending' = Settled(StartedCalls, "lost") /\ "lost" \in Lost
        BY <3>1 DEF RecoverReconnect, FailCalls, Lost
      <4>2. QED
        BY <4>1
    <3>2. CASE Disconnect \/ RecoverGiveUp \/ ReopenFail
      <4>1. pending' = Settled(Calls, "ended") /\ "ended" \in Lost
        BY <3>2 DEF Disconnect, RecoverGiveUp, ReopenFail, TearDown, Lost
      <4>2. QED
        BY <4>1
    <3>3. QED
      BY <1>1, <3>1, <3>2
  <2>2. PICK reqs : sent' = SentFailed(reqs)
    BY <1>1 DEF Disconnect, RecoverGiveUp, RecoverReconnect, ReopenFail, TearDown
  <2>3. pc' = pc
    BY <1>1 DEF Disconnect, RecoverGiveUp, RecoverReconnect, ReopenFail, TearDown
  <2>4. QED
    BY <2>1, <2>2, <2>3, SettledMoves, SentFailedMoves DEF Moves, Loses
<1>2. CASE ~(Disconnect \/ RecoverGiveUp \/ RecoverReconnect \/ ReopenFail)
  <2>1. UNCHANGED <<pending, sent, pc>>
    BY <1>2 DEF LinkStep, Fault, TransportClosed, Desync, AskDisconnect, HandshakeEnd, OpStep,
                Connect, RecoverStale, Reopen, BeginOpen, OpenOk, OpenFail
  <2>2. QED
    BY <2>1 DEF Moves, Loses
<1>3. QED
  BY <1>1, <1>2

LEMMA InitStatusInv == Init => StatusInv
  BY DEF Init, StatusInv

LEMMA StatusKept ==
  ASSUME TypeOK, StatusInv, \A c \in Calls : Moves(c) \/ Made(c)
  PROVE  StatusInv'
  BY MovesStatusInv DEF StatusInv

-----------------------------------------------------------------------------
(* Each step, for RpcCalls.                                                *)

\* As long as nothing lands, the links of the calls stand still.
LEMMA NothingLands ==
  ASSUME wire' = wire
  PROVE  \A c : LinksOf(c)' = LinksOf(c)
  BY DEF LinksOf

Latest(links) == IF links = {} THEN 0 ELSE CHOOSE g \in links : \A h \in links : h <= g

LinkOf(c) == Latest(LinksOf(c))

Complete(c) == \E w \in wire : w.req.call = c /\ ~w.req.more

Refines ==
    \/ \E c \in Calls : Promise!Begin(c)
    \/ \E S \in SUBSET Calls : Promise!Succeed(S) \/ Promise!Fail(S)
    \/ \E D \in SUBSET Calls, g \in Gens : Promise!Deliver(D, g)

LEMMA SameLinks ==
  ASSUME wire' = wire
  PROVE  /\ [c \in Calls |-> LinkOf(c)]' = [c \in Calls |-> LinkOf(c)]
         /\ [c \in Calls |-> Complete(c)]' = [c \in Calls |-> Complete(c)]
<1>1. \A c \in Calls : LinkOf(c)' = LinkOf(c)
  BY NothingLands DEF LinkOf
<1>2. \A c \in Calls : Complete(c)' = Complete(c)
  BY DEF Complete
<1>3. QED
  BY <1>1, <1>2, Zenon

LEMMA FailStep ==
  ASSUME wire' = wire, \A d \in Calls : Fails(d)
  PROVE  \E S \in SUBSET Calls : Promise!Fail(S)
<1> DEFINE F == {d \in Calls : StatusOf(d)' # StatusOf(d)}
<1>1. \A d \in Calls : StatusOf(d)' = IF d \in F THEN "failed" ELSE StatusOf(d)
  BY DEF Fails
<1>2. \A d \in F : StatusOf(d) \in {"new", "open"}
  BY DEF Fails
<1>3. F \in SUBSET Calls
  OBVIOUS
<1> HIDE DEF F
<1>4. Promise!Fail(F)
  BY <1>1, <1>2, <1>3, SameLinks DEF Promise!Fail, LinkOf, Latest, Complete
<1>5. QED
  BY <1>3, <1>4

LEMMA BeginStep ==
  ASSUME TypeOK, TypeOK', StatusInv, NEW c \in Calls, Made(c), wire' = wire
  PROVE  Promise!Begin(c)
<1>1. StatusOf(c) = "new"
  BY DEF StatusInv, Made, Unmade, StatusOf
<1>2. StatusOf(c)' = "open"
  BY DEF Made, StatusOf
<1>3. \A d \in Calls \ {c} : StatusOf(d)' = StatusOf(d)
  BY DEF Made, StatusOf
<1>4. QED
  BY <1>1, <1>2, <1>3, SameLinks DEF Promise!Begin, LinkOf, Latest, Complete

\* Calls that become "ok" have their final frame on the wire.
LEMMA SucceedStep ==
  ASSUME wire' = wire, \A d \in Calls : \/ StatusOf(d)' = StatusOf(d)
                                        \/ /\ StatusOf(d) = "open" /\ StatusOf(d)' = "ok"
                                           /\ Complete(d)
  PROVE  \E S \in SUBSET Calls : Promise!Succeed(S)
<1> DEFINE S == {d \in Calls : StatusOf(d)' # StatusOf(d)}
<1>1. \A d \in Calls : StatusOf(d)' = IF d \in S THEN "ok" ELSE StatusOf(d)
  OBVIOUS
<1>2. \A d \in S : StatusOf(d) = "open" /\ Complete(d)
  OBVIOUS
<1>3. S \in SUBSET Calls
  OBVIOUS
<1> HIDE DEF S
<1>4. Promise!Succeed(S)
  BY <1>1, <1>2, <1>3, SameLinks DEF Promise!Succeed, LinkOf, Latest, Complete
<1>5. QED
  BY <1>3, <1>4

LEMMA RespondRefines ==
  ASSUME TypeOK, TypeOK', BodiesMulti, NEW c \in Calls, Respond(c), \A d \in Calls : Moves(d)
  PROVE  Refines
<1> USE DEF linkVars, modeVars, opVars, queueVars, workerVars, callVars
<1>1. PICK answer \in {"ok", "refused"} :
         /\ answer = "ok" => Complete(c)
         /\ pending' = [pending EXCEPT ![c] = answer]
  BY DEF Respond, Complete
<1>2. UNCHANGED <<wire, pc, sent>> /\ pending[c] = "open"
  BY DEF Respond, Open
<1>3. CASE answer = "refused"
  <2>1. \A d \in Calls : Loses(d)
    BY <1>1, <1>2, <1>3 DEF Loses, TypeOK
  <2>2. QED
    BY <1>2, <2>1, MovesFails, FailStep DEF Refines
<1>4. CASE answer = "ok"
  <2>1. \A d \in Calls : \/ StatusOf(d)' = StatusOf(d)
                         \/ /\ StatusOf(d) = "open" /\ StatusOf(d)' = "ok" /\ Complete(d)
    BY <1>1, <1>2, <1>4 DEF StatusOf, TypeOK
  <2>2. QED
    BY <1>2, <2>1, SucceedStep DEF Refines
<1>5. QED
  BY <1>3, <1>4

LEMMA WriteOkRefines ==
  ASSUME TypeOK, TypeOK', GroupInv, NEW g \in Gens, WriteOk(g)
  PROVE  Refines
<1> USE DEF linkVars, modeVars, opVars, queueVars, workerVars, callVars
<1>1. /\ UNCHANGED <<wire, pc, pending>> /\ wpc[g] = "write" /\ g # 0
      /\ \A r \in batch[g] : OnWire(r, g) \in wire
  BY DEF WriteOk, Gens, Landed
<1>2. At(g) = batch[g] /\ g \in Places
  BY <1>1 DEF At, Places
<1>3. \A d \in Calls : \/ sent'[d] = sent[d]
                       \/ /\ sent[d] = "waiting" /\ sent'[d] = "sent"
                          /\ \E r \in batch[g] : r.call = d
  BY DEF WriteOk
<1>4. ASSUME NEW d \in Calls, Kind[d] = "send", NEW r \in batch[g], r.call = d
      PROVE  Complete(d)
  <2>1. ~r.more
    BY <1>2, <1>4 DEF GroupInv, CarryInv, CarryOwner, IsMulti
  <2>2. QED
    BY <1>1, <1>4, <2>1 DEF Complete, OnWire
<1>5. ASSUME NEW d \in Calls
      PROVE  \/ StatusOf(d)' = StatusOf(d)
             \/ StatusOf(d) = "open" /\ StatusOf(d)' = "ok" /\ Complete(d)
  <2>1. CASE Kind[d] # "send" \/ sent'[d] = sent[d]
    BY <1>1, <2>1 DEF StatusOf
  <2>2. CASE Kind[d] = "send" /\ sent'[d] # sent[d]
    <3>1. sent[d] = "waiting" /\ sent'[d] = "sent" /\ Complete(d)
      BY <1>3, <1>4, <2>2
    <3>2. QED
      BY <2>2, <3>1 DEF StatusOf
  <2>3. QED
    BY <2>1, <2>2
<1>6. QED
  BY <1>1, <1>5, SucceedStep DEF Refines

LEMMA DeliverStep ==
  ASSUME NEW C \in SUBSET Calls, NEW F \in SUBSET C, NEW g \in Gens,
         \A c \in C : /\ StatusOf(c) # "new" /\ ~Complete(c)
                      /\ StatusOf(c) = "open" => LinkOf(c) \in {0, g},
         \A c \in Calls : LinkOf(c)' = IF c \in C THEN g ELSE LinkOf(c),
         \A c \in Calls : Complete(c)' <=> Complete(c) \/ c \in F,
         \A c \in Calls : StatusOf(c)' = StatusOf(c)
  PROVE  Refines
<1>1. [c \in Calls |-> LinkOf(c)]' = [c \in Calls |-> IF c \in C THEN g ELSE LinkOf(c)]
  BY Zenon
<1>2. [c \in Calls |-> Complete(c)]' = [c \in Calls |-> Complete(c) \/ c \in F]
  <2>1. \A c \in Calls : Complete(c)' = (Complete(c) \/ c \in F)
    BY Zenon DEF Complete
  <2>2. QED
    BY <2>1, Zenon
<1>3. [c \in Calls |-> StatusOf(c)]' = [c \in Calls |-> StatusOf(c)]
  BY Zenon
<1>4. /\ \A c \in C : [d \in Calls |-> StatusOf(d)][c] = StatusOf(c)
      /\ \A c \in C : [d \in Calls |-> LinkOf(d)][c] = LinkOf(c)
      /\ \A c \in C : [d \in Calls |-> Complete(d)][c] = Complete(c)
  OBVIOUS
<1>5. [c \in Calls |-> IF c \in C THEN g ELSE [d \in Calls |-> LinkOf(d)][c]]
      = [c \in Calls |-> IF c \in C THEN g ELSE LinkOf(c)]
  OBVIOUS
<1>6. [c \in Calls |-> [d \in Calls |-> Complete(d)][c] \/ c \in F]
      = [c \in Calls |-> Complete(c) \/ c \in F]
  OBVIOUS
<1>7. Promise!Deliver(C, g)
  <2> DEFINE st == [c \in Calls |-> StatusOf(c)]
             ln == [c \in Calls |-> LinkOf(c)]
             co == [c \in Calls |-> Complete(c)]
  <2>1. \A c \in C : st[c] # "new" /\ ~co[c] /\ (st[c] = "open" => ln[c] \in {0, g})
    BY <1>4
  <2>2. ln' = [c \in Calls |-> IF c \in C THEN g ELSE ln[c]]
    BY <1>1, <1>5
  <2>3. co' = [c \in Calls |-> co[c] \/ c \in F]
    BY <1>2, <1>6
  <2>4. st' = st
    BY <1>3
  <2>5. QED
    BY <2>1, <2>2, <2>3, <2>4, Zenon DEF Promise!Deliver, LinkOf, Latest, Complete
<1>8. QED
  BY <1>7, Zenon DEF Refines

\* A frame lands on the link its call is on, if the call is open.
LEMMA LandsRefines ==
  ASSUME SessionInv, StatusInv, NEW g \in Gens, Lands(g)
  PROVE  Refines
<1> DEFINE D == {c \in Calls : \E r \in At(g) : r.call = c}
           final == {c \in Calls : \E r \in At(g) : r.call = c /\ ~r.more}
<1>0. /\ g \in Places /\ At(g) \subseteq Requests /\ TypeOK
      /\ \A v \in wire : v.req \in Requests /\ v.on \in Gens
      /\ transport = g /\ g = sessionGen /\ sessionGen \in Nat
  BY AtRequests DEF SessionInv, TypeOK, Places, Lands, Up, LinkInv, Lockstep, Gens
<1>1. /\ Fresh(g) /\ UNCHANGED <<pending, sent, pc>>
      /\ wire' = wire \cup {OnWire(r, g) : r \in At(g)}
  BY <1>0 DEF Lands, callVars, SessionInv, WireInv, HistInv, OrderInv
<1>2. \A c \in D : StatusOf(c) # "new"
  <2> SUFFICES ASSUME NEW c \in D PROVE StatusOf(c) # "new"
    OBVIOUS
  <2>1. ~Unmade(c)
    BY <1>0 DEF SessionInv, WireInv, HistInv, UnmadeInv, Carried
  <2>2. pc[c] = "threw" \/ Known(c)
    BY <1>0, <2>1 DEF StatusInv, TypeOK, CallPc, Unmade
  <2>3. pending[c] \in PendingStates /\ sent[c] \in SentStates
    BY <1>0 DEF TypeOK
  <2>4. QED
    BY <2>2, <2>3 DEF StatusOf, Known, PendingStates, SentStates
<1>3. \A r \in At(g) : \A v \in wire : v.req.call = r.call => v.req.more
  <2> SUFFICES ASSUME NEW r \in At(g), NEW v \in wire, v.req.call = r.call, ~v.req.more PROVE FALSE
    OBVIOUS
  <2>1. v.req = r
    BY <1>0 DEF SessionInv, WireInv, HistInv, FinalInv
  <2>2. r.seq < r.seq /\ r.seq \in Nat
    BY <1>0, <1>1, <2>1 DEF Fresh, Requests
  <2>3. QED
    BY <2>2
<1>4. \A c \in D : ~Complete(c)
  BY <1>3 DEF Complete
<1>5. \A c \in D : StatusOf(c) = "open" => \A v \in wire : v.req.call = c => v.on = g
  <2> SUFFICES ASSUME NEW r \in At(g), r.call \in Calls, StatusOf(r.call) = "open",
                      NEW v \in wire, v.req.call = r.call
               PROVE  v.on = g
    OBVIOUS
  <2>1. IsMulti(v.req) /\ IsMulti(r)
    BY <1>3 DEF SessionInv, WireInv, FormInv, IsMulti
  <2>2. Open(r.call)
    BY <1>0, <2>1 DEF StatusOf, IsMulti, Open
  <2>3. BodyWaits(r.call)
    BY <1>0, <2>1 DEF SessionInv, GroupInv, CarryInv, CarryOwner
  <2>4. v.req \notin At(v.on)
    <3>1. v.req \in At(v.on) => v.req = r
      BY <1>0 DEF SessionInv, WireInv, HistInv, OnceInv, Places
    <3>2. v.req.seq < r.seq /\ r.seq \in Nat
      BY <1>0, <1>1 DEF Fresh, Requests
    <3>3. QED
      BY <3>1, <3>2
  <2>5. QED
    BY <1>0, <2>1, <2>2, <2>3, <2>4 DEF SessionInv, WireInv, OneLinkInv, BodyWaits
<1>6. \A c \in Calls : LinksOf(c)' = IF c \in D THEN LinksOf(c) \cup {g} ELSE LinksOf(c)
  <2>1. \A c, h : h \in LinksOf(c) <=> \E v \in wire : v.req.call = c /\ v.on = h
    BY DEF LinksOf
  <2>2. \A c, h : h \in LinksOf(c)' <=> \E v \in wire' : v.req.call = c /\ v.on = h
    BY DEF LinksOf
  <2>3. \A v \in wire' : v \in wire \/ \E r \in At(g) : v.req = r /\ v.on = g
    BY <1>1 DEF OnWire
  <2>4. \A r \in At(g) : \E v \in wire' : v.req = r /\ v.on = g
    <3>1. \A r \in At(g) : OnWire(r, g) \in wire' /\ OnWire(r, g).req = r /\ OnWire(r, g).on = g
      BY <1>1 DEF OnWire
    <3>2. QED
      BY <3>1, Zenon
  <2>5. wire \subseteq wire'
    BY <1>1
  <2>6. \A h : \A c \in Calls : h \in LinksOf(c)' <=> h \in LinksOf(c) \/ (h = g /\ c \in D)
    <3> SUFFICES ASSUME NEW c \in Calls, NEW h
                 PROVE  h \in LinksOf(c)' <=> h \in LinksOf(c) \/ (h = g /\ c \in D)
      OBVIOUS
    <3>1. c \in D <=> \E r \in At(g) : r.call = c
      OBVIOUS
    <3> HIDE DEF D
    <3>2. QED
      BY <2>1, <2>2, <2>3, <2>4, <2>5, <3>1
  <2> HIDE DEF D
  <2>7. QED
    BY <2>6
<1>7. \A c \in Calls : \A h \in LinksOf(c) : h \in Gens /\ h <= g
  <2>1. \A v \in wire : v.on \in Gens /\ v.on <= g
    BY <1>0 DEF SessionInv, WireInv, WorkerGen, Gens
  <2>2. QED
    BY <2>1 DEF LinksOf
<1>8. \A c \in Calls : LinkOf(c)' = IF c \in D THEN g ELSE LinkOf(c)
  <2> SUFFICES ASSUME NEW c \in Calls PROVE LinkOf(c)' = IF c \in D THEN g ELSE LinkOf(c)
    OBVIOUS
  <2>1. CASE c \notin D
    BY <1>6, <2>1 DEF LinkOf
  <2>2. CASE c \in D
    <3>1. LinksOf(c)' = LinksOf(c) \cup {g}
      BY <1>6, <2>2
    <3>2. \A h \in LinksOf(c)' : h \in Gens /\ h <= g
      BY <1>0, <1>7, <3>1
    <3>3. g \in LinksOf(c)'
      BY <3>1
    <3>4. \A x \in LinksOf(c)' : (\A h \in LinksOf(c)' : h <= x) => x = g
      BY <1>0, <3>2, <3>3 DEF Gens
    <3>5. Latest(LinksOf(c)') = g
      BY <3>2, <3>3, <3>4 DEF Latest
    <3>6. QED
      BY <2>2, <3>5 DEF LinkOf
  <2>3. QED
    BY <2>1, <2>2
<1>9. \A c \in D : StatusOf(c) = "open" => LinkOf(c) \in {0, g}
  <2> SUFFICES ASSUME NEW c \in D, StatusOf(c) = "open" PROVE LinkOf(c) \in {0, g}
    OBVIOUS
  <2>1. \A h \in LinksOf(c) : h = g
    BY <1>5 DEF LinksOf
  <2>2. LinksOf(c) # {} => LinksOf(c) = {g}
    BY <2>1
  <2>3. LinksOf(c) # {} => \E x \in LinksOf(c) : \A h \in LinksOf(c) : h <= x
    BY <1>0, <2>2
  <2>4. QED
    BY <2>1, <2>3 DEF LinkOf, Latest
<1>10. \A c \in Calls : Complete(c)' <=> Complete(c) \/ c \in final
  <2> SUFFICES ASSUME NEW c \in Calls PROVE Complete(c)' <=> Complete(c) \/ c \in final
    OBVIOUS
  <2>1. c \in final <=> \E r \in At(g) : r.call = c /\ ~r.more
    OBVIOUS
  <2>2. \A v \in wire' : v \in wire \/ \E r \in At(g) : v.req = r
    BY <1>1 DEF OnWire
  <2>3. \A r \in At(g) : \E v \in wire' : v.req = r
    <3>1. \A r \in At(g) : OnWire(r, g) \in wire' /\ OnWire(r, g).req = r
      BY <1>1 DEF OnWire
    <3>2. QED
      BY <3>1, Zenon
  <2> HIDE DEF final
  <2>4. QED
    BY <1>1, <2>1, <2>2, <2>3 DEF Complete
<1>11. \A c \in Calls : StatusOf(c)' = StatusOf(c)
  BY <1>1 DEF StatusOf
<1>12. PICK C, F : C = D /\ F = final
  OBVIOUS
<1>13. C \in SUBSET Calls /\ F \in SUBSET C
  BY <1>12
<1> HIDE DEF D, final
<1>14. /\ \A c \in C : /\ StatusOf(c) # "new" /\ ~Complete(c)
                       /\ StatusOf(c) = "open" => LinkOf(c) \in {0, g}
       /\ \A c \in Calls : LinkOf(c)' = IF c \in C THEN g ELSE LinkOf(c)
       /\ \A c \in Calls : Complete(c)' <=> Complete(c) \/ c \in F
  BY <1>2, <1>4, <1>8, <1>9, <1>10, <1>12
<1>15. /\ \A c \in C : /\ StatusOf(c) # "new" /\ ~Complete(c)
                       /\ StatusOf(c) = "open" => LinkOf(c) \in {0, g}
       /\ \A c \in Calls : LinkOf(c)' = IF c \in C THEN g ELSE LinkOf(c)
  BY <1>14
<1>16. \A c \in Calls : Complete(c)' <=> Complete(c) \/ c \in F
  BY <1>14
<1>17. QED
  BY <1>11, <1>13, <1>15, <1>16, DeliverStep

LEMMA StepRefines ==
  ASSUME SessionInv, TypeOK', StatusInv, Next
  PROVE  Refines
<1> USE DEF linkVars, modeVars, opVars, queueVars, workerVars, callVars
<1>0. TypeOK /\ GroupInv /\ BodiesMulti
  BY DEF SessionInv, GroupInv
<1>1. ASSUME \A d \in Calls : Moves(d) /\ Loses(d), wire' = wire
      PROVE  Refines
  BY <1>0, <1>1, MovesFails, FailStep DEF Refines
<1>2. ASSUME NEW c \in Calls, CallStep(c)
      PROVE  Refines
  <2>1. wire' = wire
    BY <1>2 DEF CallStep, IssueInRpc, IssueWithoutLink, IssueAndSwitch, Resume, Register, BodySend,
                BodyEnd, BodyFail, Return, Timeout, SendTimeout, Respond
  <2>2. CASE Made(c)
    BY <1>0, <2>1, <2>2, BeginStep DEF Refines
  <2>3. CASE Respond(c) /\ \A d \in Calls : Moves(d)
    BY <1>0, <2>3, RespondRefines
  <2>4. QED
    BY <1>0, <1>1, <1>2, <2>1, <2>2, <2>3, CallStepMoves
<1>3. ASSUME NEW g \in Gens, WorkerStep(g)
      PROVE  Refines
  <2>1. CASE WriteOk(g)
    BY <1>0, <2>1, WriteOkRefines
  <2>2. CASE Land(g)
    BY <1>0, <2>2, LandDoes, LandsRefines
  <2>3. CASE ~WriteOk(g) /\ ~Land(g)
    <3>1. wire' = wire
      BY <1>3, <2>3 DEF WorkerStep, WorkerExit, WorkerWait, WorkerTake, WriteFail, WriteOutlived,
                        Answered
    <3>2. QED
      BY <1>0, <1>1, <1>3, <2>3, <3>1, WorkerStepMoves
  <2>4. QED
    BY <2>1, <2>2, <2>3
<1>4. CASE LinkStep \/ OpStep \/ \E t \in Gens : HandshakeEnd(t)
  <2>1. wire' = wire
    BY <1>4 DEF LinkStep, Fault, TransportClosed, Desync, AskDisconnect, HandshakeEnd, OpStep,
                Connect, Disconnect, RecoverStale, RecoverGiveUp, RecoverReconnect, Reopen,
                OpenOk, OpenFail, ReopenFail, TearDown, BeginOpen
  <2>2. QED
    BY <1>0, <1>1, <1>4, <2>1, OtherStepMoves
<1>5. QED
  BY <1>2, <1>3, <1>4 DEF Next

LEMMA NextStatusInv == SessionInv /\ StatusInv /\ [Next]_vars => StatusInv'
<1> SUFFICES ASSUME SessionInv, StatusInv, [Next]_vars PROVE StatusInv'
  OBVIOUS
<1> USE DEF linkVars, modeVars, opVars, queueVars, workerVars, callVars
<1>1. CASE UNCHANGED vars
  BY <1>1 DEF vars, StatusInv, Unmade, Known
<1>2. CASE Next
  <2>0. TypeOK
    BY DEF SessionInv
  <2>1. (\A d \in Calls : Moves(d)) \/ \E c \in Calls : Made(c)
    BY <1>2, <2>0, CallStepMoves, WorkerStepMoves, OtherStepMoves DEF Next
  <2>2. ASSUME NEW c \in Calls, Made(c) PROVE \A d \in Calls : Moves(d) \/ Made(d)
    BY <2>2 DEF Made, Moves
  <2>3. QED
    BY <2>0, <2>1, <2>2, StatusKept
<1>3. QED
  BY <1>1, <1>2

\* The session keeps the promise of RpcCalls: an open call is never spread over
\* two links, its final frame goes out once and nothing of it follows, and only
\* an answer after it makes the call succeed.
THEOREM PromiseIsKept == Spec => KeepsPromise
<1>1. Init => Promise!Init
  <2> SUFFICES ASSUME Init PROVE Promise!Init
    OBVIOUS
  <2>1. \A c \in Calls : StatusOf(c) = "new"
    BY DEF Init, StatusOf
  <2>2. wire = {} /\ \A c \in Calls : LinksOf(c) = {}
    BY DEF Init, LinksOf
  <2>3. QED
    BY <2>1, <2>2 DEF Promise!Init
<1>2. SessionInv /\ SessionInv' /\ StatusInv /\ [Next]_vars => [Promise!Next]_(Promise!vars)
  <2> SUFFICES ASSUME SessionInv, SessionInv', StatusInv, [Next]_vars
               PROVE  [Promise!Next]_(Promise!vars)
    OBVIOUS
  <2>1. CASE Next
    <3>1. Refines
      BY <2>1, StepRefines DEF SessionInv
    <3>2. QED
      BY <3>1 DEF Refines, Promise!Next
  <2>2. CASE UNCHANGED vars
    <3>1. wire' = wire /\ UNCHANGED <<pending, sent, pc>>
      BY <2>2 DEF vars, callVars
    <3>2. \A c \in Calls : StatusOf(c)' = StatusOf(c)
      BY <3>1 DEF StatusOf
    <3>3. QED
      BY <3>1, <3>2, SameLinks DEF Promise!vars, LinkOf, Latest, Complete
  <2>3. QED
    BY <2>1, <2>2
<1>3. Spec => []StatusInv
  BY InitStatusInv, NextStatusInv, SessionInvHolds, PTL DEF Spec
<1>4. QED
  BY <1>1, <1>2, <1>3, SessionInvHolds, PTL DEF Spec, KeepsPromise, Promise!Spec

=============================================================================
