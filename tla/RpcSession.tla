------------------------------ MODULE RpcSession ------------------------------
(***************************************************************************)
(* One FlipperSession (lib/src/session/session.dart, queue.dart): the      *)
(* request queue, the single TX worker, the TX group lock, the table of    *)
(* pending calls with their watchdogs, the switch to RPC mode, and the     *)
(* recovery of the session when its link drops.                            *)
(*                                                                         *)
(* The program is one Dart isolate: code runs without interruption from    *)
(* one await to the next, so an action here is exactly such a segment, and *)
(* every await is a control location (pc, wpc, op) at which any other      *)
(* handler, timer or link event may come first.                            *)
(***************************************************************************)
EXTENDS Integers, Sequences, FiniteSets

CONSTANTS
    Calls,          \* the calls of the API's users, each made once
    NoCall,         \* the null command id
    Kind,           \* "single", "held" (pipelined: false), "multi", "send"
    Prio,           \* FlipperRequestPriority.index: the smaller goes first
    Interleavable,  \* calls allowed inside another command's TX group
    SupportsCli,    \* TRUE: opens in CLI mode (USB); FALSE: in RPC mode (BLE)
    MaxFrames,      \* bound: frames a multi-frame body sends
    MaxGen,         \* bound: the last generation a transport is opened in
    MaxChain        \* bound: operations waiting on the lifecycle chain

Kinds == {"single", "held", "multi", "send"}

ASSUME CallsAssumption ==
    /\ NoCall \notin Calls
    /\ Kind \in [Calls -> Kinds]
    /\ Prio \in [Calls -> Nat]
    /\ Interleavable \subseteq {c \in Calls : Kind[c] = "single"}

ASSUME BoundsAssumption ==
    /\ SupportsCli \in BOOLEAN
    /\ MaxFrames \in Nat \ {0}
    /\ MaxGen \in Nat \ {0}
    /\ MaxChain \in Nat

\* A transport is named by the generation that committed it, and so is the
\* worker started with it; 0 is the null transport.
Gens == 1 .. MaxGen

VARIABLES
    sessionGen,      \* _sessionGen
    transport,       \* the committed transport, 0 for null
    tstate,          \* its health: "up", "dead" or "reported"
    linkPhase,       \* _linkPhase
    mode,            \* mode
    memo,            \* _switchToRpcFuture: the transport it is for, 0 for null
    handshakes,      \* transports a _doSwitchToRpcMode is running against
    chain,           \* the lifecycle chain of the client: operations to run
    op,              \* where the running lifecycle operation is
    wasRpc,          \* local of _reconnectLocked
    quickDropStreak, \* _quickDropStreak
    requestQueue,    \* _requestQueue, as a set: its order is Before
    requestSeq,      \* _requestSeq
    txGroup,         \* _txGroupCommandId
    wpc,             \* per worker: where _runWorker is
    batch,           \* per worker: the requests of the write in progress
    pc,              \* per call: where the caller is
    waitsFor,        \* per call: the handshake it awaits
    pending,         \* per call: its PendingRpc
    started,         \* per call: PendingRpc.started
    sent,            \* per call: the completer of its last frame
    frames,          \* per call: frames handed to the queue
    finalSent,       \* per call: finalFrameSent
    wire             \* requests the transport took, and on what transport: they
                     \* reach the device in this order, if the link lives

linkVars == <<sessionGen, transport, tstate, linkPhase>>
modeVars == <<mode, memo, handshakes>>
opVars == <<chain, op, wasRpc, quickDropStreak>>
queueVars == <<requestQueue, requestSeq, txGroup>>
workerVars == <<wpc, batch>>
callVars == <<pc, waitsFor, pending, started, sent, frames, finalSent>>
vars == <<linkVars, modeVars, opVars, queueVars, workerVars, callVars, wire>>

-----------------------------------------------------------------------------
\* A queued frame.  seq makes every request unique and orders its priority.
Requests == [call : Calls, more : BOOLEAN, seq : Nat]

WorkerPc == {"none", "run", "wait", "write", "answer", "done"}
CallPc == {"idle", "switching", "body", "await", "returned", "threw"}
PendingStates == {"absent", "open", "ok", "refused", "timedout", "lost", "ended", "aborted"}
SentStates == {"none", "waiting", "sent", "failed"}
Finished == {"returned", "threw"}

Ops == [kind : {"connect", "recover", "disconnect"}, gen : Nat]

TypeOK ==
    /\ sessionGen \in Nat
    /\ transport \in {0} \cup Gens
    /\ tstate \in {"up", "dead", "reported"}
    /\ linkPhase \in {"disconnected", "connecting", "connected"}
    /\ mode \in {"disconnected", "cli", "rpc"}
    /\ memo \in {0} \cup Gens
    /\ handshakes \subseteq Gens
    /\ chain \in Seq(Ops)
    /\ op \in {"idle", "opening", "settling", "reopening"}
    /\ wasRpc \in BOOLEAN
    /\ quickDropStreak \in 0 .. 2
    /\ requestQueue \subseteq Requests
    /\ requestSeq \in Nat
    /\ \A r \in requestQueue : r.seq < requestSeq
    /\ txGroup \in Calls \cup {NoCall}
    /\ wpc \in [Gens -> WorkerPc]
    /\ batch \in [Gens -> SUBSET Requests]
    /\ pc \in [Calls -> CallPc]
    /\ waitsFor \in [Calls -> {0} \cup Gens]
    /\ pending \in [Calls -> PendingStates]
    /\ started \in [Calls -> BOOLEAN]
    /\ sent \in [Calls -> SentStates]
    /\ frames \in [Calls -> 0 .. MaxFrames]
    /\ finalSent \in [Calls -> BOOLEAN]
    /\ wire \subseteq [req : Requests, on : Gens]

Init ==
    /\ sessionGen = 0 /\ transport = 0 /\ tstate = "up"
    /\ linkPhase = "disconnected"
    /\ mode = "disconnected" /\ memo = 0 /\ handshakes = {}
    /\ chain = <<[kind |-> "connect", gen |-> 0]>>
    /\ op = "idle" /\ wasRpc = FALSE /\ quickDropStreak = 0
    /\ requestQueue = {} /\ requestSeq = 0 /\ txGroup = NoCall
    /\ wpc = [g \in Gens |-> "none"]
    /\ batch = [g \in Gens |-> {}]
    /\ pc = [c \in Calls |-> "idle"]
    /\ waitsFor = [c \in Calls |-> 0]
    /\ pending = [c \in Calls |-> "absent"]
    /\ started = [c \in Calls |-> FALSE]
    /\ sent = [c \in Calls |-> "none"]
    /\ frames = [c \in Calls |-> 0]
    /\ finalSent = [c \in Calls |-> FALSE]
    /\ wire = {}

-----------------------------------------------------------------------------
(* The request queue.                                                      *)

\* QueuedRequest.compareTo: by priority, then first come first served.
Before(r, s) ==
    \/ Prio[r.call] < Prio[s.call]
    \/ Prio[r.call] = Prio[s.call] /\ r.seq < s.seq

DispatchableUnlocked(queue, group) == queue   \* mutant: the TX group is ignored

\* _peekNext, _hasDispatchableRequest: while a TX group is locked only its own
\* frames and the interleavable ones may go.
Dispatchable(queue, group) ==
    {r \in queue : group = NoCall \/ r.call = group \/ r.call \in Interleavable}

HoldsTxUntilAnswer(r) == Kind[r.call] \in {"held", "multi"}

Batchable(r) == ~r.more /\ ~HoldsTxUntilAnswer(r)

\* What one write may carry: the first dispatchable request and, as far as the
\* transport's batch limit reaches, the batchable ones right after it.
Batches ==
    LET D == Dispatchable(requestQueue, txGroup) IN
    {B \in SUBSET D :
        /\ B # {}
        /\ \A r \in B, s \in D : Before(s, r) => s \in B
        /\ \A r \in B : Batchable(r) \/ B = {r}}

\* The batch element whose frame the worker calls `frame`.
IsHead(r, B) == r \in B /\ \A s \in B \ {r} : Before(r, s)

Open(c) == pending[c] = "open"

\* Firing the one completer all waiting workers share (_signalWorker).
Signalled(w, fires) ==
    [g \in Gens |-> IF fires /\ w[g] = "wait" THEN "run" ELSE w[g]]

ReleasedNever(C) == txGroup   \* mutant: a call that ends keeps its lock

\* _releaseTxGroup for each of the calls C.
Released(C) == IF txGroup \in C THEN NoCall ELSE txGroup

QueuedOf(C) == {r \in requestQueue : r.call \in C}

\* sendFrame and sendRpc hear of a request that never made it out.
SentFailed(reqs) ==
    [c \in Calls |-> IF sent[c] = "waiting" /\ \E r \in reqs : r.call = c
                     THEN "failed" ELSE sent[c]]

Settled(C, how) == [c \in Calls |-> IF c \in C /\ Open(c) THEN how ELSE pending[c]]

\* _failPendingById for each of the calls C: out of the pending table, out of
\* the queue, and no longer holding the TX group (nor do the calls unlocked).
FailCalls(C, how, unlocked) ==
    /\ pending' = Settled(C, how)
    /\ requestQueue' = requestQueue \ QueuedOf(C)
    /\ txGroup' = Released(C \cup unlocked)

EnqueueSilently(c, more) ==   \* mutant: the worker is not signalled
    /\ requestQueue' = requestQueue \cup {[call |-> c, more |-> more, seq |-> requestSeq]}
    /\ requestSeq' = requestSeq + 1
    /\ wpc' = wpc

\* _enqueueRequest.
Enqueue(c, more) ==
    /\ requestQueue' = requestQueue \cup {[call |-> c, more |-> more, seq |-> requestSeq]}
    /\ requestSeq' = requestSeq + 1
    /\ wpc' = Signalled(wpc, TRUE)

-----------------------------------------------------------------------------
(* Callers: callRpcFrames, callRpcFramesMulti and sendRpc.                 *)

\* callRpcFrames past its mode check: the call enters the pending table, its
\* frame is queued and its watchdog armed.
RegisterCall(c) ==
    /\ Kind[c] \in {"single", "held"}
    /\ pending' = [pending EXCEPT ![c] = "open"]
    /\ pc' = [pc EXCEPT ![c] = "await"]
    /\ frames' = [frames EXCEPT ![c] = 1]
    /\ Enqueue(c, FALSE)
    /\ UNCHANGED sent

\* callRpcFramesMulti: the body runs up to its first sendFrame.
RegisterBody(c) ==
    /\ Kind[c] = "multi"
    /\ pending' = [pending EXCEPT ![c] = "open"]
    /\ pc' = [pc EXCEPT ![c] = "body"]
    /\ UNCHANGED <<requestQueue, requestSeq, wpc, frames, sent>>

\* sendRpc: no answer is awaited, only the transmission.
RegisterSend(c) ==
    /\ Kind[c] = "send"
    /\ sent' = [sent EXCEPT ![c] = "waiting"]
    /\ pc' = [pc EXCEPT ![c] = "await"]
    /\ frames' = [frames EXCEPT ![c] = 1]
    /\ Enqueue(c, FALSE)
    /\ UNCHANGED pending

Register(c) ==
    /\ RegisterCall(c) \/ RegisterBody(c) \/ RegisterSend(c)
    /\ waitsFor' = [waitsFor EXCEPT ![c] = 0]
    /\ UNCHANGED <<txGroup, batch, started, finalSent>>

\* A call made in RPC mode.
IssueInRpc(c) ==
    /\ pc[c] = "idle"
    /\ mode = "rpc"
    /\ Register(c)
    /\ UNCHANGED <<linkVars, modeVars, opVars, wire>>

\* A call made in any other mode switches first, and fails at once when there is
\* no transport (_requireTransport).
IssueWithoutLink(c) ==
    /\ pc[c] = "idle"
    /\ mode # "rpc" /\ memo = 0 /\ transport = 0
    /\ pc' = [pc EXCEPT ![c] = "threw"]
    /\ UNCHANGED <<linkVars, modeVars, opVars, queueVars, workerVars, wire,
                   waitsFor, pending, started, sent, frames, finalSent>>

\* It joins the switch in progress, or starts one.
IssueAndSwitch(c) ==
    /\ pc[c] = "idle"
    /\ mode # "rpc" /\ (memo # 0 \/ transport # 0)
    /\ memo' = IF memo # 0 THEN memo ELSE transport
    /\ handshakes' = handshakes \cup {memo'}
    /\ waitsFor' = [waitsFor EXCEPT ![c] = memo']
    /\ pc' = [pc EXCEPT ![c] = "switching"]
    /\ UNCHANGED <<linkVars, mode, opVars, queueVars, workerVars, wire,
                   pending, started, sent, frames, finalSent>>

\* The switch the caller awaited has ended, one way or the other: the call
\* goes on without looking at the mode again.
Resume(c) ==
    /\ pc[c] = "switching"
    /\ waitsFor[c] \notin handshakes
    /\ Register(c)
    /\ UNCHANGED <<linkVars, modeVars, opVars, wire>>

\* sendFrame: the body hands over its next frame and awaits its transmission.
BodySend(c) ==
    /\ pc[c] = "body"
    /\ sent[c] \in {"none", "sent"} /\ ~finalSent[c]
    /\ frames[c] < MaxFrames
    /\ \E more \in BOOLEAN :
        /\ frames[c] + 1 = MaxFrames => ~more
        /\ Enqueue(c, more)
    /\ frames' = [frames EXCEPT ![c] = @ + 1]
    /\ sent' = [sent EXCEPT ![c] = "waiting"]
    /\ UNCHANGED <<linkVars, modeVars, opVars, txGroup, batch, wire,
                   pc, waitsFor, pending, started, finalSent>>

\* The body has sent its final frame: the call awaits the answer.
BodyEnd(c) ==
    /\ pc[c] = "body"
    /\ sent[c] = "sent" /\ finalSent[c]
    /\ pc' = [pc EXCEPT ![c] = "await"]
    /\ UNCHANGED <<linkVars, modeVars, opVars, queueVars, workerVars, wire,
                   waitsFor, pending, started, sent, frames, finalSent>>

\* The body throws, because a frame failed or of its own (a cancelled upload),
\* or returns without a final frame.
BodyFail(c) ==
    /\ pc[c] = "body"
    /\ sent[c] # "waiting"
    /\ FailCalls({c}, "aborted", {})
    /\ sent' = SentFailed(QueuedOf({c}))
    /\ wpc' = Signalled(wpc, txGroup = c)
    /\ pc' = [pc EXCEPT ![c] = "threw"]
    /\ UNCHANGED <<linkVars, modeVars, opVars, requestSeq, batch, wire,
                   waitsFor, started, frames, finalSent>>

\* The caller gets its result; its finally releases the TX group.
Return(c) ==
    /\ pc[c] = "await"
    /\ IF Kind[c] = "send" THEN sent[c] # "waiting" ELSE ~Open(c)
    /\ pc' = [pc EXCEPT ![c] = IF pending[c] = "ok" \/ (Kind[c] = "send" /\ sent[c] = "sent")
                               THEN "returned" ELSE "threw"]
    /\ txGroup' = Released({c})
    /\ wpc' = Signalled(wpc, txGroup = c)
    /\ UNCHANGED <<linkVars, modeVars, opVars, requestQueue, requestSeq, batch, wire,
                   waitsFor, pending, started, sent, frames, finalSent>>

WatchdogArmedAtTx(c) == Open(c) /\ started[c]   \* mutant: armed once sent

\* The watchdog is armed when a frame is queued, and dropped when the call settles.
WatchdogArmed(c) == Open(c) /\ frames[c] > 0

\* _onRpcTimeout.  A frame whose write is in progress is out of its reach.
Timeout(c) ==
    /\ WatchdogArmed(c)
    /\ FailCalls({c}, "timedout", {})
    /\ sent' = SentFailed(QueuedOf({c}))
    /\ wpc' = Signalled(wpc, txGroup = c)
    /\ UNCHANGED <<linkVars, modeVars, opVars, requestSeq, batch, wire,
                   pc, waitsFor, started, frames, finalSent>>

\* The timer of sendRpc: the frame leaves the queue, if it is still there.
SendTimeout(c) ==
    /\ Kind[c] = "send" /\ sent[c] = "waiting"
    /\ requestQueue' = requestQueue \ QueuedOf({c})
    /\ sent' = [sent EXCEPT ![c] = "failed"]
    /\ UNCHANGED <<linkVars, modeVars, opVars, requestSeq, txGroup, workerVars, wire,
                   pc, waitsFor, pending, started, frames, finalSent>>

-----------------------------------------------------------------------------
(* The TX worker, _runWorker.                                              *)

Live(g) == g = sessionGen /\ transport # 0

\* The session the worker was started for is gone.
WorkerExit(g) ==
    /\ wpc[g] = "run" /\ ~Live(g)
    /\ wpc' = [wpc EXCEPT ![g] = "done"]
    /\ UNCHANGED <<linkVars, modeVars, opVars, queueVars, batch, callVars, wire>>

\* Nothing to send: the worker parks on the queue's signal.
WorkerWait(g) ==
    /\ wpc[g] = "run" /\ Live(g)
    /\ mode # "rpc" \/ Dispatchable(requestQueue, txGroup) = {}
    /\ wpc' = [wpc EXCEPT ![g] = "wait"]
    /\ UNCHANGED <<linkVars, modeVars, opVars, queueVars, batch, callVars, wire>>

\* The worker takes the next request, and the batch behind it, and hands them
\* to the transport in one write.
WorkerTake(g) ==
    /\ wpc[g] = "run" /\ Live(g)
    /\ mode = "rpc"
    /\ \E B \in Batches :
        /\ batch' = [batch EXCEPT ![g] = B]
        /\ requestQueue' = requestQueue \ B
    /\ wpc' = [wpc EXCEPT ![g] = "write"]
    /\ UNCHANGED <<linkVars, modeVars, opVars, requestSeq, txGroup, callVars, wire>>

OnWire(r, g) == [req |-> r, on |-> g]

Landed(g) == \A r \in batch[g] : OnWire(r, g) \in wire

\* The transport takes the bytes of the write: they are bound for the device.
Land(g) ==
    /\ wpc[g] = "write" /\ ~Landed(g)
    /\ transport = g /\ tstate = "up"
    /\ wire' = wire \cup {OnWire(r, g) : r \in batch[g]}
    /\ UNCHANGED <<linkVars, modeVars, opVars, queueVars, workerVars, callVars>>

FailBatchRequeues(g, unlocked) ==   \* mutant: the batch is put back to be replayed
    /\ requestQueue' = requestQueue \cup batch[g]
    /\ batch' = [batch EXCEPT ![g] = {}]
    /\ txGroup' = Released(unlocked)
    /\ UNCHANGED <<pending, sent>>

\* QueuedRequest.fail for a whole batch: it ends a single-frame call, and is
\* thrown at the body of a multi-frame one.
FailBatch(g, unlocked) ==
    LET failed == {c \in Calls : /\ Kind[c] \in {"single", "held"}
                                 /\ \E r \in batch[g] : r.call = c}
    IN  /\ FailCalls(failed, "lost", unlocked)
        /\ sent' = SentFailed(batch[g])
        /\ batch' = [batch EXCEPT ![g] = {}]

\* The write ended, well or badly, after its session did.
WriteOutlived(g) ==
    /\ wpc[g] = "write" /\ g # sessionGen
    /\ FailBatch(g, {})
    /\ wpc' = Signalled([wpc EXCEPT ![g] = "done"], txGroup' # txGroup)
    /\ UNCHANGED <<linkVars, modeVars, opVars, requestSeq, wire,
                   pc, waitsFor, started, frames, finalSent>>

\* The transport failed the write: the head of the batch unlocks the TX group,
\* the batch is lost and the worker carries on; the transport announces its
\* death by itself.
WriteFail(g) ==
    /\ wpc[g] = "write" /\ g = sessionGen
    /\ tstate # "up"
    /\ FailBatch(g, {r.call : r \in {s \in batch[g] : IsHead(s, batch[g])}})
    /\ wpc' = Signalled([wpc EXCEPT ![g] = "run"], txGroup' # txGroup)
    /\ UNCHANGED <<linkVars, modeVars, opVars, requestSeq, wire,
                   pc, waitsFor, started, frames, finalSent>>

ParksNever(B) == FALSE   \* mutant: the worker goes on without the answer

\* A final frame that holds TX until its answer, of a call still pending.
Parks(B) == \E r \in B : ~r.more /\ HoldsTxUntilAnswer(r) /\ Open(r.call)

\* The write succeeded: a frame with more to follow locks the TX group, a
\* final one unlocks it, every sender is told, and a request that holds TX
\* until its answer parks the worker.
WriteOk(g) ==
    LET B == batch[g]
        mids == {r.call : r \in {s \in B : s.more}}
        finals == {r.call : r \in {s \in B : ~s.more}}
        locked == IF mids # {} THEN CHOOSE c \in mids : TRUE ELSE txGroup
    IN  /\ wpc[g] = "write" /\ g = sessionGen
        /\ Landed(g)
        /\ txGroup' = IF locked \in finals THEN NoCall ELSE locked
        /\ started' = [c \in Calls |-> started[c] \/ c \in mids \cup finals]
        /\ sent' = [c \in Calls |-> IF c \in mids \cup finals /\ sent[c] = "waiting"
                                    THEN "sent" ELSE sent[c]]
        /\ finalSent' = [c \in Calls |-> finalSent[c] \/ c \in finals]
        /\ batch' = IF Parks(B) THEN batch ELSE [batch EXCEPT ![g] = {}]
        /\ wpc' = Signalled([wpc EXCEPT ![g] = IF Parks(B) THEN "answer" ELSE "run"],
                            locked \in finals)
        /\ UNCHANGED <<linkVars, modeVars, opVars, requestQueue, requestSeq, wire,
                       pc, waitsFor, pending, frames>>

\* PendingRpc.settled: the call the worker was parked on is over.
Answered(g) ==
    /\ wpc[g] = "answer"
    /\ \A r \in batch[g] : ~Open(r.call)
    /\ batch' = [batch EXCEPT ![g] = {}]
    /\ wpc' = [wpc EXCEPT ![g] = "run"]
    /\ UNCHANGED <<linkVars, modeVars, opVars, queueVars, callVars, wire>>

-----------------------------------------------------------------------------
(* The device and the link.                                                *)

\* _routeFrame: the last response frame of a call.  The device may refuse a
\* command at any frame it has, and accepts it only after the final one.  What
\* the call still has in the queue stays there.
Respond(c) ==
    LET arrived == {w \in wire : w.req.call = c /\ w.on = transport} IN
    /\ Open(c) /\ mode = "rpc"
    /\ transport # 0 /\ tstate # "reported"
    /\ arrived # {}
    /\ \E answer \in {"ok", "refused"} :
        /\ answer = "ok" => \E w \in arrived : ~w.req.more
        /\ pending' = [pending EXCEPT ![c] = answer]
    /\ txGroup' = Released({c})
    /\ wpc' = Signalled(wpc, txGroup = c)
    /\ UNCHANGED <<linkVars, modeVars, opVars, requestQueue, requestSeq, batch, wire,
                   pc, waitsFor, started, sent, frames, finalSent>>

\* The link is gone.  From here on the transport fails every write.
Fault ==
    /\ transport # 0 /\ tstate = "up"
    /\ tstate' = "dead"
    /\ UNCHANGED <<sessionGen, transport, linkPhase, modeVars, opVars, queueVars,
                   workerVars, callVars, wire>>

Recovery == [kind |-> "recover", gen |-> sessionGen]

\* _onTransportClosed: the session hears of it, and queues its recovery.
TransportClosed ==
    /\ transport # 0 /\ tstate = "dead"
    /\ tstate' = "reported"
    /\ chain' = Append(chain, Recovery)
    /\ UNCHANGED <<sessionGen, transport, linkPhase, modeVars, op, wasRpc, quickDropStreak,
                   queueVars, workerVars, callVars, wire>>

\* _onFrameParseError at the end of its streak, or ERROR_DECODE from the
\* device: the same recovery, of a transport that still works.
Desync ==
    /\ transport # 0 /\ tstate # "reported" /\ mode = "rpc"
    /\ Len(chain) < MaxChain
    /\ chain' = Append(chain, Recovery)
    /\ UNCHANGED <<linkVars, modeVars, op, wasRpc, quickDropStreak,
                   queueVars, workerVars, callVars, wire>>

\* The user disconnects the session, at any moment of its life.
AskDisconnect ==
    /\ linkPhase # "disconnected"
    /\ Len(chain) < MaxChain
    /\ chain' = Append(chain, [kind |-> "disconnect", gen |-> 0])
    /\ UNCHANGED <<linkVars, modeVars, op, wasRpc, quickDropStreak,
                   queueVars, workerVars, callVars, wire>>

SwitchLandsAnyway(t) == mode # "rpc"   \* mutant: the transport is not compared

SwitchLandsElsewhere(t) == transport # 0 /\ mode # "rpc"   \* mutant: any transport will do

\* The guards after the awaits of _doSwitchToRpcMode.
SwitchLands(t) == t = transport /\ mode # "rpc"

\* The handshake of _doSwitchToRpcMode against transport t ends: it declares
\* RPC mode only if t is still the transport.
HandshakeEnd(t) ==
    /\ t \in handshakes
    /\ handshakes' = handshakes \ {t}
    /\ memo' = IF memo = t THEN 0 ELSE memo
    /\ IF SwitchLands(t)
       THEN mode' = "rpc" /\ wpc' = Signalled(wpc, TRUE)
       ELSE UNCHANGED <<mode, wpc>>
    /\ UNCHANGED <<linkVars, opVars, queueVars, batch, callVars, wire>>

-----------------------------------------------------------------------------
(* The lifecycle operations, one at a time on the client's chain.          *)

Idle == op = "idle" /\ chain # <<>>

\* teardownLocked: the session ends, and every call with it.
TearDown ==
    /\ sessionGen' = sessionGen + 1
    /\ transport' = 0 /\ tstate' = "up" /\ linkPhase' = "disconnected"
    /\ mode' = "disconnected" /\ memo' = 0
    /\ quickDropStreak' = 0 /\ wasRpc' = FALSE
    /\ txGroup' = NoCall
    /\ requestQueue' = {}
    /\ pending' = Settled(Calls, "ended")
    /\ sent' = SentFailed(requestQueue)
    /\ wpc' = Signalled(wpc, TRUE)
    /\ UNCHANGED <<handshakes, requestSeq, batch, wire,
                   pc, waitsFor, started, frames, finalSent>>

\* establishLocked up to the opening of the transport.
BeginOpen(at) ==
    /\ sessionGen' = sessionGen + 1
    /\ linkPhase' = "connecting"
    /\ op' = at
    /\ UNCHANGED <<transport, tstate, modeVars, wasRpc, quickDropStreak,
                   queueVars, workerVars, callVars, wire>>

Connect ==
    /\ Idle /\ Head(chain).kind = "connect"
    /\ chain' = Tail(chain)
    /\ BeginOpen("opening")

Disconnect ==
    /\ Idle /\ Head(chain).kind = "disconnect"
    /\ chain' = Tail(chain)
    /\ TearDown
    /\ UNCHANGED op

StaleNever(o) == FALSE   \* mutant: the generation is not compared

\* A recovery is bound to the generation that faulted.
Stale(o) == o.gen # sessionGen

StartedNone == {}   \* mutant: the pending calls survive the drop

\* _failStartedRequests: what has firmware-side state that died with the link.
StartedCalls == {c \in Calls : Open(c) /\ started[c]}

\* The recovery of a session that is no longer the current one.
RecoverStale ==
    /\ Idle /\ Head(chain).kind = "recover"
    /\ Stale(Head(chain))
    /\ chain' = Tail(chain)
    /\ UNCHANGED <<linkVars, modeVars, op, wasRpc, quickDropStreak,
                   queueVars, workerVars, callVars, wire>>

\* Automatic reconnection is off, or two short sessions in a row spent it.
RecoverGiveUp ==
    /\ Idle /\ Head(chain).kind = "recover"
    /\ ~Stale(Head(chain))
    /\ chain' = Tail(chain)
    /\ TearDown
    /\ UNCHANGED op

\* _reconnectLocked up to its settle delay: the calls that reached the device
\* are lost, the queue is kept.
RecoverReconnect ==
    /\ Idle /\ Head(chain).kind = "recover"
    /\ ~Stale(Head(chain))
    /\ chain' = Tail(chain)
    /\ \E healthy \in BOOLEAN :
        /\ healthy \/ quickDropStreak < 2
        /\ quickDropStreak' = IF healthy THEN 1 ELSE quickDropStreak + 1
    /\ sessionGen' = sessionGen + 1
    /\ transport' = 0 /\ tstate' = "up" /\ linkPhase' = "connecting"
    /\ memo' = 0
    /\ FailCalls(StartedCalls, "lost", {})
    /\ sent' = SentFailed(QueuedOf(StartedCalls))
    /\ wasRpc' = (mode = "rpc")
    /\ mode' = "disconnected"
    /\ wpc' = Signalled(wpc, TRUE)
    /\ op' = "settling"
    /\ UNCHANGED <<handshakes, requestSeq, batch, wire,
                   pc, waitsFor, started, frames, finalSent>>

\* The settle delay is over.
Reopen ==
    /\ op = "settling"
    /\ BeginOpen("reopening")
    /\ UNCHANGED chain

\* The transport opens and is committed; a session that was in RPC mode when
\* it dropped starts to switch back.
OpenOk ==
    /\ op \in {"opening", "reopening"}
    /\ sessionGen \in Gens
    /\ transport' = sessionGen /\ tstate' = "up" /\ linkPhase' = "connected"
    /\ mode' = IF SupportsCli THEN "cli" ELSE "rpc"
    /\ wpc' = [wpc EXCEPT ![sessionGen] = "run"]
    /\ IF SupportsCli /\ op = "reopening" /\ wasRpc
       THEN memo' = sessionGen /\ handshakes' = handshakes \cup {sessionGen}
       ELSE UNCHANGED <<memo, handshakes>>
    /\ op' = "idle" /\ wasRpc' = FALSE
    /\ UNCHANGED <<sessionGen, chain, quickDropStreak, queueVars, batch, callVars, wire>>

\* The first connect fails.
OpenFail ==
    /\ op = "opening"
    /\ linkPhase' = "disconnected"
    /\ op' = "idle"
    /\ UNCHANGED <<sessionGen, transport, tstate, modeVars, chain, wasRpc, quickDropStreak,
                   queueVars, workerVars, callVars, wire>>

\* The only attempt to reconnect fails.
ReopenFail ==
    /\ op = "reopening"
    /\ TearDown
    /\ op' = "idle"
    /\ UNCHANGED chain

-----------------------------------------------------------------------------
CallStep(c) == \/ IssueInRpc(c) \/ IssueWithoutLink(c) \/ IssueAndSwitch(c) \/ Resume(c)
               \/ BodySend(c) \/ BodyEnd(c) \/ BodyFail(c)
               \/ Return(c) \/ Timeout(c) \/ SendTimeout(c) \/ Respond(c)

WorkerStep(g) == \/ WorkerExit(g) \/ WorkerWait(g) \/ WorkerTake(g)
                 \/ Land(g) \/ WriteOk(g) \/ WriteFail(g) \/ WriteOutlived(g)
                 \/ Answered(g)

LinkStep == Fault \/ TransportClosed \/ Desync \/ AskDisconnect

OpStep == \/ Connect \/ Disconnect
          \/ RecoverStale \/ RecoverGiveUp \/ RecoverReconnect
          \/ Reopen \/ OpenOk \/ OpenFail \/ ReopenFail

Next ==
    \/ \E c \in Calls : CallStep(c)
    \/ \E g \in Gens : WorkerStep(g) \/ HandshakeEnd(g)
    \/ LinkStep
    \/ OpStep

Spec == Init /\ [][Next]_vars

-----------------------------------------------------------------------------
(* Fairness.  Timers fire, ended futures resume their awaiters.  A platform *)
(* write may hang for ever, so nothing is assumed of the worker, the device *)
(* or the link.                                                             *)

CallerFairness ==
    /\ \A c \in Calls : /\ WF_vars(Timeout(c)) /\ WF_vars(SendTimeout(c))
                        /\ WF_vars(Resume(c))
                        /\ WF_vars(Return(c))
    /\ \A g \in Gens : WF_vars(HandshakeEnd(g))

FairSpec == Spec /\ CallerFairness

-----------------------------------------------------------------------------
(* Properties.                                                             *)

\* A connected session has its own worker running, and a session that is not
\* connected has none that could still touch the queue: the parts of the state
\* that establishLocked, _reconnectLocked and teardownLocked keep in lockstep.
Lockstep ==
    /\ transport # 0 <=> linkPhase = "connected"
    /\ transport = 0 <=> mode = "disconnected"
    /\ transport # 0 => /\ transport = sessionGen
                        /\ wpc[transport] \notin {"none", "done"}
    /\ memo # 0 => memo = transport /\ memo \in handshakes

\* No lost wakeup: while the worker of the session is parked on the queue's
\* signal in RPC mode, nothing in the queue could be sent.
NoLostWakeup ==
    \A g \in Gens :
        wpc[g] = "wait" /\ Live(g) /\ mode = "rpc"
            => Dispatchable(requestQueue, txGroup) = {}

\* The TX group is never left locked by a command nobody will finish: its owner
\* is a multi-frame call whose body is still running and whose final frame has
\* not gone out.
NoGroupLeak ==
    txGroup # NoCall => Kind[txGroup] = "multi" /\ pc[txGroup] = "body" /\ ~finalSent[txGroup]

\* The requests that reach the device in this step.
Landing == wire' \ wire

\* The calls with some, but not the last, of their frames on transport t.
MidStream(t) ==
    {c \in Calls : /\ \E w \in wire : w.on = t /\ w.req.call = c
                   /\ ~\E w \in wire : w.on = t /\ w.req.call = c /\ ~w.req.more}

\* A command is not cut into.  Nothing but interleavable requests lands between
\* the frames of a multi-frame command that is still open: the device would
\* interrupt it.  And nothing lands while a command that must not overlap the
\* next one (pipelined: false, or the final frame of a multi-frame command) is
\* unanswered.
NothingCutsIn ==
    [][\A w \in Landing :
        /\ \A c \in MidStream(w.on) :
              Open(c) => w.req.call = c \/ w.req.call \in Interleavable
        /\ \A v \in wire :
              v.on = w.on /\ ~v.req.more /\ HoldsTxUntilAnswer(v.req) => ~Open(v.req.call)]_vars

\* A request reaches a device once at most, whatever replays the queue across a
\* reconnect, and the frames of one command land in the order they were made.
AtMostOnceInOrder ==
    [][\A w \in Landing : \A v \in wire :
            w.req.call = v.req.call => v.req.seq < w.req.seq]_vars

\* A transport is given up only by the user or by a recovery that was asked for
\* while it was the session's transport.
NoSpuriousTeardown ==
    [][transport # 0 /\ transport' # transport
            => /\ op = "idle"
               /\ \/ Head(chain).kind = "disconnect"
                  \/ Head(chain).kind = "recover" /\ Head(chain).gen = transport]_vars

\* How the state of a call looks from outside.
StatusOf(c) ==
    LET seen == IF Kind[c] # "send" THEN pending[c]
                ELSE CASE sent[c] = "none" -> "absent"
                       [] sent[c] = "waiting" -> "open"
                       [] sent[c] = "sent" -> "ok"
                       [] sent[c] = "failed" -> "lost"
    IN  CASE seen = "absent" -> IF pc[c] = "threw" THEN "failed" ELSE "new"
          [] seen \in {"open", "ok"} -> seen
          [] OTHER -> "failed"

LinksOf(c) == {w.on : w \in {v \in wire : v.req.call = c}}

Promise == INSTANCE RpcCalls WITH
    Links <- Gens,
    status <- [c \in Calls |-> StatusOf(c)],
    link <- [c \in Calls |-> IF LinksOf(c) = {} THEN 0
                             ELSE CHOOSE g \in LinksOf(c) : \A h \in LinksOf(c) : h <= g],
    complete <- [c \in Calls |-> \E w \in wire : w.req.call = c /\ ~w.req.more]

\* The session keeps the promise of RpcCalls: an open call is never spread over
\* two links, its final frame goes out once, and only an answer after it makes
\* the call succeed.
KeepsPromise == Promise!Spec

\* Every single-frame call and every send returns, whatever the device, the
\* link and the platform do.
EveryCallReturns ==
    \A c \in {d \in Calls : Kind[d] # "multi"} :
        pc[c] # "idle" ~> pc[c] \in Finished

\* RPC mode is declared only on a transport that opens in it, or whose own
\* handshake is ending: never on the strength of one made with a transport that
\* has been replaced, which would put protobuf on a text stream.
RpcModeEarned ==
    [][mode # "rpc" /\ mode' = "rpc" /\ SupportsCli
            => /\ transport' = transport
               /\ transport \in handshakes \ handshakes']_vars
=============================================================================
