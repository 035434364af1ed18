-------------------------------- MODULE BleLink --------------------------------
(***************************************************************************)
(* The life of BLE links: the client's lifecycle chain of connects,        *)
(* disconnects and fault recoveries, the session each of them works on,    *)
(* and the transports they create, open and close                          *)
(* (lib/src/transport/ble/link.dart: configure, open, doClose, the static  *)
(* _connectionOwner and _liveByDevice), over a platform that dials, drops  *)
(* and releases a link when it likes.                                      *)
(*                                                                         *)
(* A transport is named by its _connectAttemptGen, and 0 is none.  One     *)
(* operation runs at a time, at the head of the chain; a user's disconnect *)
(* reaches past the chain into the attempt that is running, and a link may *)
(* drop at any moment.                                                     *)
(***************************************************************************)
EXTENDS Naturals, Sequences, FiniteSets

CONSTANTS
    Devices,       \* the BLE devices the user connects to
    MaxAttempts,   \* bound: connects and reconnects
    MaxChain       \* bound: operations a user leaves waiting

ASSUME BoundsAssumption ==
    MaxAttempts \in Nat \ {0} /\ MaxChain \in Nat \ {0}

Transports == 1 .. MaxAttempts

VARIABLES
    device,     \* the device of every transport made so far
    link,       \* its _link
    lifecycle,  \* its _lifecycle
    owner,      \* _connectionOwner
    live,       \* _liveByDevice
    phase,      \* the _linkPhase of a device's session, "none" without one
    held,       \* the transport of that session
    chain,      \* _lifecycleChain
    at,         \* where its first operation is
    cur,        \* the transport that operation works on
    aborted,    \* the completer of its attempt is fired: _connectAbort, _pairingAbort
    platform,   \* the platform's link to a device
    asked       \* bound: the attempts granted so far

transportVars == <<device, link, lifecycle>>
staticVars == <<owner, live>>
sessionVars == <<phase, held>>
opVars == <<chain, at, cur, aborted>>
vars == <<transportVars, staticVars, sessionVars, opVars, platform, asked>>

-----------------------------------------------------------------------------
\* open() in its pairing loop: a drop is expected there, and _pairingAbort ends it.
Pairing == {"setup", "settle", "redial", "rediscover"}

\* Where an attempt is, from its platform connect to the end of open().
Attempting == {"connect", "discover", "status"} \cup Pairing

\* Where a close is, from the call to the end of its wait for the platform.
Closing == {"close", "release", "query", "drain"}

Ops == [kind : {"connect", "disconnect", "cancel", "recover"},
        dev : Devices, t : 0 .. MaxAttempts]

TypeOK ==
    /\ device \in Seq(Devices) /\ Len(device) <= MaxAttempts
    /\ link \in [Transports -> {"disconnected", "established", "connected", "disconnecting"}]
    /\ lifecycle \in [Transports -> {"active", "closing", "closed"}]
    /\ owner \in 0 .. Len(device)
    /\ live \in [Devices -> 0 .. Len(device)]
    /\ phase \in [Devices -> {"none", "down", "connecting", "connected"}]
    /\ held \in [Devices -> 0 .. Len(device)]
    /\ chain \in Seq(Ops)
    /\ at \in {"idle", "radio", "pause"} \cup Attempting \cup Closing
    /\ cur \in 0 .. Len(device)
    /\ aborted \in BOOLEAN
    /\ platform \in [Devices -> {"down", "dialling", "up", "dropping", "redial"}]
    /\ asked \in 0 .. MaxAttempts

Init ==
    /\ device = <<>>
    /\ link = [t \in Transports |-> "disconnected"]
    /\ lifecycle = [t \in Transports |-> "active"]
    /\ owner = 0 /\ live = [d \in Devices |-> 0]
    /\ phase = [d \in Devices |-> "none"] /\ held = [d \in Devices |-> 0]
    /\ chain = <<>> /\ at = "idle" /\ cur = 0 /\ aborted = FALSE
    /\ platform = [d \in Devices |-> "down"]
    /\ asked = 0

Op(kind, d, t) == [kind |-> kind, dev |-> d, t |-> t]
Dev == Head(chain).dev

-----------------------------------------------------------------------------
(* The platform's link to d, when it is asked to dial or to disconnect: the *)
(* plugin runs one command after the other.                                *)

Dialled(d) ==
    [platform EXCEPT ![d] = CASE @ = "down" -> "dialling"
                              [] @ = "dropping" -> "redial"
                              [] OTHER -> @]

Released(d) ==
    [platform EXCEPT ![d] = IF @ = "down" THEN "down" ELSE "dropping"]

-----------------------------------------------------------------------------
(* What the transports share.                                              *)

\* _markBleDisconnected gives up the ownership that is t's.
OwnerWithout(t) == IF owner = t THEN 0 ELSE owner

LiveKept(t) == live   \* mutant: the callbacks of a closed transport stay

\* _clearBleCallbacks.
LiveWithout(t) == [d \in Devices |-> IF live[d] = t THEN 0 ELSE live[d]]

\* _registerDispatch.
Registered(t) == [live EXCEPT ![device'[t]] = t]

UnregisteredOpen(t) == live   \* mutant: open() forgets to register

\* open() registers the transport.
OpenRegisters(t) == Registered(t)

\* A transport that is torn down: it is closed, disconnected, nobody's owner
\* and out of the dispatch.
Gone(t) ==
    /\ lifecycle' = [lifecycle EXCEPT ![t] = "closed"]
    /\ link' = [link EXCEPT ![t] = "disconnected"]
    /\ owner' = OwnerWithout(t) /\ live' = LiveWithout(t)
    /\ UNCHANGED device

\* The recovery a fault puts on the chain, if a session holds the transport.
WithRecovery(t) ==
    IF held[device[t]] = t THEN Append(chain, Op("recover", device[t], t)) ELSE chain

\* onTransportFault.
Fault(t) == Gone(t) /\ chain' = WithRecovery(t)

InPairingLoop(t) == t = cur /\ at \in Pairing /\ ~aborted

\* Who owns the platform connect after a drop in the pairing loop, which keeps
\* it for a user's cancel.
OwnerInPairing(t) == owner

\* _onConnectionChange: the platform reports the link of t down.
Dropped(t) ==
    \/ /\ InPairingLoop(t)
       /\ link' = [link EXCEPT ![t] = "disconnected"]
       /\ owner' = OwnerInPairing(t)
       /\ UNCHANGED <<device, lifecycle, live, chain>>
    \/ /\ ~InPairingLoop(t) /\ link[t] = "disconnecting"
       /\ link' = [link EXCEPT ![t] = "disconnected"]
       /\ owner' = OwnerWithout(t)
       /\ UNCHANGED <<device, lifecycle, live, chain>>
    \/ /\ ~InPairingLoop(t) /\ link[t] # "disconnecting"
       /\ Fault(t)

-----------------------------------------------------------------------------
(* What the user asks for.                                                 *)

AskConnect(d) ==
    /\ Len(chain) < MaxChain /\ asked < MaxAttempts
    /\ asked' = asked + 1
    /\ chain' = Append(chain, Op("connect", d, 0))
    /\ UNCHANGED <<transportVars, staticVars, sessionVars, at, cur, aborted, platform>>

\* The completers of an attempt live in its dial and in its pairing loop.
Abortable == at \in {"connect"} \cup Pairing

\* abortPendingConnect wakes the attempt that is the owner's.
AbortReaches(d) == phase[d] = "connecting" /\ owner = cur /\ Abortable

FiredDial(d) == aborted \/ (AbortReaches(d) /\ at = "connect")   \* mutant: not _pairingAbort

\* _abortConnect fires the attempt's completers.
Fired(d) == aborted \/ AbortReaches(d)

\* disconnectDevice: a session that is connecting is aborted up front, and the
\* disconnect waits its turn.
AskDisconnect(d) ==
    /\ Len(chain) < MaxChain
    /\ aborted' = Fired(d)
    /\ platform' = IF phase[d] = "connecting" /\ owner # 0
                   THEN Released(device[owner]) ELSE platform
    /\ chain' = Append(chain, Op(IF phase[d] = "connecting" THEN "cancel" ELSE "disconnect",
                                 d, IF AbortReaches(d) THEN cur ELSE 0))
    /\ UNCHANGED <<transportVars, staticVars, sessionVars, at, cur, asked>>

-----------------------------------------------------------------------------
(* The operations of the chain, each run from its start to its end.        *)

EndOp ==
    /\ chain' = Tail(chain)
    /\ at' = "idle" /\ cur' = 0 /\ aborted' = FALSE

Starts(kinds) == at = "idle" /\ chain # <<>> /\ Head(chain).kind \in kinds

\* _openLocked on a device that is connected.
ConnectHeld ==
    /\ Starts({"connect"}) /\ phase[Dev] = "connected"
    /\ EndOp
    /\ UNCHANGED <<transportVars, staticVars, sessionVars, platform, asked>>

\* It makes a session, which waits for the radio.
ConnectNew ==
    /\ Starts({"connect"}) /\ phase[Dev] = "none"
    /\ phase' = [phase EXCEPT ![Dev] = "down"]
    /\ at' = "radio"
    /\ UNCHANGED <<transportVars, staticVars, held, chain, cur, aborted, platform, asked>>

\* disconnectDevice without a session.
DisconnectNone ==
    /\ Starts({"disconnect", "cancel"}) /\ phase[Dev] = "none"
    /\ EndOp
    /\ UNCHANGED <<transportVars, staticVars, sessionVars, platform, asked>>

\* teardownLocked, up to its close of the transport.
Teardown ==
    /\ phase' = [phase EXCEPT ![Dev] = "down"]
    /\ held' = [held EXCEPT ![Dev] = 0]
    /\ at' = "close" /\ cur' = held[Dev]
    /\ UNCHANGED <<transportVars, staticVars, chain, aborted, platform, asked>>

DisconnectHeld ==
    /\ Starts({"disconnect", "cancel"}) /\ phase[Dev] = "connected"
    /\ Teardown

Stale == held[Dev] # Head(chain).t

\* A recovery whose session generation has passed.
RecoverStale ==
    /\ Starts({"recover"}) /\ Stale
    /\ EndOp
    /\ UNCHANGED <<transportVars, staticVars, sessionVars, platform, asked>>

\* One that may not reconnect: autoReconnect is off, or the link drops too often.
RecoverGiveUp ==
    /\ Starts({"recover"}) /\ ~Stale
    /\ Teardown

\* _reconnectLocked, up to its close of the transport.
RecoverReconnect ==
    /\ Starts({"recover"}) /\ ~Stale
    /\ asked < MaxAttempts /\ asked' = asked + 1
    /\ phase' = [phase EXCEPT ![Dev] = "connecting"]
    /\ held' = [held EXCEPT ![Dev] = 0]
    /\ at' = "close" /\ cur' = held[Dev]
    /\ UNCHANGED <<transportVars, staticVars, chain, aborted, platform>>

\* The settle before it establishes the session again.
PauseOver ==
    /\ at = "pause"
    /\ at' = "radio"
    /\ UNCHANGED <<transportVars, staticVars, sessionVars, chain, cur, aborted, platform, asked>>

SessionKept == phase   \* mutant: a failed attempt leaves its session as it is

\* _dropSessionLocked.
SessionDropped == [phase EXCEPT ![Dev] = "none"]

\* The session ends with the operation.
EndSession ==
    /\ phase' = SessionDropped
    /\ EndOp
    /\ UNCHANGED <<held, asked>>

-----------------------------------------------------------------------------
(* configure().  The chain runs one attempt at a time: none is superseded.  *)


\* The next _connectAttemptGen.
NextAttempt == Len(device) + 1

\* establishLocked makes a transport, which asks the platform to connect.
Dial ==
    /\ at = "radio" /\ Len(device) < MaxAttempts
    /\ device' = Append(device, Dev) /\ cur' = NextAttempt
    /\ owner' = NextAttempt
    /\ phase' = [phase EXCEPT ![Dev] = "connecting"]
    /\ platform' = Dialled(Dev)
    /\ at' = "connect"
    /\ UNCHANGED <<link, lifecycle, live, held, chain, aborted, asked>>

Connected ==
    /\ at = "connect" /\ ~aborted /\ platform[Dev] = "up"
    /\ link' = [link EXCEPT ![cur] = "established"]
    /\ at' = "discover"
    /\ UNCHANGED <<device, lifecycle, staticVars, sessionVars, chain, cur, aborted, platform, asked>>

\* The platform connect fails: nobody gives up the ownership.
ConnectFails ==
    /\ at = "connect" /\ ~aborted /\ platform[Dev] = "down"
    /\ EndSession
    /\ UNCHANGED <<transportVars, staticVars, platform>>

ConnectAborted ==
    /\ at = "connect" /\ aborted
    /\ owner' = OwnerWithout(cur)
    /\ EndSession
    /\ UNCHANGED <<transportVars, live, platform>>

DiscoverFails ==
    /\ at = "discover"
    /\ IF owner = cur
       THEN /\ owner' = 0
            /\ link' = [link EXCEPT ![cur] = "disconnected"]
            /\ platform' = Released(Dev)
       ELSE UNCHANGED <<owner, link, platform>>
    /\ EndSession
    /\ UNCHANGED <<device, lifecycle, live>>

-----------------------------------------------------------------------------
(* open().                                                                 *)

\* configureConnected finds the characteristics, and open() takes the link.
Discovered ==
    /\ at = "discover"
    /\ owner' = cur
    /\ device' = device /\ live' = OpenRegisters(cur)
    /\ link' = [link EXCEPT ![cur] = "connected"]
    /\ at' = "setup"
    /\ UNCHANGED <<lifecycle, sessionVars, chain, cur, aborted, platform, asked>>

\* open() throws: establishLocked closes the transport.
OpenFails ==
    /\ phase' = [phase EXCEPT ![Dev] = "down"]
    /\ at' = "close"
    /\ UNCHANGED <<transportVars, staticVars, held, chain, cur, aborted, platform, asked>>

\* The encrypted set-up succeeds, whatever was asked meanwhile.
SetupDone ==
    /\ at = "setup" /\ link[cur] = "connected" /\ platform[Dev] \in {"up", "dropping"}
    /\ at' = "status"
    /\ aborted' = FALSE
    /\ UNCHANGED <<transportVars, staticVars, sessionVars, chain, cur, platform, asked>>

\* The link dropped under it: open() reconnects.
SetupDropped ==
    /\ at = "setup" /\ link[cur] = "disconnected" /\ ~aborted
    /\ at' = "settle"
    /\ UNCHANGED <<transportVars, staticVars, sessionVars, chain, cur, aborted, platform, asked>>

\* Unless the user has cancelled.
SetupAborted ==
    /\ at = "setup" /\ link[cur] = "disconnected" /\ aborted
    /\ OpenFails

\* A set-up operation fails for another reason.
SetupFails ==
    /\ at = "setup" /\ link[cur] = "connected"
    /\ OpenFails

\* _reconnectForPairing has let the platform settle.
Redial ==
    /\ at = "settle" /\ ~aborted
    /\ owner' = cur /\ device' = device /\ live' = Registered(cur)
    /\ platform' = Dialled(Dev)
    /\ at' = "redial"
    /\ UNCHANGED <<link, lifecycle, sessionVars, chain, cur, aborted, asked>>

RedialAborted ==
    /\ at \in {"settle", "redial"} /\ aborted
    /\ OpenFails

RedialUp ==
    /\ at = "redial" /\ ~aborted /\ platform[Dev] = "up"
    /\ link' = [link EXCEPT ![cur] = "established"]
    /\ at' = "rediscover"
    /\ UNCHANGED <<device, lifecycle, staticVars, sessionVars, chain, cur, aborted, platform, asked>>

\* The connect failed, or the link is not up any more when it is asked for:
\* the loop goes round.
RedialDown ==
    /\ at = "redial" /\ ~aborted /\ platform[Dev] = "down"
    /\ at' = "settle"
    /\ UNCHANGED <<transportVars, staticVars, sessionVars, chain, cur, aborted, platform, asked>>

\* The services are there; the MTU is read, and a failure to read it ignored.
Rediscovered ==
    /\ at = "rediscover"
    /\ link' = [link EXCEPT ![cur] = "connected"]
    /\ at' = "setup"
    /\ UNCHANGED <<device, lifecycle, staticVars, sessionVars, chain, cur, aborted, platform, asked>>

RediscoverFails ==
    /\ at = "rediscover"
    /\ at' = "settle"
    /\ UNCHANGED <<transportVars, staticVars, sessionVars, chain, cur, aborted, platform, asked>>

\* rpcStatus is subscribed, the connection has settled, the transport is still
\* active: establishLocked commits it.
Opened ==
    /\ at = "status" /\ lifecycle[cur] = "active"
    /\ held' = [held EXCEPT ![Dev] = cur]
    /\ phase' = [phase EXCEPT ![Dev] = "connected"]
    /\ EndOp
    /\ UNCHANGED <<transportVars, staticVars, platform, asked>>

OpenDead ==
    /\ at = "status" /\ lifecycle[cur] # "active"
    /\ OpenFails

-----------------------------------------------------------------------------
(* close() and doClose() of the transport cur.                             *)

\* What the operation goes on with when the transport is closed.
Closed ==
    IF phase[Dev] = "connecting"
    THEN /\ at' = "pause" /\ cur' = 0 /\ aborted' = FALSE
         /\ UNCHANGED <<sessionVars, chain, asked>>
    ELSE EndSession

\* A fault has closed it.
CloseClosed ==
    /\ at = "close" /\ lifecycle[cur] # "active"
    /\ Closed
    /\ UNCHANGED <<transportVars, staticVars, platform>>

\* Another transport owns the platform connect, or the link is down already.
CloseQuiet ==
    /\ at = "close" /\ lifecycle[cur] = "active"
    /\ owner # cur \/ link[cur] = "disconnected"
    /\ Gone(cur)
    /\ Closed
    /\ UNCHANGED platform

CloseOwned(state, next) ==
    /\ at = "close" /\ lifecycle[cur] = "active" /\ owner = cur /\ link[cur] = state
    /\ lifecycle' = [lifecycle EXCEPT ![cur] = "closing"]
    /\ at' = next
    /\ UNCHANGED <<device, staticVars, sessionVars, chain, cur, aborted, asked>>

\* The session never finished opening: the platform link is released.
CloseEstablished ==
    /\ CloseOwned("established", "release")
    /\ platform' = Released(Dev)
    /\ UNCHANGED link

\* The link is up: is it, as the platform sees it?
CloseConnected ==
    /\ CloseOwned("connected", "query")
    /\ link' = [link EXCEPT ![cur] = "disconnecting"]
    /\ UNCHANGED platform

QueryUp ==
    /\ at = "query" /\ platform[Dev] # "down"
    /\ platform' = Released(Dev)
    /\ at' = "drain"
    /\ UNCHANGED <<transportVars, staticVars, sessionVars, chain, cur, aborted, asked>>

\* It is down, or the platform's answer to the disconnect, its event or the
\* five seconds' wait for that are over.
CloseDone ==
    /\ \/ at = "query" /\ platform[Dev] = "down"
       \/ at \in {"release", "drain"}
    /\ Gone(cur)
    /\ Closed
    /\ UNCHANGED platform

-----------------------------------------------------------------------------
(* The links.                                                              *)

PlatformUp(d) ==
    /\ platform[d] = "dialling"
    /\ platform' = [platform EXCEPT ![d] = "up"]
    /\ UNCHANGED <<transportVars, staticVars, sessionVars, opVars, asked>>

PlatformFails(d) ==
    /\ platform[d] = "dialling"
    /\ platform' = [platform EXCEPT ![d] = "down"]
    /\ UNCHANGED <<transportVars, staticVars, sessionVars, opVars, asked>>

\* The link goes down, asked or not, and _dispatchConnectionChange tells the
\* transport that is registered for the device.
PlatformDrop(d) ==
    /\ platform[d] \in {"up", "dropping", "redial"}
    /\ platform' = [platform EXCEPT ![d] = IF @ = "redial" THEN "dialling" ELSE "down"]
    /\ IF live[d] = 0 THEN UNCHANGED <<transportVars, staticVars, chain>>
                      ELSE Dropped(live[d])
    /\ UNCHANGED <<sessionVars, at, cur, aborted, asked>>

\* A transport faults on its own, over a link that is up: the stall watchdog, a
\* failed write, the end of the firmware's RPC session.
LocalFault(t) ==
    /\ t <= Len(device) /\ lifecycle[t] = "active" /\ link[t] = "connected"
    /\ held[device[t]] = t \/ (t = cur /\ at = "status")
    /\ Fault(t)
    /\ UNCHANGED <<sessionVars, at, cur, aborted, platform, asked>>

-----------------------------------------------------------------------------
StartStep == \/ ConnectHeld \/ ConnectNew \/ DisconnectNone \/ DisconnectHeld
             \/ RecoverStale \/ RecoverGiveUp \/ RecoverReconnect \/ PauseOver \/ Dial

ConnectStep == \/ Connected \/ ConnectFails \/ ConnectAborted \/ Discovered \/ DiscoverFails

OpenStep == \/ SetupDropped \/ SetupAborted \/ Redial \/ RedialAborted \/ RedialUp \/ RedialDown
            \/ Rediscovered \/ RediscoverFails \/ Opened \/ OpenDead

CloseStep == \/ CloseClosed \/ CloseQuiet \/ CloseEstablished \/ CloseConnected
             \/ QueryUp \/ CloseDone

ClientStep == StartStep \/ ConnectStep \/ OpenStep \/ CloseStep

Next ==
    \/ ClientStep \/ SetupDone \/ SetupFails
    \/ \E d \in Devices : \/ AskConnect(d) \/ AskDisconnect(d)
                          \/ PlatformUp(d) \/ PlatformFails(d) \/ PlatformDrop(d)
    \/ \E t \in Transports : LocalFault(t)

Spec == Init /\ [][Next]_vars

\* The client's own steps run: its awaits are bounded by timers, and where they
\* are not, by an event that has come.  A link the platform was asked to release
\* goes down, and a GATT operation over a link that is down fails.  Whether a
\* device answers a dial, and whether its user enters the PIN, is anybody's guess.
FairSpec ==
    /\ Spec
    /\ WF_vars(ClientStep)
    /\ WF_vars(SetupFails /\ platform[Dev] = "down")
    /\ \A d \in Devices : WF_vars(PlatformDrop(d) /\ platform[d] # "up")

-----------------------------------------------------------------------------
(* Properties.                                                             *)

\* A transport that has closed owns nothing and hears of nothing any more: no
\* event of a later link to its device, and no user's abort, reaches it.
ClosedIsForgotten ==
    \A t \in 1 .. Len(device) :
        lifecycle[t] = "closed" => owner # t /\ \A d \in Devices : live[d] # t

\* A session that looks connected over a link that is down has its recovery
\* waiting on the chain: no drop is lost between transports that share one
\* process-wide callback.
DropsNoticed ==
    \A d \in Devices :
        phase[d] = "connected" /\ platform[d] \in {"down", "dialling", "redial"} =>
            \E i \in 1 .. Len(chain) : chain[i] = Op("recover", d, held[d])

\* While an attempt runs, abortPendingConnect finds it: no drop, no close of an
\* older transport and no other device takes the ownership from it.
AbortReachesAttempt ==
    at \in Attempting /\ lifecycle[cur] = "active" => owner = cur

\* The client says a device is connecting, which blocks every scan, only while
\* the operation that connects it runs.
ConnectingIsRunning ==
    \A d \in Devices : phase[d] = "connecting" => at # "idle" /\ Dev = d

\* A disconnect that reached the attempt it cancels unwinds it, though the
\* device never answer and the PIN never be entered.
Unwinds ==
    \A t \in Transports :
        (\E i \in 1 .. Len(chain) : chain[i].t = t /\ chain[i].kind = "cancel")
            ~> ~(cur = t /\ at \in Attempting)
=============================================================================
