---------------------------- MODULE BleLinkProofs -----------------------------
(***************************************************************************)
(* The life of BLE links, for any devices and any number of attempts and   *)
(* waiting operations: a closed transport is forgotten, every drop has its *)
(* recovery coming, a user's abort finds the attempt that runs, and a      *)
(* device is connecting only while its operation runs.                     *)
(***************************************************************************)
EXTENDS BleLink, TLAPS

-----------------------------------------------------------------------------
(* The inductive invariant, part by part, and the first lemmas about steps:*)
(* what they do to the transports made so far and to the lifecycle chain,  *)
(* and that they keep the types.                                           *)

\* The transports still to come.
FreshInv ==
    \A t \in Transports : t > Len(device) => lifecycle[t] = "active" /\ link[t] = "disconnected"

\* The running operation, the session it works on and its transport.
RunningInv ==
    /\ at \in {"idle", "radio", "pause"} => cur = 0
    /\ at # "idle" => chain # <<>> /\ phase[Dev] \in {"down", "connecting"}
    /\ at \in Attempting \cup {"pause"} => phase[Dev] = "connecting"
    /\ at \in Attempting \cup Closing => cur # 0 /\ device[cur] = Dev
    /\ \A d \in Devices : phase[d] \in {"down", "connecting"} => at # "idle" /\ Dev = d

\* What the transports share points to none that is closed.
SharedInv ==
    /\ owner # 0 => lifecycle[owner] # "closed"
    /\ \A d \in Devices : live[d] # 0 => device[live[d]] = d /\ lifecycle[live[d]] # "closed"

\* A transport that closes is the running operation's.
ClosingInv ==
    \A t \in Transports :
        /\ link[t] = "disconnecting" => t = cur /\ at \in {"query", "drain"}
        /\ lifecycle[t] = "closing" => t = cur /\ at \in {"release", "query", "drain"}

\* The attempt: nobody can tell its transport of a drop before open() has
\* registered it, and from then on it is told of every one.
AttemptInv ==
    /\ at \in Attempting /\ lifecycle[cur] = "active" => owner = cur
    /\ at \in {"connect", "discover"} =>
           lifecycle[cur] = "active" /\ \A d \in Devices : live[d] # cur
    /\ at \in Pairing /\ ~aborted => lifecycle[cur] = "active"
    /\ at \in Pairing \cup {"status"} /\ lifecycle[cur] = "active" => live[Dev] = cur
    /\ at = "status" /\ lifecycle[cur] = "active" => platform[Dev] \in {"up", "dropping"}

Recovering(d) == \E i \in 1 .. Len(chain) : chain[i] = Op("recover", d, held[d])

\* A connected session holds a transport of its device, that is registered or
\* has its recovery coming, as it has when the platform's link is down.
HeldBy(d) ==
    /\ phase[d] # "connected" => held[d] = 0
    /\ phase[d] = "connected" =>
           /\ held[d] # 0 /\ device[held[d]] = d
           /\ (lifecycle[held[d]] = "active" /\ live[d] = held[d]) \/ Recovering(d)
           /\ platform[d] \in {"down", "dialling", "redial"} => Recovering(d)

HeldInv == \A d \in Devices : HeldBy(d)

\* A recovery names the transport whose fault it is for.
RecoverInv == \A i \in 1 .. Len(chain) : chain[i].kind = "recover" => chain[i].t # 0

LinkInv == /\ RecoverInv /\ FreshInv /\ RunningInv /\ SharedInv
           /\ ClosingInv /\ AttemptInv /\ HeldInv

-----------------------------------------------------------------------------
(* What a step does to the transports made so far and to the chain.        *)

LEMMA Bounds == MaxAttempts \in Nat
  BY BoundsAssumption

Outside ==
    \/ \E d \in Devices : PlatformUp(d) \/ PlatformFails(d) \/ PlatformDrop(d)
    \/ \E t \in Transports : LocalFault(t)

\* The steps of the client, of the user, and of the world outside.
LEMMA NextCases ==
  ASSUME Next
  PROVE  \/ ClientStep \/ SetupDone \/ SetupFails
         \/ \E d \in Devices : AskConnect(d) \/ AskDisconnect(d)
         \/ Outside
  BY DEF Next, Outside

LEMMA Busy ==
  ASSUME TypeOK, LinkInv, ClientStep \/ SetupDone \/ SetupFails
  PROVE  chain # <<>>
  BY DEF ClientStep, StartStep, ConnectStep, OpenStep, CloseStep, LinkInv, RunningInv,
         ConnectHeld, Starts, EndOp, ConnectNew, DisconnectNone, DisconnectHeld, Teardown,
         RecoverStale, Stale, RecoverGiveUp, RecoverReconnect, PauseOver, Dial, NextAttempt,
         Dialled, Connected, ConnectFails, EndSession, SessionDropped, ConnectAborted,
         OwnerWithout, Discovered, OpenRegisters, Registered, DiscoverFails, Released,
         SetupDropped, SetupAborted, OpenFails, Redial, RedialAborted, RedialUp, RedialDown,
         Rediscovered, RediscoverFails, Opened, OpenDead, CloseClosed, Closed, CloseQuiet,
         Gone, LiveWithout, CloseEstablished, CloseOwned, CloseConnected, QueryUp, CloseDone,
         SetupDone, SetupFails

LEMMA ChainHead ==
  ASSUME TypeOK, chain # <<>>
  PROVE  /\ Dev \in Devices /\ Head(chain) \in Ops /\ Head(chain) = chain[1]
         /\ Tail(chain) \in Seq(Ops) /\ Len(chain) \in Nat \ {0}
<1>1. /\ Head(chain) \in Ops /\ Tail(chain) \in Seq(Ops) /\ Head(chain) = chain[1]
      /\ Len(chain) \in Nat \ {0}
  BY DEF TypeOK
<1>2. QED
  BY <1>1 DEF Ops, Dev

LEMMA DeviceStep ==
  ASSUME TypeOK, LinkInv, Next
  PROVE  \/ device' = device
         \/ Dial /\ Dev \in Devices /\ device' = Append(device, Dev)
<1> USE DEF transportVars, Gone
<1>1. CASE StartStep
  <2>1. CASE Dial
    BY <2>1, <1>1, Busy, ChainHead DEF ClientStep, Dial
  <2>2. CASE ~Dial
    BY <1>1, <2>2 DEF StartStep, ConnectHeld, Starts, EndOp, ConnectNew, DisconnectNone,
           DisconnectHeld, Teardown, RecoverStale, Stale, RecoverGiveUp, RecoverReconnect,
           PauseOver, Dial, NextAttempt, Dialled
  <2>3. QED
    BY <2>1, <2>2
<1>2. CASE ConnectStep \/ OpenStep \/ CloseStep
  BY <1>2 DEF ConnectStep, OpenStep, CloseStep, Connected, ConnectFails, EndSession,
         SessionDropped, EndOp, ConnectAborted, OwnerWithout, Discovered, OpenRegisters,
         Registered, DiscoverFails, Released, SetupDropped, SetupAborted, OpenFails, Redial,
         Dialled, RedialAborted, RedialUp, RedialDown, Rediscovered, RediscoverFails, Opened,
         OpenDead, CloseClosed, Closed, CloseQuiet, Gone, LiveWithout, CloseEstablished,
         CloseOwned, CloseConnected, QueryUp, CloseDone
<1>3. CASE SetupDone \/ SetupFails
  BY <1>3 DEF SetupDone, SetupFails, OpenFails
<1>4. ASSUME NEW d \in Devices, \/ AskConnect(d) \/ AskDisconnect(d)
                                \/ PlatformUp(d) \/ PlatformFails(d) \/ PlatformDrop(d)
      PROVE  device' = device
  BY <1>4 DEF AskConnect, AskDisconnect, Fired, Released, AbortReaches, Abortable, Pairing,
         PlatformUp, PlatformFails, PlatformDrop, Dropped, InPairingLoop, OwnerInPairing,
         OwnerWithout, Fault, Gone, WithRecovery, LiveWithout
<1>5. ASSUME NEW t \in Transports, LocalFault(t)
      PROVE  device' = device
  BY <1>5 DEF LocalFault, Fault, Gone, WithRecovery, OwnerWithout, LiveWithout
<1>6. QED
  BY <1>1, <1>2, <1>3, <1>4, <1>5 DEF Next, ClientStep

LEMMA DeviceGrows ==
  ASSUME TypeOK, LinkInv, Next
  PROVE  /\ device' \in Seq(Devices) /\ Len(device) \in Nat
         /\ Len(device') \in Len(device) .. MaxAttempts
         /\ \A t \in 1 .. Len(device) : device'[t] = device[t] /\ device[t] \in Devices
<1>1. device \in Seq(Devices) /\ Len(device) \in Nat /\ Len(device) <= MaxAttempts
  BY DEF TypeOK
<1>2. CASE device' = device
  BY <1>1, <1>2, Bounds
<1>3. CASE Dial /\ Dev \in Devices /\ device' = Append(device, Dev)
  BY <1>1, <1>3, Bounds DEF Dial
<1>4. QED
  BY <1>2, <1>3, DeviceStep

\* A step of the chain: its first operation ends, or one is appended.
ChainStep ==
    \/ chain' = chain
    \/ chain # <<>> /\ chain' = Tail(chain) /\ at' = "idle" /\ cur' = 0 /\ aborted' = FALSE
    \/ \E o \in Ops : /\ chain' = Append(chain, o) /\ at' = at /\ cur' = cur
                      /\ o.kind = "recover" => o.t # 0

LEMMA ChainSteps ==
  ASSUME TypeOK, LinkInv, Next
  PROVE  ChainStep
<1>1. CASE ClientStep \/ SetupDone \/ SetupFails
  <2>1. chain # <<>>
    BY <1>1, Busy
  <2>2. QED
    BY <1>1, <2>1 DEF ClientStep, StartStep, ConnectStep, OpenStep, CloseStep, ChainStep,
           opVars, ConnectHeld, Starts, EndOp, ConnectNew, DisconnectNone, DisconnectHeld,
           Teardown, RecoverStale, Stale, RecoverGiveUp, RecoverReconnect, PauseOver, Dial,
           NextAttempt, Dialled, Connected, ConnectFails, EndSession, SessionDropped,
           ConnectAborted, OwnerWithout, Discovered, OpenRegisters, Registered,
           DiscoverFails, Released, SetupDropped, SetupAborted, OpenFails, Redial,
           RedialAborted, RedialUp, RedialDown, Rediscovered, RediscoverFails, Opened,
           OpenDead, CloseClosed, Closed, CloseQuiet, Gone, LiveWithout, CloseEstablished,
           CloseOwned, CloseConnected, QueryUp, CloseDone, SetupDone, SetupFails
<1>2. ASSUME NEW d \in Devices, AskConnect(d) \/ AskDisconnect(d)
      PROVE  ChainStep
  <2>1. cur \in 0 .. MaxAttempts
    BY Bounds DEF TypeOK
  <2>2. QED
    BY <1>2, <2>1, Bounds DEF ChainStep, Op, Ops, AskConnect, AskDisconnect, Fired,
           Released, AbortReaches, Abortable, Pairing
<1>3. ASSUME NEW t \in 1 .. Len(device), Dropped(t) \/ Fault(t), at' = at, cur' = cur
      PROVE  ChainStep
  <2>1. device[t] \in Devices /\ t \in 0 .. MaxAttempts
    BY Bounds DEF TypeOK
  <2>2. Op("recover", device[t], t) \in Ops /\ Op("recover", device[t], t).t # 0
    BY <2>1 DEF Op, Ops
  <2>3. QED
    BY <1>3, <2>2 DEF Dropped, Fault, WithRecovery, ChainStep
<1>4. ASSUME NEW d \in Devices, PlatformUp(d) \/ PlatformFails(d) \/ PlatformDrop(d)
      PROVE  ChainStep
  <2>1. live[d] # 0 => live[d] \in 1 .. Len(device)
    BY DEF TypeOK
  <2>2. QED
    BY <1>3, <1>4, <2>1 DEF PlatformUp, PlatformFails, PlatformDrop, ChainStep, opVars
<1>5. ASSUME NEW t \in Transports, LocalFault(t)
      PROVE  ChainStep
  <2>1. t \in 1 .. Len(device)
    BY <1>5 DEF LocalFault, TypeOK, Transports
  <2>2. QED
    BY <1>3, <1>5, <2>1 DEF LocalFault
<1>6. QED
  BY <1>1, <1>2, <1>4, <1>5 DEF Next

LEMMA ChainTyped ==
  ASSUME TypeOK, LinkInv, Next
  PROVE  chain' \in Seq(Ops)
<1>1. chain \in Seq(Ops)
  BY DEF TypeOK
<1>2. CASE chain # <<>> /\ chain' = Tail(chain)
  BY <1>2, ChainHead
<1>3. ASSUME NEW o \in Ops, chain' = Append(chain, o)
      PROVE  chain' \in Seq(Ops)
  BY <1>1, <1>3
<1>4. QED
  BY <1>1, <1>2, <1>3, ChainSteps DEF ChainStep

-----------------------------------------------------------------------------
(* Types.                                                                  *)

LEMMA TransportsTyped ==
  ASSUME TypeOK, LinkInv, Next
  PROVE  /\ link' \in [Transports -> {"disconnected", "established", "connected", "disconnecting"}]
         /\ lifecycle' \in [Transports -> {"active", "closing", "closed"}]
<1> DEFINE Goal == /\ link' \in [Transports -> {"disconnected", "established", "connected", "disconnecting"}]
                   /\ lifecycle' \in [Transports -> {"active", "closing", "closed"}]
<1> USE DEF transportVars
<1>0. /\ link \in [Transports -> {"disconnected", "established", "connected", "disconnecting"}]
      /\ lifecycle \in [Transports -> {"active", "closing", "closed"}]
  BY DEF TypeOK
<1>1. CASE ClientStep \/ SetupDone \/ SetupFails
  BY <1>0, <1>1 DEF ClientStep, StartStep, ConnectStep, OpenStep, CloseStep, ConnectHeld,
         Starts, ConnectNew, DisconnectNone, DisconnectHeld, Teardown, RecoverStale,
         RecoverGiveUp, RecoverReconnect, PauseOver, Dial, Connected, ConnectFails,
         EndSession, ConnectAborted, Discovered, DiscoverFails, SetupDropped, SetupAborted,
         OpenFails, Redial, RedialAborted, RedialUp, RedialDown, Rediscovered,
         RediscoverFails, Opened, OpenDead, CloseClosed, Closed, CloseQuiet, Gone,
         CloseEstablished, CloseOwned, CloseConnected, QueryUp, CloseDone, SetupDone,
         SetupFails
<1>2. ASSUME NEW d \in Devices, \/ AskConnect(d) \/ AskDisconnect(d)
                                \/ PlatformUp(d) \/ PlatformFails(d) \/ PlatformDrop(d)
      PROVE  Goal
  BY <1>0, <1>2 DEF AskConnect, AskDisconnect, PlatformUp, PlatformFails, PlatformDrop,
         Dropped, Fault, Gone
<1>3. ASSUME NEW t \in Transports, LocalFault(t)
      PROVE  Goal
  BY <1>0, <1>3 DEF LocalFault, Fault, Gone
<1>4. QED
  BY <1>1, <1>2, <1>3 DEF Next

LEMMA SharedTyped ==
  ASSUME TypeOK, LinkInv, Next
  PROVE  owner' \in 0 .. Len(device') /\ live' \in [Devices -> 0 .. Len(device')]
<1> DEFINE Within(n) == /\ owner \in 0 .. n /\ cur \in 0 .. n /\ live \in [Devices -> 0 .. n]
           Goal == owner' \in 0 .. Len(device') /\ live' \in [Devices -> 0 .. Len(device')]
<1> USE DEF transportVars, staticVars
<1>1. Len(device) \in Nat /\ Len(device') \in Nat /\ Len(device) <= Len(device')
  BY DeviceGrows, Bounds
<1>2. Within(Len(device')) /\ 0 \in 0 .. Len(device')
  BY <1>1 DEF TypeOK
<1>3. CASE Dial
  <2>1. Len(device') = Len(device) + 1
    BY <1>3, DeviceStep, ChainHead, Busy DEF Dial, ClientStep, StartStep, TypeOK
  <2>2. QED
    BY <1>1, <1>2, <1>3, <2>1 DEF Dial, NextAttempt
<1>4. CASE (ClientStep /\ ~Dial) \/ SetupDone \/ SetupFails
  BY <1>2, <1>4 DEF ClientStep, StartStep, ConnectStep, OpenStep, CloseStep, ConnectHeld,
         Starts, ConnectNew, DisconnectNone, DisconnectHeld, Teardown, RecoverStale,
         RecoverGiveUp, RecoverReconnect, PauseOver, Dial, Connected, ConnectFails,
         EndSession, ConnectAborted, OwnerWithout, Discovered, OpenRegisters, Registered,
         DiscoverFails, SetupDropped, SetupAborted, OpenFails, Redial, RedialAborted,
         RedialUp, RedialDown, Rediscovered, RediscoverFails, Opened, OpenDead, CloseClosed,
         Closed, CloseQuiet, Gone, LiveWithout, CloseEstablished, CloseOwned, CloseConnected,
         QueryUp, CloseDone, SetupDone, SetupFails
<1>5. ASSUME NEW d \in Devices, \/ AskConnect(d) \/ AskDisconnect(d)
                                \/ PlatformUp(d) \/ PlatformFails(d) \/ PlatformDrop(d)
      PROVE  Goal
  BY <1>2, <1>5 DEF AskConnect, AskDisconnect, PlatformUp, PlatformFails, PlatformDrop,
         Dropped, OwnerInPairing, OwnerWithout, Fault, Gone, LiveWithout
<1>6. ASSUME NEW t \in Transports, LocalFault(t)
      PROVE  Goal
  BY <1>2, <1>6 DEF LocalFault, Fault, Gone, OwnerWithout, LiveWithout
<1>7. QED
  BY <1>3, <1>4, <1>5, <1>6 DEF Next

LEMMA SessionsTyped ==
  ASSUME TypeOK, LinkInv, Next
  PROVE  /\ phase' \in [Devices -> {"none", "down", "connecting", "connected"}]
         /\ held' \in [Devices -> 0 .. Len(device')] /\ cur' \in 0 .. Len(device')
<1> DEFINE Ph == {"none", "down", "connecting", "connected"}
           Goal == /\ phase' \in [Devices -> Ph]
                   /\ held' \in [Devices -> 0 .. Len(device')] /\ cur' \in 0 .. Len(device')
<1> USE DEF transportVars, sessionVars, opVars
<1>1. Len(device) \in Nat /\ Len(device') \in Nat /\ Len(device) <= Len(device')
  BY DeviceGrows, Bounds
<1>2. /\ phase \in [Devices -> Ph] /\ held \in [Devices -> 0 .. Len(device')]
      /\ cur \in 0 .. Len(device') /\ 0 \in 0 .. Len(device')
  BY <1>1 DEF TypeOK
<1>3. CASE Dial
  <2>1. Len(device') = Len(device) + 1
    BY <1>3, DeviceStep, ChainHead, Busy DEF Dial, ClientStep, StartStep, TypeOK
  <2>2. QED
    <3>1. cur' = Len(device) + 1 /\ phase' = [phase EXCEPT ![Dev] = "connecting"] /\ held' = held
      BY <1>3 DEF Dial, NextAttempt
    <3>2. cur' \in 0 .. Len(device')
      BY <1>1, <2>1, <3>1
    <3>3. QED
      BY <1>2, <3>1, <3>2
<1>4. CASE (ClientStep /\ ~Dial) \/ SetupDone \/ SetupFails
  <2>1. Dev \in Devices
    BY <1>4, Busy, ChainHead
  <2>2. QED
    BY <1>2, <1>4, <2>1 DEF ClientStep, StartStep, ConnectStep, OpenStep, CloseStep,
           ConnectHeld, Starts, EndOp, ConnectNew, DisconnectNone, DisconnectHeld, Teardown,
           RecoverStale, RecoverGiveUp, RecoverReconnect, PauseOver, Dial, Connected,
           ConnectFails, EndSession, SessionDropped, ConnectAborted, Discovered,
           DiscoverFails, SetupDropped, SetupAborted, OpenFails, Redial, RedialAborted,
           RedialUp, RedialDown, Rediscovered, RediscoverFails, Opened, OpenDead,
           CloseClosed, Closed, CloseQuiet, CloseEstablished, CloseOwned, CloseConnected,
           QueryUp, CloseDone, SetupDone, SetupFails
<1>5. ASSUME NEW d \in Devices, \/ AskConnect(d) \/ AskDisconnect(d)
                                \/ PlatformUp(d) \/ PlatformFails(d) \/ PlatformDrop(d)
      PROVE  Goal
  BY <1>2, <1>5 DEF AskConnect, AskDisconnect, PlatformUp, PlatformFails, PlatformDrop
<1>6. ASSUME NEW t \in Transports, LocalFault(t)
      PROVE  Goal
  BY <1>2, <1>6 DEF LocalFault
<1>7. QED
  BY <1>3, <1>4, <1>5, <1>6 DEF Next

LEMMA PlacesTyped ==
  ASSUME TypeOK, LinkInv, Next
  PROVE  at' \in {"idle", "radio", "pause"} \cup Attempting \cup Closing /\ asked' \in 0 .. MaxAttempts
<1> DEFINE Places == {"idle", "radio", "pause"} \cup Attempting \cup Closing
           Goal == at' \in Places /\ asked' \in 0 .. MaxAttempts
<1> USE Bounds DEF sessionVars, opVars, Attempting, Closing, Pairing
<1>1. at \in Places /\ asked \in 0 .. MaxAttempts
  BY DEF TypeOK
<1>2. CASE ClientStep \/ SetupDone \/ SetupFails
  BY <1>1, <1>2 DEF ClientStep, StartStep, ConnectStep, OpenStep, CloseStep, ConnectHeld,
         Starts, EndOp, ConnectNew, DisconnectNone, DisconnectHeld, Teardown, RecoverStale,
         RecoverGiveUp, RecoverReconnect, PauseOver, Dial, Connected, ConnectFails,
         EndSession, ConnectAborted, Discovered, DiscoverFails, SetupDropped, SetupAborted,
         OpenFails, Redial, RedialAborted, RedialUp, RedialDown, Rediscovered,
         RediscoverFails, Opened, OpenDead, CloseClosed, Closed, CloseQuiet, CloseEstablished,
         CloseOwned, CloseConnected, QueryUp, CloseDone, SetupDone, SetupFails
<1>3. ASSUME NEW d \in Devices, \/ AskConnect(d) \/ AskDisconnect(d)
                                \/ PlatformUp(d) \/ PlatformFails(d) \/ PlatformDrop(d)
      PROVE  Goal
  BY <1>1, <1>3 DEF AskConnect, AskDisconnect, PlatformUp, PlatformFails, PlatformDrop
<1>4. ASSUME NEW t \in Transports, LocalFault(t)
      PROVE  Goal
  BY <1>1, <1>4 DEF LocalFault
<1>5. QED
  BY <1>2, <1>3, <1>4 DEF Next

LEMMA AbortedTyped ==
  ASSUME TypeOK, Next
  PROVE  aborted' \in BOOLEAN
<1> USE DEF opVars
<1>1. aborted \in BOOLEAN
  BY DEF TypeOK
<1>2. CASE ClientStep \/ SetupDone \/ SetupFails
  BY <1>1, <1>2 DEF ClientStep, StartStep, ConnectStep, OpenStep, CloseStep, ConnectHeld,
         Starts, EndOp, ConnectNew, DisconnectNone, DisconnectHeld, Teardown, RecoverStale,
         RecoverGiveUp, RecoverReconnect, PauseOver, Dial, Connected, ConnectFails,
         EndSession, ConnectAborted, Discovered, DiscoverFails, SetupDropped, SetupAborted,
         OpenFails, Redial, RedialAborted, RedialUp, RedialDown, Rediscovered,
         RediscoverFails, Opened, OpenDead, CloseClosed, Closed, CloseQuiet, CloseEstablished,
         CloseOwned, CloseConnected, QueryUp, CloseDone, SetupDone, SetupFails
<1>3. ASSUME NEW d \in Devices, AskDisconnect(d)
      PROVE  aborted' \in BOOLEAN
  <2>1. aborted' = (aborted \/ AbortReaches(d))
    BY <1>3 DEF AskDisconnect, Fired
  <2>2. QED
    BY <2>1
<1>4. ASSUME NEW d \in Devices, AskConnect(d) \/ PlatformUp(d) \/ PlatformFails(d) \/ PlatformDrop(d)
      PROVE  aborted' \in BOOLEAN
  BY <1>1, <1>4 DEF AskConnect, PlatformUp, PlatformFails, PlatformDrop
<1>5. ASSUME NEW t \in Transports, LocalFault(t)
      PROVE  aborted' \in BOOLEAN
  BY <1>1, <1>5 DEF LocalFault
<1>6. QED
  BY <1>2, <1>3, <1>4, <1>5 DEF Next

LEMMA PlatformTyped ==
  ASSUME TypeOK, LinkInv, Next
  PROVE  platform' \in [Devices -> {"down", "dialling", "up", "dropping", "redial"}]
<1> DEFINE Goal == platform' \in [Devices -> {"down", "dialling", "up", "dropping", "redial"}]
<1>1. platform \in [Devices -> {"down", "dialling", "up", "dropping", "redial"}]
  BY DEF TypeOK
<1>2. ASSUME NEW d \in Devices
      PROVE  /\ Dialled(d) \in [Devices -> {"down", "dialling", "up", "dropping", "redial"}]
             /\ Released(d) \in [Devices -> {"down", "dialling", "up", "dropping", "redial"}]
  BY <1>1 DEF Dialled, Released
<1>3. CASE ClientStep \/ SetupDone \/ SetupFails
  <2>1. Dev \in Devices
    BY <1>3, Busy, ChainHead
  <2>2. platform' \in {platform, Dialled(Dev), Released(Dev)}
    BY <1>3 DEF ClientStep, StartStep, ConnectStep, OpenStep, CloseStep, ConnectHeld,
           Starts, ConnectNew, DisconnectNone, DisconnectHeld, Teardown, RecoverStale,
           RecoverGiveUp, RecoverReconnect, PauseOver, Dial, Connected, ConnectFails,
           EndSession, ConnectAborted, Discovered, DiscoverFails, SetupDropped,
           SetupAborted, OpenFails, Redial, RedialAborted, RedialUp, RedialDown,
           Rediscovered, RediscoverFails, Opened, OpenDead, CloseClosed, Closed, CloseQuiet,
           CloseEstablished, CloseOwned, CloseConnected, QueryUp, CloseDone, SetupDone,
           SetupFails
  <2>3. QED
    BY <1>1, <1>2, <2>1, <2>2
<1>4. ASSUME NEW d \in Devices, AskDisconnect(d)
      PROVE  Goal
  <2>1. owner # 0 => device[owner] \in Devices
    BY DEF TypeOK
  <2>2. QED
    BY <1>1, <1>2, <1>4, <2>1 DEF AskDisconnect
<1>5. ASSUME NEW d \in Devices, AskConnect(d) \/ PlatformUp(d) \/ PlatformFails(d) \/ PlatformDrop(d)
      PROVE  Goal
  BY <1>1, <1>5 DEF AskConnect, PlatformUp, PlatformFails, PlatformDrop
<1>6. ASSUME NEW t \in Transports, LocalFault(t)
      PROVE  Goal
  BY <1>1, <1>6 DEF LocalFault
<1>7. QED
  BY <1>3, <1>4, <1>5, <1>6 DEF Next

LEMMA TypeKept ==
  ASSUME TypeOK, LinkInv, Next
  PROVE  TypeOK'
<1>1. Len(device') <= MaxAttempts
  BY DeviceGrows, Bounds
<1>2. QED
  BY <1>1, DeviceGrows, ChainTyped, TransportsTyped, SharedTyped, SessionsTyped, PlacesTyped, AbortedTyped,
     PlatformTyped DEF TypeOK

-----------------------------------------------------------------------------
(* What a step touches.                                                    *)

\* The running operation is the same until it ends.
LEMMA DevKept ==
  ASSUME TypeOK, LinkInv, Next, chain # <<>>, at' # "idle"
  PROVE  chain' # <<>> /\ Dev' = Dev /\ Dev \in Devices
<1>1. CASE chain' = chain
  BY <1>1, ChainHead DEF Dev
<1>2. ASSUME NEW o \in Ops, chain' = Append(chain, o)
      PROVE  chain' # <<>> /\ Head(chain') = Head(chain)
  BY <1>2 DEF TypeOK
<1>3. QED
  BY <1>1, <1>2, ChainSteps, ChainHead DEF ChainStep, Dev

\* An operation touches no transport but its own.
LEMMA ClientTouches ==
  ASSUME TypeOK, ClientStep \/ SetupDone \/ SetupFails
  PROVE  \A t \in Transports : t # cur => link'[t] = link[t] /\ lifecycle'[t] = lifecycle[t]
<1>1. /\ link \in [Transports -> {"disconnected", "established", "connected", "disconnecting"}]
      /\ lifecycle \in [Transports -> {"active", "closing", "closed"}]
  BY DEF TypeOK
<1>2. QED
  BY <1>1 DEF ClientStep, StartStep, ConnectStep, OpenStep, CloseStep, transportVars,
         ConnectHeld, Starts, ConnectNew, DisconnectNone, DisconnectHeld, Teardown,
         RecoverStale, RecoverGiveUp, RecoverReconnect, PauseOver, Dial, Connected,
         ConnectFails, EndSession, ConnectAborted, Discovered, DiscoverFails, SetupDropped,
         SetupAborted, OpenFails, Redial, RedialAborted, RedialUp, RedialDown, Rediscovered,
         RediscoverFails, Opened, OpenDead, CloseClosed, Closed, CloseQuiet, Gone,
         CloseEstablished, CloseOwned, CloseConnected, QueryUp, CloseDone, SetupDone,
         SetupFails

\* What tells a transport from outside: an event of the platform, or its fault.
Told(t) ==
    /\ t \in 1 .. Len(device)
    /\ Dropped(t) \/ Fault(t)
    /\ UNCHANGED <<sessionVars, at, cur, aborted, asked>>

LEMMA OutsideSteps ==
  ASSUME TypeOK, Outside
  PROVE  \/ UNCHANGED <<transportVars, staticVars, sessionVars, opVars, asked>>
         \/ \E t \in 1 .. Len(device) :
               Told(t) /\ (LocalFault(t) \/ \E d \in Devices : PlatformDrop(d) /\ live[d] = t)
<1>1. ASSUME NEW d \in Devices, PlatformUp(d) \/ PlatformFails(d)
      PROVE  UNCHANGED <<transportVars, staticVars, sessionVars, opVars, asked>>
  BY <1>1 DEF PlatformUp, PlatformFails
<1>2. ASSUME NEW d \in Devices, PlatformDrop(d)
      PROVE  \/ UNCHANGED <<transportVars, staticVars, sessionVars, opVars, asked>>
             \/ live[d] \in 1 .. Len(device) /\ Told(live[d])
  <2>1. live[d] # 0 => live[d] \in 1 .. Len(device)
    BY DEF TypeOK
  <2>2. QED
    BY <1>2, <2>1 DEF PlatformDrop, Told, opVars
<1>3. ASSUME NEW t \in Transports, LocalFault(t)
      PROVE  t \in 1 .. Len(device) /\ Told(t)
  <2>1. t \in 1 .. Len(device)
    BY <1>3 DEF LocalFault, TypeOK, Transports
  <2>2. QED
    BY <1>3, <2>1 DEF LocalFault, Told
<1>4. QED
  BY <1>1, <1>2, <1>3 DEF Outside

\* What a transport that is told does: it is gone, or only its link is down.
LEMMA ToldEffect ==
  ASSUME TypeOK, NEW t \in 1 .. Len(device), Told(t)
  PROVE  /\ t \in Transports /\ device' = device
         /\ link' = [link EXCEPT ![t] = "disconnected"]
         /\ \/ Gone(t) /\ chain' = WithRecovery(t)
            \/ /\ InPairingLoop(t) /\ owner' = owner
               /\ UNCHANGED <<lifecycle, live, chain>>
            \/ /\ ~InPairingLoop(t) /\ link[t] = "disconnecting" /\ owner' = OwnerWithout(t)
               /\ UNCHANGED <<lifecycle, live, chain>>
<1>1. t \in Transports
  BY Bounds DEF TypeOK, Transports
<1>2. QED
  BY <1>1 DEF Told, Dropped, Fault, Gone, OwnerInPairing

-----------------------------------------------------------------------------
(* The invariant.                                                          *)

LEMMA RecoverKept ==
  ASSUME TypeOK, LinkInv, Next
  PROVE  RecoverInv'
<1>1. RecoverInv /\ chain \in Seq(Ops)
  BY DEF LinkInv, TypeOK
<1>2. CASE chain' = chain
  BY <1>1, <1>2 DEF RecoverInv
<1>3. CASE chain # <<>> /\ chain' = Tail(chain)
  BY <1>1, <1>3 DEF RecoverInv
<1>4. ASSUME NEW o \in Ops, chain' = Append(chain, o), o.kind = "recover" => o.t # 0
      PROVE  RecoverInv'
  BY <1>1, <1>4 DEF RecoverInv
<1>5. QED
  BY <1>2, <1>3, <1>4, ChainSteps DEF ChainStep

LEMMA FreshKept ==
  ASSUME TypeOK, LinkInv, Next
  PROVE  FreshInv'
<1>1. /\ link \in [Transports -> {"disconnected", "established", "connected", "disconnecting"}]
      /\ lifecycle \in [Transports -> {"active", "closing", "closed"}]
      /\ cur \in 0 .. Len(device)
  BY DEF TypeOK
<1>2. Len(device) \in Nat /\ Len(device') \in Nat /\ Len(device) <= Len(device')
  BY DeviceGrows, Bounds
<1>3. FreshInv
  BY DEF LinkInv
<1>4. CASE ClientStep \/ SetupDone \/ SetupFails
  BY <1>1, <1>2, <1>3, <1>4, ClientTouches DEF FreshInv, Transports
<1>5. ASSUME NEW d \in Devices, AskConnect(d) \/ AskDisconnect(d)
      PROVE  FreshInv'
  BY <1>3, <1>5 DEF AskConnect, AskDisconnect, transportVars, FreshInv
<1>6. CASE Outside
  <2>1. ASSUME NEW u \in 1 .. Len(device), Told(u)
        PROVE  FreshInv'
    <3>1. /\ device' = device /\ link' = [link EXCEPT ![u] = "disconnected"]
          /\ lifecycle' = lifecycle \/ lifecycle' = [lifecycle EXCEPT ![u] = "closed"]
      BY <2>1, ToldEffect DEF Gone
    <3>2. ASSUME NEW t \in Transports, t > Len(device)
          PROVE  t # u /\ lifecycle[t] = "active" /\ link[t] = "disconnected"
      BY <1>2, <1>3, <3>2 DEF FreshInv, Transports
    <3>3. QED
      BY <1>1, <3>1, <3>2 DEF FreshInv
  <2>2. QED
    BY <1>3, <1>6, <2>1, OutsideSteps DEF FreshInv, transportVars
<1>7. QED
  BY <1>4, <1>5, <1>6, NextCases

LEMMA RunningKept ==
  ASSUME TypeOK, LinkInv, Next
  PROVE  RunningInv'
<1> USE DEF Attempting, Closing, Pairing
<1>1. /\ RunningInv /\ cur \in 0 .. Len(device)
      /\ phase \in [Devices -> {"none", "down", "connecting", "connected"}]
      /\ at \in {"idle", "radio", "pause"} \cup Attempting \cup Closing
  BY DEF LinkInv, TypeOK
<1>2. CASE Dial
  <2>1. at = "radio" /\ chain # <<>>
    BY <1>1, <1>2 DEF RunningInv, Dial
  <2>2. device' = Append(device, Dev) /\ cur' = Len(device) + 1 /\ at' = "connect"
    BY <1>2 DEF Dial, NextAttempt
  <2>3. Dev' = Dev /\ Dev \in Devices /\ chain' # <<>>
    BY <2>1, <2>2, DevKept
  <2>4. cur' # 0 /\ device'[cur'] = Dev
    BY <2>2, <2>3 DEF TypeOK
  <2>5. phase' = [phase EXCEPT ![Dev] = "connecting"]
    BY <1>2 DEF Dial
  <2>6. QED
    BY <1>1, <2>1, <2>2, <2>3, <2>4, <2>5 DEF RunningInv
<1>3. CASE (ClientStep /\ ~Dial) \/ SetupDone \/ SetupFails
  <2>1. chain # <<>>
    BY <1>3, Busy
  <2>2. Dev \in Devices /\ device' = device
    BY <1>3, <2>1, ChainHead, DeviceStep DEF SetupDone, SetupFails, Dial
  <2>3. at' # "idle" => chain' # <<>> /\ Dev' = Dev
    BY <2>1, DevKept
  <2>4. held[Dev] # 0 => device[held[Dev]] = Dev
    BY <2>2 DEF LinkInv, HeldInv, HeldBy
  <2>5. phase[Dev] = "connected" <=> held[Dev] # 0
    BY <2>2 DEF LinkInv, HeldInv, HeldBy
  <2>6. Starts({"recover"}) => Head(chain).t # 0
    BY <2>1, ChainHead DEF Starts, LinkInv, RecoverInv
  <2>7. CASE StartStep
    BY <1>1, <1>3, <2>1, <2>2, <2>3, <2>4, <2>5, <2>6, <2>7 DEF RunningInv, StartStep,
           sessionVars, opVars, ConnectHeld, Starts, EndOp, ConnectNew, DisconnectNone,
           DisconnectHeld, Teardown, RecoverStale, Stale, RecoverGiveUp, RecoverReconnect,
           PauseOver, Dial
  <2>8. CASE ~StartStep
    BY <1>1, <1>3, <2>1, <2>2, <2>3, <2>8 DEF RunningInv, ClientStep, ConnectStep, OpenStep,
           CloseStep, sessionVars, opVars, Connected, ConnectFails, EndSession,
           SessionDropped, EndOp, ConnectAborted, Discovered, DiscoverFails, SetupDropped,
           SetupAborted, OpenFails, Redial, RedialAborted, RedialUp, RedialDown,
           Rediscovered, RediscoverFails, Opened, OpenDead, CloseClosed, Closed, CloseQuiet,
           CloseEstablished, CloseOwned, CloseConnected, QueryUp, CloseDone, SetupDone,
           SetupFails
  <2>9. QED
    BY <2>7, <2>8
<1>4. ASSUME device' = device, UNCHANGED <<sessionVars, at, cur>>
      PROVE  RunningInv'
  <2>1. at # "idle" => chain # <<>> /\ chain' # <<>> /\ Dev' = Dev
    BY <1>1, <1>4, DevKept DEF RunningInv
  <2>2. QED
    BY <1>1, <1>4, <2>1 DEF RunningInv, sessionVars
<1>5. ASSUME NEW d \in Devices, AskConnect(d) \/ AskDisconnect(d)
      PROVE  RunningInv'
  BY <1>4, <1>5 DEF AskConnect, AskDisconnect, transportVars
<1>6. CASE Outside
  BY <1>4, <1>6, OutsideSteps, ToldEffect DEF Told, transportVars, sessionVars, opVars
<1>7. QED
  BY <1>2, <1>3, <1>5, <1>6, NextCases

\* The steps of an operation that make no transport.
Working == (ClientStep /\ ~Dial) \/ SetupDone \/ SetupFails

LEMMA WorkingFacts ==
  ASSUME TypeOK, LinkInv, Working
  PROVE  /\ chain # <<>> /\ Dev \in Devices /\ device' = device
         /\ cur # 0 => cur \in Transports /\ device[cur] = Dev
         /\ at # "idle" => phase[Dev] \in {"down", "connecting"} /\ held[Dev] = 0
<1>1. chain # <<>>
  BY Busy DEF Working
<1>2. Dev \in Devices /\ device' = device
  BY <1>1, ChainHead, DeviceStep DEF Working, SetupDone, SetupFails, Dial, Next
<1>3. cur # 0 => cur \in Transports
  BY Bounds DEF TypeOK, Transports
<1>4. cur # 0 => device[cur] = Dev
  BY DEF LinkInv, RunningInv, TypeOK
<1>5. at # "idle" => phase[Dev] \in {"down", "connecting"} /\ held[Dev] = 0
  BY <1>2 DEF LinkInv, RunningInv, HeldInv, HeldBy
<1>6. QED
  BY <1>1, <1>2, <1>3, <1>4, <1>5

LEMMA DialFacts ==
  ASSUME TypeOK, LinkInv, Dial
  PROVE  /\ at = "radio" /\ chain # <<>> /\ Dev \in Devices /\ cur = 0
         /\ device' = Append(device, Dev) /\ Len(device') = Len(device) + 1
         /\ cur' = Len(device') /\ cur' \in Transports /\ cur' # 0 /\ device'[cur'] = Dev
         /\ owner' = cur' /\ lifecycle[cur'] = "active" /\ link[cur'] = "disconnected"
         /\ \A t \in 1 .. Len(device) : device'[t] = device[t] /\ t # cur'
<1>1. at = "radio" /\ chain # <<>> /\ cur = 0
  BY DEF Dial, LinkInv, RunningInv
<1>2. /\ Dev \in Devices /\ device \in Seq(Devices) /\ Len(device) \in Nat
      /\ Len(device) < MaxAttempts
  BY <1>1, ChainHead DEF TypeOK, Dial
<1>3. device' = Append(device, Dev) /\ cur' = Len(device) + 1 /\ owner' = Len(device) + 1
  BY DEF Dial, NextAttempt
<1>4. /\ Len(device') = Len(device) + 1 /\ device'[Len(device) + 1] = Dev
      /\ \A t \in 1 .. Len(device) : device'[t] = device[t]
  BY <1>2, <1>3
<1>5. cur' \in Transports /\ cur' > Len(device)
  BY <1>2, <1>3, Bounds DEF Transports
<1>6. lifecycle[cur'] = "active" /\ link[cur'] = "disconnected"
  BY <1>5 DEF LinkInv, FreshInv
<1>7. QED
  BY <1>1, <1>2, <1>3, <1>4, <1>5, <1>6

LEMMA SharedKept ==
  ASSUME TypeOK, LinkInv, Next
  PROVE  SharedInv'
<1>1. /\ SharedInv /\ owner \in 0 .. Len(device) /\ live \in [Devices -> 0 .. Len(device)]
      /\ lifecycle \in [Transports -> {"active", "closing", "closed"}]
      /\ cur \in 0 .. Len(device) /\ Len(device) \in Nat
  BY DEF LinkInv, TypeOK
<1>0. /\ 1 .. Len(device) \subseteq Transports
      /\ owner # 0 => owner \in Transports
      /\ \A d \in Devices : live[d] # 0 => live[d] \in Transports
  BY <1>1, Bounds DEF TypeOK, Transports
<1>2. CASE Dial
  <2>1. lifecycle' = lifecycle /\ live' = live
    BY <1>2 DEF Dial
  <2>2. ASSUME NEW d \in Devices, live[d] # 0
        PROVE  live[d] \in 1 .. Len(device)
    BY <1>1, <2>2
  <2>3. QED
    BY <1>1, <1>2, <2>1, <2>2, DialFacts DEF SharedInv
<1>3. CASE Working
  <2>1. at = "discover" \/ (at = "settle" /\ ~aborted) => cur # 0 /\ lifecycle[cur] = "active"
    BY DEF LinkInv, RunningInv, AttemptInv, Attempting, Pairing
  <2>2. \/ lifecycle' = lifecycle \/ lifecycle' = [lifecycle EXCEPT ![cur] = "closing"]
        \/ Gone(cur)
    BY <1>3 DEF Working, ClientStep, StartStep, ConnectStep, OpenStep, CloseStep,
           transportVars, staticVars, ConnectHeld, Starts, ConnectNew, DisconnectNone,
           DisconnectHeld, Teardown, RecoverStale, RecoverGiveUp, RecoverReconnect,
           PauseOver, Dial, Connected, ConnectFails, EndSession, ConnectAborted, Discovered,
           DiscoverFails, SetupDropped, SetupAborted, OpenFails, Redial, RedialAborted,
           RedialUp, RedialDown, Rediscovered, RediscoverFails, Opened, OpenDead,
           CloseClosed, Closed, CloseQuiet, CloseEstablished, CloseOwned, CloseConnected,
           QueryUp, CloseDone, SetupDone, SetupFails
  <2>3. \/ owner' \in {0, owner} \/ owner' = OwnerWithout(cur)
        \/ owner' = cur /\ lifecycle' = lifecycle /\ cur # 0 /\ lifecycle[cur] = "active"
    BY <1>3, <2>1 DEF Working, ClientStep, StartStep, ConnectStep, OpenStep, CloseStep,
           transportVars, staticVars, ConnectHeld, Starts, ConnectNew, DisconnectNone,
           DisconnectHeld, Teardown, RecoverStale, RecoverGiveUp, RecoverReconnect,
           PauseOver, Dial, Connected, ConnectFails, EndSession, ConnectAborted, Discovered,
           DiscoverFails, SetupDropped, SetupAborted, OpenFails, Redial, RedialAborted,
           RedialUp, RedialDown, Rediscovered, RediscoverFails, Opened, OpenDead,
           CloseClosed, Closed, CloseQuiet, Gone, CloseEstablished, CloseOwned,
           CloseConnected, QueryUp, CloseDone, SetupDone, SetupFails
  <2>4. \/ live' = live \/ live' = LiveWithout(cur)
        \/ /\ live' = [live EXCEPT ![device'[cur]] = cur]
           /\ lifecycle' = lifecycle /\ cur # 0 /\ lifecycle[cur] = "active"
    BY <1>3, <2>1 DEF Working, ClientStep, StartStep, ConnectStep, OpenStep, CloseStep,
           transportVars, staticVars, ConnectHeld, Starts, ConnectNew, DisconnectNone,
           DisconnectHeld, Teardown, RecoverStale, RecoverGiveUp, RecoverReconnect,
           PauseOver, Dial, Connected, ConnectFails, EndSession, ConnectAborted, Discovered,
           OpenRegisters, Registered, DiscoverFails, SetupDropped, SetupAborted, OpenFails,
           Redial, RedialAborted, RedialUp, RedialDown, Rediscovered, RediscoverFails,
           Opened, OpenDead, CloseClosed, Closed, CloseQuiet, Gone, CloseEstablished,
           CloseOwned, CloseConnected, QueryUp, CloseDone, SetupDone, SetupFails
  <2>5. owner' # 0 => lifecycle'[owner'] # "closed"
    <3>1. CASE Gone(cur)
      BY <1>1, <3>1 DEF SharedInv, Gone, OwnerWithout
    <3>2. CASE ~Gone(cur)
      BY <1>0, <1>1, <1>3, <2>2, <2>3, <3>2, WorkingFacts DEF SharedInv, OwnerWithout
    <3>3. QED
      BY <3>1, <3>2
  <2>6. ASSUME NEW d \in Devices, live'[d] # 0
        PROVE  device'[live'[d]] = d /\ lifecycle'[live'[d]] # "closed"
    <3>1. CASE Gone(cur)
      BY <1>1, <2>6, <3>1 DEF SharedInv, Gone, LiveWithout
    <3>2. CASE ~Gone(cur)
      BY <1>0, <1>1, <1>3, <2>2, <2>4, <2>6, <3>2, WorkingFacts DEF SharedInv, LiveWithout
    <3>3. QED
      BY <3>1, <3>2
  <2>7. QED
    BY <2>5, <2>6 DEF SharedInv
<1>4. ASSUME NEW d \in Devices, AskConnect(d) \/ AskDisconnect(d)
      PROVE  SharedInv'
  BY <1>1, <1>4 DEF AskConnect, AskDisconnect, transportVars, staticVars, SharedInv
<1>5. CASE Outside
  <2>1. ASSUME NEW t \in 1 .. Len(device), Told(t)
        PROVE  SharedInv'
    <3>1. CASE Gone(t)
      BY <1>1, <2>1, <3>1, ToldEffect DEF SharedInv, Gone, OwnerWithout, LiveWithout
    <3>2. CASE ~Gone(t)
      BY <1>1, <2>1, <3>2, ToldEffect DEF SharedInv, OwnerWithout
    <3>3. QED
      BY <3>1, <3>2
  <2>2. QED
    BY <1>1, <1>5, <2>1, OutsideSteps DEF SharedInv, transportVars, staticVars
<1>6. QED
  BY <1>2, <1>3, <1>4, <1>5, NextCases DEF Working

LEMMA ClosingKept ==
  ASSUME TypeOK, LinkInv, Next
  PROVE  ClosingInv'
<1>1. /\ ClosingInv /\ cur \in 0 .. Len(device)
      /\ link \in [Transports -> {"disconnected", "established", "connected", "disconnecting"}]
      /\ lifecycle \in [Transports -> {"active", "closing", "closed"}]
  BY DEF LinkInv, TypeOK
<1>2. CASE Dial
  BY <1>1, <1>2 DEF Dial, ClosingInv
<1>3. CASE Working
  <2>1. at = "idle" => cur = 0
    BY DEF LinkInv, RunningInv
  <2>2. cur # 0 => cur \in Transports
    BY <1>3, WorkingFacts
  <2>3. ASSUME NEW t \in Transports, t # cur
        PROVE  link'[t] # "disconnecting" /\ lifecycle'[t] # "closing"
    BY <1>1, <1>3, <2>3, ClientTouches DEF Working, ClosingInv
  <2>4. ASSUME cur \in Transports
        PROVE  /\ link'[cur] = "disconnecting" => cur' = cur /\ at' \in {"query", "drain"}
               /\ lifecycle'[cur] = "closing" => cur' = cur /\ at' \in {"release", "query", "drain"}
    BY <1>1, <1>3, <2>4 DEF ClosingInv, Working, ClientStep, StartStep, ConnectStep,
           OpenStep, CloseStep, transportVars, opVars, ConnectHeld, Starts, EndOp,
           ConnectNew, DisconnectNone, DisconnectHeld, Teardown, RecoverStale,
           RecoverGiveUp, RecoverReconnect, PauseOver, Dial, Connected, ConnectFails,
           EndSession, ConnectAborted, Discovered, DiscoverFails, SetupDropped,
           SetupAborted, OpenFails, Redial, RedialAborted, RedialUp, RedialDown,
           Rediscovered, RediscoverFails, Opened, OpenDead, CloseClosed, Closed, CloseQuiet,
           Gone, CloseEstablished, CloseOwned, CloseConnected, QueryUp, CloseDone,
           SetupDone, SetupFails
  <2>5. QED
    BY <2>3, <2>4 DEF ClosingInv
<1>4. ASSUME NEW d \in Devices, AskConnect(d) \/ AskDisconnect(d)
      PROVE  ClosingInv'
  BY <1>1, <1>4 DEF AskConnect, AskDisconnect, transportVars, ClosingInv
<1>5. CASE Outside
  <2>1. ASSUME NEW t \in 1 .. Len(device), Told(t)
        PROVE  ClosingInv'
    <3>1. /\ link' = [link EXCEPT ![t] = "disconnected"] /\ at' = at /\ cur' = cur
          /\ lifecycle' = lifecycle \/ lifecycle' = [lifecycle EXCEPT ![t] = "closed"]
      BY <2>1, ToldEffect DEF Gone, Told
    <3>2. QED
      BY <1>1, <3>1 DEF ClosingInv
  <2>2. QED
    BY <1>1, <1>5, <2>1, OutsideSteps DEF ClosingInv, transportVars, opVars
<1>6. QED
  BY <1>2, <1>3, <1>4, <1>5, NextCases DEF Working

LEMMA AttemptKept ==
  ASSUME TypeOK, LinkInv, Next
  PROVE  AttemptInv'
<1> USE DEF Attempting, Closing, Pairing
<1>1. /\ AttemptInv /\ cur \in 0 .. Len(device) /\ live \in [Devices -> 0 .. Len(device)]
      /\ link \in [Transports -> {"disconnected", "established", "connected", "disconnecting"}]
      /\ lifecycle \in [Transports -> {"active", "closing", "closed"}]
      /\ platform \in [Devices -> {"down", "dialling", "up", "dropping", "redial"}]
      /\ Len(device) \in Nat
  BY DEF LinkInv, TypeOK
<1>2. at \in Attempting => /\ cur \in Transports /\ chain # <<>> /\ Dev \in Devices
                           /\ device[cur] = Dev /\ held[Dev] = 0 /\ link[cur] # "disconnecting"
  <2>1. at \in Attempting => /\ cur # 0 /\ chain # <<>> /\ device[cur] = Dev
                             /\ phase[Dev] = "connecting"
    BY DEF LinkInv, RunningInv
  <2>2. cur # 0 => cur \in Transports
    BY Bounds DEF TypeOK, Transports
  <2>3. at \in Attempting => Dev \in Devices /\ held[Dev] = 0
    BY <2>1, ChainHead DEF LinkInv, HeldInv, HeldBy
  <2>4. cur \in Transports /\ link[cur] = "disconnecting" => at \in {"query", "drain"}
    BY DEF LinkInv, ClosingInv
  <2>5. QED
    BY <2>1, <2>2, <2>3, <2>4
<1>3. CASE Dial
  <2>1. at' = "connect" /\ owner' = cur' /\ lifecycle' = lifecycle /\ live' = live
    BY <1>3 DEF Dial
  <2>2. \A d \in Devices : live[d] # cur'
    BY <1>1, <1>3, DialFacts
  <2>3. QED
    BY <1>3, <2>1, <2>2, DialFacts DEF AttemptInv
<1>4. CASE Working
  <2>1. at' \in Attempting => Dev' = Dev /\ cur' = cur /\ at \in Attempting
    <3>1. at' \in Attempting => cur' = cur /\ at \in Attempting
      BY <1>4 DEF Working, ClientStep, StartStep, ConnectStep, OpenStep, CloseStep,
             transportVars, staticVars, opVars, ConnectHeld, Starts, EndOp, ConnectNew,
             DisconnectNone, DisconnectHeld, Teardown, RecoverStale, RecoverGiveUp,
             RecoverReconnect, PauseOver, Dial, Connected, ConnectFails, EndSession,
             ConnectAborted, Discovered, OpenRegisters, Registered, DiscoverFails,
             SetupDropped, SetupAborted, OpenFails, Redial, RedialAborted, RedialUp,
             RedialDown, Rediscovered, RediscoverFails, Opened, OpenDead, CloseClosed,
             Closed, CloseQuiet, Gone, CloseEstablished, CloseOwned, CloseConnected,
             QueryUp, CloseDone, SetupDone, SetupFails
    <3>2. QED
      BY <1>4, <3>1, WorkingFacts, DevKept DEF Working, Next
  <2>2. at' \in Attempting => /\ lifecycle' = lifecycle /\ platform' \in {platform, Dialled(Dev)}
                              /\ aborted' = aborted \/ at' = "status"
    BY <1>4 DEF Working, ClientStep, StartStep, ConnectStep, OpenStep, CloseStep,
           transportVars, staticVars, opVars, ConnectHeld, Starts, EndOp, ConnectNew,
           DisconnectNone, DisconnectHeld, Teardown, RecoverStale, RecoverGiveUp,
           RecoverReconnect, PauseOver, Dial, Connected, ConnectFails, EndSession,
           ConnectAborted, Discovered, OpenRegisters, Registered, DiscoverFails,
           SetupDropped, SetupAborted, OpenFails, Redial, RedialAborted, RedialUp,
           RedialDown, Rediscovered, RediscoverFails, Opened, OpenDead, CloseClosed, Closed,
           CloseQuiet, Gone, CloseEstablished, CloseOwned, CloseConnected, QueryUp,
           CloseDone, SetupDone, SetupFails
  <2>3. at' \in Attempting =>
           \/ owner' = owner /\ live' = live
           \/ owner' = cur /\ live' = [live EXCEPT ![Dev] = cur]
    <3>1. at' \in Attempting =>
             \/ owner' = owner /\ live' = live
             \/ owner' = cur /\ live' = [live EXCEPT ![device'[cur]] = cur]
      BY <1>4 DEF Working, ClientStep, StartStep, ConnectStep, OpenStep, CloseStep,
             transportVars, staticVars, opVars, ConnectHeld, Starts, EndOp, ConnectNew,
             DisconnectNone, DisconnectHeld, Teardown, RecoverStale, RecoverGiveUp,
             RecoverReconnect, PauseOver, Dial, Connected, ConnectFails, EndSession,
             ConnectAborted, Discovered, OpenRegisters, Registered, DiscoverFails,
             SetupDropped, SetupAborted, OpenFails, Redial, RedialAborted, RedialUp,
             RedialDown, Rediscovered, RediscoverFails, Opened, OpenDead, CloseClosed,
             Closed, CloseQuiet, Gone, CloseEstablished, CloseOwned, CloseConnected,
             QueryUp, CloseDone, SetupDone, SetupFails
    <3>2. QED
      BY <1>2, <1>4, <2>1, <3>1, WorkingFacts
  <2>4. /\ at' = "connect" => FALSE
        /\ at' = "discover" => at = "connect" /\ live' = live
        /\ at' = "setup" /\ at = "discover" => live' = [live EXCEPT ![Dev] = cur]
        /\ at' = "status" => at = "setup" /\ platform' = platform /\ platform[Dev] \in {"up", "dropping"}
    <3>1. /\ at' = "connect" => FALSE
          /\ at' = "discover" => at = "connect" /\ live' = live
          /\ at' = "setup" /\ at = "discover" => live' = [live EXCEPT ![device'[cur]] = cur]
          /\ at' = "status" => at = "setup" /\ platform' = platform /\ platform[Dev] \in {"up", "dropping"}
      BY <1>4 DEF Working, ClientStep, StartStep, ConnectStep, OpenStep, CloseStep,
             transportVars, staticVars, opVars, ConnectHeld, Starts, EndOp, ConnectNew,
             DisconnectNone, DisconnectHeld, Teardown, RecoverStale, RecoverGiveUp,
             RecoverReconnect, PauseOver, Dial, Connected, ConnectFails, EndSession,
             ConnectAborted, Discovered, OpenRegisters, Registered, DiscoverFails,
             SetupDropped, SetupAborted, OpenFails, Redial, RedialAborted, RedialUp,
             RedialDown, Rediscovered, RediscoverFails, Opened, OpenDead, CloseClosed,
             Closed, CloseQuiet, Gone, CloseEstablished, CloseOwned, CloseConnected,
             QueryUp, CloseDone, SetupDone, SetupFails
    <3>2. QED
      BY <1>2, <1>4, <3>1, WorkingFacts
  <2>5. at' \in Pairing => at \in Pairing \/ (at = "discover" /\ at' = "setup")
    BY <1>4 DEF Working, ClientStep, StartStep, ConnectStep, OpenStep, CloseStep,
           transportVars, staticVars, opVars, ConnectHeld, Starts, EndOp, ConnectNew,
           DisconnectNone, DisconnectHeld, Teardown, RecoverStale, RecoverGiveUp,
           RecoverReconnect, PauseOver, Dial, Connected, ConnectFails, EndSession,
           ConnectAborted, Discovered, OpenRegisters, Registered, DiscoverFails,
           SetupDropped, SetupAborted, OpenFails, Redial, RedialAborted, RedialUp,
           RedialDown, Rediscovered, RediscoverFails, Opened, OpenDead, CloseClosed, Closed,
           CloseQuiet, Gone, CloseEstablished, CloseOwned, CloseConnected, QueryUp,
           CloseDone, SetupDone, SetupFails
  <2>6. at' \in Attempting /\ lifecycle'[cur'] = "active" => owner' = cur'
    BY <1>1, <2>1, <2>2, <2>3 DEF AttemptInv
  <2>7. at' \in {"connect", "discover"} =>
           lifecycle'[cur'] = "active" /\ \A d \in Devices : live'[d] # cur'
    BY <1>1, <2>1, <2>2, <2>4 DEF AttemptInv
  <2>8. at' \in Pairing /\ ~aborted' => lifecycle'[cur'] = "active"
    BY <1>1, <2>1, <2>2, <2>5 DEF AttemptInv
  <2>9. ASSUME at' \in Pairing \cup {"status"}, lifecycle'[cur'] = "active"
        PROVE  live'[Dev'] = cur'
    <3>1. at' \in Attempting /\ lifecycle[cur] = "active" /\ cur' = cur /\ Dev' = Dev
      BY <2>1, <2>2, <2>9
    <3>2. at \in Pairing => live[Dev] = cur
      BY <1>1, <3>1 DEF AttemptInv
    <3>3. at \in Pairing \/ (at = "discover" /\ at' = "setup")
      BY <2>4, <2>5, <2>9
    <3>4. QED
      BY <1>1, <1>2, <2>1, <2>3, <2>4, <3>1, <3>2, <3>3
  <2>10. at' = "status" => platform'[Dev'] \in {"up", "dropping"}
    BY <2>1, <2>4
  <2>11. QED
    BY <2>6, <2>7, <2>8, <2>9, <2>10 DEF AttemptInv
<1>5. ASSUME at' = at, cur' = cur, at \in Attempting
      PROVE  Dev' = Dev
  BY <1>2, <1>5, DevKept
<1>6. ASSUME NEW d \in Devices, AskConnect(d) \/ AskDisconnect(d)
      PROVE  AttemptInv'
  <2>1. UNCHANGED <<device, lifecycle, owner, live, at, cur>>
    BY <1>6 DEF AskConnect, AskDisconnect, transportVars, staticVars
  <2>2. aborted => aborted'
    BY <1>6 DEF AskConnect, AskDisconnect, Fired
  <2>3. platform' = platform \/ platform' = Released(device[owner])
    BY <1>6 DEF AskConnect, AskDisconnect
  <2>4. ASSUME NEW e \in Devices, platform[e] \in {"up", "dropping"}
        PROVE  platform'[e] \in {"up", "dropping"}
    BY <1>1, <2>3, <2>4 DEF Released
  <2>5. QED
    BY <1>1, <1>2, <1>5, <2>1, <2>2, <2>4 DEF AttemptInv
<1>7. CASE Outside
  <2>1. UNCHANGED <<at, cur, aborted>>
    BY <1>7, OutsideSteps DEF opVars, Told
  <2>2. ASSUME NEW t \in 1 .. Len(device), Told(t), t # cur,
               at \in Attempting
        PROVE  /\ lifecycle'[cur] = lifecycle[cur]
               /\ owner = cur => owner' = cur
               /\ \A d \in Devices : /\ live[d] # cur => live'[d] # cur
                                     /\ live[d] = cur => live'[d] = cur
    <3>1. CASE Gone(t)
      BY <1>1, <1>2, <2>2, <3>1 DEF Gone, OwnerWithout, LiveWithout, Transports
    <3>2. CASE ~Gone(t)
      BY <2>2, <3>2, ToldEffect DEF OwnerWithout
    <3>3. QED
      BY <3>1, <3>2
  <2>3. ASSUME Told(cur), cur \in 1 .. Len(device), at \in Attempting
        PROVE  \/ lifecycle'[cur] = "closed"
               \/ at \in Pairing /\ ~aborted /\ UNCHANGED <<lifecycle, owner, live>>
    BY <1>1, <1>2, <2>3, ToldEffect DEF Gone, InPairingLoop
  <2>4. ASSUME NEW t \in 1 .. Len(device), Told(t), at \in {"connect", "discover"},
               LocalFault(t) \/ \E d \in Devices : live[d] = t
        PROVE  t # cur
    <3>1. LocalFault(t) => held[device[t]] = t
      BY <2>4 DEF LocalFault
    <3>2. QED
      BY <1>1, <1>2, <2>4, <3>1 DEF AttemptInv
  <2>5. at = "status" /\ lifecycle'[cur] = "active" => platform'[Dev] \in {"up", "dropping"}
    <3>1. SUFFICES ASSUME at = "status", lifecycle'[cur] = "active"
                   PROVE  platform'[Dev] \in {"up", "dropping"}
      OBVIOUS
    <3>2. lifecycle[cur] = "active"
      <4>1. ASSUME NEW t \in 1 .. Len(device), Told(t)
            PROVE  lifecycle[cur] = "active"
        BY <1>1, <1>2, <2>2, <2>3, <3>1, <4>1
      <4>2. QED
        BY <1>7, <3>1, <4>1, OutsideSteps DEF transportVars
    <3>3. platform[Dev] \in {"up", "dropping"} /\ live[Dev] = cur
      BY <3>1, <3>2, <1>1 DEF AttemptInv
    <3>4. ASSUME NEW d \in Devices, PlatformUp(d) \/ PlatformFails(d)
          PROVE  platform'[Dev] = platform[Dev]
      BY <1>1, <1>2, <3>1, <3>3, <3>4 DEF PlatformUp, PlatformFails
    <3>5. ASSUME NEW d \in Devices, PlatformDrop(d)
          PROVE  platform'[Dev] = platform[Dev]
      <4>1. CASE d = Dev
        <5>1. Told(cur) /\ cur \in 1 .. Len(device)
          BY <1>1, <1>2, <2>1, <3>1, <3>3, <3>5, <4>1 DEF PlatformDrop, Told, Transports
        <5>2. QED
          BY <2>3, <3>1, <5>1
      <4>2. CASE d # Dev
        BY <1>1, <1>2, <3>5, <4>2 DEF PlatformDrop
      <4>3. QED
        BY <4>1, <4>2
    <3>6. ASSUME NEW t \in Transports, LocalFault(t)
          PROVE  platform'[Dev] = platform[Dev]
      BY <3>6 DEF LocalFault
    <3>7. QED
      BY <1>7, <3>3, <3>4, <3>5, <3>6 DEF Outside
  <2>6. ASSUME NEW t \in 1 .. Len(device), Told(t),
               LocalFault(t) \/ (Dropped(t) /\ \E d \in Devices : live[d] = t)
        PROVE  AttemptInv'
    <3>1. at \in Attempting => Dev' = Dev
      BY <1>5, <2>1
    <3>2. CASE t = cur
      <4>1. at \notin {"connect", "discover"}
        BY <2>4, <2>6, <3>2
      <4>2. at \in Attempting =>
               \/ lifecycle'[cur] = "closed"
               \/ at \in Pairing /\ ~aborted /\ UNCHANGED <<lifecycle, owner, live>>
        BY <2>3, <2>6, <3>2
      <4>3. at \in Pairing => Dropped(t)
        BY <1>2, <2>6, <3>2 DEF LocalFault, Transports
      <4>4. at \in Pairing /\ ~aborted => UNCHANGED lifecycle
        BY <3>2, <4>3 DEF Dropped, InPairingLoop
      <4>5. QED
        BY <1>1, <2>1, <2>5, <3>1, <4>1, <4>2, <4>4 DEF AttemptInv
    <3>3. CASE t # cur
      BY <1>1, <1>2, <2>1, <2>2, <2>5, <2>6, <3>1, <3>3 DEF AttemptInv
    <3>4. QED
      BY <3>2, <3>3
  <2>7. CASE UNCHANGED <<transportVars, staticVars, sessionVars, opVars, asked>>
    BY <1>1, <1>2, <1>5, <2>5, <2>7 DEF AttemptInv, transportVars, staticVars, opVars
  <2>8. QED
    BY <1>7, <2>6, <2>7, OutsideSteps DEF PlatformDrop, Transports
<1>8. QED
  BY <1>3, <1>4, <1>6, <1>7, NextCases DEF Working

\* A recovery stays on the chain until it is its turn.
LEMMA RecoveringKept ==
  ASSUME TypeOK, LinkInv, Next, NEW d \in Devices, Recovering(d), held'[d] = held[d],
         chain # <<>> /\ chain' = Tail(chain) /\ at' = "idle" => Head(chain) # Op("recover", d, held[d])
  PROVE  Recovering(d)'
<1>1. PICK i \in 1 .. Len(chain) : chain[i] = Op("recover", d, held[d])
  BY DEF Recovering
<1>2. chain \in Seq(Ops) /\ Len(chain) \in Nat
  BY DEF TypeOK
<1>3. CASE chain' = chain
  BY <1>1, <1>3 DEF Recovering
<1>4. CASE chain # <<>> /\ chain' = Tail(chain) /\ at' = "idle"
  <2>1. i # 1
    BY <1>1, <1>2, <1>4
  <2>2. i - 1 \in 1 .. Len(chain') /\ chain'[i - 1] = chain[i]
    BY <1>1, <1>2, <1>4, <2>1
  <2>3. QED
    BY <1>1, <2>2 DEF Recovering
<1>5. ASSUME NEW o \in Ops, chain' = Append(chain, o)
      PROVE  Recovering(d)'
  <2>1. i \in 1 .. Len(chain') /\ chain'[i] = chain[i]
    BY <1>1, <1>2, <1>5
  <2>2. QED
    BY <1>1, <2>1 DEF Recovering
<1>6. QED
  BY <1>3, <1>4, <1>5, ChainSteps DEF ChainStep

\* The session of a device a step leaves alone.
LEMMA HeldAlone ==
  ASSUME TypeOK, LinkInv, Next, NEW d \in Devices,
         phase'[d] = phase[d], held'[d] = held[d],
         phase[d] = "connected" => lifecycle'[held[d]] = lifecycle[held[d]],
         phase[d] = "connected" /\ live[d] = held[d] => live'[d] = held[d],
         platform'[d] \in {"down", "dialling", "redial"} => platform[d] \in {"down", "dialling", "redial"},
         chain # <<>> /\ chain' = Tail(chain) /\ at' = "idle" => Head(chain) # Op("recover", d, held[d])
  PROVE  HeldBy(d)'
<1>1. HeldBy(d) /\ held[d] \in 0 .. Len(device)
  BY DEF LinkInv, HeldInv, TypeOK
<1>2. phase[d] = "connected" /\ Recovering(d) => Recovering(d)'
  BY RecoveringKept
<1>3. phase[d] = "connected" => device'[held[d]] = device[held[d]]
  BY <1>1, DeviceGrows DEF HeldBy
<1>4. QED
  BY <1>1, <1>2, <1>3 DEF HeldBy

\* Nor does a fault of its transport go unnoticed.
LEMMA HeldTold ==
  ASSUME TypeOK, LinkInv, Next, NEW d \in Devices, phase[d] = "connected", Told(held[d])
  PROVE  HeldBy(d)'
<1>1. HeldBy(d) /\ held[d] \in 1 .. Len(device) /\ held[d] \in Transports
  BY Bounds DEF LinkInv, HeldInv, HeldBy, TypeOK, Transports
<1>2. held[d] # cur
  <2>1. cur # 0 => at \notin {"idle", "radio", "pause"}
    BY DEF LinkInv, RunningInv
  <2>2. cur # 0 => at \in Attempting \cup Closing
    BY <2>1 DEF TypeOK
  <2>3. cur # 0 => device[cur] = Dev /\ phase[Dev] # "connected"
    BY <2>2 DEF LinkInv, RunningInv, Attempting, Closing, Pairing
  <2>4. QED
    BY <1>1, <2>3 DEF HeldBy
<1>3. ~InPairingLoop(held[d]) /\ link[held[d]] # "disconnecting"
  BY <1>1, <1>2 DEF InPairingLoop, LinkInv, ClosingInv
<1>4. chain' = WithRecovery(held[d]) /\ device' = device
  BY <1>1, <1>3, ToldEffect
<1>5. chain' = Append(chain, Op("recover", d, held[d]))
  BY <1>1, <1>4 DEF WithRecovery, HeldBy
<1>6. chain'[Len(chain')] = Op("recover", d, held[d]) /\ Len(chain') \in 1 .. Len(chain')
  BY <1>5 DEF TypeOK
<1>7. phase' = phase /\ held' = held
  BY DEF Told, sessionVars
<1>8. Recovering(d)'
  BY <1>6, <1>7 DEF Recovering
<1>9. QED
  BY <1>1, <1>4, <1>7, <1>8 DEF HeldBy

LEMMA HeldKept ==
  ASSUME TypeOK, LinkInv, Next
  PROVE  HeldInv'
<1>1. /\ held \in [Devices -> 0 .. Len(device)] /\ live \in [Devices -> 0 .. Len(device)]
      /\ phase \in [Devices -> {"none", "down", "connecting", "connected"}]
      /\ link \in [Transports -> {"disconnected", "established", "connected", "disconnecting"}]
      /\ lifecycle \in [Transports -> {"active", "closing", "closed"}]
      /\ platform \in [Devices -> {"down", "dialling", "up", "dropping", "redial"}]
      /\ 1 .. Len(device) \subseteq Transports
  BY Bounds DEF TypeOK, Transports
<1>2. ASSUME NEW d \in Devices
      PROVE  HeldBy(d) /\ (phase[d] = "connected" => held[d] \in 1 .. Len(device))
  BY <1>1 DEF LinkInv, HeldInv, HeldBy
<1>3. CASE Dial
  <2>1. /\ UNCHANGED <<held, lifecycle, live, chain>> /\ platform' = Dialled(Dev)
        /\ phase' = [phase EXCEPT ![Dev] = "connecting"] /\ phase[Dev] # "connected"
    BY <1>3, DialFacts DEF Dial, LinkInv, RunningInv
  <2>2. ASSUME NEW d \in Devices, d = Dev
        PROVE  HeldBy(d)'
    BY <1>1, <1>2, <1>3, <2>1, <2>2, DialFacts DEF HeldBy
  <2>3. ASSUME NEW d \in Devices, d # Dev
        PROVE  HeldBy(d)'
    <3>1. phase'[d] = phase[d] /\ platform'[d] = platform[d]
      BY <1>1, <2>1, <2>3 DEF Dialled
    <3>2. at' # "idle"
      BY <1>3 DEF Dial
    <3>3. QED
      BY <2>1, <3>1, <3>2, HeldAlone
  <2>4. QED
    BY <2>2, <2>3 DEF HeldInv
<1>4. CASE Working
  <2>1. ASSUME NEW d \in Devices, d # Dev
        PROVE  HeldBy(d)'
    <3>1. phase'[d] = phase[d] /\ held'[d] = held[d]
      BY <1>1, <1>4, <2>1 DEF Working, ClientStep, StartStep, ConnectStep, OpenStep,
             CloseStep, sessionVars, ConnectHeld, Starts, ConnectNew, DisconnectNone,
             DisconnectHeld, Teardown, RecoverStale, Stale, RecoverGiveUp,
             RecoverReconnect, PauseOver, Dial, Connected, ConnectFails, EndSession,
             SessionDropped, ConnectAborted, Discovered, DiscoverFails, SetupDropped,
             SetupAborted, OpenFails, Redial, RedialAborted, RedialUp, RedialDown,
             Rediscovered, RediscoverFails, Opened, OpenDead, CloseClosed, Closed,
             CloseQuiet, CloseEstablished, CloseOwned, CloseConnected, QueryUp, CloseDone,
             SetupDone, SetupFails
    <3>2. platform' \in {platform, Dialled(Dev), Released(Dev)}
      BY <1>4 DEF Working, ClientStep, StartStep, ConnectStep, OpenStep, CloseStep,
             sessionVars, ConnectHeld, Starts, ConnectNew, DisconnectNone, DisconnectHeld,
             Teardown, RecoverStale, Stale, RecoverGiveUp, RecoverReconnect, PauseOver,
             Dial, Connected, ConnectFails, EndSession, SessionDropped, ConnectAborted,
             Discovered, DiscoverFails, SetupDropped, SetupAborted, OpenFails, Redial,
             RedialAborted, RedialUp, RedialDown, Rediscovered, RediscoverFails, Opened,
             OpenDead, CloseClosed, Closed, CloseQuiet, CloseEstablished, CloseOwned,
             CloseConnected, QueryUp, CloseDone, SetupDone, SetupFails
    <3>3. platform'[d] = platform[d]
      BY <1>1, <1>4, <2>1, <3>2 DEF Dialled, Released
    <3>4. phase[d] = "connected" => held[d] # cur /\ held[d] \in Transports
      BY <1>1, <1>2, <1>4, <2>1, WorkingFacts DEF HeldBy
    <3>5. phase[d] = "connected" => lifecycle'[held[d]] = lifecycle[held[d]]
      BY <1>4, <3>4, ClientTouches DEF Working
    <3>6. phase[d] = "connected" /\ live[d] = held[d] => live'[d] = held[d]
      <4>1. \/ live' = live \/ live' = LiveWithout(cur)
            \/ live' = [live EXCEPT ![device'[cur]] = cur] /\ at \in {"discover", "settle"}
        BY <1>4 DEF Working, ClientStep, StartStep, ConnectStep, OpenStep, CloseStep,
               staticVars, ConnectHeld, Starts, ConnectNew, DisconnectNone,
               DisconnectHeld, Teardown, RecoverStale, RecoverGiveUp, RecoverReconnect,
               PauseOver, Dial, Connected, ConnectFails, EndSession, ConnectAborted,
               Discovered, OpenRegisters, Registered, DiscoverFails, SetupDropped,
               SetupAborted, OpenFails, Redial, RedialAborted, RedialUp, RedialDown,
               Rediscovered, RediscoverFails, Opened, OpenDead, CloseClosed, Closed,
               CloseQuiet, Gone, CloseEstablished, CloseOwned, CloseConnected, QueryUp,
               CloseDone, SetupDone, SetupFails
      <4>2. at \in {"discover", "settle"} => cur # 0
        BY DEF LinkInv, RunningInv, Attempting, Pairing
      <4>3. QED
        BY <1>1, <1>4, <2>1, <3>4, <4>1, <4>2, WorkingFacts DEF LiveWithout
    <3>7. Head(chain) # Op("recover", d, held[d])
      BY <2>1 DEF Dev, Op
    <3>8. QED
      BY <3>1, <3>3, <3>5, <3>6, <3>7, HeldAlone DEF Next
  <2>2. ASSUME NEW d \in Devices, d = Dev
        PROVE  HeldBy(d)'
    <3>1. CASE Opened
      <4>1. /\ held' = [held EXCEPT ![Dev] = cur] /\ phase' = [phase EXCEPT ![Dev] = "connected"]
            /\ at = "status" /\ lifecycle[cur] = "active"
            /\ UNCHANGED <<device, lifecycle, live, platform>>
        BY <3>1 DEF Opened, transportVars, staticVars
      <4>2. cur # 0 /\ live[Dev] = cur /\ platform[Dev] \in {"up", "dropping"}
        BY <4>1 DEF LinkInv, RunningInv, AttemptInv, Attempting
      <4>3. QED
        BY <1>1, <1>4, <2>2, <4>1, <4>2, WorkingFacts DEF HeldBy
    <3>2. CASE ConnectHeld \/ RecoverStale
      <4>1. UNCHANGED <<phase, held, lifecycle, live, platform>>
        BY <3>2 DEF ConnectHeld, RecoverStale, sessionVars, transportVars, staticVars
      <4>2. Head(chain) # Op("recover", Dev, held[Dev])
        BY <3>2 DEF ConnectHeld, RecoverStale, Starts, Stale, Op
      <4>3. QED
        BY <1>4, <2>2, <4>1, <4>2, HeldAlone
    <3>3. CASE ~Opened /\ ~ConnectHeld /\ ~RecoverStale
      <4>1. phase[Dev] # "connected" => held[Dev] = 0
        BY <1>2, <1>4, WorkingFacts DEF HeldBy
      <4>2. phase'[Dev] # "connected" /\ held'[Dev] = 0
        BY <1>1, <1>4, <3>3, <4>1, WorkingFacts DEF Working, ClientStep, StartStep,
               ConnectStep, OpenStep, CloseStep, sessionVars, ConnectHeld, Starts,
               ConnectNew, DisconnectNone, DisconnectHeld, Teardown, RecoverStale,
               Stale, RecoverGiveUp, RecoverReconnect, PauseOver, Dial, Connected,
               ConnectFails, EndSession, SessionDropped, ConnectAborted, Discovered,
               DiscoverFails, SetupDropped, SetupAborted, OpenFails, Redial,
               RedialAborted, RedialUp, RedialDown, Rediscovered, RediscoverFails,
               Opened, OpenDead, CloseClosed, Closed, CloseQuiet, CloseEstablished,
               CloseOwned, CloseConnected, QueryUp, CloseDone, SetupDone, SetupFails
      <4>3. QED
        BY <2>2, <4>2 DEF HeldBy
    <3>4. QED
      BY <3>1, <3>2, <3>3
  <2>3. QED
    BY <2>1, <2>2 DEF HeldInv
<1>5. ASSUME NEW e \in Devices, AskConnect(e) \/ AskDisconnect(e), NEW d \in Devices
      PROVE  HeldBy(d)'
  <2>1. UNCHANGED <<phase, held, lifecycle, live, at>>
    BY <1>5 DEF AskConnect, AskDisconnect, sessionVars, transportVars, staticVars
  <2>2. platform' = platform \/ platform' = Released(device[owner])
    BY <1>5 DEF AskConnect, AskDisconnect
  <2>3. platform'[d] \in {"down", "dialling", "redial"} => platform[d] \in {"down", "dialling", "redial"}
    BY <1>1, <2>2 DEF Released
  <2>4. PICK o : chain' = Append(chain, o)
    BY <1>5 DEF AskConnect, AskDisconnect
  <2>5. Recovering(d) => Recovering(d)'
    <3>1. ASSUME NEW i \in 1 .. Len(chain)
          PROVE  i \in 1 .. Len(chain') /\ chain'[i] = chain[i]
      BY <2>4 DEF TypeOK
    <3>2. QED
      BY <2>1, <3>1 DEF Recovering
  <2>6. device' = device
    BY <1>5 DEF AskConnect, AskDisconnect, transportVars
  <2>7. QED
    BY <1>2, <2>1, <2>3, <2>5, <2>6 DEF HeldBy
<1>6. ASSUME Outside, NEW d \in Devices
      PROVE  HeldBy(d)'
  <2>1. UNCHANGED <<phase, held, at>> /\ Next
    BY <1>6, OutsideSteps DEF Told, sessionVars, opVars
  <2>2. ASSUME NEW t \in 1 .. Len(device), Told(t), phase[d] = "connected" => t # held[d],
               platform'[d] \in {"down", "dialling", "redial"} => platform[d] \in {"down", "dialling", "redial"}
        PROVE  HeldBy(d)'
    <3>1. phase[d] = "connected" => lifecycle'[held[d]] = lifecycle[held[d]]
      BY <1>1, <1>2, <2>2, ToldEffect DEF Gone
    <3>2. phase[d] = "connected" /\ live[d] = held[d] => live'[d] = held[d]
      BY <1>1, <2>2, ToldEffect DEF Gone, LiveWithout
    <3>3. chain' = chain \/ \E o : chain' = Append(chain, o)
      BY <2>2, ToldEffect DEF WithRecovery
    <3>4. chain # <<>> => chain' # Tail(chain)
      BY <3>3 DEF TypeOK
    <3>5. QED
      BY <2>1, <2>2, <3>1, <3>2, <3>4, HeldAlone
  <2>3. ASSUME NEW e \in Devices, PlatformUp(e) \/ PlatformFails(e)
        PROVE  HeldBy(d)'
    <3>1. platform'[d] \in {"down", "dialling", "redial"} => platform[d] \in {"down", "dialling", "redial"}
      BY <1>1, <2>3 DEF PlatformUp, PlatformFails
    <3>2. UNCHANGED <<device, lifecycle, live, chain>>
      BY <2>3 DEF PlatformUp, PlatformFails, transportVars, staticVars, opVars
    <3>3. QED
      BY <1>2, <2>1, <3>1, <3>2 DEF HeldBy, Recovering
  <2>4. ASSUME NEW e \in Devices, PlatformDrop(e)
        PROVE  HeldBy(d)'
    <3>1. live[e] # 0 => live[e] \in 1 .. Len(device) /\ Told(live[e])
      BY <1>1, <2>4 DEF PlatformDrop, Told, opVars
    <3>2. d # e => platform'[d] = platform[d]
      BY <1>1, <2>4 DEF PlatformDrop
    <3>3. CASE live[e] = 0
      <4>1. UNCHANGED <<device, lifecycle, live, chain>>
        BY <2>4, <3>3 DEF PlatformDrop, transportVars, staticVars
      <4>2. phase[d] = "connected" /\ d = e => Recovering(d)
        BY <1>2, <3>3 DEF HeldBy
      <4>3. QED
        BY <1>2, <2>1, <3>2, <4>1, <4>2 DEF HeldBy, Recovering
    <3>4. CASE live[e] # 0 /\ phase[d] = "connected" /\ live[e] = held[d]
      BY <2>1, <3>1, <3>4, HeldTold
    <3>5. CASE live[e] # 0 /\ (phase[d] = "connected" => live[e] # held[d]) /\ d # e
      BY <2>2, <3>1, <3>2, <3>5
    <3>6. CASE live[e] # 0 /\ (phase[d] = "connected" => live[e] # held[d]) /\ d = e
      <4>1. CASE phase[d] = "connected"
        <5>1. Recovering(d)
          BY <1>2, <3>6, <4>1 DEF HeldBy
        <5>2. chain' = chain \/ \E o : chain' = Append(chain, o)
          BY <3>1, <3>6, ToldEffect DEF WithRecovery
        <5>3. chain # <<>> => chain' # Tail(chain)
          BY <5>2 DEF TypeOK
        <5>4. Recovering(d)'
          BY <2>1, <5>1, <5>3, RecoveringKept
        <5>5. device' = device
          BY <3>1, <3>6, ToldEffect
        <5>6. QED
          BY <1>2, <2>1, <5>4, <5>5 DEF HeldBy
      <4>2. CASE phase[d] # "connected"
        BY <1>2, <2>1, <4>2 DEF HeldBy
      <4>3. QED
        BY <4>1, <4>2
    <3>7. QED
      BY <3>3, <3>4, <3>5, <3>6
  <2>5. ASSUME NEW t \in Transports, LocalFault(t)
        PROVE  HeldBy(d)'
    <3>1. t \in 1 .. Len(device) /\ Told(t) /\ platform' = platform
      BY <2>5 DEF LocalFault, Told, Transports, TypeOK
    <3>2. CASE phase[d] = "connected" /\ t = held[d]
      BY <2>1, <3>1, <3>2, HeldTold
    <3>3. CASE phase[d] = "connected" => t # held[d]
      BY <2>2, <3>1, <3>3
    <3>4. QED
      BY <3>2, <3>3
  <2>6. QED
    BY <1>6, <2>3, <2>4, <2>5 DEF Outside
<1>7. QED
  BY <1>3, <1>4, <1>5, <1>6, NextCases DEF Working, HeldInv

-----------------------------------------------------------------------------
LEMMA InitLink ==
  ASSUME Init
  PROVE  TypeOK /\ LinkInv
<1>1. TypeOK
  <2>1. device = <<>> /\ Len(device) = 0 /\ chain = <<>> /\ Len(chain) = 0
    BY DEF Init
  <2>2. device \in Seq(Devices) /\ chain \in Seq(Ops)
    BY <2>1
  <2>3. aborted \in BOOLEAN
    BY DEF Init
  <2>4. 0 \in 0 .. Len(device) /\ 0 \in 0 .. MaxAttempts /\ Len(device) <= MaxAttempts
    BY <2>1, Bounds
  <2>5. QED
    BY <2>1, <2>2, <2>3, <2>4 DEF Init, TypeOK
<1>2. LinkInv
  BY <1>1 DEF Init, LinkInv, RecoverInv, FreshInv, RunningInv, SharedInv, ClosingInv, AttemptInv,
              HeldInv, HeldBy, Attempting, Closing, Pairing
<1>3. QED
  BY <1>1, <1>2

LEMMA StutterLink ==
  ASSUME TypeOK, LinkInv, UNCHANGED vars
  PROVE  TypeOK' /\ LinkInv'
<1> USE DEF vars, transportVars, staticVars, sessionVars, opVars
<1>1. TypeOK'
  BY DEF TypeOK
<1>2. Dev' = Dev /\ \A d \in Devices : HeldBy(d)' = HeldBy(d)
  BY DEF Dev, HeldBy, Recovering
<1>3. QED
  BY <1>1, <1>2 DEF LinkInv, RecoverInv, FreshInv, RunningInv, SharedInv, ClosingInv,
         AttemptInv, HeldInv

LEMMA LinkInductive == Spec => [](TypeOK /\ LinkInv)
<1>1. TypeOK /\ LinkInv /\ [Next]_vars => TypeOK' /\ LinkInv'
  <2>1. ASSUME TypeOK, LinkInv, Next
        PROVE  TypeOK' /\ LinkInv'
    BY <2>1, TypeKept, RecoverKept, FreshKept, RunningKept, SharedKept, ClosingKept, AttemptKept,
       HeldKept DEF LinkInv
  <2>2. QED
    BY <2>1, StutterLink
<1>2. QED
  BY <1>1, InitLink, PTL DEF Spec

\* Every state has the types the module gives it.
THEOREM TypeCorrect == Spec => []TypeOK
  BY LinkInductive, PTL

\* A closed transport owns no platform connect and is registered for no device
\* (_markBleDisconnected and _clearBleCallbacks, wherever a transport ends).
THEOREM ClosedForgotten == Spec => []ClosedIsForgotten
<1>1. TypeOK /\ LinkInv => ClosedIsForgotten
  BY DEF TypeOK, LinkInv, SharedInv, ClosedIsForgotten
<1>2. QED
  BY <1>1, LinkInductive, PTL

\* A link that is down under a connected session has its recovery on the chain
\* (_dispatchConnectionChange to onTransportFault to _scheduleFaultRecovery).
THEOREM EveryDropNoticed == Spec => []DropsNoticed
<1>1. TypeOK /\ LinkInv => DropsNoticed
  BY DEF TypeOK, LinkInv, HeldInv, HeldBy, Recovering, DropsNoticed
<1>2. QED
  BY <1>1, LinkInductive, PTL

\* abortPendingConnect finds the attempt that runs: it is the owner.
THEOREM AbortFindsAttempt == Spec => []AbortReachesAttempt
<1>1. TypeOK /\ LinkInv => AbortReachesAttempt
  BY DEF LinkInv, AttemptInv, AbortReachesAttempt
<1>2. QED
  BY <1>1, LinkInductive, PTL

\* A device is connecting only while the operation that connects it runs.
THEOREM ConnectingRuns == Spec => []ConnectingIsRunning
<1>1. TypeOK /\ LinkInv => ConnectingIsRunning
  BY DEF LinkInv, RunningInv, ConnectingIsRunning
<1>2. QED
  BY <1>1, LinkInductive, PTL

=============================================================================
