--------------------------- MODULE DiallingProofs ---------------------------
(***************************************************************************)
(* Theorems about Dialling, for every poll interval longer than an attempt *)
(* takes and every reply time.                                             *)
(***************************************************************************)
EXTENDS Dialling, AirPodsCoreClientProofs

(* What Progress rests on: sockets close at once, so that readiness is     *)
(* that of the connected socket, and one that waits for a reply has sent   *)
(* the packet.                                                             *)
SessionOK ==
    /\ ~late
    /\ protocolReady => IsConnected
    /\ AwaitsReply => setup \in {{"handshake"}, {"handshake", "features"}}

DiallingInv == DiallingTypeOK /\ SessionOK /\ Progress

LEMMA BoundTyped == Bound \in Nat
  BY DiallingAssumption DEF Bound

LEMMA DialTyped ==
    ASSUME ClientTypeOK, NEW r \in DialResults, ConnectToDevice(Device, "sync", r)
    PROVE  ClientTypeOK' /\ sock' = r /\ ~protocolReady' /\ late' = late
  BY ClientAssumption, DiallingAssumption
  DEF ConnectToDevice, reportVars, IsConnected, ClientTypeOK, SocketStates

LEMMA HangUpTyped ==
    ASSUME ClientTypeOK, SessionOK, IsConnected, DisconnectFromDevice("sync")
    PROVE  ClientTypeOK' /\ sock' = "null" /\ ~protocolReady' /\ late' = late
  BY DEF DisconnectFromDevice, ClosingSignals, reportVars, IsConnected, ClientTypeOK,
         SocketStates, SessionOK

LEMMA SeenTyped ==
    ASSUME NEW disturbed \in BOOLEAN, SyncBluezState(disturbed)
    PROVE  bluezConnected' \in BOOLEAN
  <1>1. PICK busOk \in BusResults : bluezConnected' = (busOk /\ up)
    BY DEF SyncBluezState
  <1> QED
    BY <1>1, Zenon

LEMMA BluezTyped ==
    ASSUME bluezConnected \in BOOLEAN, [Next]_vars
    PROVE  bluezConnected' \in BOOLEAN
  <1>1. CASE Poll \/ RefreshNow
    BY <1>1, SeenTyped DEF Poll, RefreshNow
  <1>2. CASE SocketConnected \/ HandshakeAck \/ FeaturesAck \/ SocketGone
    BY <1>2 DEF SocketConnected, HandshakeAck, FeaturesAck, SocketGone
  <1>3. CASE BluezChange \/ Tick \/ UNCHANGED vars
    BY <1>3 DEF BluezChange, Tick, vars, timeVars
  <1> QED
    BY <1>1, <1>2, <1>3 DEF Next

(* What syncBluezState leaves, when it runs at a poll (poll' is a whole    *)
(* interval) or at SIGUSR1 (the disturbance is certain).                   *)
LEMMA SyncKeeps ==
    ASSUME DiallingInv, NEW disturbed \in BOOLEAN, SyncBluezState(disturbed), up' = up,
           \/ poll = 0 /\ poll' = PollInterval
           \/ disturbed /\ poll' = poll
    PROVE  DiallingInv'
  <1> USE DiallingAssumption, BoundTyped
  <1>1. /\ quiet \in 0..(Bound + 1) /\ poll \in 0..PollInterval /\ age \in Nat
        /\ poll' = poll \/ poll' = PollInterval
        /\ up \in BOOLEAN /\ bluezConnected \in BOOLEAN /\ wedged \in BOOLEAN /\ ClientTypeOK
    BY DEF DiallingInv, DiallingTypeOK
  <1>1a. bluezConnected' \in BOOLEAN
    BY SeenTyped
  <1>2. PICK busOk \in BusResults :
          LET seen == busOk /\ up
          IN  \/ /\ WantsDial(seen)
                 /\ \E r \in DialResults :
                      /\ ConnectToDevice(Device, "sync", r)
                      /\ Disturbed(disturbed \/ r = "closed")
                 /\ age' = 0 /\ wedged' = FALSE
              \/ /\ ~seen /\ IsConnected
                 /\ DisconnectFromDevice("sync")
                 /\ Disturbed(TRUE)
                 /\ age' = 0 /\ wedged' = FALSE
              \/ /\ ~WantsDial(seen) /\ (seen \/ ~IsConnected)
                 /\ Disturbed(disturbed \/ ~busOk)
                 /\ UNCHANGED <<clientVars, age, wedged>>
    BY DEF SyncBluezState
  <1> DEFINE seen == busOk /\ up
  <1>3. ASSUME WantsDial(seen), age' = 0, wedged' = FALSE,
               NEW r \in DialResults, ConnectToDevice(Device, "sync", r),
               Disturbed(disturbed \/ r = "closed")
        PROVE  DiallingInv'
    <2>1. ClientTypeOK' /\ sock' = r /\ ~protocolReady' /\ late' = late
      BY <1>1, <1>3, DialTyped
    <2>2. r \in {"connecting", "closed"}
      BY ClientAssumption
    <2>3. (quiet' = 0 \/ quiet' = quiet) /\ (disturbed \/ r = "closed" => quiet' = 0)
      BY <1>3 DEF Disturbed
    <2>4. DiallingTypeOK'
      <3>1. quiet' \in 0..(Bound + 1) /\ poll' \in 0..PollInterval
        BY <1>1, <2>3
      <3>2. age' <= DialTime /\ age' \in Nat
        BY <1>3
      <3>3. wedged' \in BOOLEAN /\ up' \in BOOLEAN
        BY <1>1, <1>3, Zenon
      <3>4. ~AwaitsReply'
        BY <2>1, <2>2 DEF AwaitsReply, IsConnected
      <3> QED
        BY <1>1a, <2>1, <3>1, <3>2, <3>3, <3>4 DEF DiallingTypeOK
    <2>5. SessionOK'
      BY <2>1, <2>2 DEF DiallingInv, SessionOK, AwaitsReply, IsConnected
    <2>6. quiet' = 0 \/ (poll = 0 /\ poll' = PollInterval /\ quiet <= PollInterval)
      <3>1. CASE disturbed
        BY <2>3, <3>1
      <3>2. CASE poll = 0 /\ poll' = PollInterval
        <4>1. up /\ ~IsConnected
          BY <1>3 DEF WantsDial
        <4>2. sock = "connecting" => age <= DialTime
          BY DEF DiallingInv, DiallingTypeOK
        <4>3. quiet <= PollInterval
          BY <1>1, <3>2, <4>1, <4>2, PollSlowerThanDial
          DEF DiallingInv, Progress, AwaitsReply, IsConnected
        <4> QED
          BY <3>2, <4>3
      <3> QED
        BY <3>1, <3>2
    <2>7. Progress'
      BY <1>1, <1>3, <2>1, <2>2, <2>3, <2>6 DEF Progress
    <2> QED
      BY <2>4, <2>5, <2>7 DEF DiallingInv
  <1>4. ASSUME IsConnected, DisconnectFromDevice("sync"), Disturbed(TRUE),
               age' = 0, wedged' = FALSE
        PROVE  DiallingInv'
    <2>1. ClientTypeOK' /\ sock' = "null" /\ ~protocolReady' /\ late' = late
      BY <1>1, <1>4, HangUpTyped DEF DiallingInv
    <2>2. quiet' = 0
      BY <1>4 DEF Disturbed
    <2>3. ~AwaitsReply' /\ ~IsConnected'
      BY <2>1 DEF AwaitsReply, IsConnected
    <2>4. poll' \in 0..PollInterval
      BY <1>1
    <2>4a. wedged' \in BOOLEAN /\ up' \in BOOLEAN
      BY <1>1, <1>4, Zenon
    <2>5. DiallingTypeOK'
      BY <1>1a, <1>4, <2>1, <2>2, <2>3, <2>4, <2>4a DEF DiallingTypeOK
    <2>6. SessionOK'
      BY <2>1, <2>3 DEF DiallingInv, SessionOK
    <2>7. Progress'
      BY <1>1, <2>1, <2>2 DEF Progress
    <2> QED
      BY <2>5, <2>6, <2>7 DEF DiallingInv
  <1>5. ASSUME ~WantsDial(seen), seen \/ ~IsConnected,
               Disturbed(disturbed \/ ~busOk), UNCHANGED <<clientVars, age, wedged>>
        PROVE  DiallingInv'
    <2>1. UNCHANGED <<sock, late, protocolReady, setup, age, wedged>> /\ ClientTypeOK'
      BY <1>1, <1>5, ClientTyped DEF clientVars, sessionVars
    <2>2. (quiet' = 0 \/ quiet' = quiet) /\ (disturbed \/ ~busOk => quiet' = 0)
      BY <1>5 DEF Disturbed
    <2>3. DiallingTypeOK' /\ SessionOK'
      BY <1>1, <1>1a, <2>1, <2>2
      DEF DiallingInv, DiallingTypeOK, SessionOK, AwaitsReply, IsConnected
    <2>4. CASE IsConnected
      <3>1. Progress'
        BY <1>1, <2>1, <2>2, <2>4 DEF DiallingInv, Progress, AwaitsReply, IsConnected
      <3> QED
        BY <2>3, <3>1 DEF DiallingInv
    <2>5. CASE ~IsConnected
      <3>1. up => quiet' = 0
        BY <1>5, <2>2, <2>5 DEF WantsDial
      <3>2. Progress'
        BY <1>1, <2>1, <2>5, <3>1 DEF Progress, IsConnected, ClientTypeOK, SocketStates
      <3> QED
        BY <2>3, <3>2 DEF DiallingInv
    <2> QED
      BY <2>4, <2>5
  <1> QED
    BY <1>2, <1>3, <1>4, <1>5

LEMMA DiallingInvInit == Init => DiallingInv
  <1> SUFFICES ASSUME Init PROVE DiallingInv
    OBVIOUS
  <1>1. ClientTypeOK
    <2>1. NoEars \in EarStatuses
      BY DEF NoEars, EarStatuses, EarDetectionStatus
    <2> QED
      BY <2>1 DEF Init, ClientInit, ClientTypeOK, SocketStates, NoiseControlMode
  <1>2. sock = "null" /\ ~late /\ ~protocolReady /\ up \in BOOLEAN
        /\ poll = 0 /\ age = 0 /\ quiet = 0
        /\ bluezConnected = FALSE /\ wedged = FALSE
    BY DEF Init, ClientInit
  <1>2a. bluezConnected \in BOOLEAN /\ wedged \in BOOLEAN
    BY <1>2, Zenon
  <1>3. DiallingTypeOK
    BY <1>1, <1>2, <1>2a, DiallingAssumption, BoundTyped DEF DiallingTypeOK, AwaitsReply, IsConnected
  <1>4. SessionOK /\ Progress
    BY <1>2, DiallingAssumption DEF SessionOK, Progress, AwaitsReply, IsConnected
  <1> QED
    BY <1>3, <1>4 DEF DiallingInv

LEMMA DiallingInvKept ==
    ASSUME DiallingInv, [Next]_vars
    PROVE  DiallingInv'
  <1> USE DiallingAssumption, BoundTyped
  <1>0. /\ quiet \in 0..(Bound + 1) /\ poll \in 0..PollInterval /\ age \in Nat
        /\ up \in BOOLEAN /\ bluezConnected \in BOOLEAN /\ wedged \in BOOLEAN /\ ClientTypeOK
        /\ sock = "connecting" => age <= DialTime
        /\ AwaitsReply => age <= ReplyTime
    BY DEF DiallingInv, DiallingTypeOK
  <1>0a. bluezConnected' \in BOOLEAN
    BY <1>0, BluezTyped
  <1>1. CASE Poll
    BY <1>1, SyncKeeps DEF Poll
  <1>2. CASE RefreshNow
    BY <1>2, SyncKeeps DEF RefreshNow
  <1>3. CASE BluezChange
    <2>1. UNCHANGED <<sock, late, protocolReady, setup, age, wedged, poll>> /\ ClientTypeOK'
      BY <1>0, <1>3, ClientTyped DEF BluezChange, clientVars, sessionVars
    <2>2. quiet' = 0 /\ up' \in BOOLEAN
      BY <1>3 DEF BluezChange, Disturbed
    <2>3. DiallingTypeOK' /\ SessionOK'
      BY <1>0, <1>0a, <2>1, <2>2
      DEF DiallingInv, DiallingTypeOK, SessionOK, AwaitsReply, IsConnected
    <2>4. Progress'
      BY <1>0, <2>1, <2>2
      DEF DiallingInv, Progress, SessionOK, AwaitsReply, IsConnected, ClientTypeOK, SocketStates
    <2> QED
      BY <2>3, <2>4 DEF DiallingInv
  <1>4. CASE SocketConnected
    <2>1. PICK w \in WriteResults : OnSocketConnected(w) /\ wedged' = ~w
      BY <1>4 DEF SocketConnected
    <2>2. ClientTypeOK'
      BY <1>0, <2>1, ClientTyped
    <2>3. /\ sock = "connecting" /\ sock' = "connected"
          /\ setup' = IF w THEN {"handshake"} ELSE {}
          /\ UNCHANGED <<late, protocolReady>>
      BY <2>1 DEF OnSocketConnected
    <2>4. age' = 0 /\ UNCHANGED <<up, poll, quiet>>
      BY <1>4 DEF SocketConnected
    <2>5. w \in BOOLEAN
      BY ClientAssumption
    <2>6. DiallingTypeOK' /\ SessionOK'
      <3>1. wedged' \in BOOLEAN /\ age' <= ReplyTime /\ age' \in Nat
        BY <2>1, <2>4, <2>5
      <3>2. DiallingTypeOK'
        BY <1>0, <1>0a, <2>2, <2>3, <2>4, <3>1 DEF DiallingTypeOK
      <3>3. SessionOK'
        BY <2>1, <2>3, <2>5 DEF DiallingInv, SessionOK, AwaitsReply, IsConnected
      <3> QED
        BY <3>2, <3>3
    <2>7. up => quiet <= PollInterval + DialTime
      BY <1>0, <2>3 DEF DiallingInv, Progress, AwaitsReply, IsConnected
    <2>8. Progress'
      <3>1. CASE w
        BY <1>0, <2>1, <2>3, <2>4, <2>7, <3>1
        DEF Progress, AwaitsReply, IsConnected, DiallingInv, SessionOK
      <3>2. CASE ~w
        BY <2>1, <2>3, <3>2 DEF Progress, IsConnected
      <3> QED
        BY <3>1, <3>2
    <2> QED
      BY <2>6, <2>8 DEF DiallingInv
  <1>5. CASE HandshakeAck
    <2>1. PICK w \in WriteResults : OnHandshakeAck(w) /\ wedged' = ~w
      BY <1>5 DEF HandshakeAck
    <2>2. ClientTypeOK'
      BY <1>0, <2>1, ClientTyped
    <2>3. /\ AwaitsReply /\ setup = {"handshake"}
          /\ setup' = IF w THEN setup \union {"features"} ELSE setup
          /\ UNCHANGED <<sock, late, protocolReady>>
      BY <1>5, <2>1 DEF HandshakeAck, OnHandshakeAck
    <2>4. age' = 0 /\ UNCHANGED <<up, poll, quiet>>
      BY <1>5 DEF HandshakeAck
    <2>5. w \in BOOLEAN /\ setup' \in {{"handshake"}, {"handshake", "features"}}
          /\ (w => setup' = {"handshake", "features"})
      BY <2>3, ClientAssumption
    <2>6. DiallingTypeOK' /\ SessionOK'
      BY <1>0, <1>0a, <2>1, <2>2, <2>3, <2>4, <2>5
      DEF DiallingInv, DiallingTypeOK, SessionOK, AwaitsReply, IsConnected
    <2>7. up => quiet <= PollInterval + DialTime + ReplyTime
      BY <1>0, <2>3 DEF DiallingInv, Progress, AwaitsReply, IsConnected
    <2>8. Progress'
      <3>1. CASE w
        BY <1>0, <2>1, <2>3, <2>4, <2>5, <2>7, <3>1 DEF Progress, AwaitsReply, IsConnected
      <3>2. CASE ~w
        BY <2>1, <2>3, <3>2 DEF Progress, AwaitsReply, IsConnected
      <3> QED
        BY <3>1, <3>2
    <2> QED
      BY <2>6, <2>8 DEF DiallingInv
  <1>6. CASE FeaturesAck
    <2>1. PICK w \in WriteResults : OnFeaturesAck(w)
      BY <1>6 DEF FeaturesAck
    <2>2. ClientTypeOK'
      BY <1>0, <2>1, ClientTyped
    <2>3. IsConnected /\ protocolReady' /\ UNCHANGED <<sock, late>>
      BY <2>1 DEF OnFeaturesAck
    <2>4. age' = 0 /\ UNCHANGED <<up, poll, quiet, wedged>>
      BY <1>6 DEF FeaturesAck
    <2> QED
      BY <1>0, <1>0a, <2>2, <2>3, <2>4
      DEF DiallingInv, DiallingTypeOK, SessionOK, Progress, AwaitsReply, IsConnected
  <1>7. CASE SocketGone
    <2>1. ClientTypeOK'
      BY <1>0, <1>7, ClientTyped DEF SocketGone
    <2>2. sock' = "closed" /\ ~protocolReady' /\ late' = late
      BY <1>7 DEF SocketGone, OnSocketDisconnected, OnSocketError, DiallingInv, SessionOK,
                  IsConnected
    <2>3. age' = 0 /\ wedged' = FALSE /\ quiet' = 0 /\ UNCHANGED <<up, poll>>
      BY <1>7 DEF SocketGone, Disturbed
    <2>4. ~AwaitsReply' /\ ~IsConnected'
      BY <2>2 DEF AwaitsReply, IsConnected
    <2>4a. wedged' \in BOOLEAN /\ up' \in BOOLEAN
      BY <1>0, <2>3, Zenon
    <2>5. DiallingTypeOK'
      BY <1>0, <1>0a, <2>1, <2>2, <2>3, <2>4, <2>4a DEF DiallingTypeOK
    <2>6. SessionOK'
      BY <2>2, <2>4 DEF DiallingInv, SessionOK
    <2>7. Progress'
      BY <1>0, <2>2, <2>3 DEF Progress
    <2> QED
      BY <2>5, <2>6, <2>7 DEF DiallingInv
  <1>8. CASE Tick
    <2>1. UNCHANGED <<sock, late, protocolReady, setup, wedged, up>> /\ ClientTypeOK'
      BY <1>0, <1>8, ClientTyped DEF Tick, clientVars, sessionVars
    <2>2. /\ poll > 0 /\ poll' = poll - 1
          /\ sock = "connecting" => age < DialTime /\ age' = age + 1
          /\ AwaitsReply => age < ReplyTime /\ age' = age + 1
          /\ age' = age \/ age' = age + 1
          /\ quiet' = quiet + 1 \/ (quiet' = quiet /\ quiet = Bound + 1)
          /\ quiet' <= Bound + 1
      BY <1>0, <1>8 DEF Tick
    <2>3. DiallingTypeOK' /\ SessionOK'
      BY <1>0, <1>0a, <2>1, <2>2
      DEF DiallingInv, DiallingTypeOK, SessionOK, AwaitsReply, IsConnected
    <2>4. Progress'
      BY <1>0, <2>1, <2>2 DEF DiallingInv, Progress, AwaitsReply, IsConnected
    <2> QED
      BY <2>3, <2>4 DEF DiallingInv
  <1>9. CASE UNCHANGED vars
    <2>1. UNCHANGED <<sock, late, protocolReady, setup, age, wedged, poll, quiet, up>>
          /\ ClientTypeOK'
      BY <1>0, <1>9, ClientTyped DEF vars, timeVars, clientVars, sessionVars
    <2> QED
      BY <1>0a, <2>1
      DEF DiallingInv, DiallingTypeOK, SessionOK, Progress, AwaitsReply, IsConnected
  <1> QED
    BY <1>1, <1>2, <1>3, <1>4, <1>5, <1>6, <1>7, <1>8, <1>9 DEF Next

(* No attempt and no wait for a reply outlasts its limit, whatever polls,  *)
(* refreshes and link losses come (syncBluezState, connectToDevice).       *)
THEOREM DiallingTypeCorrect == Spec => []DiallingTypeOK
  <1>1. DiallingInv => DiallingTypeOK
    BY DEF DiallingInv
  <1> QED
    BY <1>1, DiallingInvInit, DiallingInvKept, PTL DEF Spec

(* Polls slower than a connection attempt get a session within one poll    *)
(* interval, one attempt and two replies of the last disturbance, for all  *)
(* values of the three times (syncBluezState, parseData).                  *)
THEOREM SessionInTime == Spec => []ReadyInTime
  <1>1. DiallingInv => ReadyInTime
    BY DiallingAssumption
    DEF DiallingInv, DiallingTypeOK, Progress, ReadyInTime, Bound, AwaitsReply, IsConnected
  <1> QED
    BY <1>1, DiallingInvInit, DiallingInvKept, PTL DEF Spec

(* The daemon's polls use the client as AirPodsCoreClient says an owner    *)
(* does: a poll makes at most one call, of those the module has, and every *)
(* reply and lost link is one of its socket signals (syncBluezState).      *)
THEOREM DiallingImplementsClient ==
    ASSUME "sync" \in CloseKinds
    PROVE  Spec => ClientSpec
  <1>1. Init => ClientInit
    BY DEF Init
  <1>2. [Next]_vars => [ClientNext]_clientVars
    <2> SUFFICES ASSUME [Next]_vars PROVE [ClientNext]_clientVars
      OBVIOUS
    <2>1. ASSUME NEW disturbed \in BOOLEAN, SyncBluezState(disturbed)
          PROVE  [ClientNext]_clientVars
      BY <2>1, DiallingAssumption DEF SyncBluezState, ClientNext
    <2>2. CASE Poll \/ RefreshNow
      BY <2>1, <2>2 DEF Poll, RefreshNow
    <2>3. CASE SocketConnected \/ HandshakeAck \/ FeaturesAck \/ SocketGone
      BY <2>3 DEF SocketConnected, HandshakeAck, FeaturesAck, SocketGone, ClientNext
    <2>4. CASE BluezChange \/ Tick \/ UNCHANGED vars
      BY <2>4 DEF BluezChange, Tick, vars
    <2> QED
      BY <2>2, <2>3, <2>4 DEF Next
  <1> QED
    BY <1>1, <1>2, PTL DEF Spec, ClientSpec

(* So what a poll finds ready was made ready on the socket it finds, also  *)
(* when polls and SIGUSR1 keep replacing the socket in mid-handshake.      *)
THEOREM DialledReadyAfterHandshake ==
    ASSUME "sync" \in CloseKinds
    PROVE  Spec => []ReadyAfterHandshake
  BY DiallingImplementsClient, ReadyNeedsHandshake, PTL
=============================================================================
