---------------------- MODULE AirPodsCoreClientProofs ----------------------
(***************************************************************************)
(* Theorems about AirPodsCoreClient, for every set of devices, of reports  *)
(* and of outcomes of the socket.                                          *)
(***************************************************************************)
EXTENDS AirPodsCoreClient, TLAPS

(* every method and every socket handler keeps the client's types *)
LEMMA ClientTyped ==
    ASSUME ClientTypeOK,
           \/ UNCHANGED clientVars
           \/ ClientReset
           \/ \E d \in Macs, k \in CloseKinds, r \in DialResults : ConnectToDevice(d, k, r)
           \/ \E k \in CloseKinds : DisconnectFromDevice(k)
           \/ \E w \in WriteResults : OnSocketConnected(w) \/ OnHandshakeAck(w) \/ OnFeaturesAck(w)
           \/ OnSocketDisconnected
           \/ OnLateDisconnected
           \/ OnSocketError
           \/ \E m \in NoiseReports : OnNoiseControl(m)
           \/ \E b \in CaReports : OnConversationalAwareness(b)
           \/ \E e \in EarReports : OnEarDetection(e)
           \/ OnOtherReport
    PROVE  ClientTypeOK'
  <1> USE ClientAssumption DEF ClientTypeOK, SocketStates, SetupPackets
  <1>1. CASE UNCHANGED clientVars \/ OnOtherReport
    BY <1>1 DEF clientVars, sessionVars, reportVars, OnOtherReport
  <1>2. CASE ClientReset
    BY <1>2 DEF ClientReset, NoEars, EarStatuses, EarDetectionStatus, NoiseControlMode
  <1>3. CASE \E d \in Macs, k \in CloseKinds, r \in DialResults : ConnectToDevice(d, k, r)
    BY <1>3 DEF ConnectToDevice, reportVars, IsConnected
  <1>4. CASE \E k \in CloseKinds : DisconnectFromDevice(k)
    BY <1>4 DEF DisconnectFromDevice, reportVars, IsConnected
  <1>5. CASE \E w \in WriteResults : OnSocketConnected(w) \/ OnHandshakeAck(w) \/ OnFeaturesAck(w)
    BY <1>5 DEF OnSocketConnected, OnHandshakeAck, OnFeaturesAck, reportVars
  <1>6. CASE OnSocketDisconnected \/ OnLateDisconnected \/ OnSocketError
    BY <1>6 DEF OnSocketDisconnected, OnLateDisconnected, OnSocketError, reportVars
  <1>7. CASE \E m \in NoiseReports : OnNoiseControl(m)
    BY <1>7 DEF OnNoiseControl, sessionVars
  <1>8. CASE \E b \in CaReports : OnConversationalAwareness(b)
    BY <1>8 DEF OnConversationalAwareness, sessionVars
  <1>9. CASE \E e \in EarReports : OnEarDetection(e)
    BY <1>9 DEF OnEarDetection, sessionVars
  <1> QED
    BY <1>1, <1>2, <1>3, <1>4, <1>5, <1>6, <1>7, <1>8, <1>9

(* The client's variables keep their types under every sequence of calls   *)
(* and socket events (connectToDevice to parseData).                       *)
THEOREM ClientTypeCorrect == ClientSpec => []ClientTypeOK
  <1>1. ClientInit => ClientTypeOK
    <2>1. NoEars \in EarStatuses
      BY DEF NoEars, EarStatuses, EarDetectionStatus
    <2> QED
      BY <2>1 DEF ClientInit, ClientTypeOK, SocketStates, NoiseControlMode
  <1>2. ClientTypeOK /\ [ClientNext]_clientVars => ClientTypeOK'
    BY ClientTyped DEF ClientNext
  <1> QED
    BY <1>1, <1>2, PTL DEF ClientSpec

----------------------------------------------------------------------------
(* What is true of set-up on one socket.  A socket that has connected has  *)
(* no older one left to speak, one that is connecting is not ready, and    *)
(* the packets go out in order.                                            *)
SetupInOrder ==
    /\ IsConnected => ~late
    /\ sock = "connecting" => ~protocolReady
    /\ "features" \in setup => "handshake" \in setup
    /\ protocolReady /\ IsConnected => "features" \in setup

LEMMA SetupInOrderKept ==
    ASSUME ClientTypeOK, SetupInOrder, [ClientNext]_clientVars
    PROVE  SetupInOrder'
  <1> USE DEF SetupInOrder, IsConnected
  <1>1. ASSUME NEW d \in Macs, NEW k \in CloseKinds, NEW r \in DialResults,
               ConnectToDevice(d, k, r)
        PROVE  SetupInOrder'
    BY <1>1, ClientAssumption DEF ConnectToDevice
  <1>2. ASSUME NEW k \in CloseKinds, DisconnectFromDevice(k)
        PROVE  SetupInOrder'
    BY <1>2 DEF DisconnectFromDevice
  <1>3. ASSUME NEW w \in WriteResults, OnSocketConnected(w)
        PROVE  SetupInOrder'
    BY <1>3 DEF OnSocketConnected
  <1>4. ASSUME NEW w \in WriteResults, OnHandshakeAck(w)
        PROVE  SetupInOrder'
    BY <1>4 DEF OnHandshakeAck
  <1>5. ASSUME NEW w \in WriteResults, OnFeaturesAck(w)
        PROVE  SetupInOrder'
    BY <1>5 DEF OnFeaturesAck
  <1>6. CASE OnSocketDisconnected
    BY <1>6 DEF OnSocketDisconnected
  <1>7. CASE OnLateDisconnected
    BY <1>7 DEF OnLateDisconnected
  <1>8. CASE OnSocketError
    BY <1>8 DEF OnSocketError
  <1>9. CASE UNCHANGED sessionVars
    BY <1>9 DEF sessionVars
  <1>10. CASE \/ \E m \in NoiseReports : OnNoiseControl(m)
              \/ \E b \in CaReports : OnConversationalAwareness(b)
              \/ \E e \in EarReports : OnEarDetection(e)
              \/ OnOtherReport
              \/ UNCHANGED clientVars
    BY <1>10, <1>9
    DEF OnNoiseControl, OnConversationalAwareness, OnEarDetection, OnOtherReport, clientVars
  <1> QED
    BY <1>1, <1>2, <1>3, <1>4, <1>5, <1>6, <1>7, <1>8, <1>10 DEF ClientNext

(* A ready protocol on a connected socket has sent handshake and features  *)
(* on that very socket, whatever was dialled before and however sockets    *)
(* close (connectToDevice resets the readiness of the one it replaces).    *)
THEOREM ReadyNeedsHandshake == ClientSpec => []ReadyAfterHandshake
  <1>1. ClientInit => SetupInOrder
    BY DEF ClientInit, SetupInOrder, IsConnected
  <1>2. SetupInOrder => ReadyAfterHandshake
    BY DEF SetupInOrder, ReadyAfterHandshake
  <1> QED
    BY <1>1, <1>2, SetupInOrderKept, ClientTypeCorrect, PTL DEF ClientSpec

(* disconnectFromDevice may leave the readiness to the disconnected        *)
(* handler as long as every connected socket that is closed does emit the  *)
(* signal, then or later.                                                  *)
THEOREM ReadyBelongsToSocket ==
    ASSUME "silent" \notin CloseKinds
    PROVE  ClientSpec => []ReadyImpliesSocket
  <1> USE DEF ReadyImpliesSocket, IsConnected
  <1>1. ClientInit => ReadyImpliesSocket
    BY DEF ClientInit
  <1>2. ASSUME ReadyImpliesSocket, ClientTypeOK, [ClientNext]_clientVars
        PROVE  ReadyImpliesSocket'
    <2>1. ASSUME NEW d \in Macs, NEW k \in CloseKinds, NEW r \in DialResults,
                 ConnectToDevice(d, k, r)
          PROVE  ReadyImpliesSocket'
      BY <2>1 DEF ConnectToDevice
    <2>2. ASSUME NEW k \in CloseKinds, DisconnectFromDevice(k)
          PROVE  ReadyImpliesSocket'
      <3>1. k \in {"sync", "late"}
        BY ClientAssumption
      <3> QED
        BY <1>2, <2>2, <3>1 DEF DisconnectFromDevice, ClosingSignals
    <2>3. CASE \E w \in WriteResults : OnSocketConnected(w) \/ OnHandshakeAck(w) \/ OnFeaturesAck(w)
      BY <1>2, <2>3 DEF OnSocketConnected, OnHandshakeAck, OnFeaturesAck
    <2>4. CASE OnSocketDisconnected \/ OnLateDisconnected \/ OnSocketError
      BY <1>2, <2>4 DEF OnSocketDisconnected, OnLateDisconnected, OnSocketError
    <2>5. CASE UNCHANGED sessionVars
      BY <1>2, <2>5 DEF sessionVars
    <2>6. CASE \/ \E m \in NoiseReports : OnNoiseControl(m)
               \/ \E b \in CaReports : OnConversationalAwareness(b)
               \/ \E e \in EarReports : OnEarDetection(e)
               \/ OnOtherReport
               \/ UNCHANGED clientVars
      BY <2>6, <2>5
      DEF OnNoiseControl, OnConversationalAwareness, OnEarDetection, OnOtherReport, clientVars
    <2> QED
      BY <1>2, <2>1, <2>2, <2>3, <2>4, <2>6 DEF ClientNext
  <1> QED
    BY <1>1, <1>2, ClientTypeCorrect, PTL DEF ClientSpec
============================================================================
