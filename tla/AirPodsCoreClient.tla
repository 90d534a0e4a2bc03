------------------------- MODULE AirPodsCoreClient -------------------------
(***************************************************************************)
(* The AACP client of src/linux/src/core/airpods_core_client.cpp: one      *)
(* L2CAP socket to one pair of AirPods, the three-packet handshake that    *)
(* makes the protocol ready, and the state last reported by the device.    *)
(*                                                                         *)
(* Each operator below is the effect of one method or one socket handler   *)
(* on the client's own variables.  The program that owns the client (the   *)
(* daemon, the one-shot CLI) runs its own slot for each signal inside the  *)
(* same call, so the owner's actions conjoin these operators with what its *)
(* slots do.  ClientSpec drives the client on its own.                     *)
(*                                                                         *)
(* QBluetoothSocket is external.  Closing it normally emits disconnected   *)
(* before close() returns; with bytes still queued the signal can come     *)
(* from the event loop later, or never, when deleteLater destroys the      *)
(* socket first.  CloseKinds says which of the three a run allows.         *)
(***************************************************************************)
EXTENDS Naturals

CONSTANTS
    Macs,          \* addresses of AirPods
    NoMac,         \* the empty address
    NoiseReports,  \* noise control modes the device may report
    CaReports,     \* conversational awareness values it may report
    EarReports,    \* ear statuses it may report, records of EarStatuses
    WriteResults,  \* outcomes of QBluetoothSocket::write: TRUE is written > 0
    DialResults,   \* state of a socket after connectToService
    CloseKinds     \* when a closed connected socket emits disconnected

NoiseControlMode == {"Off", "NoiseCancellation", "Transparency", "Adaptive"}

EarDetectionStatus == {"InEar", "NotInEar", "InCase", "Disconnected"}

EarStatuses == [primary : EarDetectionStatus, secondary : EarDetectionStatus]

(* "null" is no socket object, "closed" one that is not connected (any more) *)
SocketStates == {"null", "connecting", "connected", "closed"}

(* the packets the client writes while it sets a session up *)
SetupPackets == {"handshake", "features", "notifications"}

ASSUME ClientAssumption ==
    /\ NoMac \notin Macs
    /\ NoiseReports \subseteq NoiseControlMode
    /\ CaReports \subseteq BOOLEAN
    /\ EarReports \subseteq EarStatuses
    /\ WriteResults \subseteq BOOLEAN
    /\ DialResults \subseteq {"connecting", "closed"}
    /\ CloseKinds \subseteq {"sync", "late", "silent"}

VARIABLES
    sock,           \* socket_
    late,           \* a socket already closed will still emit disconnected
    protocolReady,  \* protocolReady_
    address,        \* state_.bluetoothAddress
    setup,          \* the set-up packets written on the current socket
    mode,           \* state_.noiseControlMode
    ca,             \* state_.conversationalAwareness
    ears            \* earDetection_: primary and secondary status

sessionVars == <<sock, late, protocolReady, address, setup>>
reportVars  == <<mode, ca, ears>>
clientVars  == <<sessionVars, reportVars>>

NoEars == [primary |-> "Disconnected", secondary |-> "Disconnected"]

ClientInit ==
    /\ sock = "null"
    /\ late = FALSE
    /\ protocolReady = FALSE
    /\ address = NoMac
    /\ setup = {}
    /\ mode = "Off"
    /\ ca = FALSE
    /\ ears = NoEars

(* a new process starts with a new client *)
ClientReset ==
    /\ sock' = "null" /\ late' = FALSE /\ protocolReady' = FALSE
    /\ address' = NoMac /\ setup' = {}
    /\ mode' = "Off" /\ ca' = FALSE /\ ears' = NoEars

(* The values the variables of the client take. *)
ClientTypeOK ==
    /\ sock \in SocketStates
    /\ late \in BOOLEAN
    /\ protocolReady \in BOOLEAN
    /\ address \in Macs \union {NoMac}
    /\ setup \subseteq SetupPackets
    /\ mode \in NoiseControlMode
    /\ ca \in BOOLEAN
    /\ ears \in EarStatuses

----------------------------------------------------------------------------
(* Methods the owner calls. *)

IsConnected == sock = "connected"

(* writePacket: true iff the packet went out; on false errorOccurred has   *)
(* been emitted.                                                           *)
Written(w) == IsConnected /\ w

(* close() on the current socket emits disconnected before it returns *)
ClosingSignals(k) ==
    \/ sock = "connecting"
    \/ IsConnected /\ k = "sync"

DisconnectFromDevice(k) ==
    /\ sock' = "null"
    /\ late' = (late \/ (IsConnected /\ k = "late"))
    /\ protocolReady' = (protocolReady /\ ~ClosingSignals(k))
    /\ setup' = {}
    /\ UNCHANGED <<address, reportVars>>

(* The previous socket, in any state, is closed and replaced.  The state   *)
(* the previous device reported stays.                                     *)
ConnectToDevice(d, k, r) ==
    /\ sock' = r
    /\ late' = (late \/ (IsConnected /\ k = "late"))
    /\ protocolReady' = FALSE
    /\ setup' = {}
    /\ address' = d
    /\ UNCHANGED reportVars

----------------------------------------------------------------------------
(* Socket signals.  A socket opened while an older one is still flushing   *)
(* completes no event before that one's disconnected.                      *)

OnSocketConnected(w) ==
    /\ sock = "connecting" /\ ~late
    /\ sock' = "connected"
    /\ setup' = IF w THEN {"handshake"} ELSE {}
    /\ UNCHANGED <<late, protocolReady, address, reportVars>>

(* a faulty variant: disconnected does not reset protocolReady_ *)
OnSocketDisconnectedStillReady ==
    /\ sock = "connected"
    /\ sock' = "closed"
    /\ UNCHANGED <<late, protocolReady, address, setup, reportVars>>

OnSocketDisconnected ==
    /\ sock = "connected"
    /\ sock' = "closed"
    /\ protocolReady' = FALSE
    /\ UNCHANGED <<late, address, setup, reportVars>>

(* disconnected of a socket the client has already let go of *)
OnLateDisconnected ==
    /\ late
    /\ late' = FALSE
    /\ protocolReady' = FALSE
    /\ UNCHANGED <<sock, address, setup, reportVars>>

(* a connection attempt fails *)
OnSocketError ==
    /\ sock = "connecting" /\ ~late
    /\ sock' = "closed"
    /\ UNCHANGED <<late, protocolReady, address, setup, reportVars>>

----------------------------------------------------------------------------
(* readyRead: one packet, parsed by parseData.  The device answers only    *)
(* what it was sent, and reports only to a peer that opened the protocol.  *)

(* a faulty variant: ready one step early *)
OnHandshakeAckReady(w) ==
    /\ IsConnected /\ "handshake" \in setup
    /\ setup' = IF w THEN setup \union {"features"} ELSE setup
    /\ protocolReady' = TRUE
    /\ UNCHANGED <<sock, late, address, reportVars>>

OnHandshakeAck(w) ==
    /\ IsConnected /\ "handshake" \in setup
    /\ setup' = IF w THEN setup \union {"features"} ELSE setup
    /\ UNCHANGED <<sock, late, protocolReady, address, reportVars>>

(* The protocol becomes ready whether or not the notifications request     *)
(* could be written.                                                       *)
OnFeaturesAck(w) ==
    /\ IsConnected /\ "features" \in setup
    /\ setup' = IF w THEN setup \union {"notifications"} ELSE setup
    /\ protocolReady' = TRUE
    /\ UNCHANGED <<sock, late, address, reportVars>>

CanReport == IsConnected /\ "handshake" \in setup

(* a faulty variant: parseMode without its range check *)
OnNoiseControlUnchecked(m) ==
    /\ CanReport
    /\ mode' \in {m, "Invalid"}
    /\ UNCHANGED <<sessionVars, ca, ears>>

OnNoiseControl(m) ==
    /\ CanReport
    /\ mode' = m
    /\ UNCHANGED <<sessionVars, ca, ears>>

OnConversationalAwareness(b) ==
    /\ CanReport
    /\ ca' = b
    /\ UNCHANGED <<sessionVars, mode, ears>>

OnEarDetection(e) ==
    /\ CanReport
    /\ ears' = e
    /\ UNCHANGED <<sessionVars, mode, ca>>

(* battery, hearing aid and metadata packets: stateChanged is emitted and  *)
(* none of the state kept here changes                                     *)
OnOtherReport ==
    /\ CanReport
    /\ UNCHANGED clientVars

----------------------------------------------------------------------------
(* The client driven by an owner that calls it at any time. *)

ClientNext ==
    \/ \E d \in Macs, k \in CloseKinds, r \in DialResults :
            ConnectToDevice(d, k, r)
    \/ \E k \in CloseKinds : DisconnectFromDevice(k)
    \/ \E w \in WriteResults : OnSocketConnected(w)
    \/ OnSocketDisconnected
    \/ OnLateDisconnected
    \/ OnSocketError
    \/ \E w \in WriteResults : OnHandshakeAck(w)
    \/ \E w \in WriteResults : OnFeaturesAck(w)
    \/ \E m \in NoiseReports : OnNoiseControl(m)
    \/ \E b \in CaReports : OnConversationalAwareness(b)
    \/ \E e \in EarReports : OnEarDetection(e)
    \/ OnOtherReport

ClientSpec == ClientInit /\ [][ClientNext]_clientVars

(* disconnectFromDevice leaves protocolReady_ to the disconnected handler. *)
(* As long as the socket does emit the signal, a ready protocol belongs to *)
(* the connected socket, or to one whose disconnected is on its way.       *)
ReadyImpliesSocket == protocolReady => IsConnected \/ late

(* A socket that replaces another one starts over: it is ready only after  *)
(* the device has answered the features packet written on this socket, so  *)
(* no handshake progress is carried from one socket to the next.           *)
ReadyAfterHandshake ==
    protocolReady /\ ~late /\ IsConnected => {"handshake", "features"} \subseteq setup
============================================================================
