------------------------ MODULE VibepodsDaemonProofs ------------------------
(***************************************************************************)
(* Theorems about VibepodsDaemon, for every set of devices and of CLI      *)
(* processes, every BlueZ order and every value of the other constants:    *)
(* its types, the bookkeeping of the pending control command, and the tie  *)
(* between a command, the session it was accepted on and the device the    *)
(* daemon manages.                                                         *)
(***************************************************************************)
EXTENDS VibepodsDaemon, AirPodsCoreClientProofs, TLAPS

(* TypeOK without the state file, whose type follows from the rest *)
CoreOK ==
    /\ ClientTypeOK
    /\ bluez \in [Macs -> {"absent", "paired", "connected"}]
    /\ selectedMac \in Macs \union {NoMac}
    /\ bluezConnected \in BOOLEAN
    /\ bluezName \in Macs \union {NoMac}
    /\ knownAddress \in Macs \union {NoMac}
    /\ knownEars \in EarStatuses
    /\ lastError \in BOOLEAN
    /\ slot \in SlotType
    /\ timers \subseteq PendingTimers
    /\ snapDelays \in Nat
    /\ caDelays \in Nat
    /\ conn \in [Clients -> ConnType]
    /\ phase \in {"down", "sync", "loop", "stopped"}

LEMMA NewestTyped ==
    ASSUME NEW old \in EarStatuses, NEW new \in EarStatuses
    PROVE  Newest(old, new) \in EarStatuses
  BY DEF Newest, EarStatuses, EarDetectionStatus

LEMMA StatusTyped == CoreOK => Status \in StatusType
  <1> SUFFICES ASSUME CoreOK PROVE Status \in StatusType
    OBVIOUS
  <1>1. InEar("primary") \in {"in", "out", "null"}
    BY DEF InEar
  <1>2. InEar("secondary") \in {"in", "out", "null"}
    BY DEF InEar
  <1> QED
    BY <1>1, <1>2 DEF CoreOK, ClientTypeOK, Status, StatusType, SessionReady, IsConnected

LEMMA StatusTypedNext == CoreOK' => (Status \in StatusType)'
  BY StatusTyped, PTL

LEMMA FileTyped ==
    ASSUME TypeOK, CoreOK', WriteStateFile
    PROVE  TypeOK'
  BY StatusTypedNext DEF TypeOK, CoreOK, WriteStateFile

LEMMA ReplyTyped ==
    ASSUME NEW cs \in [Clients -> ConnType], NEW c \in Clients \union {NoConn},
           NEW a \in ConnStates
    PROVE  Reply(cs, c, a) \in [Clients -> ConnType]
  BY DEF Reply, ConnType, ConnStates, Idle, NoReq, RequestType, NoiseControlMode

LEMMA NoSlotTyped == NoSlot \in SlotType
  BY DaemonAssumption DEF NoSlot, SlotType, Kinds, NoiseControlMode

SlotOK == slot \in SlotType /\ timers \subseteq PendingTimers /\ conn \in [Clients -> ConnType]

BluezOK ==
    /\ selectedMac \in Macs \union {NoMac}
    /\ bluezConnected \in BOOLEAN
    /\ bluezName \in Macs \union {NoMac}

KnownOK == knownAddress \in Macs \union {NoMac} /\ knownEars \in EarStatuses

RestOK ==
    /\ bluez \in [Macs -> {"absent", "paired", "connected"}]
    /\ lastError \in BOOLEAN
    /\ snapDelays \in Nat
    /\ caDelays \in Nat
    /\ phase \in {"down", "sync", "loop", "stopped"}

LEMMA CoreParts ==
    CoreOK <=> ClientTypeOK /\ SlotOK /\ BluezOK /\ KnownOK /\ RestOK
  BY DEF CoreOK, SlotOK, BluezOK, KnownOK, RestOK

LEMMA CorePartsNext ==
    CoreOK' <=> ClientTypeOK' /\ SlotOK' /\ BluezOK' /\ KnownOK' /\ RestOK'
  BY CoreParts, PTL

LEMMA FinishTyped ==
    ASSUME SlotOK, NEW a \in ConnStates, FinishPending(a)
    PROVE  SlotOK'
  <1>1. slot.sock \in Clients \union {NoConn}
    BY DEF SlotOK, SlotType
  <1>2. Reply(conn, slot.sock, a) \in [Clients -> ConnType]
    BY <1>1, ReplyTyped DEF SlotOK
  <1> QED
    BY <1>2, NoSlotTyped DEF SlotOK, FinishPending

LEMMA FailTyped ==
    ASSUME SlotOK, FailPending
    PROVE  SlotOK'
  <1>1. CASE Pending
    BY <1>1, FinishTyped DEF FailPending, ConnStates
  <1>2. CASE ~Pending
    BY <1>2 DEF FailPending, slotVars, SlotOK
  <1> QED
    BY <1>1, <1>2

LEMMA TryCompleteTyped ==
    ASSUME SlotOK, TryComplete
    PROVE  SlotOK'
  <1>1. CASE FinishPending("ok")
    BY <1>1, FinishTyped DEF ConnStates
  <1>2. CASE UNCHANGED slotVars
    BY <1>2 DEF slotVars, SlotOK
  <1> QED
    BY <1>1, <1>2 DEF TryComplete

LEMMA RememberTyped ==
    ASSUME KnownOK, ClientTypeOK', RememberKnownState
    PROVE  KnownOK'
  BY NewestTyped DEF KnownOK, ClientTypeOK, RememberKnownState

LEMMA RequestSnapshotTyped ==
    ASSUME SlotOK, RestOK, NEW w, RequestSnapshot(w)
    PROVE  SlotOK' /\ lastError' \in BOOLEAN /\ (UNCHANGED file \/ WriteStateFile)
  <1>1. CASE UNCHANGED <<lastError, slotVars>> /\ (UNCHANGED file \/ WriteStateFile)
    BY <1>1 DEF slotVars, SlotOK, RestOK
  <1>2. CASE ErrorOccurred /\ WriteStateFile
    BY <1>2, FailTyped DEF ErrorOccurred
  <1> QED
    BY <1>1, <1>2 DEF RequestSnapshot

(* what a handler may do to the state file *)
FileStep ==
    \/ UNCHANGED file
    \/ WriteStateFile
    \/ \E ok \in FileResults : file' = IF ok THEN [Status' EXCEPT !.address = address] ELSE file

LEMMA FileStepTyped ==
    ASSUME TypeOK, CoreOK', FileStep
    PROVE  TypeOK'
  <1>1. (Status \in StatusType)'
    BY StatusTypedNext
  <1>2. address \in Macs \union {NoMac}
    BY DEF TypeOK, ClientTypeOK
  <1>3. [Status' EXCEPT !.address = address] \in StatusType
    BY <1>1, <1>2 DEF StatusType
  <1>4. file' \in StatusType \union {NoFile}
    BY <1>1, <1>3 DEF FileStep, WriteStateFile, TypeOK
  <1> QED
    BY <1>4 DEF TypeOK, CoreOK

LEMMA AnswerTyped ==
    ASSUME SlotOK, RestOK, NEW c \in Clients, NEW a \in {"ok", "err"}, Answer(c, a)
    PROVE  SlotOK' /\ lastError' \in BOOLEAN /\ UNCHANGED <<delayVars, file>>
  <1>1. Reply(conn, c, a) \in [Clients -> ConnType]
    BY ReplyTyped DEF SlotOK, ConnStates
  <1> QED
    BY <1>1 DEF Answer, SlotOK, RestOK, delayVars

LEMMA ConnAfterErrorTyped ==
    ASSUME SlotOK
    PROVE  ConnAfterError \in [Clients -> ConnType]
  <1>1. slot.sock \in Clients \union {NoConn}
    BY DEF SlotOK, SlotType
  <1> QED
    BY <1>1, ReplyTyped DEF ConnAfterError, SlotOK, ConnStates

LEMMA CachedAnswerTyped ==
    ASSUME SlotOK, RestOK, NEW c \in Clients, NEW same, CachedAnswer(c, same)
    PROVE  SlotOK' /\ lastError' \in BOOLEAN /\ UNCHANGED delayVars /\ WriteStateFile
  <1>1. Reply(conn, c, "ok") \in [Clients -> ConnType]
    BY ReplyTyped DEF SlotOK, ConnStates
  <1>2. Reply(ConnAfterError, c, "ok") \in [Clients -> ConnType]
    BY ConnAfterErrorTyped, ReplyTyped DEF ConnStates
  <1> QED
    BY <1>1, <1>2, NoSlotTyped DEF CachedAnswer, SlotOK, RestOK

LEMMA AcceptedTyped ==
    ASSUME SlotOK, NEW c \in Clients
    PROVE  Accepted(c) \in [Clients -> ConnType]
  BY DEF SlotOK, Accepted, ConnType, ConnStates, Idle, NoReq, RequestType, NoiseControlMode

LEMMA CommandTyped ==
    ASSUME ClientTypeOK, NEW c \in Clients, NEW kind \in Kinds
    PROVE  Command(c, kind) \in SlotType
  BY NoSlotTyped DEF Command, Holder, SlotType, NoSlot, ClientTypeOK

LEMMA BeginFailsTyped ==
    ASSUME SlotOK, NEW c \in Clients, BeginFails(c)
    PROVE  SlotOK' /\ lastError' \in BOOLEAN /\ WriteStateFile
  <1>1. Reply(conn, c, "err") \in [Clients -> ConnType]
    BY ReplyTyped DEF SlotOK, ConnStates
  <1> QED
    BY <1>1, NoSlotTyped DEF BeginFails, SlotOK

LEMMA FirstIn ==
    ASSUME NEW S \in SUBSET Macs, S # {}
    PROVE  First(S) \in S
  BY ListAssumption DEF First

LEMMA SelectionTyped ==
    ASSUME NEW S \in SUBSET Macs
    PROVE  Selection(S) \in Macs \union {NoMac}
  <1> DEFINE up == {m \in S : bluez[m] = "connected"}
  <1>1. up \in SUBSET Macs
    OBVIOUS
  <1>2. up # {} => First(up) \in Macs
    BY <1>1, FirstIn
  <1>3. S # {} => First(S) \in Macs
    BY FirstIn
  <1> QED
    BY <1>2, <1>3 DEF Selection

LEMMA SyncTyped ==
    ASSUME TypeOK, SyncBluezState
    PROVE  CoreOK' /\ FileStep
  <1>0. ClientTypeOK /\ SlotOK /\ BluezOK /\ KnownOK /\ RestOK
    BY DEF TypeOK, SlotOK, BluezOK, KnownOK, RestOK
  <1>1. PICK busOk \in BusResults, k \in CloseKinds, r \in DialResults :
            SyncBluezState!(busOk, k, r)
    BY DEF SyncBluezState
  <1> DEFINE devices  == Listed(busOk)
             selected == IF ConfiguredMac = NoMac THEN Selection(devices) ELSE selectedMac
             target   == IF ConfiguredMac = NoMac THEN selected ELSE ConfiguredMac
  <1>2. selected \in Macs \union {NoMac}
    <2>1. devices \in SUBSET Macs
      BY DEF Listed
    <2> QED
      BY <1>0, <2>1, SelectionTyped DEF BluezOK
  <1>3. target \in Macs \union {NoMac}
    BY <1>2, DaemonAssumption
  <1>4. BluezOK'
    BY <1>1, <1>2, <1>3 DEF BluezOK
  <1>5. KnownOK'
    BY <1>0, <1>1, <1>3 DEF KnownOK
  <1>6. RestOK'
    BY <1>0, <1>1 DEF RestOK, delayVars
  <1>7. SlotOK'
    <2>1. FailPending \/ UNCHANGED slotVars
      BY <1>1
    <2> QED
      BY <1>0, <2>1, FailTyped DEF slotVars, SlotOK
  <1>8. ClientTypeOK'
    <2>1. target \in devices => target \in Macs
      BY DEF Listed
    <2>2. \/ UNCHANGED clientVars
          \/ target \in Macs /\ ConnectToDevice(target, k, r)
          \/ DisconnectFromDevice(k)
      BY <1>1, <2>1
    <2> QED
      BY <1>0, <2>2, ClientTyped
  <1>9. FileStep
    BY <1>1 DEF FileStep
  <1> QED
    BY <1>4, <1>5, <1>6, <1>7, <1>8, <1>9, CorePartsNext

LEMMA ProcessTyped ==
    ASSUME TypeOK, NEW c \in Clients, ProcessControlRequest(c)
    PROVE  CoreOK' /\ FileStep
  <1>0. ClientTypeOK /\ SlotOK /\ BluezOK /\ KnownOK /\ RestOK
    BY DEF TypeOK, SlotOK, BluezOK, KnownOK, RestOK
  <1>1. UNCHANGED <<clientVars, bluezVars, knownVars, phase, bluez>>
    BY DEF ProcessControlRequest, ProcessStatus, ProcessMode, ProcessCa, ProcessOther
  <1>2. ClientTypeOK' /\ BluezOK' /\ KnownOK'
    BY <1>0, <1>1, ClientTyped DEF BluezOK, KnownOK, bluezVars, knownVars
  <1>3. /\ bluez' \in [Macs -> {"absent", "paired", "connected"}]
        /\ phase' \in {"down", "sync", "loop", "stopped"}
    BY <1>0, <1>1 DEF RestOK
  <1>4. conn[c].req \in RequestType
    BY <1>0 DEF SlotOK, ConnType
  <1>5. SUFFICES SlotOK' /\ lastError' \in BOOLEAN /\ snapDelays' \in Nat
                 /\ caDelays' \in Nat /\ FileStep
    BY <1>2, <1>3, CorePartsNext DEF RestOK
  <1>6. CASE \E a \in {"ok", "err"} : Answer(c, a)
    BY <1>0, <1>6, AnswerTyped DEF RestOK, delayVars, FileStep
  <1>7. CASE \E same \in BOOLEAN : CachedAnswer(c, same)
    BY <1>0, <1>7, CachedAnswerTyped DEF RestOK, delayVars, FileStep
  <1>8. CASE BeginFails(c) /\ UNCHANGED delayVars
    BY <1>0, <1>8, BeginFailsTyped DEF RestOK, delayVars, FileStep
  <1>9. CASE ProcessStatus(c)
    <2>1. CASE /\ Begin(c, [Command(c, "Status") EXCEPT !.attempts = 1])
               /\ timers' = timers \union {"slot", "poll"}
               /\ UNCHANGED delayVars
               /\ UNCHANGED file \/ WriteStateFile
      <3>1. Command(c, "Status") \in SlotType
        BY <1>0, CommandTyped DEF Kinds
      <3>2. [Command(c, "Status") EXCEPT !.attempts = 1] \in SlotType
        BY <3>1, DaemonAssumption DEF SlotType
      <3> QED
        BY <1>0, <2>1, <3>2, AcceptedTyped
        DEF Begin, SlotOK, RestOK, delayVars, PendingTimers, FileStep
    <2>2. CASE /\ slot' = [NoSlot EXCEPT !.attempts = 1]
               /\ timers' = (timers \ PendingTimers) \union {"poll"}
               /\ conn' = Reply(conn, c, "err")
               /\ lastError' = TRUE
               /\ UNCHANGED delayVars
               /\ WriteStateFile
      <3>1. [NoSlot EXCEPT !.attempts = 1] \in SlotType
        BY NoSlotTyped, DaemonAssumption DEF SlotType
      <3>2. Reply(conn, c, "err") \in [Clients -> ConnType]
        BY <1>0, ReplyTyped DEF SlotOK, ConnStates
      <3> QED
        BY <1>0, <2>2, <3>1, <3>2 DEF SlotOK, RestOK, delayVars, PendingTimers, FileStep
    <2> QED
      BY <1>6, <1>9, <2>1, <2>2 DEF ProcessStatus
  <1>10. CASE ProcessMode(c)
    <2>1. CASE /\ Begin(c, [Command(c, "Mode") EXCEPT !.mode = conn[c].req.mode])
               /\ timers' = timers \union {"slot"}
               /\ snapDelays' = snapDelays + 1
               /\ UNCHANGED <<caDelays, file>>
      <3>1. Command(c, "Mode") \in SlotType
        BY <1>0, CommandTyped DEF Kinds
      <3>2. [Command(c, "Mode") EXCEPT !.mode = conn[c].req.mode] \in SlotType
        BY <1>4, <3>1 DEF SlotType, RequestType
      <3> QED
        BY <1>0, <2>1, <3>2, AcceptedTyped DEF Begin, SlotOK, RestOK, PendingTimers, FileStep
    <2>2. (mode = conn[c].req.mode) \in BOOLEAN
      OBVIOUS
    <2> QED
      BY <1>6, <1>7, <1>8, <1>10, <2>1, <2>2 DEF ProcessMode
  <1>11. CASE ProcessCa(c)
    <2>1. CASE /\ Begin(c, [Command(c, "Ca") EXCEPT !.ca = conn[c].req.on])
               /\ timers' = timers \union {"slot"}
               /\ caDelays' \in {caDelays, caDelays + 1}
               /\ snapDelays' \in {snapDelays, snapDelays + 1}
               /\ UNCHANGED file
      <3>1. Command(c, "Ca") \in SlotType
        BY <1>0, CommandTyped DEF Kinds
      <3>2. [Command(c, "Ca") EXCEPT !.ca = conn[c].req.on] \in SlotType
        BY <1>4, <3>1 DEF SlotType, RequestType
      <3> QED
        BY <1>0, <2>1, <3>2, AcceptedTyped DEF Begin, SlotOK, RestOK, PendingTimers, FileStep
    <2>2. (ca = conn[c].req.on) \in BOOLEAN
      OBVIOUS
    <2> QED
      BY <1>6, <1>7, <1>8, <1>11, <2>1, <2>2 DEF ProcessCa
  <1>12. CASE ProcessOther(c)
    BY <1>6, <1>12 DEF ProcessOther
  <1> QED
    BY <1>9, <1>10, <1>11, <1>12 DEF ProcessControlRequest

LEMMA ProcessGoneTyped ==
    ASSUME TypeOK, ProcessGone, phase' = "down"
    PROVE  CoreOK' /\ FileStep
  <1>0. ClientTypeOK /\ SlotOK /\ RestOK
    BY DEF TypeOK, SlotOK, RestOK
  <1>1. ClientTypeOK'
    BY <1>0, ClientTyped DEF ProcessGone
  <1>2. \A c \in Clients : conn[c] \in ConnType /\ [conn[c] EXCEPT !.st = "lost"] \in ConnType
    BY <1>0 DEF SlotOK, ConnType, ConnStates
  <1>3. Idle \in ConnType
    BY DEF Idle, ConnType, ConnStates, NoReq, RequestType, NoiseControlMode
  <1>4. conn' \in [Clients -> ConnType]
    BY <1>2, <1>3 DEF ProcessGone
  <1>5. SlotOK'
    BY <1>4, NoSlotTyped DEF ProcessGone, SlotOK
  <1>6. BluezOK' /\ KnownOK' /\ RestOK'
    BY <1>0 DEF ProcessGone, BluezOK, KnownOK, RestOK, NoEars, EarStatuses, EarDetectionStatus
  <1> QED
    BY <1>1, <1>5, <1>6, CorePartsNext DEF ProcessGone, FileStep

(* Each action keeps the types of everything but the file, and changes the *)
(* file by FileStep.                                                       *)
LEMMA ActionTyped ==
    ASSUME TypeOK, Next
    PROVE  CoreOK' /\ FileStep
  <1>0. ClientTypeOK /\ SlotOK /\ BluezOK /\ KnownOK /\ RestOK
    BY DEF TypeOK, SlotOK, BluezOK, KnownOK, RestOK
  <1> USE DEF FileStep, daemonVars, bluezVars, knownVars, slotVars, delayVars
  <1>1. CASE BluezChange
    <2>1. bluez' \in [Macs -> {"absent", "paired", "connected"}]
      BY <1>0, <1>1, DaemonAssumption DEF BluezChange, RestOK
    <2>2. ClientTypeOK'
      BY <1>0, <1>1, ClientTyped DEF BluezChange
    <2> QED
      BY <1>0, <1>1, <2>1, <2>2, CorePartsNext DEF BluezChange, SlotOK, BluezOK, KnownOK, RestOK
  <1>2. ASSUME NEW c \in Clients, ClientSend(c) PROVE CoreOK' /\ FileStep
    <2>1. \A r \in Requests : [st |-> "sent", req |-> r] \in ConnType
      BY DaemonAssumption DEF ConnType, ConnStates
    <2>2. conn' \in [Clients -> ConnType]
      BY <1>0, <1>2, <2>1 DEF ClientSend, SlotOK
    <2>3. ClientTypeOK'
      BY <1>0, <1>2, ClientTyped DEF ClientSend
    <2> QED
      BY <1>0, <1>2, <2>2, <2>3, CorePartsNext DEF ClientSend, SlotOK, BluezOK, KnownOK, RestOK
  <1>3. ASSUME NEW c \in Clients, ClientGone(c) PROVE CoreOK' /\ FileStep
    <2>1. Idle \in ConnType /\ [conn[c] EXCEPT !.st = "left"] \in ConnType
      BY <1>0 DEF SlotOK, Idle, ConnType, ConnStates, NoReq, RequestType, NoiseControlMode
    <2>2. conn' \in [Clients -> ConnType]
      BY <1>0, <1>3, <2>1 DEF ClientGone, SlotOK
    <2>3. slot' \in SlotType
      BY <1>0, <1>3 DEF ClientGone, SlotOK, SlotType
    <2>4. ClientTypeOK'
      BY <1>0, <1>3, ClientTyped DEF ClientGone
    <2> QED
      BY <1>0, <1>3, <2>2, <2>3, <2>4, CorePartsNext DEF ClientGone, SlotOK, BluezOK, KnownOK, RestOK
  <1>4. ASSUME NEW c \in Clients, ClientDone(c) PROVE CoreOK' /\ FileStep
    <2>1. conn' \in [Clients -> ConnType]
      BY <1>0, <1>4 DEF ClientDone, SlotOK, Idle, ConnType, ConnStates, NoReq, RequestType, NoiseControlMode
    <2>2. ClientTypeOK'
      BY <1>0, <1>4, ClientTyped DEF ClientDone
    <2> QED
      BY <1>0, <1>4, <2>1, <2>2, CorePartsNext DEF ClientDone, SlotOK, BluezOK, KnownOK, RestOK
  <1>5. ASSUME NEW c \in Clients, ProcessControlRequest(c) PROVE CoreOK' /\ FileStep
    BY <1>5, ProcessTyped
  <1>6. CASE Start
    <2>1. ClientTypeOK'
      BY <1>0, <1>6, ClientTyped DEF Start
    <2> QED
      BY <1>0, <1>6, <2>1, CorePartsNext DEF Start, SlotOK, BluezOK, KnownOK, RestOK
  <1>7. CASE SyncBluezState
    BY <1>7, SyncTyped
  <1>8. CASE RefreshNow
    <2>1. ClientTypeOK'
      BY <1>0, <1>8, ClientTyped DEF RefreshNow
    <2>2. SlotOK' /\ lastError' \in BOOLEAN /\ FileStep
      BY <1>0, <1>8, RequestSnapshotTyped DEF RefreshNow
    <2> QED
      BY <1>0, <1>8, <2>1, <2>2, CorePartsNext DEF RefreshNow, BluezOK, KnownOK, RestOK
  <1>9. CASE Quit
    <2>1. ClientTypeOK'
      BY <1>0, <1>9, ClientTyped DEF Quit
    <2>2. SlotOK'
      BY <1>0, <1>9, FailTyped DEF Quit
    <2> QED
      BY <1>0, <1>9, <2>1, <2>2, CorePartsNext DEF Quit, BluezOK, KnownOK, RestOK
  <1>10. CASE Exit \/ Crash
    BY <1>10, ProcessGoneTyped DEF Exit, Crash, ProcessGone
  <1>11. CASE SocketConnected
    <2>1. ClientTypeOK'
      BY <1>0, <1>11, ClientTyped DEF SocketConnected
    <2>2. SlotOK'
      BY <1>0, <1>11, FailTyped DEF SocketConnected, SlotOK
    <2>3. KnownOK'
      BY <1>0, <1>11, <2>1, RememberTyped DEF SocketConnected
    <2> QED
      BY <1>0, <1>11, <2>1, <2>2, <2>3, CorePartsNext DEF SocketConnected, BluezOK, RestOK
  <1>12. CASE SocketDisconnected \/ LateDisconnected \/ SocketError
    <2>1. ClientTypeOK'
      BY <1>0, <1>12, ClientTyped DEF SocketDisconnected, LateDisconnected, SocketError
    <2>2. SlotOK'
      BY <1>0, <1>12, FailTyped DEF SocketDisconnected, LateDisconnected, SocketError, ErrorOccurred
    <2>3. lastError' \in BOOLEAN
      BY <1>0, <1>12 DEF SocketDisconnected, LateDisconnected, SocketError, ErrorOccurred, RestOK
    <2> QED
      BY <1>0, <1>12, <2>1, <2>2, <2>3, CorePartsNext
      DEF SocketDisconnected, LateDisconnected, SocketError, BluezOK, KnownOK, RestOK
  <1>13. CASE HandshakeAck
    <2>1. ClientTypeOK'
      BY <1>0, <1>13, ClientTyped DEF HandshakeAck
    <2>2. SlotOK' /\ lastError' \in BOOLEAN
      BY <1>0, <1>13, FailTyped DEF HandshakeAck, ErrorOccurred, SlotOK, RestOK
    <2> QED
      BY <1>0, <1>13, <2>1, <2>2, CorePartsNext DEF HandshakeAck, BluezOK, KnownOK, RestOK
  <1>14. CASE FeaturesAck
    <2>1. ClientTypeOK'
      BY <1>0, <1>14, ClientTyped DEF FeaturesAck
    <2>2. SlotOK' /\ lastError' \in BOOLEAN
      BY <1>0, <1>14, FailTyped DEF FeaturesAck, ErrorOccurred, SlotOK, RestOK, BluezOK
    <2>3. KnownOK'
      BY <1>0, <1>14, <2>1, RememberTyped DEF FeaturesAck, KnownOK
    <2> QED
      BY <1>0, <1>14, <2>1, <2>2, <2>3, CorePartsNext DEF FeaturesAck, BluezOK, RestOK
  <1>15. CASE NoiseReport \/ CaReport \/ EarReport \/ OtherReport
    <2>1. ClientTypeOK'
      BY <1>0, <1>15, ClientTyped DEF NoiseReport, CaReport, EarReport, OtherReport
    <2>2. KnownOK' /\ BluezOK' /\ RestOK'
      BY <1>0, <1>15, <2>1, RememberTyped
      DEF NoiseReport, CaReport, EarReport, OtherReport, StateChanged, BluezOK, RestOK
    <2>3. SlotOK'
      <3>1. CASE TryComplete
        BY <1>0, <3>1, TryCompleteTyped
      <3>2. CASE /\ slot' = [slot EXCEPT !.fresh = TRUE]
                 /\ timers' = (timers \ {"poll"}) \union {"settle"}
                 /\ UNCHANGED conn
        BY <1>0, <3>2 DEF SlotOK, SlotType, PendingTimers
      <3> QED
        BY <1>15, <3>1, <3>2 DEF NoiseReport, CaReport, EarReport, OtherReport
    <2> QED
      BY <1>15, <2>1, <2>2, <2>3, CorePartsNext DEF NoiseReport, CaReport, EarReport, OtherReport
  <1>16. CASE SlotTimeout \/ StatusSettle
    <2>1. ClientTypeOK'
      BY <1>0, <1>16, ClientTyped DEF SlotTimeout, StatusSettle
    <2>2. SlotOK'
      <3>1. CASE \E a \in {"ok", "err"} : FinishPending(a)
        BY <1>0, <3>1, FinishTyped DEF ConnStates
      <3>2. CASE timers' = timers \ {"settle"} /\ UNCHANGED <<slot, conn>>
        BY <1>0, <3>2 DEF SlotOK
      <3> QED
        BY <1>16, <3>1, <3>2 DEF SlotTimeout, StatusSettle
    <2> QED
      BY <1>0, <1>16, <2>1, <2>2, CorePartsNext DEF SlotTimeout, StatusSettle, BluezOK, KnownOK, RestOK
  <1>17. CASE StatusPoll
    <2>1. ClientTypeOK'
      BY <1>0, <1>17, ClientTyped DEF StatusPoll
    <2>2. CASE timers' = timers \ {"poll"} /\ UNCHANGED <<lastError, slot, conn, file>>
      BY <1>0, <1>17, <2>1, <2>2, CorePartsNext DEF StatusPoll, SlotOK, BluezOK, KnownOK, RestOK
    <2>3. CASE /\ slot.attempts < StatusPollLimit
               /\ slot' = [slot EXCEPT !.attempts = @ + 1]
               /\ UNCHANGED <<lastError, timers, conn>>
               /\ UNCHANGED file \/ WriteStateFile
      <3>1. slot' \in SlotType
        BY <1>0, <2>3, DaemonAssumption DEF SlotOK, SlotType
      <3> QED
        BY <1>0, <1>17, <2>1, <2>3, <3>1, CorePartsNext DEF StatusPoll, SlotOK, BluezOK, KnownOK, RestOK
    <2>4. CASE /\ slot' = [NoSlot EXCEPT !.attempts = 1]
               /\ timers' = timers \ PendingTimers
               /\ conn' = ConnAfterError
               /\ lastError' = TRUE
               /\ WriteStateFile
      <3>1. slot' \in SlotType
        BY <2>4, NoSlotTyped, DaemonAssumption DEF SlotType
      <3>2. conn' \in [Clients -> ConnType]
        BY <1>0, <2>4, ConnAfterErrorTyped
      <3> QED
        BY <1>0, <1>17, <2>1, <2>4, <3>1, <3>2, CorePartsNext
        DEF StatusPoll, SlotOK, BluezOK, KnownOK, RestOK
    <2> QED
      BY <1>17, <2>2, <2>3, <2>4 DEF StatusPoll
  <1>18. CASE SnapshotDelay \/ SnapshotTimer
    <2>1. ClientTypeOK'
      BY <1>0, <1>18, ClientTyped DEF SnapshotDelay, SnapshotTimer
    <2>2. SlotOK' /\ lastError' \in BOOLEAN /\ FileStep
      BY <1>0, <1>18, RequestSnapshotTyped DEF SnapshotDelay, SnapshotTimer
    <2> QED
      BY <1>0, <1>18, <2>1, <2>2, CorePartsNext DEF SnapshotDelay, SnapshotTimer, BluezOK, KnownOK, RestOK
  <1>19. CASE CaDelay
    <2>1. ClientTypeOK'
      BY <1>0, <1>19, ClientTyped DEF CaDelay
    <2>2. SlotOK' /\ lastError' \in BOOLEAN /\ FileStep
      BY <1>0, <1>19, FailTyped DEF CaDelay, ErrorOccurred, SlotOK, RestOK
    <2>3. snapDelays' \in Nat /\ caDelays' \in Nat
      BY <1>0, <1>19 DEF CaDelay, RestOK
    <2> QED
      BY <1>0, <1>19, <2>1, <2>2, <2>3, CorePartsNext DEF CaDelay, BluezOK, KnownOK, RestOK
  <1> QED
    BY <1>1, <1>2, <1>3, <1>4, <1>5, <1>6, <1>7, <1>8, <1>9, <1>10, <1>11, <1>12, <1>13,
       <1>14, <1>15, <1>16, <1>17, <1>18, <1>19 DEF Next

LEMMA StutterTyped ==
    ASSUME TypeOK, UNCHANGED vars
    PROVE  TypeOK'
  BY DEF TypeOK, ClientTypeOK, vars, clientVars, sessionVars, reportVars, daemonVars,
         bluezVars, knownVars, delayVars

LEMMA InitTyped == Init => TypeOK
  <1> SUFFICES ASSUME Init PROVE TypeOK
    OBVIOUS
  <1>1. ClientTypeOK
    BY DEF Init, ClientInit, ClientTypeOK, SocketStates, NoEars, EarStatuses,
           EarDetectionStatus, NoiseControlMode
  <1>2. conn \in [Clients -> ConnType]
    BY DEF Init, ConnType, ConnStates, Idle, NoReq, RequestType, NoiseControlMode
  <1>3. bluez \in [Macs -> {"absent", "paired", "connected"}]
    BY DaemonAssumption DEF Init
  <1>4. knownEars \in EarStatuses
    BY DEF Init, NoEars, EarStatuses, EarDetectionStatus
  <1> QED
    BY <1>1, <1>2, <1>3, <1>4, NoSlotTyped DEF Init, TypeOK

(* Type correctness of the daemon and its client, through every handler,   *)
(* for any number of devices and of CLI processes.                         *)
THEOREM TypeCorrect == Spec => []TypeOK
  <1>1. TypeOK /\ [Next]_vars => TypeOK'
    BY ActionTyped, FileStepTyped, StutterTyped
  <1> QED
    BY InitTyped, <1>1, PTL DEF Spec

----------------------------------------------------------------------------
(* SlotInv *)

LEMMA ReplyKeepsOwners ==
    ASSUME TypeOK, NEW cs \in [Clients -> ConnType], NEW c \in Clients,
           NEW a \in {"ok", "err"}, NEW d \in Clients
    PROVE  Reply(cs, c, a)[d].st = "waiting" <=> d # c /\ cs[d].st = "waiting"
  <1>1. c # NoConn
    BY DaemonAssumption
  <1>2. CASE d # c
    BY <1>1, <1>2 DEF Reply
  <1>3. CASE d = c
    BY <1>1, <1>3 DEF Reply, Idle, ConnType
  <1> QED
    BY <1>2, <1>3

LEMMA UnchangedKeepsSlot ==
    ASSUME SlotInv, UNCHANGED slotVars
    PROVE  SlotInv'
  BY DEF SlotInv, OneOwner, SlotTimers, Pending, slotVars

LEMMA ClearedKeepsSlot ==
    ASSUME TypeOK, SlotInv, NEW a \in {"ok", "err"},
           slot'.kind = "None", slot'.sock = NoConn,
           timers' = timers \ PendingTimers,
           conn' = Reply(conn, slot.sock, a)
    PROVE  SlotInv'
  <1>1. /\ slot.sock \in Clients \union {NoConn}
        /\ conn \in [Clients -> ConnType]
        /\ NoConn \notin Clients
    BY DaemonAssumption DEF TypeOK, SlotType
  <1>2. \A d \in Clients : conn'[d].st # "waiting"
    <2>1. CASE slot.sock = NoConn
      BY <1>1, <2>1 DEF Reply, SlotInv, OneOwner
    <2>2. CASE slot.sock # NoConn
      BY <1>1, <2>2, ReplyKeepsOwners DEF SlotInv, OneOwner
    <2> QED
      BY <2>1, <2>2
  <1>3. OneOwner'
    BY <1>1, <1>2 DEF OneOwner
  <1>4. SlotTimers'
    BY DEF SlotTimers, Pending, PendingTimers
  <1> QED
    BY <1>3, <1>4 DEF SlotInv

LEMMA FinishKeepsSlot ==
    ASSUME TypeOK, SlotInv, NEW a \in {"ok", "err"}, FinishPending(a)
    PROVE  SlotInv'
  BY ClearedKeepsSlot DEF FinishPending, NoSlot

LEMMA FailKeepsSlot ==
    ASSUME TypeOK, SlotInv, FailPending
    PROVE  SlotInv'
  BY FinishKeepsSlot, UnchangedKeepsSlot DEF FailPending

LEMMA TryCompleteKeepsSlot ==
    ASSUME TypeOK, SlotInv, TryComplete
    PROVE  SlotInv'
  BY FinishKeepsSlot, UnchangedKeepsSlot DEF TryComplete

LEMMA RequestSnapshotKeepsSlot ==
    ASSUME TypeOK, SlotInv, NEW w, RequestSnapshot(w)
    PROVE  SlotInv'
  BY FailKeepsSlot, UnchangedKeepsSlot DEF RequestSnapshot, ErrorOccurred, slotVars

(* an answer to a request that is not the pending one *)
LEMMA AnswerKeepsSlot ==
    ASSUME TypeOK, SlotInv, NEW c \in Clients, conn[c].st \in {"sent", "left"},
           NEW a \in {"ok", "err"}, conn' = Reply(conn, c, a), UNCHANGED <<slot, timers>>
    PROVE  SlotInv'
  <1>1. \A d \in Clients : conn'[d].st = "waiting" <=> conn[d].st = "waiting"
    BY ReplyKeepsOwners DEF TypeOK
  <1> QED
    BY <1>1 DEF SlotInv, OneOwner, SlotTimers, Pending

(* nothing is pending and a request is refused at once, whatever becomes   *)
(* of the poll timer                                                       *)
LEMMA RefusedKeepsSlot ==
    ASSUME TypeOK, SlotInv, ~Pending, NEW c \in Clients, conn[c].st \in {"sent", "left"},
           conn' = Reply(conn, c, "err"), slot'.kind = "None", slot'.sock = NoConn,
           timers' \subseteq {"poll"}
    PROVE  SlotInv'
  <1>0. \A d \in Clients : conn[d].st # "waiting"
    BY DaemonAssumption DEF SlotInv, OneOwner
  <1>1. \A d \in Clients : conn'[d].st # "waiting"
    BY <1>0, ReplyKeepsOwners DEF TypeOK
  <1>2. OneOwner'
    BY <1>1, DaemonAssumption DEF OneOwner
  <1>3. SlotTimers'
    BY DEF SlotTimers, Pending
  <1> QED
    BY <1>2, <1>3 DEF SlotInv

(* beginPendingControl finds the slot empty: no other connection waits *)
LEMMA BeginKeepsSlot ==
    ASSUME TypeOK, SlotInv, ~Pending, NEW c \in Clients, conn[c].st \in {"sent", "left"},
           slot'.kind \in Kinds \ {"None"}, slot'.sock = Holder(c), conn' = Accepted(c),
           timers' = timers \union (IF slot'.kind = "Status" THEN {"slot", "poll"} ELSE {"slot"})
    PROVE  SlotInv'
  <1>1. \A d \in Clients : conn[d].st # "waiting"
    BY DaemonAssumption DEF SlotInv, OneOwner
  <1>2. \A d \in Clients : conn'[d].st = "waiting" <=> d = c /\ conn[c].st = "sent"
    BY <1>1 DEF Accepted, Idle, TypeOK, ConnType
  <1>3. OneOwner'
    BY <1>2, DaemonAssumption DEF OneOwner, Holder
  <1>4. "settle" \notin timers
    BY DEF SlotInv, SlotTimers, Pending
  <1>5. SlotTimers'
    BY <1>4 DEF SlotTimers, Pending, Kinds
  <1> QED
    BY <1>3, <1>5 DEF SlotInv, Pending, Kinds

LEMMA CachedAnswerKeepsSlot ==
    ASSUME TypeOK, SlotInv, NEW c \in Clients, conn[c].st \in {"sent", "left"},
           NEW same, CachedAnswer(c, same)
    PROVE  SlotInv'
  <1>1. CASE conn' = Reply(conn, c, "ok") /\ UNCHANGED <<slot, timers>>
    BY <1>1, AnswerKeepsSlot
  <1>2. CASE /\ conn' = Reply(ConnAfterError, c, "ok")
             /\ slot' = IF Pending THEN NoSlot ELSE slot
             /\ timers' = IF Pending THEN timers \ PendingTimers ELSE timers
    <2>1. CASE ~Pending
      BY <1>2, <2>1, AnswerKeepsSlot DEF ConnAfterError
    <2>2. CASE Pending
      <3>0. SlotOK
        BY DEF TypeOK, SlotOK
      <3>1. ConnAfterError \in [Clients -> ConnType]
        BY <3>0, ConnAfterErrorTyped
      <3>2. \A d \in Clients : ConnAfterError[d].st # "waiting"
        <4>1. CASE slot.sock = NoConn
          BY <2>2, <4>1, DaemonAssumption DEF ConnAfterError, Reply, SlotInv, OneOwner
        <4>2. CASE slot.sock \in Clients
          BY <2>2, <4>2, ReplyKeepsOwners DEF ConnAfterError, SlotInv, OneOwner, TypeOK
        <4> QED
          BY <4>1, <4>2 DEF TypeOK, SlotType
      <3>3. \A d \in Clients : conn'[d].st # "waiting"
        BY <1>2, <3>1, <3>2, ReplyKeepsOwners
      <3>4. OneOwner'
        BY <1>2, <2>2, <3>3, DaemonAssumption DEF OneOwner, NoSlot
      <3>5. SlotTimers'
        BY <1>2, <2>2 DEF SlotTimers, Pending, NoSlot, PendingTimers
      <3> QED
        BY <1>2, <2>2, <3>4, <3>5 DEF SlotInv, NoSlot
    <2> QED
      BY <2>1, <2>2
  <1> QED
    BY <1>1, <1>2 DEF CachedAnswer

LEMMA ProcessKeepsSlot ==
    ASSUME TypeOK, SlotInv, NEW c \in Clients, ProcessControlRequest(c)
    PROVE  SlotInv'
  <1>0. conn[c].st \in {"sent", "left"}
    BY DEF ProcessControlRequest, ProcessStatus, ProcessMode, ProcessCa, ProcessOther, Request
  <1>1. CASE \E a \in {"ok", "err"} : Answer(c, a)
    BY <1>0, <1>1, AnswerKeepsSlot DEF Answer
  <1>2. CASE \E same \in BOOLEAN : CachedAnswer(c, same)
    BY <1>0, <1>2, CachedAnswerKeepsSlot
  <1>3. CASE ~Pending /\ BeginFails(c)
    <2>1. timers \ PendingTimers = {}
      BY DEF TypeOK
    <2> QED
      BY <1>0, <1>3, <2>1, RefusedKeepsSlot DEF BeginFails, NoSlot
  <1>4. CASE ProcessStatus(c)
    <2>1. CASE /\ ~Pending
               /\ Begin(c, [Command(c, "Status") EXCEPT !.attempts = 1])
               /\ timers' = timers \union {"slot", "poll"}
      <3>1. slot'.kind = "Status" /\ slot'.sock = Holder(c)
        BY <2>1 DEF Begin, Command, NoSlot
      <3> QED
        BY <1>0, <2>1, <3>1, BeginKeepsSlot DEF Begin, Kinds
    <2>2. CASE /\ ~Pending
               /\ slot' = [NoSlot EXCEPT !.attempts = 1]
               /\ timers' = (timers \ PendingTimers) \union {"poll"}
               /\ conn' = Reply(conn, c, "err")
      <3>1. slot'.kind = "None" /\ slot'.sock = NoConn
        BY <2>2 DEF NoSlot
      <3>2. timers' \subseteq {"poll"}
        BY <2>2 DEF TypeOK
      <3> QED
        BY <1>0, <2>2, <3>1, <3>2, RefusedKeepsSlot
    <2> QED
      BY <1>1, <1>4, <2>1, <2>2 DEF ProcessStatus
  <1>5. CASE ProcessMode(c)
    <2>1. CASE /\ ~Pending
               /\ Begin(c, [Command(c, "Mode") EXCEPT !.mode = conn[c].req.mode])
               /\ timers' = timers \union {"slot"}
      <3>1. slot'.kind = "Mode" /\ slot'.sock = Holder(c)
        BY <2>1 DEF Begin, Command, NoSlot
      <3> QED
        BY <1>0, <2>1, <3>1, BeginKeepsSlot DEF Begin, Kinds
    <2>2. (mode = conn[c].req.mode) \in BOOLEAN
      OBVIOUS
    <2> QED
      BY <1>1, <1>2, <1>3, <1>5, <2>1, <2>2 DEF ProcessMode
  <1>6. CASE ProcessCa(c)
    <2>1. CASE /\ ~Pending
               /\ Begin(c, [Command(c, "Ca") EXCEPT !.ca = conn[c].req.on])
               /\ timers' = timers \union {"slot"}
      <3>1. slot'.kind = "Ca" /\ slot'.sock = Holder(c)
        BY <2>1 DEF Begin, Command, NoSlot
      <3> QED
        BY <1>0, <2>1, <3>1, BeginKeepsSlot DEF Begin, Kinds
    <2>2. (ca = conn[c].req.on) \in BOOLEAN
      OBVIOUS
    <2> QED
      BY <1>1, <1>2, <1>3, <1>6, <2>1, <2>2 DEF ProcessCa
  <1>7. CASE ProcessOther(c)
    BY <1>1, <1>7 DEF ProcessOther
  <1> QED
    BY <1>4, <1>5, <1>6, <1>7 DEF ProcessControlRequest

(* No action breaks the bookkeeping of the pending command. *)
LEMMA SlotStep ==
    ASSUME TypeOK, SlotInv, Next
    PROVE  SlotInv'
  <1> USE DEF slotVars
  <1>1. CASE BluezChange
    BY <1>1, UnchangedKeepsSlot DEF BluezChange, daemonVars
  <1>2. ASSUME NEW c \in Clients, ClientSend(c) PROVE SlotInv'
    <2>1. \A d \in Clients : conn'[d].st = "waiting" <=> conn[d].st = "waiting"
      BY <1>2 DEF ClientSend, TypeOK
    <2> QED
      BY <1>2, <2>1 DEF ClientSend, daemonVars, SlotInv, OneOwner, SlotTimers, Pending
  <1>3. ASSUME NEW c \in Clients, ClientGone(c) PROVE SlotInv'
    <2>1. CASE conn[c].st = "sent" /\ conn' = [conn EXCEPT ![c].st = "left"] /\ UNCHANGED slot
      <3>1. \A d \in Clients : conn'[d].st = "waiting" <=> conn[d].st = "waiting"
        BY <2>1 DEF TypeOK, ConnType
      <3> QED
        BY <1>3, <2>1, <3>1 DEF ClientGone, SlotInv, OneOwner, SlotTimers, Pending
    <2>2. CASE conn[c].st = "waiting" /\ conn' = [conn EXCEPT ![c] = Idle]
      <3>1. slot.sock = c
        BY <2>2 DEF SlotInv, OneOwner
      <3>2. slot' = [slot EXCEPT !.sock = NoConn]
        BY <1>3, <2>2, <3>1 DEF ClientGone
      <3>3. /\ slot'.sock = NoConn /\ slot'.kind = slot.kind
            /\ slot'.fresh = slot.fresh /\ slot'.attempts = slot.attempts
        BY <3>2 DEF TypeOK, SlotType
      <3>4. \A d \in Clients : conn'[d].st # "waiting"
        BY <2>2, <3>1 DEF Idle, TypeOK, SlotInv, OneOwner
      <3>5. OneOwner'
        BY <3>3, <3>4, DaemonAssumption DEF OneOwner
      <3>6. SlotTimers'
        BY <1>3, <3>3 DEF ClientGone, SlotInv, SlotTimers, Pending
      <3> QED
        BY <3>3, <3>5, <3>6 DEF SlotInv
    <2> QED
      BY <1>3, <2>1, <2>2 DEF ClientGone
  <1>4. ASSUME NEW c \in Clients, ClientDone(c) PROVE SlotInv'
    <2>1. \A d \in Clients : conn'[d].st = "waiting" <=> conn[d].st = "waiting"
      BY <1>4 DEF ClientDone, Idle, TypeOK
    <2> QED
      BY <1>4, <2>1 DEF ClientDone, daemonVars, SlotInv, OneOwner, SlotTimers, Pending
  <1>5. ASSUME NEW c \in Clients, ProcessControlRequest(c) PROVE SlotInv'
    BY <1>5, ProcessKeepsSlot
  <1>6. CASE Start
    BY <1>6, UnchangedKeepsSlot DEF Start
  <1>7. CASE SyncBluezState
    <2>1. FailPending \/ UNCHANGED slotVars
      BY <1>7 DEF SyncBluezState
    <2> QED
      BY <2>1, FailKeepsSlot, UnchangedKeepsSlot
  <1>8. CASE RefreshNow
    BY <1>8, RequestSnapshotKeepsSlot DEF RefreshNow
  <1>9. CASE Quit
    BY <1>9, FailKeepsSlot DEF Quit
  <1>10. CASE Exit \/ Crash
    <2>1. \A d \in Clients : conn'[d].st # "waiting"
      BY <1>10 DEF Exit, Crash, ProcessGone, Idle, TypeOK, ConnType
    <2>2. OneOwner'
      BY <1>10, <2>1, DaemonAssumption DEF Exit, Crash, ProcessGone, OneOwner, NoSlot
    <2>3. SlotTimers' /\ slot'.sock = NoConn
      BY <1>10 DEF Exit, Crash, ProcessGone, SlotTimers, Pending, NoSlot
    <2> QED
      BY <2>2, <2>3 DEF SlotInv
  <1>11. CASE SocketConnected \/ SocketDisconnected \/ LateDisconnected \/ SocketError
    BY <1>11, FailKeepsSlot, UnchangedKeepsSlot
    DEF SocketConnected, SocketDisconnected, LateDisconnected, SocketError, ErrorOccurred
  <1>12. CASE HandshakeAck \/ FeaturesAck
    BY <1>12, FailKeepsSlot, UnchangedKeepsSlot DEF HandshakeAck, FeaturesAck, ErrorOccurred
  <1>13. CASE NoiseReport \/ CaReport \/ OtherReport
    BY <1>13, TryCompleteKeepsSlot DEF NoiseReport, CaReport, OtherReport
  <1>14. CASE EarReport
    <2>1. CASE TryComplete
      BY <2>1, TryCompleteKeepsSlot
    <2>2. CASE /\ slot.kind = "Status"
               /\ slot' = [slot EXCEPT !.fresh = TRUE]
               /\ timers' = (timers \ {"poll"}) \union {"settle"}
               /\ UNCHANGED conn
      <3>1. slot'.kind = "Status" /\ slot'.sock = slot.sock /\ slot'.fresh
        BY <2>2 DEF TypeOK, SlotType
      <3> QED
        BY <2>2, <3>1 DEF SlotInv, OneOwner, SlotTimers, Pending
    <2> QED
      BY <1>14, <2>1, <2>2 DEF EarReport
  <1>15. CASE SlotTimeout
    BY <1>15, FinishKeepsSlot DEF SlotTimeout
  <1>16. CASE StatusPoll
    <2>1. CASE /\ slot.kind # "Status" \/ slot.attempts >= StatusPollLimit
               /\ timers' = timers \ {"poll"}
               /\ UNCHANGED <<slot, conn>>
      BY <2>1 DEF SlotInv, OneOwner, SlotTimers, Pending
    <2>2. CASE /\ slot' = [slot EXCEPT !.attempts = @ + 1]
               /\ UNCHANGED <<timers, conn>>
      <3>1. slot'.kind = slot.kind /\ slot'.sock = slot.sock /\ slot'.fresh = slot.fresh
        BY <2>2 DEF TypeOK, SlotType
      <3>2. "poll" \in timers
        BY <1>16 DEF StatusPoll
      <3> QED
        BY <2>2, <3>1, <3>2 DEF SlotInv, OneOwner, SlotTimers, Pending
    <2>3. CASE /\ slot.kind = "Status"
               /\ slot' = [NoSlot EXCEPT !.attempts = 1]
               /\ timers' = timers \ PendingTimers
               /\ conn' = ConnAfterError
      <3>1. slot'.kind = "None" /\ slot'.sock = NoConn
        BY <2>3 DEF NoSlot
      <3>2. conn' = Reply(conn, slot.sock, "err")
        BY <2>3 DEF ConnAfterError, Pending
      <3> QED
        BY <2>3, <3>1, <3>2, ClearedKeepsSlot
    <2> QED
      BY <1>16, <2>1, <2>2, <2>3 DEF StatusPoll
  <1>17. CASE StatusSettle
    <2>1. slot.kind = "Status"
      BY <1>17 DEF StatusSettle, SlotInv, SlotTimers
    <2> QED
      BY <1>17, <2>1, FinishKeepsSlot DEF StatusSettle
  <1>18. CASE SnapshotDelay \/ SnapshotTimer
    BY <1>18, RequestSnapshotKeepsSlot DEF SnapshotDelay, SnapshotTimer
  <1>19. CASE CaDelay
    BY <1>19, FailKeepsSlot, UnchangedKeepsSlot DEF CaDelay, ErrorOccurred
  <1> QED
    BY <1>1, <1>2, <1>3, <1>4, <1>5, <1>6, <1>7, <1>8, <1>9, <1>10, <1>11, <1>12, <1>13,
       <1>14, <1>15, <1>16, <1>17, <1>18, <1>19 DEF Next

(* The strengthening of the two properties below is inductive. *)
THEOREM SlotInvariant == Spec => []SlotInv
  <1>1. Init => SlotInv
    BY DaemonAssumption DEF Init, SlotInv, OneOwner, SlotTimers, Pending, NoSlot, Idle
  <1>2. TypeOK /\ SlotInv /\ [Next]_vars => SlotInv'
    <2>1. SlotInv /\ UNCHANGED vars => SlotInv'
      BY UnchangedKeepsSlot DEF vars, daemonVars, slotVars
    <2> QED
      BY <2>1, SlotStep
  <1> QED
    BY <1>1, <1>2, TypeCorrect, PTL DEF Spec

(* Every CLI process that waits owns the pending command, and the pending  *)
(* command of a CLI process that is still there has it waiting: a reply is *)
(* neither lost nor sent to another connection (finishPendingControl).     *)
THEOREM ReplyHasOneOwner == Spec => []OneOwner
  BY SlotInvariant, PTL DEF SlotInv

(* The timeout of processControlRequest runs exactly while a command is    *)
(* pending, the settle and poll timers only for the status request they    *)
(* were started for.                                                       *)
THEOREM TimersFollowSlot == Spec => []SlotTimers
  BY SlotInvariant, PTL DEF SlotInv

----------------------------------------------------------------------------
(* SessionInv *)

(* the pending command stays the same one, or there is none any more *)
SameOrNone == slot'.kind = "None" \/ (slot'.kind = slot.kind /\ slot'.dev = slot.dev)

LEMMA FailIsNone ==
    ASSUME FailPending
    PROVE  slot'.kind = "None"
  BY DEF FailPending, FinishPending, Pending, NoSlot, slotVars

LEMMA TryCompleteSameOrNone ==
    ASSUME TryComplete
    PROVE  SameOrNone
  BY DEF TryComplete, FinishPending, NoSlot, slotVars, SameOrNone

LEMMA RequestSnapshotSameOrNone ==
    ASSUME NEW w, RequestSnapshot(w)
    PROVE  SameOrNone
  BY FailIsNone DEF RequestSnapshot, ErrorOccurred, slotVars, SameOrNone

(* an action that leaves the session and the selection alone *)
LEMMA SessionUntouched ==
    ASSUME SessionInv, SameOrNone,
           UNCHANGED <<sock, late, protocolReady, address, bluezConnected, selectedMac>>
    PROVE  SessionInv'
  BY DEF SessionInv, SameOrNone, ReadyImpliesSocket, IsConnected, PendingHasSession, Pending,
         SessionReady, CommandForTarget, SessionForTarget, Target

(* a command is accepted on a ready session; mode and CA on the target's *)
LEMMA SessionBegin ==
    ASSUME SessionInv, SessionReady, slot'.dev = address,
           slot'.kind = "Status" \/ bluezConnected,
           UNCHANGED <<sock, late, protocolReady, address, bluezConnected, selectedMac>>
    PROVE  SessionInv'
  BY DEF SessionInv, ReadyImpliesSocket, IsConnected, PendingHasSession, Pending,
         SessionReady, CommandForTarget, SessionForTarget, Target

LEMMA ProcessKeepsSession ==
    ASSUME SessionInv, NEW c \in Clients, ProcessControlRequest(c)
    PROVE  SessionInv'
  <1>1. UNCHANGED <<sock, late, protocolReady, address, bluezConnected, selectedMac>>
    BY DEF ProcessControlRequest, ProcessStatus, ProcessMode, ProcessCa, ProcessOther,
           clientVars, sessionVars, bluezVars
  <1>2. CASE SameOrNone
    BY <1>1, <1>2, SessionUntouched
  <1>3. CASE \E a \in {"ok", "err"} : Answer(c, a)
    BY <1>2, <1>3 DEF Answer, SameOrNone
  <1>4. CASE BeginFails(c) \/ \E same \in BOOLEAN : CachedAnswer(c, same)
    <2>1. slot' = NoSlot \/ slot' = slot
      BY <1>4 DEF BeginFails, CachedAnswer
    <2> QED
      BY <1>2, <2>1 DEF SameOrNone, NoSlot
  <1>5. CASE ProcessStatus(c)
    <2>1. CASE SessionReady /\ Begin(c, [Command(c, "Status") EXCEPT !.attempts = 1])
      <3>1. slot'.kind = "Status" /\ slot'.dev = address
        BY <2>1 DEF Begin, Command, NoSlot
      <3> QED
        BY <1>1, <2>1, <3>1, SessionBegin
    <2>2. CASE slot' = [NoSlot EXCEPT !.attempts = 1]
      BY <1>2, <2>2 DEF NoSlot, SameOrNone
    <2> QED
      BY <1>3, <1>5, <2>1, <2>2 DEF ProcessStatus
  <1>6. CASE ProcessMode(c)
    <2>1. CASE CanSnapshot /\ Begin(c, [Command(c, "Mode") EXCEPT !.mode = conn[c].req.mode])
      <3>1. slot'.dev = address
        BY <2>1 DEF Begin, Command, NoSlot
      <3> QED
        BY <1>1, <2>1, <3>1, SessionBegin DEF CanSnapshot
    <2>2. (mode = conn[c].req.mode) \in BOOLEAN
      OBVIOUS
    <2> QED
      BY <1>3, <1>4, <1>6, <2>1, <2>2 DEF ProcessMode
  <1>7. CASE ProcessCa(c)
    <2>1. CASE CanSnapshot /\ Begin(c, [Command(c, "Ca") EXCEPT !.ca = conn[c].req.on])
      <3>1. slot'.dev = address
        BY <2>1 DEF Begin, Command, NoSlot
      <3> QED
        BY <1>1, <2>1, <3>1, SessionBegin DEF CanSnapshot
    <2>2. (ca = conn[c].req.on) \in BOOLEAN
      OBVIOUS
    <2> QED
      BY <1>3, <1>4, <1>7, <2>1, <2>2 DEF ProcessCa
  <1>8. CASE ProcessOther(c)
    BY <1>3, <1>8 DEF ProcessOther
  <1> QED
    BY <1>5, <1>6, <1>7, <1>8 DEF ProcessControlRequest

(* syncBluezState: a session that is dropped or replaced takes the pending *)
(* command with it, one that is kept is the target's                       *)
LEMMA SyncKeepsSession ==
    ASSUME CloseKinds \subseteq {"sync", "late"}, SessionInv, SyncBluezState
    PROVE  SessionInv'
  <1>1. PICK busOk \in BusResults, k \in CloseKinds, r \in DialResults :
            SyncBluezState!(busOk, k, r)
    BY DEF SyncBluezState
  <1> DEFINE devices   == Listed(busOk)
             selected  == IF ConfiguredMac = NoMac THEN Selection(devices) ELSE selectedMac
             switch    == selected # selectedMac
             target    == IF ConfiguredMac = NoMac THEN selected ELSE ConfiguredMac
             up        == target \in devices /\ bluez[target] = "connected"
             drop      == SessionUnwanted(switch, up, target)
             dial      == up /\ (drop \/ ~IsConnected)
  <1> USE DEF SessionUnwanted
  <1> HIDE DEF devices
  <1>2. Target' = target /\ bluezConnected' = up
    BY <1>1 DEF Target, devices
  <1>3. r \in {"connecting", "closed"} /\ k \in {"sync", "late"}
    BY ClientAssumption
  <1>4. CASE dial
    <2>1. ConnectToDevice(target, k, r)
      BY <1>1, <1>4 DEF devices
    <2>2. ~late' => slot'.kind = "None" \/ (slot' = slot /\ ~IsConnected /\ ~late)
      <3>1. CASE IsConnected
        <4>1. CASE k = "late"
          BY <2>1, <3>1, <4>1 DEF ConnectToDevice
        <4>2. CASE k = "sync"
          BY <1>1, <1>4, <3>1, <4>2, FailIsNone DEF ClosingSignals, devices
        <4> QED
          BY <1>3, <4>1, <4>2
      <3>2. CASE ~IsConnected
        BY <1>1, <2>1, <3>2, FailIsNone DEF ConnectToDevice, slotVars
      <3> QED
        BY <3>1, <3>2
    <2>3. ~late' => slot'.kind = "None"
      BY <2>2 DEF SessionInv, PendingHasSession, SessionReady, Pending
    <2> QED
      BY <1>2, <1>3, <2>1, <2>3
      DEF ConnectToDevice, SessionInv, ReadyImpliesSocket, IsConnected, PendingHasSession,
          Pending, CommandForTarget, SessionForTarget
  <1>5. CASE ~dial /\ drop
    <2>1. DisconnectFromDevice(k)
      BY <1>1, <1>5 DEF devices
    <2>2. ~late' => slot'.kind = "None" /\ ~protocolReady'
      <3>1. CASE k = "late"
        BY <1>5, <2>1, <3>1 DEF DisconnectFromDevice
      <3>2. CASE k = "sync"
        BY <1>1, <1>5, <2>1, <3>2, FailIsNone DEF ClosingSignals, DisconnectFromDevice, devices
      <3> QED
        BY <1>3, <3>1, <3>2
    <2> QED
      BY <2>1, <2>2
      DEF DisconnectFromDevice, SessionInv, ReadyImpliesSocket, IsConnected, PendingHasSession,
          Pending, CommandForTarget, SessionForTarget
  <1>6. CASE ~dial /\ ~drop
    <2>1. UNCHANGED clientVars /\ UNCHANGED slotVars
      BY <1>1, <1>6 DEF devices
    <2>2. IsConnected => up /\ address = target
      BY <1>6
    <2>3. up => IsConnected
      BY <1>6
    <2> QED
      BY <1>2, <2>1, <2>2, <2>3
      DEF clientVars, sessionVars, slotVars, SessionInv, ReadyImpliesSocket, IsConnected,
          PendingHasSession, Pending, SessionReady, CommandForTarget, SessionForTarget
  <1> QED
    BY <1>4, <1>5, <1>6

(* No action separates a command from its session, or the session from the *)
(* device the daemon manages.                                              *)
LEMMA SessionStep ==
    ASSUME CloseKinds \subseteq {"sync", "late"}, TypeOK, SlotInv, SessionInv, Next
    PROVE  SessionInv'
  <1> DEFINE Kept == UNCHANGED <<sock, late, protocolReady, address, bluezConnected, selectedMac>>
  <1> USE DEF clientVars, sessionVars, bluezVars, slotVars, daemonVars
  <1>1. CASE BluezChange \/ Start
    <2>1. Kept /\ SameOrNone
      BY <1>1 DEF BluezChange, Start, SameOrNone
    <2> QED
      BY <2>1, SessionUntouched
  <1>2. ASSUME NEW c \in Clients, ClientSend(c) \/ ClientGone(c) \/ ClientDone(c)
        PROVE  SessionInv'
    <2>1. slot' = slot \/ slot' = [slot EXCEPT !.sock = NoConn]
      BY <1>2 DEF ClientSend, ClientGone, ClientDone
    <2>2. SameOrNone
      BY <2>1 DEF SameOrNone, TypeOK, SlotType
    <2>3. Kept
      BY <1>2 DEF ClientSend, ClientGone, ClientDone
    <2> QED
      BY <2>2, <2>3, SessionUntouched
  <1>3. ASSUME NEW c \in Clients, ProcessControlRequest(c) PROVE SessionInv'
    BY <1>3, ProcessKeepsSession
  <1>4. CASE SyncBluezState
    BY <1>4, SyncKeepsSession
  <1>5. CASE RefreshNow \/ SnapshotDelay \/ SnapshotTimer
    <2>1. SameOrNone
      BY <1>5, RequestSnapshotSameOrNone DEF RefreshNow, SnapshotDelay, SnapshotTimer
    <2>2. Kept
      BY <1>5 DEF RefreshNow, SnapshotDelay, SnapshotTimer
    <2> QED
      BY <2>1, <2>2, SessionUntouched
  <1>6. CASE Quit
    <2>1. slot'.kind = "None" /\ bluezConnected' = FALSE
      BY <1>6, FailIsNone DEF Quit
    <2>2. CASE IsConnected
      <3>1. PICK k \in CloseKinds : DisconnectFromDevice(k)
        BY <1>6, <2>2 DEF Quit
      <3>2. k \in {"sync", "late"}
        OBVIOUS
      <3> QED
        BY <2>1, <2>2, <3>1, <3>2
        DEF DisconnectFromDevice, ClosingSignals, SessionInv, ReadyImpliesSocket, IsConnected,
            PendingHasSession, Pending, CommandForTarget, SessionForTarget
    <2>3. CASE ~IsConnected
      <3>1. UNCHANGED clientVars
        BY <1>6, <2>3 DEF Quit
      <3> QED
        BY <2>1, <2>3, <3>1
        DEF SessionInv, ReadyImpliesSocket, IsConnected, PendingHasSession, Pending,
            CommandForTarget, SessionForTarget
    <2> QED
      BY <2>2, <2>3
  <1>7. CASE Exit \/ Crash
    BY <1>7 DEF Exit, Crash, ProcessGone, ClientReset, NoSlot, SessionInv, ReadyImpliesSocket,
                IsConnected, PendingHasSession, Pending, CommandForTarget, SessionForTarget
  <1>8. CASE SocketConnected
    <2>1. slot.kind = "None" /\ ~late
      BY <1>8 DEF SocketConnected, OnSocketConnected, SessionInv, PendingHasSession,
                  SessionReady, IsConnected, Pending
    <2>2. slot'.kind = "None"
      BY <1>8, <2>1, FailIsNone DEF SocketConnected
    <2> QED
      BY <1>8, <2>1, <2>2
      DEF SocketConnected, OnSocketConnected, SessionInv, ReadyImpliesSocket, IsConnected,
          PendingHasSession, Pending, CommandForTarget, SessionForTarget, Target
  <1>9. CASE SocketDisconnected \/ LateDisconnected \/ SocketError
    <2>1. slot'.kind = "None"
      BY <1>9, FailIsNone DEF SocketDisconnected, LateDisconnected, SocketError, ErrorOccurred
    <2>2. UNCHANGED <<address, bluezConnected, selectedMac>> /\ ~protocolReady'
      <3>1. CASE SocketDisconnected
        BY <3>1 DEF SocketDisconnected, OnSocketDisconnected
      <3>2. CASE LateDisconnected
        BY <3>2 DEF LateDisconnected, OnLateDisconnected
      <3>3. CASE SocketError
        BY <3>3 DEF SocketError, OnSocketError, SessionInv, ReadyImpliesSocket, IsConnected
      <3> QED
        BY <1>9, <3>1, <3>2, <3>3
    <2>3. /\ sock' = "closed" \/ sock' = sock
          /\ IsConnected' => ~late'
      BY <1>9 DEF SocketDisconnected, LateDisconnected, SocketError, OnSocketDisconnected,
                  OnLateDisconnected, OnSocketError, SessionInv, IsConnected
    <2> QED
      BY <2>1, <2>2, <2>3
      DEF SessionInv, ReadyImpliesSocket, IsConnected, PendingHasSession, Pending,
          CommandForTarget, SessionForTarget, Target
  <1>10. CASE HandshakeAck
    <2>1. SameOrNone
      BY <1>10, FailIsNone DEF HandshakeAck, ErrorOccurred, SameOrNone
    <2>2. Kept
      BY <1>10 DEF HandshakeAck, OnHandshakeAck
    <2> QED
      BY <2>1, <2>2, SessionUntouched
  <1>11. CASE FeaturesAck
    <2>1. SameOrNone
      BY <1>11, FailIsNone DEF FeaturesAck, ErrorOccurred, SameOrNone
    <2>2. /\ UNCHANGED <<sock, late, address, bluezConnected, selectedMac>>
          /\ IsConnected /\ protocolReady'
      BY <1>11 DEF FeaturesAck, OnFeaturesAck
    <2> QED
      BY <2>1, <2>2
      DEF SessionInv, SameOrNone, ReadyImpliesSocket, IsConnected, PendingHasSession, Pending,
          SessionReady, CommandForTarget, SessionForTarget, Target
  <1>12. CASE NoiseReport \/ CaReport \/ EarReport \/ OtherReport
    <2>1. SameOrNone
      <3>1. CASE TryComplete
        BY <3>1, TryCompleteSameOrNone
      <3>2. CASE slot' = [slot EXCEPT !.fresh = TRUE]
        BY <3>2 DEF SameOrNone, TypeOK, SlotType
      <3> QED
        BY <1>12, <3>1, <3>2 DEF NoiseReport, CaReport, EarReport, OtherReport
    <2>2. Kept
      BY <1>12 DEF NoiseReport, CaReport, EarReport, OtherReport, StateChanged, OnNoiseControl,
                   OnConversationalAwareness, OnEarDetection, OnOtherReport
    <2> QED
      BY <2>1, <2>2, SessionUntouched
  <1>13. CASE SlotTimeout \/ StatusPoll \/ StatusSettle
    <2>1. SameOrNone
      <3>1. CASE SlotTimeout \/ StatusSettle
        BY <3>1 DEF SlotTimeout, StatusSettle, FinishPending, NoSlot, SameOrNone
      <3>2. CASE StatusPoll
        <4>1. \/ slot' = slot
              \/ slot' = [slot EXCEPT !.attempts = @ + 1]
              \/ slot' = [NoSlot EXCEPT !.attempts = 1]
          BY <3>2 DEF StatusPoll
        <4> QED
          BY <4>1 DEF NoSlot, SameOrNone, TypeOK, SlotType
      <3> QED
        BY <1>13, <3>1, <3>2
    <2>2. Kept
      BY <1>13 DEF SlotTimeout, StatusPoll, StatusSettle
    <2> QED
      BY <2>1, <2>2, SessionUntouched
  <1>14. CASE CaDelay
    <2>1. SameOrNone
      BY <1>14, FailIsNone DEF CaDelay, ErrorOccurred, SameOrNone
    <2>2. Kept
      BY <1>14 DEF CaDelay
    <2> QED
      BY <2>1, <2>2, SessionUntouched
  <1> QED
    BY <1>1, <1>2, <1>3, <1>4, <1>5, <1>6, <1>7, <1>8, <1>9, <1>10, <1>11, <1>12, <1>13,
       <1>14 DEF Next

(* With a socket that does emit disconnected, now or later, SessionInv is  *)
(* inductive.  It fails for "silent": then protocolReady_ and the pending  *)
(* command of a dropped session survive it.                                *)
THEOREM SessionInvariant ==
    ASSUME CloseKinds \subseteq {"sync", "late"}
    PROVE  Spec => []SessionInv
  <1>1. Init => SessionInv
    BY DEF Init, ClientInit, NoSlot, SessionInv, ReadyImpliesSocket, IsConnected,
           PendingHasSession, Pending, CommandForTarget, SessionForTarget
  <1>2. TypeOK /\ SlotInv /\ SessionInv /\ [Next]_vars => SessionInv'
    <2>1. SessionInv /\ UNCHANGED vars => SessionInv'
      BY SessionUntouched
      DEF vars, clientVars, sessionVars, daemonVars, bluezVars, SameOrNone
    <2> QED
      BY <2>1, SessionStep
  <1> QED
    BY <1>1, <1>2, TypeCorrect, SlotInvariant, PTL DEF Spec

(* A pending command never outlives the session it was accepted on.        *)
THEOREM PendingOnItsSession ==
    ASSUME CloseKinds \subseteq {"sync", "late"}
    PROVE  Spec => []PendingHasSession
  BY SessionInvariant, PTL DEF SessionInv

(* A mode or CA command is only pending for the device the daemon manages  *)
(* and BlueZ has connected, whichever delayed single shots are outstanding.*)
THEOREM CommandsReachTarget ==
    ASSUME CloseKinds \subseteq {"sync", "late"}
    PROVE  Spec => []CommandForTarget
  BY SessionInvariant, PTL DEF SessionInv

(* While BlueZ has the target connected no session is kept or dialled to   *)
(* another device.                                                         *)
THEOREM SessionWithTarget ==
    ASSUME CloseKinds \subseteq {"sync", "late"}
    PROVE  Spec => []SessionForTarget
  BY SessionInvariant, PTL DEF SessionInv

----------------------------------------------------------------------------
(* The client the daemon drives. *)

LEMMA SyncDrivesClient ==
    ASSUME SyncBluezState
    PROVE  [ClientNext]_clientVars
  <1>1. PICK busOk \in BusResults, k \in CloseKinds, r \in DialResults :
            SyncBluezState!(busOk, k, r)
    BY DEF SyncBluezState
  <1> DEFINE devices  == Listed(busOk)
             selected == IF ConfiguredMac = NoMac THEN Selection(devices) ELSE selectedMac
             target   == IF ConfiguredMac = NoMac THEN selected ELSE ConfiguredMac
  <1>2. target \in devices => target \in Macs
    BY DEF Listed
  <1>3. \/ UNCHANGED clientVars
        \/ target \in Macs /\ ConnectToDevice(target, k, r)
        \/ DisconnectFromDevice(k)
    BY <1>1, <1>2
  <1> HIDE DEF target
  <1> QED
    BY <1>3 DEF ClientNext

(* one step of the daemon is at most one step of its client *)
LEMMA DaemonDrivesClient ==
    ASSUME [Next]_vars
    PROVE  [ClientNext \/ ClientReset]_clientVars
  <1>1. CASE BluezChange \/ UNCHANGED vars
    BY <1>1 DEF BluezChange, vars
  <1>2. CASE \E c \in Clients : ClientSend(c) \/ ClientGone(c) \/ ClientDone(c)
    BY <1>2 DEF ClientSend, ClientGone, ClientDone
  <1>3. CASE \E c \in Clients : ProcessControlRequest(c)
    BY <1>3 DEF ProcessControlRequest, ProcessStatus, ProcessMode, ProcessCa, ProcessOther
  <1>4. CASE Start \/ RefreshNow
    BY <1>4 DEF Start, RefreshNow
  <1>5. CASE SyncBluezState
    BY <1>5, SyncDrivesClient
  <1>6. CASE Quit
    BY <1>6 DEF Quit, ClientNext
  <1>7. CASE Exit \/ Crash
    BY <1>7 DEF Exit, Crash, ProcessGone
  <1>8. CASE SocketConnected \/ SocketDisconnected \/ LateDisconnected \/ SocketError
    BY <1>8 DEF SocketConnected, SocketDisconnected, LateDisconnected, SocketError, ClientNext
  <1>9. CASE HandshakeAck \/ FeaturesAck
    BY <1>9 DEF HandshakeAck, FeaturesAck, ClientNext
  <1>10. CASE NoiseReport \/ CaReport \/ EarReport \/ OtherReport
    BY <1>10 DEF NoiseReport, CaReport, EarReport, OtherReport, ClientNext
  <1>11. CASE \/ SlotTimeout \/ StatusPoll \/ StatusSettle
              \/ SnapshotDelay \/ CaDelay \/ SnapshotTimer
    BY <1>11 DEF SlotTimeout, StatusPoll, StatusSettle, SnapshotDelay, CaDelay, SnapshotTimer
  <1> QED
    BY <1>1, <1>2, <1>3, <1>4, <1>5, <1>6, <1>7, <1>8, <1>9, <1>10, <1>11 DEF Next

(* The daemon uses its client as AirPodsCoreClient says an owner does: a   *)
(* callback makes at most one call or takes one socket signal, also        *)
(* syncBluezState when it drops one session and dials the next; only a new *)
(* process starts with a new client.                                       *)
THEOREM DaemonRunsClient == Spec => ClientInit /\ [][ClientNext \/ ClientReset]_clientVars
  <1>1. Init => ClientInit
    BY DEF Init
  <1> QED
    BY <1>1, DaemonDrivesClient, PTL DEF Spec

(* So a session the daemon takes for ready has had its own handshake and   *)
(* features request answered, however sockets close, and also after a      *)
(* switch of the device or a restart in the middle of a handshake.         *)
THEOREM DaemonReadyAfterHandshake == Spec => []ReadyAfterHandshake
  <1>1. Init => SetupInOrder
    BY DEF Init, ClientInit, SetupInOrder, IsConnected
  <1>2. TypeOK /\ SetupInOrder /\ [Next]_vars => SetupInOrder'
    <2>1. SUFFICES ASSUME TypeOK, SetupInOrder, [Next]_vars
                   PROVE  SetupInOrder'
      OBVIOUS
    <2>2. CASE [ClientNext]_clientVars
      BY <2>1, <2>2, SetupInOrderKept DEF TypeOK
    <2>3. CASE ClientReset
      BY <2>3 DEF ClientReset, SetupInOrder, IsConnected
    <2> QED
      BY <2>1, <2>2, <2>3, DaemonDrivesClient
  <1>3. SetupInOrder => ReadyAfterHandshake
    BY DEF SetupInOrder, ReadyAfterHandshake
  <1> QED
    BY <1>1, <1>2, <1>3, TypeCorrect, PTL DEF Spec
=============================================================================
