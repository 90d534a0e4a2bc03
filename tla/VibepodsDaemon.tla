--------------------------- MODULE VibepodsDaemon ---------------------------
(***************************************************************************)
(* vibepods-daemon: class VibepodsDaemon and the daemon's main() in        *)
(* src/linux/src/cli/main.cpp, on top of the AACP client it owns.          *)
(*                                                                         *)
(* The daemon runs one Qt event loop.  Every slot, timer callback and      *)
(* socket handler runs to completion, and the signals of the client are    *)
(* direct calls, so each of them is one action: the client's part comes    *)
(* from AirPodsCoreClient, the daemon's slot is conjoined.  What           *)
(* interleaves is the order in which the loop serves sockets, timers,      *)
(* requests of the CLI and signals, and the environment: BlueZ, the        *)
(* device, CLI processes that come and go, failing writes, a crash.        *)
(*                                                                         *)
(* Left out: names, models, battery levels, time stamps and message texts; *)
(* last_error is kept as "is there one".  A handler that writes the state  *)
(* file several times is modelled by its last write, and its writes        *)
(* succeed or fail together.                                               *)
(***************************************************************************)
EXTENDS AirPodsCoreClient, FiniteSets

CONSTANTS
    ConfiguredMac,      \* --mac, or NoMac
    Rank,               \* order of the devices in BlueZ's object list
    BluezStates,        \* states BlueZ may have a device in
    BusResults,         \* may the D-Bus query succeed (TRUE), fail (FALSE)
    NoFile,             \* the state file does not exist
    FileResults,        \* may a write of the state file succeed, fail
    Clients,            \* CLI processes
    NoConn,             \* the null QPointer<QLocalSocket>
    Requests,           \* the requests CLI processes send
    StatusPollLimit,    \* snapshots one status request asks for (6)
    MaxDelayed,         \* bound: single shots outstanding when a CLI starts
    PeriodicSnapshots,  \* --snapshot-interval is positive
    Signals             \* subset of {"USR1", "QUIT", "KILL"} that may arrive

RequestType == [cmd  : {"status", "mode", "ca", "other"},
                mac  : Macs \union {NoMac},
                mode : NoiseControlMode,
                on   : BOOLEAN]

(* what buildStateObject puts in the file, "null" being JSON's *)
StatusType == [connected : BOOLEAN, running : BOOLEAN, protocol : BOOLEAN,
               address : Macs \union {NoMac},
               noise : NoiseControlMode \union {"null"},
               ca : {"on", "off", "null"},
               left : {"in", "out", "null"}, right : {"in", "out", "null"},
               error : BOOLEAN]

ASSUME DaemonAssumption ==
    /\ ConfiguredMac \in Macs \union {NoMac}
    /\ Rank \in [Macs -> Nat]
    /\ BluezStates \subseteq {"absent", "paired", "connected"}
    /\ BusResults \subseteq BOOLEAN
    /\ FileResults \subseteq BOOLEAN
    /\ NoConn \notin Clients
    /\ NoFile \notin StatusType
    /\ Requests \subseteq RequestType
    /\ StatusPollLimit \in Nat \ {0}
    /\ MaxDelayed \in Nat
    /\ PeriodicSnapshots \in BOOLEAN

(* BlueZ lists its devices in one order: any nonempty list has a first. *)
ASSUME ListAssumption ==
    \A S \in SUBSET Macs :
        S # {} => \E m \in S : \A n \in S : Rank[m] <= Rank[n]

VARIABLES
    bluez,          \* environment: what BlueZ knows of each device
    selectedMac,    \* selectedMac_
    bluezConnected, \* bluezConnected_
    bluezName,      \* bluezName_: a device stands for its own name
    knownAddress,   \* lastKnownAddress_
    knownEars,      \* lastKnownPrimaryEarStatus_, lastKnownSecondaryEarStatus_
    lastError,      \* lastError_ is not empty
    slot,           \* the pending control command
    timers,         \* running timers of the pending command
    snapDelays,     \* outstanding single shots that request a snapshot
    caDelays,       \* outstanding single shots that issue the CA command
    conn,           \* control connections, as the CLI processes see them
    file,           \* the JSON state file
    phase           \* of the process: down, sync (in syncBluezState), loop, stopped

bluezVars  == <<selectedMac, bluezConnected, bluezName>>
knownVars  == <<knownAddress, knownEars>>
delayVars  == <<snapDelays, caDelays>>
slotVars   == <<slot, timers, conn>>
daemonVars == <<bluezVars, knownVars, lastError, slot, timers, delayVars, phase>>

vars == <<clientVars, daemonVars, bluez, conn, file>>

Kinds == {"None", "Status", "Mode", "Ca"}

PendingTimers == {"slot", "poll", "settle"}

(* dev is not in the code: the device of the session the command is for *)
NoSlot == [kind |-> "None", sock |-> NoConn, mode |-> "Off", ca |-> FALSE,
           fresh |-> FALSE, attempts |-> 0, dev |-> NoMac]

SlotType == [kind : Kinds, sock : Clients \union {NoConn},
             mode : NoiseControlMode, ca : BOOLEAN,
             fresh : BOOLEAN, attempts : 0..StatusPollLimit,
             dev : Macs \union {NoMac}]

NoReq == [cmd |-> "other", mac |-> NoMac, mode |-> "Off", on |-> FALSE]

(* sent: the request is in the socket; left: so is the end of file;        *)
(* waiting: accepted and pending; lost: closed without an answer           *)
ConnStates == {"idle", "sent", "left", "waiting", "ok", "err", "lost"}

Idle == [st |-> "idle", req |-> NoReq]

ConnType == [st : ConnStates, req : RequestType]

(* The values the variables of the daemon take. *)
TypeOK ==
    /\ ClientTypeOK
    /\ bluez \in [Macs -> {"absent", "paired", "connected"}]
    /\ selectedMac \in Macs \union {NoMac}
    /\ bluezConnected \in BOOLEAN
    /\ bluezName \in Macs \union {NoMac}
    /\ knownAddress \in Macs \union {NoMac}
    /\ knownEars \in EarStatuses
    /\ lastError \in BOOLEAN
    /\ slot \in SlotType
    /\ timers \subseteq PendingTimers
    /\ snapDelays \in Nat
    /\ caDelays \in Nat
    /\ conn \in [Clients -> ConnType]
    /\ file \in StatusType \union {NoFile}
    /\ phase \in {"down", "sync", "loop", "stopped"}

Init ==
    /\ ClientInit
    /\ selectedMac = NoMac /\ bluezConnected = FALSE /\ bluezName = NoMac
    /\ knownAddress = NoMac /\ knownEars = NoEars
    /\ lastError = FALSE
    /\ slot = NoSlot /\ timers = {}
    /\ snapDelays = 0 /\ caDelays = 0
    /\ phase = "down"
    /\ bluez \in [Macs -> BluezStates]
    /\ conn = [c \in Clients |-> Idle]
    /\ file = NoFile

----------------------------------------------------------------------------
(* buildStateObject and the state file. *)

Target == IF ConfiguredMac = NoMac THEN selectedMac ELSE ConfiguredMac

SessionReady == IsConnected /\ protocolReady

(* a reported status wins over the last known one, unless it is Disconnected *)
Newest(old, new) ==
    [p \in {"primary", "secondary"} |->
        IF new[p] # "Disconnected" THEN new[p] ELSE old[p]]

EarsShown == Newest(knownEars, ears)

HasEarData == bluezConnected /\ \E p \in DOMAIN EarsShown : EarsShown[p] # "Disconnected"

InEar(p) ==
    CASE ~HasEarData              -> "null"
      [] EarsShown[p] = "InEar"   -> "in"
      [] OTHER                    -> "out"

Status ==
    [connected |-> bluezConnected,
     running   |-> phase \in {"sync", "loop"},
     protocol  |-> SessionReady,
     address   |-> IF address = NoMac THEN knownAddress ELSE address,
     noise     |-> IF protocolReady THEN mode ELSE "null",
     ca        |-> IF ~protocolReady THEN "null" ELSE IF ca THEN "on" ELSE "off",
     left      |-> InEar("primary"),
     right     |-> InEar("secondary"),
     error     |-> lastError]

(* The file is replaced atomically (QSaveFile), or stays as it was. *)
WriteStateFile == \E ok \in FileResults : file' = IF ok THEN Status' ELSE file

(* a faulty variant: the ear statuses are not remembered *)
RememberAddressOnly ==
    /\ knownAddress' = IF address' = NoMac THEN knownAddress ELSE address'
    /\ knownEars' = knownEars

RememberKnownState ==
    /\ knownAddress' = IF address' = NoMac THEN knownAddress ELSE address'
    /\ knownEars' = Newest(knownEars, ears')

----------------------------------------------------------------------------
(* The pending control command and the replies. *)

(* The reply is written and the connection closed.  A CLI that has left    *)
(* does not see it; a null socket gets none.                               *)
Reply(cs, c, answer) ==
    IF c = NoConn THEN cs
    ELSE [cs EXCEPT ![c] = IF @.st = "left" THEN Idle
                           ELSE [@ EXCEPT !.st = answer]]

Pending == slot.kind # "None"

(* a faulty variant: pendingControlSocket_ is not cleared *)
FinishPendingKeepsSocket(answer) ==
    /\ slot' = [NoSlot EXCEPT !.sock = slot.sock]
    /\ timers' = timers \ PendingTimers
    /\ conn' = Reply(conn, slot.sock, answer)

(* a faulty variant: the settle timer is not stopped *)
FinishPendingKeepsSettle(answer) ==
    /\ slot' = NoSlot
    /\ timers' = timers \ {"slot", "poll"}
    /\ conn' = Reply(conn, slot.sock, answer)

(* a faulty variant: the reply is forgotten *)
FinishPendingSilently(answer) ==
    /\ slot' = NoSlot
    /\ timers' = timers \ PendingTimers
    /\ conn' = conn

FinishPending(answer) ==
    /\ slot' = NoSlot
    /\ timers' = timers \ PendingTimers
    /\ conn' = Reply(conn, slot.sock, answer)

FailPending == IF Pending THEN FinishPending("err") ELSE UNCHANGED slotVars

(* the slot of errorOccurred, before the state file is written *)
ErrorOccurred == lastError' = TRUE /\ FailPending

(* the connections after errorOccurred, for a handler that goes on to reply *)
ConnAfterError == IF Pending THEN Reply(conn, slot.sock, "err") ELSE conn

(* a faulty variant: any report confirms the command *)
TryCompleteOnAnyChange ==
    IF slot.kind \in {"Mode", "Ca"} THEN FinishPending("ok") ELSE UNCHANGED slotVars

TryComplete ==
    IF \/ slot.kind = "Mode" /\ mode' = slot.mode
       \/ slot.kind = "Ca" /\ ca' = slot.ca
    THEN FinishPending("ok")
    ELSE UNCHANGED slotVars

(* a faulty variant: bluezConnected_ is not consulted *)
CanSnapshotWithoutBluez == SessionReady

CanSnapshot == bluezConnected /\ SessionReady

(* requestSnapshot: nothing without a ready session; a failed write has    *)
(* already been through errorOccurred.                                     *)
RequestSnapshot(w) ==
    \/ /\ ~CanSnapshot
       /\ UNCHANGED <<lastError, slotVars, file>>
    \/ /\ CanSnapshot /\ w
       /\ UNCHANGED <<lastError, slotVars>>
       /\ WriteStateFile
    \/ /\ CanSnapshot /\ ~w
       /\ ErrorOccurred
       /\ WriteStateFile

----------------------------------------------------------------------------
(* Environment. *)

BluezChange ==
    /\ \E m \in Macs, s \in BluezStates :
            s # bluez[m] /\ bluez' = [bluez EXCEPT ![m] = s]
    /\ UNCHANGED <<clientVars, daemonVars, conn, file>>

(* A CLI process connects to the control socket and sends its request. *)
ClientSend(c) ==
    /\ phase \in {"sync", "loop"}
    /\ conn[c].st = "idle"
    /\ snapDelays + caDelays < MaxDelayed
    /\ \E r \in Requests : conn' = [conn EXCEPT ![c] = [st |-> "sent", req |-> r]]
    /\ UNCHANGED <<clientVars, daemonVars, bluez, file>>

(* A CLI process goes away (its own timeout, Ctrl-C).  A request already   *)
(* in the socket is still read; the socket of a pending one becomes null.  *)
ClientGone(c) ==
    /\ phase \in {"sync", "loop"}
    /\ \/ /\ conn[c].st = "sent"
          /\ conn' = [conn EXCEPT ![c].st = "left"]
          /\ UNCHANGED slot
       \/ /\ phase = "loop"
          /\ conn[c].st = "waiting"
          /\ conn' = [conn EXCEPT ![c] = Idle]
          /\ slot' = IF slot.sock = c THEN [slot EXCEPT !.sock = NoConn] ELSE slot
    /\ UNCHANGED <<clientVars, bluezVars, knownVars, lastError, timers, delayVars,
                   phase, bluez, file>>

(* A CLI process has read its answer, or the end of file, and exits. *)
ClientDone(c) ==
    /\ conn[c].st \in {"ok", "err", "lost"}
    /\ conn' = [conn EXCEPT ![c] = Idle]
    /\ UNCHANGED <<clientVars, daemonVars, bluez, file>>

----------------------------------------------------------------------------
(* Start, BlueZ synchronisation, and the end of the process. *)

(* a faulty variant: start() leaves the file of the last process alone *)
StartWithoutWrite ==
    /\ phase = "down"
    /\ phase' = "sync"
    /\ UNCHANGED <<clientVars, bluezVars, knownVars, lastError, slotVars, delayVars, bluez, file>>

Start ==
    /\ phase = "down"
    /\ phase' = "sync"
    /\ UNCHANGED <<clientVars, bluezVars, knownVars, lastError, slotVars, delayVars, bluez>>
    /\ WriteStateFile

(* queryBluezAirPods: a query that fails reads as a bus without AirPods *)
Listed(busOk) == IF busOk THEN {m \in Macs : bluez[m] # "absent"} ELSE {}

First(S) == CHOOSE m \in S : \A n \in S : Rank[m] <= Rank[n]

Selection(devices) ==
    LET up == {m \in devices : bluez[m] = "connected"}
    IN  IF up # {} THEN First(up)
        ELSE IF devices # {} THEN First(devices)
        ELSE NoMac

(* a faulty variant: only the loss of the target ends a session *)
SessionKeptOnSwitch(switch, up, target) == IsConnected /\ ~up

(* a faulty variant: the address comparison is inverted *)
SessionComparedWrongly(switch, up, target) ==
    IsConnected /\ (switch \/ ~up \/ address = target)

(* the calls of disconnectFromDevice in syncBluezState *)
SessionUnwanted(switch, up, target) ==
    IsConnected /\ (switch \/ ~up \/ address # target)

(* syncBluezState.  k is how the closed session signals, r what dialling   *)
(* the target leads to.  The file is written when BlueZ's view of the      *)
(* target changed, and by the slots of disconnected and errorOccurred.     *)
SyncBluezState ==
    \E busOk \in BusResults, k \in CloseKinds, r \in DialResults :
    LET devices   == Listed(busOk)
        selected  == IF ConfiguredMac = NoMac THEN Selection(devices) ELSE selectedMac
        switch    == selected # selectedMac
        target    == IF ConfiguredMac = NoMac THEN selected ELSE ConfiguredMac
        found     == target \in devices
        up        == found /\ bluez[target] = "connected"
        name      == IF found THEN target ELSE NoMac
        changed   == switch \/ up # bluezConnected \/ name # bluezName
        drop      == SessionUnwanted(switch, up, target)
        dial      == up /\ (drop \/ ~IsConnected)
        failed    == dial /\ r = "closed"
        signalled == (drop \/ dial) /\ ClosingSignals(k)
    IN  /\ phase \in {"sync", "loop"}
        /\ phase' = "loop"
        /\ selectedMac' = selected
        /\ bluezConnected' = up
        /\ bluezName' = name
        /\ knownAddress' = IF target = NoMac THEN knownAddress ELSE target
        /\ lastError' = (failed \/ (lastError /\ ~switch))
        /\ IF dial THEN ConnectToDevice(target, k, r)
           ELSE IF drop THEN DisconnectFromDevice(k)
           ELSE UNCHANGED clientVars
        /\ IF signalled \/ failed THEN FailPending ELSE UNCHANGED slotVars
        /\ UNCHANGED <<knownEars, delayVars, bluez>>
        /\ IF changed \/ failed THEN WriteStateFile
           ELSE IF signalled
           THEN \E ok \in FileResults :
                   file' = IF ok THEN [Status' EXCEPT !.address = address] ELSE file
           ELSE UNCHANGED file

(* SIGUSR1: refreshNow.  When no snapshot could be requested the BlueZ     *)
(* state is synchronised in the same call.                                 *)
RefreshNow ==
    /\ phase = "loop" /\ "USR1" \in Signals
    /\ UNCHANGED <<clientVars, bluezVars, knownVars, delayVars, bluez>>
    /\ \E w \in WriteResults :
        /\ phase' = IF CanSnapshot /\ w THEN "loop" ELSE "sync"
        /\ RequestSnapshot(w)

(* a faulty variant: cleanup does not reset bluezConnected_ *)
QuitStillConnected ==
    /\ phase = "loop" /\ "QUIT" \in Signals
    /\ phase' = "stopped"
    /\ FailPending
    /\ IF IsConnected THEN \E k \in CloseKinds : DisconnectFromDevice(k)
       ELSE UNCHANGED clientVars
    /\ UNCHANGED <<bluezVars, knownVars, lastError, delayVars, bluez>>
    /\ WriteStateFile

(* SIGINT, SIGTERM: quit() ends the loop and aboutToQuit runs cleanup.     *)
Quit ==
    /\ phase = "loop" /\ "QUIT" \in Signals
    /\ phase' = "stopped"
    /\ bluezConnected' = FALSE
    /\ FailPending
    /\ IF IsConnected THEN \E k \in CloseKinds : DisconnectFromDevice(k)
       ELSE UNCHANGED clientVars
    /\ UNCHANGED <<selectedMac, bluezName, knownVars, lastError, delayVars, bluez>>
    /\ WriteStateFile

(* The process ends: nothing but the file survives, and every connection   *)
(* without an answer reads the end of file.                                *)
ProcessGone ==
    /\ ClientReset
    /\ selectedMac' = NoMac /\ bluezConnected' = FALSE /\ bluezName' = NoMac
    /\ knownAddress' = NoMac /\ knownEars' = NoEars
    /\ lastError' = FALSE
    /\ slot' = NoSlot /\ timers' = {}
    /\ snapDelays' = 0 /\ caDelays' = 0
    /\ phase' = "down"
    /\ conn' = [c \in Clients |->
                  CASE conn[c].st \in {"sent", "waiting"} -> [conn[c] EXCEPT !.st = "lost"]
                    [] conn[c].st = "left"                -> Idle
                    [] OTHER                              -> conn[c]]
    /\ UNCHANGED <<bluez, file>>

Exit == phase = "stopped" /\ ProcessGone

(* SIGKILL, a fault, power loss *)
Crash == phase # "down" /\ "KILL" \in Signals /\ ProcessGone

----------------------------------------------------------------------------
(* Slots on the client's signals. *)

SocketConnected ==
    /\ phase = "loop"
    /\ \E w \in WriteResults :
        /\ OnSocketConnected(w)
        /\ IF w THEN UNCHANGED slotVars ELSE FailPending
    /\ lastError' = FALSE
    /\ RememberKnownState
    /\ UNCHANGED <<bluezVars, delayVars, phase, bluez>>
    /\ WriteStateFile

(* a faulty variant: a lost session leaves the command pending *)
SocketDisconnectedKeepsPending ==
    /\ phase = "loop"
    /\ OnSocketDisconnected
    /\ UNCHANGED <<lastError, slotVars, bluezVars, knownVars, delayVars, phase, bluez>>
    /\ WriteStateFile

(* The device or the link goes away, with or without a socket error first. *)
SocketDisconnected ==
    /\ phase = "loop"
    /\ OnSocketDisconnected
    /\ lastError' \in {lastError, TRUE}
    /\ FailPending
    /\ UNCHANGED <<bluezVars, knownVars, delayVars, phase, bluez>>
    /\ WriteStateFile

(* a faulty variant: no write after a late disconnected *)
LateDisconnectedUnwritten ==
    /\ phase = "loop"
    /\ OnLateDisconnected
    /\ FailPending
    /\ UNCHANGED <<bluezVars, knownVars, lastError, delayVars, phase, bluez, file>>

LateDisconnected ==
    /\ phase = "loop"
    /\ OnLateDisconnected
    /\ FailPending
    /\ UNCHANGED <<bluezVars, knownVars, lastError, delayVars, phase, bluez>>
    /\ WriteStateFile

(* a faulty variant: no write after a socket error *)
SocketErrorUnwritten ==
    /\ phase = "loop"
    /\ OnSocketError
    /\ ErrorOccurred
    /\ UNCHANGED <<bluezVars, knownVars, delayVars, phase, bluez, file>>

SocketError ==
    /\ phase = "loop"
    /\ OnSocketError
    /\ ErrorOccurred
    /\ UNCHANGED <<bluezVars, knownVars, delayVars, phase, bluez>>
    /\ WriteStateFile

HandshakeAck ==
    /\ phase = "loop"
    /\ UNCHANGED <<bluezVars, knownVars, delayVars, phase, bluez>>
    /\ \E w \in WriteResults :
        /\ OnHandshakeAck(w)
        /\ IF w THEN UNCHANGED <<lastError, slotVars, file>>
           ELSE ErrorOccurred /\ WriteStateFile

(* The first one makes the protocol ready: its slot clears the error of a  *)
(* failed notifications request and asks for the initial snapshot.         *)
FeaturesAck ==
    /\ phase = "loop"
    /\ UNCHANGED <<bluezVars, delayVars, phase, bluez>>
    /\ \E w \in WriteResults, initial \in WriteResults :
        LET snapshotFails == bluezConnected /\ ~initial
        IN  /\ OnFeaturesAck(w)
            /\ \/ /\ protocolReady /\ w
                  /\ UNCHANGED <<knownVars, lastError, slotVars, file>>
               \/ /\ protocolReady /\ ~w
                  /\ ErrorOccurred
                  /\ UNCHANGED knownVars
                  /\ WriteStateFile
               \/ /\ ~protocolReady
                  /\ RememberKnownState
                  /\ lastError' = snapshotFails
                  /\ IF ~w \/ snapshotFails THEN FailPending ELSE UNCHANGED slotVars
                  /\ WriteStateFile

(* the slot of stateChanged, up to tryCompletePendingControl *)
StateChanged ==
    /\ phase = "loop"
    /\ lastError' = FALSE
    /\ RememberKnownState
    /\ UNCHANGED <<bluezVars, delayVars, phase, bluez>>

(* a faulty variant: no write after a report *)
NoiseReportUnwritten ==
    /\ \E m \in NoiseReports : OnNoiseControl(m)
    /\ StateChanged /\ TryComplete
    /\ UNCHANGED file

NoiseReport ==
    /\ \E m \in NoiseReports : OnNoiseControl(m)
    /\ StateChanged /\ TryComplete
    /\ WriteStateFile

CaReport ==
    /\ \E b \in CaReports : OnConversationalAwareness(b)
    /\ StateChanged /\ TryComplete
    /\ WriteStateFile

OtherReport ==
    /\ OnOtherReport
    /\ StateChanged /\ TryComplete
    /\ WriteStateFile

(* packetReceived follows stateChanged: fresh ear data lets a pending      *)
(* status request settle instead of polling on.                            *)
EarReport ==
    /\ \E e \in EarReports : OnEarDetection(e)
    /\ StateChanged
    /\ IF slot.kind = "Status"
       THEN /\ slot' = [slot EXCEPT !.fresh = TRUE]
            /\ timers' = (timers \ {"poll"}) \union {"settle"}
            /\ UNCHANGED conn
       ELSE TryComplete
    /\ WriteStateFile

----------------------------------------------------------------------------
(* processControlRequest, one action per command. *)

Request(c, cmd) ==
    /\ phase = "loop"
    /\ conn[c].st \in {"sent", "left"}
    /\ conn[c].req.cmd = cmd

OtherDevice(c) ==
    LET m == conn[c].req.mac
    IN  m # NoMac /\ Target # NoMac /\ m # Target

(* the answer is given at once, nothing else changes *)
Answer(c, answer) ==
    /\ conn' = Reply(conn, c, answer)
    /\ UNCHANGED <<lastError, slot, timers, delayVars, file>>

(* the QPointer to the socket of c, null once a CLI that left is noticed *)
Holder(c) == IF conn[c].st = "left" THEN NoConn ELSE c

Accepted(c) ==
    [conn EXCEPT ![c] = IF @.st = "left" THEN Idle ELSE [@ EXCEPT !.st = "waiting"]]

(* beginPendingControl, and the write the command starts with went out *)
Begin(c, command) ==
    /\ slot' = command
    /\ conn' = Accepted(c)
    /\ lastError' = lastError

(* beginPendingControl, and the write failed: errorOccurred has answered *)
BeginFails(c) ==
    /\ slot' = NoSlot
    /\ timers' = timers \ PendingTimers
    /\ conn' = Reply(conn, c, "err")
    /\ lastError' = TRUE
    /\ WriteStateFile

(* the value asked for is in the cache *)
CachedAnswer(c, same) ==
    /\ same
    /\ UNCHANGED delayVars
    /\ \/ /\ TRUE \in WriteResults
          /\ conn' = Reply(conn, c, "ok")
          /\ UNCHANGED <<lastError, slot, timers>>
       \/ /\ FALSE \in WriteResults
          /\ conn' = Reply(ConnAfterError, c, "ok")
          /\ slot' = IF Pending THEN NoSlot ELSE slot
          /\ timers' = IF Pending THEN timers \ PendingTimers ELSE timers
          /\ lastError' = TRUE
    /\ WriteStateFile

Command(c, kind) ==
    [NoSlot EXCEPT !.kind = kind, !.sock = Holder(c), !.dev = address]

(* status: answered at once without a ready session.  When the first       *)
(* snapshot fails the request has its answer, and the poll timer is armed  *)
(* all the same.                                                           *)
ProcessStatus(c) ==
    /\ Request(c, "status")
    /\ UNCHANGED <<clientVars, bluezVars, knownVars, phase, bluez>>
    /\ \/ OtherDevice(c) /\ Answer(c, "err")
       \/ ~OtherDevice(c) /\ ~SessionReady /\ Answer(c, "ok")
       \/ ~OtherDevice(c) /\ SessionReady /\ Pending /\ Answer(c, "err")
       \/ /\ ~OtherDevice(c) /\ SessionReady /\ ~Pending
          /\ UNCHANGED delayVars
          /\ \/ /\ ~bluezConnected \/ TRUE \in WriteResults
                /\ Begin(c, [Command(c, "Status") EXCEPT !.attempts = 1])
                /\ timers' = timers \union {"slot", "poll"}
                /\ IF bluezConnected THEN WriteStateFile ELSE UNCHANGED file
             \/ /\ bluezConnected /\ FALSE \in WriteResults
                /\ slot' = [NoSlot EXCEPT !.attempts = 1]
                /\ timers' = (timers \ PendingTimers) \union {"poll"}
                /\ conn' = Reply(conn, c, "err")
                /\ lastError' = TRUE
                /\ WriteStateFile

(* mode: a value the cache already holds is answered ok, after asking for  *)
(* a snapshot whose failure goes to the pending command, not to this one.  *)
ProcessMode(c) ==
    /\ Request(c, "mode")
    /\ UNCHANGED <<clientVars, bluezVars, knownVars, phase, bluez>>
    /\ \/ (OtherDevice(c) \/ ~CanSnapshot) /\ Answer(c, "err")
       \/ /\ ~OtherDevice(c) /\ CanSnapshot
          /\ CachedAnswer(c, mode = conn[c].req.mode)
       \/ /\ ~OtherDevice(c) /\ CanSnapshot /\ mode # conn[c].req.mode
          /\ Pending /\ Answer(c, "err")
       \/ /\ ~OtherDevice(c) /\ CanSnapshot /\ mode # conn[c].req.mode
          /\ ~Pending
          /\ \/ /\ TRUE \in WriteResults
                /\ Begin(c, [Command(c, "Mode") EXCEPT !.mode = conn[c].req.mode])
                /\ timers' = timers \union {"slot"}
                /\ snapDelays' = snapDelays + 1
                /\ UNCHANGED <<caDelays, file>>
             \/ /\ FALSE \in WriteResults
                /\ BeginFails(c)
                /\ UNCHANGED delayVars

(* ca: enabling it in Off or NoiseCancellation first switches to Adaptive, *)
(* and the command itself follows after a delay.                           *)
ProcessCa(c) ==
    LET on    == conn[c].req.on
        first == on /\ mode \notin {"Adaptive", "Transparency"}
    IN  /\ Request(c, "ca")
        /\ UNCHANGED <<clientVars, bluezVars, knownVars, phase, bluez>>
        /\ \/ (OtherDevice(c) \/ ~CanSnapshot) /\ Answer(c, "err")
           \/ /\ ~OtherDevice(c) /\ CanSnapshot
              /\ CachedAnswer(c, ca = on)
           \/ /\ ~OtherDevice(c) /\ CanSnapshot /\ ca # on
              /\ Pending /\ Answer(c, "err")
           \/ /\ ~OtherDevice(c) /\ CanSnapshot /\ ca # on
              /\ ~Pending
              /\ \/ /\ TRUE \in WriteResults
                    /\ Begin(c, [Command(c, "Ca") EXCEPT !.ca = on])
                    /\ timers' = timers \union {"slot"}
                    /\ caDelays' = IF first THEN caDelays + 1 ELSE caDelays
                    /\ snapDelays' = IF first THEN snapDelays ELSE snapDelays + 1
                    /\ UNCHANGED file
                 \/ /\ FALSE \in WriteResults
                    /\ BeginFails(c)
                    /\ UNCHANGED delayVars

(* not JSON, an invalid value, an unknown command: refused on every path *)
ProcessOther(c) ==
    /\ Request(c, "other")
    /\ Answer(c, "err")
    /\ UNCHANGED <<clientVars, bluezVars, knownVars, phase, bluez>>

ProcessControlRequest(c) ==
    ProcessStatus(c) \/ ProcessMode(c) \/ ProcessCa(c) \/ ProcessOther(c)

----------------------------------------------------------------------------
(* Timers. *)

(* a faulty variant: only status requests time out *)
SlotTimeoutStatusOnly ==
    /\ phase = "loop" /\ "slot" \in timers
    /\ slot.kind = "Status"
    /\ FinishPending("ok")
    /\ UNCHANGED <<clientVars, bluezVars, knownVars, lastError, delayVars, phase, bluez, file>>

(* no confirmation within six seconds; a status request is answered ok *)
SlotTimeout ==
    /\ phase = "loop" /\ "slot" \in timers
    /\ FinishPending(IF slot.kind = "Status" THEN "ok" ELSE "err")
    /\ UNCHANGED <<clientVars, bluezVars, knownVars, lastError, delayVars, phase, bluez, file>>

(* a faulty variant: the number of snapshots is not limited *)
StatusPollUnbounded ==
    /\ phase = "loop" /\ "poll" \in timers
    /\ UNCHANGED <<clientVars, bluezVars, knownVars, delayVars, phase, bluez>>
    /\ slot.kind = "Status" /\ CanSnapshot
    /\ slot' = [slot EXCEPT !.attempts = @ + 1]
    /\ UNCHANGED <<lastError, timers, conn>>
    /\ WriteStateFile

StatusPoll ==
    /\ phase = "loop" /\ "poll" \in timers
    /\ UNCHANGED <<clientVars, bluezVars, knownVars, delayVars, phase, bluez>>
    /\ \/ /\ slot.kind # "Status" \/ slot.attempts >= StatusPollLimit
          /\ timers' = timers \ {"poll"}
          /\ UNCHANGED <<lastError, slot, conn, file>>
       \/ /\ slot.kind = "Status" /\ slot.attempts < StatusPollLimit
          /\ ~CanSnapshot \/ TRUE \in WriteResults
          /\ slot' = [slot EXCEPT !.attempts = @ + 1]
          /\ UNCHANGED <<lastError, timers, conn>>
          /\ IF CanSnapshot THEN WriteStateFile ELSE UNCHANGED file
       \/ /\ slot.kind = "Status" /\ slot.attempts < StatusPollLimit
          /\ CanSnapshot /\ FALSE \in WriteResults
          /\ slot' = [NoSlot EXCEPT !.attempts = 1]
          /\ timers' = timers \ PendingTimers
          /\ conn' = ConnAfterError
          /\ lastError' = TRUE
          /\ WriteStateFile

StatusSettle ==
    /\ phase = "loop" /\ "settle" \in timers
    /\ IF slot.kind = "Status" THEN FinishPending("ok")
       ELSE timers' = timers \ {"settle"} /\ UNCHANGED <<slot, conn>>
    /\ UNCHANGED <<clientVars, bluezVars, knownVars, lastError, delayVars, phase, bluez, file>>

(* the 250 ms single shot after a mode or CA command *)
SnapshotDelay ==
    /\ phase = "loop" /\ snapDelays > 0
    /\ UNCHANGED <<clientVars, bluezVars, knownVars, caDelays, phase, bluez>>
    /\ snapDelays' = snapDelays - 1
    /\ \E w \in WriteResults : RequestSnapshot(w)

(* The 350 ms single shot: issueCaCommand, for whatever CA command is      *)
(* pending by then.                                                        *)
CaDelay ==
    /\ phase = "loop" /\ caDelays > 0
    /\ UNCHANGED <<clientVars, bluezVars, knownVars, phase, bluez>>
    /\ caDelays' = caDelays - 1
    /\ \/ /\ slot.kind # "Ca"
          /\ UNCHANGED <<lastError, slotVars, snapDelays, file>>
       \/ /\ slot.kind = "Ca"
          /\ \E w \in WriteResults :
             IF Written(w)
             THEN /\ snapDelays' = snapDelays + 1
                  /\ UNCHANGED <<lastError, slotVars, file>>
             ELSE /\ ErrorOccurred
                  /\ UNCHANGED snapDelays
                  /\ WriteStateFile

SnapshotTimer ==
    /\ phase = "loop" /\ PeriodicSnapshots
    /\ UNCHANGED <<clientVars, bluezVars, knownVars, delayVars, phase, bluez>>
    /\ \E w \in WriteResults : RequestSnapshot(w)

----------------------------------------------------------------------------
Next ==
    \/ BluezChange
    \/ \E c \in Clients :
          ClientSend(c) \/ ClientGone(c) \/ ClientDone(c) \/ ProcessControlRequest(c)
    \/ Start \/ SyncBluezState \/ RefreshNow \/ Quit \/ Exit \/ Crash
    \/ SocketConnected \/ SocketDisconnected \/ LateDisconnected \/ SocketError
    \/ HandshakeAck \/ FeaturesAck
    \/ NoiseReport \/ CaReport \/ EarReport \/ OtherReport
    \/ SlotTimeout \/ StatusPoll \/ StatusSettle
    \/ SnapshotDelay \/ CaDelay \/ SnapshotTimer

Spec == Init /\ [][Next]_vars

(* The event loop serves every request and timer that stays ready, also    *)
(* when blocking D-Bus calls keep it busy in between; those calls return,  *)
(* and a loop that was told to quit ends.  Nothing is assumed of the       *)
(* device, of BlueZ, or of the CLI processes.                              *)
Fairness ==
    /\ WF_vars(phase = "sync" /\ SyncBluezState)
    /\ WF_vars(Exit)
    /\ SF_vars(SlotTimeout)
    /\ \A c \in Clients : SF_vars(ProcessControlRequest(c))

FairSpec == Spec /\ Fairness


----------------------------------------------------------------------------
(* Properties. *)

(* A CLI process waits for an answer exactly when the pending command is   *)
(* its own: no accepted request loses its reply when the slot is cleared   *)
(* or taken by another, and no answer goes to a connection that has one    *)
(* (pendingControlSocket_, finishPendingControl).                          *)
OneOwner == \A c \in Clients : conn[c].st = "waiting" <=> slot.sock = c

(* The six-second timeout runs exactly while a command is pending, so the  *)
(* slot can neither be held for ever nor be freed by the timeout of an     *)
(* earlier command; the settle timer only runs for the status request that *)
(* saw fresh ear data, and one that did not see any goes on polling until  *)
(* its snapshots are used up.                                              *)
SlotTimers ==
    /\ Pending <=> "slot" \in timers
    /\ "settle" \in timers => slot.kind = "Status" /\ slot.fresh
    /\ slot.kind = "Status" => \/ "settle" \in timers
                               \/ "poll" \in timers
                               \/ slot.attempts >= StatusPollLimit

(* A pending command belongs to the session it was accepted on: when that  *)
(* session ends the command has been failed, or the disconnected that will *)
(* fail it is on its way.  No command waits across a reconnection.         *)
PendingHasSession == Pending => late \/ (SessionReady /\ address = slot.dev)

(* A mode or CA command is only ever pending for the device the daemon     *)
(* manages now, and only while BlueZ has that device connected; a single   *)
(* shot that fires late therefore never commands another device.           *)
CommandForTarget ==
    slot.kind \in {"Mode", "Ca"} => late \/ (slot.dev = Target /\ bluezConnected)

(* While BlueZ has the target connected, the session that exists or is     *)
(* being dialled is the target's, whatever the selection went through.     *)
SessionForTarget ==
    bluezConnected /\ sock \in {"connecting", "connected"} => address = Target

(* What the two groups of invariants above rest on: an empty slot has no   *)
(* owner, a ready protocol has its socket, and a socket does not connect   *)
(* before the disconnected of its predecessor has been handled.            *)
SlotInv == OneOwner /\ SlotTimers /\ (slot.sock # NoConn => Pending)

SessionInv ==
    /\ ReadyImpliesSocket
    /\ IsConnected => ~late
    /\ PendingHasSession
    /\ CommandForTarget
    /\ SessionForTarget

(* The state file is never behind the daemon once a handler has returned,  *)
(* when writes succeed and disconnected is not still to come: consumers    *)
(* that watch the file see what a status request would be told.  The       *)
(* address is left out before the first session with a configured MAC.     *)
FileFresh ==
    phase = "loop" /\ ~late =>
        file = IF address = NoMac /\ ConfiguredMac # NoMac
               THEN [Status EXCEPT !.address = file.address] ELSE Status

(* Whatever the ears reported is remembered before anything else is done   *)
(* with it, so includeEarStatus (which hides ear data of a status reply    *)
(* that saw none) never hides data buildStateObject would have shown.      *)
EarsRemembered == knownEars = NoEars => ears = NoEars

(* The last thing a daemon that is told to quit leaves in the file is that *)
(* no daemon runs, nothing is connected, and neither a mode nor CA is      *)
(* known, whatever session or command it had to give up for that.  One     *)
(* exception: a session closed with bytes still queued, before or by       *)
(* cleanup.  Its disconnected is yet to come when cleanup writes the file, *)
(* so that protocolReady_ is still set and the mode and CA of the session  *)
(* that was given up stay in the file.                                     *)
CleanExitFile ==
    phase = "stopped" =>
        /\ ~file.running /\ ~file.connected /\ ~file.protocol
        /\ late \/ (file.noise = "null" /\ file.ca = "null")

Answers(c) == conn[c].st \in {"sent", "left", "waiting"} /\ conn'[c].st = "ok"

(* ok to a mode or CA command means that the state the daemon has on       *)
(* record, at that moment and on a ready session, is the state asked for.  *)
OkMatchesCache ==
    [][\A c \in Clients :
          Answers(c) =>
            /\ conn[c].req.cmd = "mode" => SessionReady' /\ mode' = conn[c].req.mode
            /\ conn[c].req.cmd = "ca"   => SessionReady' /\ ca' = conn[c].req.on]_vars

(* What a CLI can see of the daemon is the service of RequestReply, whose  *)
(* record is what a ready session has cached: at most one answer to each   *)
(* request, one request worked on at a time, ok only to what the record    *)
(* confirms, and no connection dropped by a daemon that runs on.           *)
NoRecord == [mode |-> "null", ca |-> FALSE]

Promise == INSTANCE RequestReply WITH
    up       <- phase # "down",
    record   <- IF SessionReady THEN [mode |-> mode, ca |-> ca] ELSE NoRecord,
    Records  <- [mode : NoiseControlMode, ca : BOOLEAN]

KeepsPromise == Promise!Spec

(* The daemon gives a session up only when the device is gone: BlueZ does  *)
(* not have it connected, or the link itself ends.                         *)
PersistentSession ==
    [][IsConnected /\ phase = "loop" /\ phase' = "loop" /\ ~IsConnected' /\ sock' # "closed"
         => bluez[address] # "connected"]_vars

(* The README's promise at its narrowest: the daemon keeps a session open  *)
(* whose handshake is done and whose device BlueZ has connected.  A D-Bus  *)
(* query that fails, which reads as an empty list, breaks even this.       *)
ReadySessionKept ==
    [][SessionReady /\ phase = "loop" /\ phase' = "loop" /\ ~IsConnected' /\ sock' # "closed"
         => bluez[address] # "connected"]_vars

(* Every request that reaches the daemon is answered, or its connection    *)
(* ends with the process or with the CLI: the timeout frees the slot even  *)
(* when the device never confirms.                                         *)
EveryRequestAnswered ==
    \A c \in Clients :
        conn[c].st = "sent" ~> conn[c].st \in {"ok", "err", "lost", "idle"}

(* No command keeps the single slot for ever, not even one whose CLI has   *)
(* gone: later commands are not refused as busy for good.                  *)
SlotFreed == Pending ~> ~Pending
============================================================================
