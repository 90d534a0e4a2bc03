----------------------- MODULE VibepodsDaemonPromises -----------------------
(***************************************************************************)
(* What VibepodsDaemon promises to those outside it: the CLI processes on  *)
(* its control socket, which get the service of RequestReply, and the      *)
(* readers of its state file.                                              *)
(***************************************************************************)
EXTENDS VibepodsDaemonProofs

----------------------------------------------------------------------------
(* EarsRemembered *)

(* what each step does to the ear statuses *)
LEMMA EarMoves ==
    ASSUME Next
    PROVE  \/ UNCHANGED <<knownEars, ears>>
           \/ RememberKnownState
           \/ knownEars' = NoEars /\ ears' = NoEars
  <1> USE DEF clientVars, reportVars, knownVars, daemonVars
  <1>1. CASE BluezChange \/ Start \/ RefreshNow
    BY <1>1 DEF BluezChange, Start, RefreshNow
  <1>2. ASSUME NEW c \in Clients,
               ClientSend(c) \/ ClientGone(c) \/ ClientDone(c) \/ ProcessControlRequest(c)
        PROVE  UNCHANGED <<knownEars, ears>>
    BY <1>2 DEF ClientSend, ClientGone, ClientDone, ProcessControlRequest, ProcessStatus,
                ProcessMode, ProcessCa, ProcessOther
  <1>3. CASE SyncBluezState
    BY <1>3 DEF SyncBluezState, ConnectToDevice, DisconnectFromDevice
  <1>4. CASE Quit
    BY <1>4 DEF Quit, DisconnectFromDevice
  <1>5. CASE Exit \/ Crash
    BY <1>5 DEF Exit, Crash, ProcessGone, ClientReset
  <1>6. CASE SocketConnected
    BY <1>6 DEF SocketConnected
  <1>7. CASE SocketDisconnected \/ LateDisconnected \/ SocketError
    BY <1>7 DEF SocketDisconnected, LateDisconnected, SocketError, OnSocketDisconnected,
                OnLateDisconnected, OnSocketError
  <1>8. CASE HandshakeAck
    BY <1>8 DEF HandshakeAck, OnHandshakeAck
  <1>9. CASE FeaturesAck
    <2>1. UNCHANGED ears /\ (UNCHANGED knownEars \/ RememberKnownState)
      BY <1>9 DEF FeaturesAck, OnFeaturesAck
    <2> QED
      BY <2>1
  <1>10. CASE NoiseReport \/ CaReport \/ OtherReport \/ EarReport
    BY <1>10 DEF NoiseReport, CaReport, OtherReport, EarReport, StateChanged
  <1>11. CASE SlotTimeout \/ StatusPoll \/ StatusSettle
    BY <1>11 DEF SlotTimeout, StatusPoll, StatusSettle
  <1>12. CASE SnapshotDelay \/ CaDelay \/ SnapshotTimer
    BY <1>12 DEF SnapshotDelay, CaDelay, SnapshotTimer
  <1> QED
    BY <1>1, <1>2, <1>3, <1>4, <1>5, <1>6, <1>7, <1>8, <1>9, <1>10, <1>11, <1>12 DEF Next

(* both statuses of new end up in Newest(old, new) unless they are unknown *)
LEMMA NewestForgetsNothing ==
    ASSUME NEW old, NEW new \in EarStatuses, Newest(old, new) = NoEars
    PROVE  new = NoEars
  <1>1. /\ Newest(old, new)["primary"] = "Disconnected"
        /\ Newest(old, new)["secondary"] = "Disconnected"
    BY DEF NoEars
  <1>2. new["primary"] = "Disconnected" /\ new["secondary"] = "Disconnected"
    BY <1>1 DEF Newest
  <1> QED
    BY <1>2 DEF NoEars, EarStatuses

(* Ear data the client has is in the daemon's memory as well, whatever     *)
(* sessions and devices come and go: the slots that see a report first     *)
(* call rememberKnownState, and syncBluezState never clears it.            *)
THEOREM EarsInMemory == Spec => []EarsRemembered
  <1>1. Init => EarsRemembered
    BY DEF Init, ClientInit, EarsRemembered
  <1>2. ASSUME EarsRemembered, TypeOK', [Next]_vars
        PROVE  EarsRemembered'
    <2>1. CASE UNCHANGED <<knownEars, ears>>
      BY <1>2, <2>1 DEF EarsRemembered
    <2>2. CASE RememberKnownState
      <3>1. ears' \in EarStatuses
        BY <1>2 DEF TypeOK, ClientTypeOK
      <3> QED
        BY <2>2, <3>1, NewestForgetsNothing DEF RememberKnownState, EarsRemembered
    <2>3. CASE knownEars' = NoEars /\ ears' = NoEars
      BY <2>3 DEF EarsRemembered
    <2>4. CASE UNCHANGED vars
      BY <2>1, <2>4 DEF vars, clientVars, reportVars, daemonVars, knownVars
    <2> QED
      BY <1>2, <2>1, <2>2, <2>3, <2>4, EarMoves
  <1> QED
    BY <1>1, <1>2, TypeCorrect, PTL DEF Spec

----------------------------------------------------------------------------
(* CleanExitFile *)

(* once the loop has ended nobody touches the file any more, nor delivers  *)
(* a disconnected                                                          *)
LEMMA StoppedLeavesFile ==
    ASSUME Next, phase' = "stopped"
    PROVE  Quit \/ (phase = "stopped" /\ UNCHANGED <<file, late>>)
  <1> USE DEF daemonVars, clientVars, sessionVars
  <1>1. CASE BluezChange
    BY <1>1 DEF BluezChange
  <1>2. ASSUME NEW c \in Clients, ClientSend(c) \/ ClientGone(c) \/ ClientDone(c)
        PROVE  phase = "stopped" /\ UNCHANGED <<file, late>>
    BY <1>2 DEF ClientSend, ClientGone, ClientDone
  <1>3. ASSUME NEW c \in Clients, ProcessControlRequest(c) PROVE FALSE
    BY <1>3 DEF ProcessControlRequest, ProcessStatus, ProcessMode, ProcessCa, ProcessOther, Request
  <1>4. CASE Start \/ SyncBluezState \/ RefreshNow \/ Exit \/ Crash
    BY <1>4 DEF Start, SyncBluezState, RefreshNow, Exit, Crash, ProcessGone
  <1>5. CASE SocketConnected \/ SocketDisconnected \/ LateDisconnected \/ SocketError
    BY <1>5 DEF SocketConnected, SocketDisconnected, LateDisconnected, SocketError
  <1>6. CASE HandshakeAck \/ FeaturesAck
    BY <1>6 DEF HandshakeAck, FeaturesAck
  <1>7. CASE NoiseReport \/ CaReport \/ OtherReport \/ EarReport
    BY <1>7 DEF NoiseReport, CaReport, OtherReport, EarReport, StateChanged
  <1>8. CASE SlotTimeout \/ StatusPoll \/ StatusSettle
    BY <1>8 DEF SlotTimeout, StatusPoll, StatusSettle
  <1>9. CASE SnapshotDelay \/ CaDelay \/ SnapshotTimer
    BY <1>9 DEF SnapshotDelay, CaDelay, SnapshotTimer
  <1> QED
    BY <1>1, <1>2, <1>3, <1>4, <1>5, <1>6, <1>7, <1>8, <1>9 DEF Next

(* What the file says after quit, when writes succeed (cleanup): nothing   *)
(* runs or is connected, and no mode or CA is known, unless a session's    *)
(* disconnected is still to come, which the client's protocolReady_ waits  *)
(* for.                                                                    *)
THEOREM CleanExit ==
    ASSUME CloseKinds \subseteq {"sync", "late"}, FALSE \notin FileResults
    PROVE  Spec => []CleanExitFile
  <1>1. ASSUME SessionInv', Quit
        PROVE  CleanExitFile'
    <2>1. file' = Status'
      BY <1>1, DaemonAssumption DEF Quit, WriteStateFile
    <2>2. phase' = "stopped" /\ bluezConnected' = FALSE /\ sock' # "connected"
      BY <1>1 DEF Quit, DisconnectFromDevice, IsConnected, clientVars, sessionVars
    <2>3. ~file'.running /\ ~file'.connected
      BY <2>1, <2>2 DEF Status
    <2>4. ~file'.protocol
      BY <2>1, <2>2 DEF Status, SessionReady, IsConnected
    <2>5. CASE late'
      BY <2>3, <2>4, <2>5 DEF CleanExitFile
    <2>6. CASE ~late'
      <3>1. ~protocolReady'
        BY <1>1, <2>2, <2>6 DEF SessionInv, ReadyImpliesSocket, IsConnected
      <3>2. file'.noise = "null" /\ file'.ca = "null"
        BY <2>1, <3>1 DEF Status
      <3> QED
        BY <2>3, <2>4, <3>2 DEF CleanExitFile
    <2> QED
      BY <2>5, <2>6
  <1>2. ASSUME SessionInv', CleanExitFile, [Next]_vars
        PROVE  CleanExitFile'
    <2>1. CASE phase' # "stopped"
      BY <2>1 DEF CleanExitFile
    <2>2. CASE phase' = "stopped" /\ Next
      BY <1>1, <1>2, <2>2, StoppedLeavesFile DEF CleanExitFile
    <2>3. CASE UNCHANGED vars
      BY <1>2, <2>3 DEF vars, daemonVars, clientVars, sessionVars, CleanExitFile
    <2> QED
      BY <1>2, <2>1, <2>2, <2>3
  <1>3. Init => CleanExitFile
    BY DEF Init, CleanExitFile
  <1> QED
    BY <1>2, <1>3, SessionInvariant, PTL DEF Spec

----------------------------------------------------------------------------
(* KeepsPromise: VibepodsDaemon implements RequestReply *)

(* the pending command is the one its owner asked for *)
SlotMatches ==
    \A c \in Clients : slot.sock = c =>
        /\ slot.kind = "Status" => conn[c].req.cmd = "status"
        /\ slot.kind = "Mode" => conn[c].req.cmd = "mode" /\ conn[c].req.mode = slot.mode
        /\ slot.kind = "Ca" => conn[c].req.cmd = "ca" /\ conn[c].req.on = slot.ca

(* a connection that is idle has forgotten its request *)
IdleClean == \A c \in Clients : conn[c].st = "idle" => conn[c] = Idle

PromiseInv == TypeOK /\ SlotInv /\ SessionInv /\ SlotMatches /\ IdleClean

(* the slot is freed, or neither it nor its owner's connection changes *)
OwnerKept ==
    \/ slot'.sock = NoConn
    \/ /\ slot'.sock = slot.sock /\ slot'.kind = slot.kind
       /\ slot'.mode = slot.mode /\ slot'.ca = slot.ca
       /\ \A c \in Clients : slot.sock = c => conn'[c] = conn[c]

LEMMA OwnerKeptMatches ==
    ASSUME SlotMatches, OwnerKept
    PROVE  SlotMatches'
  BY DaemonAssumption DEF SlotMatches, OwnerKept

(* a request that is taken up shows in its connection *)
LEMMA TakenMoves ==
    ASSUME TypeOK, NEW d \in Clients, Promise!Taken(d)
    PROVE  conn[d].st \in {"sent", "left"} /\ conn'[d] # conn[d]
  <1>1. conn[d] \in ConnType
    BY DEF TypeOK
  <1> QED
    BY <1>1 DEF Promise!Taken, Promise!Settled, Promise!Becomes, Promise!Idle, ConnType

(* what makes a daemon step one Serve: at most one request is taken up *)
LEMMA Serves ==
    ASSUME TypeOK, TypeOK', SlotInv', phase # "down", phase' # "down", NEW c,
           \A d \in Clients : \/ conn'[d] = conn[d]
                              \/ conn[d].st = "waiting" /\ Promise!Settled(d)
                              \/ d = c /\ Promise!Taken(d)
    PROVE  Promise!Serve
  <1>1. \A d \in Clients : Promise!Taken(d) => d = c
    BY TakenMoves
  <1>2. (IF SessionReady THEN [mode |-> mode, ca |-> ca] ELSE NoRecord)'
            \in [mode : NoiseControlMode, ca : BOOLEAN] \union {NoRecord}
    BY DEF TypeOK, ClientTypeOK, NoRecord
  <1>3. \A d, e \in Clients : conn'[d].st = "waiting" /\ conn'[e].st = "waiting" => d = e
    BY DEF SlotInv, OneOwner
  <1>4. DOMAIN conn' = Clients
    BY DEF TypeOK
  <1> QED
    BY <1>1, <1>2, <1>3, <1>4 DEF Promise!Serve

LEMMA QuietServes ==
    ASSUME TypeOK, TypeOK', SlotInv', phase # "down", phase' # "down", UNCHANGED conn
    PROVE  Promise!Serve
  BY Serves

LEMMA ReplyOwn ==
    ASSUME NEW cs \in [Clients -> ConnType], NEW c \in Clients, NEW a
    PROVE  Reply(cs, c, a)[c] = IF cs[c].st = "left" THEN Idle ELSE [cs[c] EXCEPT !.st = a]
  BY DaemonAssumption DEF Reply

LEMMA ReplyOther ==
    ASSUME NEW cs \in [Clients -> ConnType], NEW c \in Clients, NEW a,
           NEW d \in Clients, d # c
    PROVE  Reply(cs, c, a)[d] = cs[d]
  BY DaemonAssumption DEF Reply

(* the pending command is finished: its owner, if it has one, is answered *)
LEMMA FinishServes ==
    ASSUME TypeOK, TypeOK', SlotInv, SlotInv', phase # "down", phase' # "down",
           NEW a, conn' = Reply(conn, slot.sock, a),
           \/ a = "err"
           \/ /\ a = "ok"
              /\ \A c \in Clients : slot.sock = c => Promise!Confirmed(conn[c].req)
    PROVE  Promise!Serve
  <1>1. CASE slot.sock = NoConn
    BY <1>1, QuietServes DEF Reply
  <1>2. CASE slot.sock \in Clients
    <2>1. conn[slot.sock].st = "waiting" /\ conn \in [Clients -> ConnType]
      BY <1>2 DEF SlotInv, OneOwner, TypeOK
    <2>2. ASSUME NEW d \in Clients, d # slot.sock PROVE conn'[d] = conn[d]
      BY <1>2, <2>1, <2>2, ReplyOther
    <2>3. conn'[slot.sock] = [conn[slot.sock] EXCEPT !.st = a]
      BY <1>2, <2>1, ReplyOwn
    <2>4. Promise!Settled(slot.sock)
      BY <1>2, <2>3 DEF Promise!Settled, Promise!Becomes
    <2> QED
      BY <2>1, <2>2, <2>4, Serves
  <1> QED
    BY <1>1, <1>2 DEF TypeOK, SlotType

LEMMA FailServes ==
    ASSUME TypeOK, TypeOK', SlotInv, SlotInv', phase # "down", phase' # "down", FailPending
    PROVE  Promise!Serve /\ OwnerKept
  <1>1. CASE Pending
    BY <1>1, FinishServes DEF FailPending, FinishPending, NoSlot, OwnerKept
  <1>2. CASE ~Pending
    BY <1>2, QuietServes DEF FailPending, slotVars, OwnerKept
  <1> QED
    BY <1>1, <1>2

LEMMA UnchangedServes ==
    ASSUME TypeOK, TypeOK', SlotInv', phase # "down", phase' # "down", UNCHANGED slotVars
    PROVE  Promise!Serve /\ OwnerKept
  BY QuietServes DEF slotVars, OwnerKept

LEMMA RequestSnapshotServes ==
    ASSUME TypeOK, TypeOK', SlotInv, SlotInv', phase # "down", phase' # "down",
           NEW w, RequestSnapshot(w)
    PROVE  Promise!Serve /\ OwnerKept
  BY FailServes, UnchangedServes DEF RequestSnapshot, ErrorOccurred, slotVars

(* A report confirms a command on a ready session only, so that what it    *)
(* leaves on record is what was asked for.                                 *)
LEMMA TryCompleteServes ==
    ASSUME PromiseInv, TypeOK', SlotInv', phase # "down", phase' # "down",
           IsConnected, UNCHANGED <<sock, protocolReady>>, TryComplete
    PROVE  Promise!Serve /\ OwnerKept
  <1> USE DEF PromiseInv
  <1>1. CASE UNCHANGED slotVars
    BY <1>1, UnchangedServes
  <1>2. CASE /\ FinishPending("ok")
             /\ \/ slot.kind = "Mode" /\ mode' = slot.mode
                \/ slot.kind = "Ca" /\ ca' = slot.ca
    <2>1. SessionReady'
      BY <1>2 DEF SessionInv, PendingHasSession, Pending, SessionReady, IsConnected
    <2>2. mode' # "null"
      BY DEF TypeOK, ClientTypeOK, NoiseControlMode
    <2>3. ASSUME NEW c \in Clients, slot.sock = c
          PROVE  Promise!Confirmed(conn[c].req)
      BY <1>2, <2>1, <2>2, <2>3 DEF SlotMatches, Promise!Confirmed, NoRecord
    <2>4. Promise!Serve
      BY <1>2, <2>3, FinishServes DEF FinishPending
    <2> QED
      BY <1>2, <2>4 DEF FinishPending, NoSlot, OwnerKept
  <1> QED
    BY <1>1, <1>2 DEF TryComplete

(* a request answered at once *)
LEMMA AnswerServes ==
    ASSUME TypeOK, TypeOK', SlotInv, SlotInv', phase # "down", phase' # "down",
           NEW c \in Clients, conn[c].st \in {"sent", "left"},
           NEW a, conn' = Reply(conn, c, a),
           a = "err" \/ (a = "ok" /\ Promise!Confirmed(conn[c].req)),
           slot' = slot \/ slot'.sock = NoConn
    PROVE  Promise!Serve /\ OwnerKept
  <1>0. conn \in [Clients -> ConnType]
    BY DEF TypeOK
  <1>1. ASSUME NEW d \in Clients, d # c PROVE conn'[d] = conn[d]
    BY <1>0, <1>1, ReplyOther
  <1>2. conn'[c] = IF conn[c].st = "left" THEN Idle ELSE [conn[c] EXCEPT !.st = a]
    BY <1>0, ReplyOwn
  <1>3. Promise!Taken(c)
    BY <1>2 DEF Promise!Taken, Promise!Settled, Promise!Becomes, Promise!Idle, Idle
  <1>4. slot.sock # c
    BY DEF SlotInv, OneOwner
  <1>5. OwnerKept
    BY <1>1, <1>4 DEF OwnerKept
  <1> QED
    BY <1>1, <1>3, <1>5, Serves

(* What the cache holds is on record; a snapshot that fails on the way     *)
(* fails the pending command of another CLI in the same step.              *)
LEMMA CachedAnswerServes ==
    ASSUME PromiseInv, TypeOK', SlotInv', phase # "down", phase' # "down",
           NEW c \in Clients, conn[c].st \in {"sent", "left"},
           NEW same \in BOOLEAN, CachedAnswer(c, same), same => Promise!Confirmed(conn[c].req)
    PROVE  Promise!Serve /\ OwnerKept
  <1> USE DEF PromiseInv
  <1>0. conn \in [Clients -> ConnType] /\ Promise!Confirmed(conn[c].req)
    BY DEF TypeOK, CachedAnswer
  <1>1. CASE conn' = Reply(conn, c, "ok") /\ UNCHANGED slot
    BY <1>0, <1>1, AnswerServes
  <1>2. CASE /\ conn' = Reply(ConnAfterError, c, "ok")
             /\ slot' = IF Pending THEN NoSlot ELSE slot
    <2>1. CASE slot.sock = NoConn
      <3>1. ConnAfterError = conn
        BY <2>1 DEF ConnAfterError, Reply
      <3>2. slot' = slot \/ slot'.sock = NoConn
        BY <1>2 DEF NoSlot
      <3> QED
        BY <1>0, <1>2, <3>1, <3>2, AnswerServes
    <2>2. CASE slot.sock \in Clients
      <3>1. Pending /\ slot.sock # NoConn /\ conn[slot.sock].st = "waiting" /\ slot.sock # c
        BY <2>2, DaemonAssumption DEF SlotInv, OneOwner
      <3>2. ConnAfterError = Reply(conn, slot.sock, "err")
        BY <3>1 DEF ConnAfterError
      <3>3. ConnAfterError \in [Clients -> ConnType]
        BY ConnAfterErrorTyped DEF TypeOK, SlotOK
      <3>4. ASSUME NEW d \in Clients, d # c, d # slot.sock PROVE conn'[d] = conn[d]
        <4>1. conn'[d] = ConnAfterError[d]
          BY <1>2, <3>3, <3>4, ReplyOther
        <4>2. ConnAfterError[d] = conn[d]
          BY <1>0, <2>2, <3>2, <3>4, ReplyOther
        <4> QED
          BY <4>1, <4>2
      <3>5. conn'[slot.sock] = [conn[slot.sock] EXCEPT !.st = "err"]
        <4>1. conn'[slot.sock] = ConnAfterError[slot.sock]
          BY <1>2, <2>2, <3>1, <3>3, ReplyOther
        <4>2. ConnAfterError[slot.sock] = [conn[slot.sock] EXCEPT !.st = "err"]
          BY <1>0, <2>2, <3>1, <3>2, ReplyOwn
        <4> QED
          BY <4>1, <4>2
      <3>6. conn'[c] = IF conn[c].st = "left" THEN Idle ELSE [conn[c] EXCEPT !.st = "ok"]
        <4>1. ConnAfterError[c] = conn[c]
          BY <1>0, <2>2, <3>1, <3>2, ReplyOther
        <4> QED
          BY <1>2, <3>3, <4>1, ReplyOwn
      <3>7. Promise!Settled(slot.sock) /\ Promise!Taken(c)
        BY <1>0, <3>5, <3>6
        DEF Promise!Taken, Promise!Settled, Promise!Becomes, Promise!Idle, Idle
      <3>8. OwnerKept
        BY <1>2, <3>1 DEF OwnerKept, NoSlot
      <3> QED
        BY <3>1, <3>4, <3>7, <3>8, Serves
    <2> QED
      BY <2>1, <2>2 DEF TypeOK, SlotType
  <1> QED
    BY <1>1, <1>2 DEF CachedAnswer

(* beginPendingControl *)
LEMMA BeginServes ==
    ASSUME TypeOK, TypeOK', SlotInv, SlotInv', phase # "down", phase' # "down",
           NEW c \in Clients, conn[c].st \in {"sent", "left"}, conn' = Accepted(c),
           slot'.sock = Holder(c),
           /\ slot'.kind = "Status" => conn[c].req.cmd = "status"
           /\ slot'.kind = "Mode" => conn[c].req.cmd = "mode" /\ conn[c].req.mode = slot'.mode
           /\ slot'.kind = "Ca" => conn[c].req.cmd = "ca" /\ conn[c].req.on = slot'.ca
    PROVE  Promise!Serve /\ SlotMatches'
  <1>0. conn \in [Clients -> ConnType]
    BY DEF TypeOK
  <1>1. ASSUME NEW d \in Clients, d # c PROVE conn'[d] = conn[d]
    BY <1>0, <1>1 DEF Accepted
  <1>2. conn'[c] = IF conn[c].st = "left" THEN Idle ELSE [conn[c] EXCEPT !.st = "waiting"]
    BY <1>0 DEF Accepted
  <1>3. Promise!Taken(c)
    BY <1>2 DEF Promise!Taken, Promise!Becomes, Promise!Idle, Idle
  <1>4. Promise!Serve
    BY <1>1, <1>3, Serves
  <1>5. SlotMatches'
    <2>1. CASE conn[c].st = "left"
      BY <2>1, DaemonAssumption DEF Holder, SlotMatches
    <2>2. CASE conn[c].st = "sent"
      <3>1. slot'.sock = c /\ conn'[c].req = conn[c].req
        BY <1>0, <1>2, <2>2 DEF Holder, ConnType
      <3> QED
        BY <3>1 DEF SlotMatches
    <2> QED
      BY <2>1, <2>2
  <1> QED
    BY <1>4, <1>5

(* processControlRequest *)
LEMMA ProcessServes ==
    ASSUME PromiseInv, TypeOK', SlotInv', NEW c \in Clients, ProcessControlRequest(c)
    PROVE  Promise!Serve /\ SlotMatches'
  <1> USE DEF PromiseInv
  <1>0. /\ phase # "down" /\ phase' # "down"
        /\ conn[c].st \in {"sent", "left"}
        /\ UNCHANGED <<sock, protocolReady, mode, ca>>
        /\ conn[c] \in ConnType
    BY DEF ProcessControlRequest, ProcessStatus, ProcessMode, ProcessCa, ProcessOther, Request,
           clientVars, sessionVars, reportVars, TypeOK
  <1>a. SessionReady => SessionReady'
    BY <1>0 DEF SessionReady, IsConnected
  <1>b. mode' # "null"
    BY DEF TypeOK, ClientTypeOK, NoiseControlMode
  <1>1. CASE Answer(c, "err")
    BY <1>0, <1>1, AnswerServes, OwnerKeptMatches DEF Answer
  <1>2. CASE BeginFails(c)
    BY <1>0, <1>2, AnswerServes, OwnerKeptMatches DEF BeginFails, NoSlot
  <1>3. ASSUME NEW same \in BOOLEAN, CachedAnswer(c, same), same => Promise!Confirmed(conn[c].req)
        PROVE  Promise!Serve /\ SlotMatches'
    BY <1>0, <1>3, CachedAnswerServes, OwnerKeptMatches
  <1>4. CASE ProcessStatus(c)
    <2>0. conn[c].req.cmd = "status"
      BY <1>4 DEF ProcessStatus, Request
    <2>1. CASE Answer(c, "ok")
      <3>1. Promise!Confirmed(conn[c].req)
        BY <2>0 DEF Promise!Confirmed
      <3> QED
        BY <1>0, <2>1, <3>1, AnswerServes, OwnerKeptMatches DEF Answer
    <2>2. CASE Begin(c, [Command(c, "Status") EXCEPT !.attempts = 1])
      <3>1. slot'.kind = "Status" /\ slot'.sock = Holder(c) /\ conn' = Accepted(c)
        BY <2>2 DEF Begin, Command, NoSlot
      <3> QED
        BY <1>0, <2>0, <3>1, BeginServes
    <2>3. CASE conn' = Reply(conn, c, "err") /\ slot' = [NoSlot EXCEPT !.attempts = 1]
      <3>1. slot'.sock = NoConn
        BY <2>3 DEF NoSlot
      <3> QED
        BY <1>0, <2>3, <3>1, AnswerServes, OwnerKeptMatches
    <2> QED
      BY <1>1, <1>4, <2>1, <2>2, <2>3 DEF ProcessStatus
  <1>5. CASE ProcessMode(c)
    <2>0. conn[c].req.cmd = "mode"
      BY <1>5 DEF ProcessMode, Request
    <2>1. CASE CanSnapshot /\ CachedAnswer(c, mode = conn[c].req.mode)
      <3>1. mode = conn[c].req.mode => Promise!Confirmed(conn[c].req)
        BY <1>0, <1>a, <1>b, <2>0, <2>1 DEF CanSnapshot, Promise!Confirmed, NoRecord
      <3>2. (mode = conn[c].req.mode) \in BOOLEAN
        OBVIOUS
      <3> QED
        BY <1>3, <2>1, <3>1, <3>2
    <2>2. CASE Begin(c, [Command(c, "Mode") EXCEPT !.mode = conn[c].req.mode])
      <3>1. /\ slot'.kind = "Mode" /\ slot'.sock = Holder(c) /\ conn' = Accepted(c)
            /\ slot'.mode = conn[c].req.mode
        BY <2>2 DEF Begin, Command, NoSlot
      <3> QED
        BY <1>0, <2>0, <3>1, BeginServes
    <2> QED
      BY <1>1, <1>2, <1>5, <2>1, <2>2 DEF ProcessMode
  <1>6. CASE ProcessCa(c)
    <2>0. conn[c].req.cmd = "ca"
      BY <1>6 DEF ProcessCa, Request
    <2>1. CASE CanSnapshot /\ CachedAnswer(c, ca = conn[c].req.on)
      <3>1. ca = conn[c].req.on => Promise!Confirmed(conn[c].req)
        BY <1>0, <1>a, <1>b, <2>0, <2>1 DEF CanSnapshot, Promise!Confirmed, NoRecord
      <3>2. (ca = conn[c].req.on) \in BOOLEAN
        OBVIOUS
      <3> QED
        BY <1>3, <2>1, <3>1, <3>2
    <2>2. CASE Begin(c, [Command(c, "Ca") EXCEPT !.ca = conn[c].req.on])
      <3>1. /\ slot'.kind = "Ca" /\ slot'.sock = Holder(c) /\ conn' = Accepted(c)
            /\ slot'.ca = conn[c].req.on
        BY <2>2 DEF Begin, Command, NoSlot
      <3> QED
        BY <1>0, <2>0, <3>1, BeginServes
    <2> QED
      BY <1>1, <1>2, <1>6, <2>1, <2>2 DEF ProcessCa
  <1>7. CASE ProcessOther(c)
    BY <1>1, <1>7 DEF ProcessOther
  <1> QED
    BY <1>4, <1>5, <1>6, <1>7 DEF ProcessControlRequest

(* every other callback of a running daemon *)
Callback ==
    \/ SyncBluezState \/ RefreshNow \/ Quit
    \/ SocketConnected \/ SocketDisconnected \/ LateDisconnected \/ SocketError
    \/ HandshakeAck \/ FeaturesAck
    \/ NoiseReport \/ CaReport \/ EarReport \/ OtherReport
    \/ SlotTimeout \/ StatusPoll \/ StatusSettle
    \/ SnapshotDelay \/ CaDelay \/ SnapshotTimer

LEMMA CallbackRuns ==
    ASSUME Callback
    PROVE  phase # "down" /\ phase' # "down"
  <1>1. CASE SyncBluezState \/ RefreshNow \/ Quit
    BY <1>1 DEF SyncBluezState, RefreshNow, Quit
  <1>2. CASE SocketConnected \/ SocketDisconnected \/ LateDisconnected \/ SocketError
    BY <1>2 DEF SocketConnected, SocketDisconnected, LateDisconnected, SocketError
  <1>3. CASE HandshakeAck \/ FeaturesAck
    BY <1>3 DEF HandshakeAck, FeaturesAck
  <1>4. CASE NoiseReport \/ CaReport \/ EarReport \/ OtherReport
    BY <1>4 DEF NoiseReport, CaReport, EarReport, OtherReport, StateChanged
  <1>5. CASE SlotTimeout \/ StatusPoll \/ StatusSettle
    BY <1>5 DEF SlotTimeout, StatusPoll, StatusSettle
  <1>6. CASE SnapshotDelay \/ CaDelay \/ SnapshotTimer
    BY <1>6 DEF SnapshotDelay, CaDelay, SnapshotTimer
  <1> QED
    BY <1>1, <1>2, <1>3, <1>4, <1>5, <1>6 DEF Callback

LEMMA CallbackServes ==
    ASSUME PromiseInv, TypeOK', SlotInv', Callback
    PROVE  Promise!Serve /\ OwnerKept
  <1> USE DEF PromiseInv
  <1>0. phase # "down" /\ phase' # "down"
    BY CallbackRuns
  <1>a. CASE FailPending
    BY <1>0, <1>a, FailServes
  <1>b. CASE UNCHANGED slotVars
    BY <1>0, <1>b, UnchangedServes
  <1>c. CASE \E w : RequestSnapshot(w)
    BY <1>0, <1>c, RequestSnapshotServes
  <1>1. CASE SyncBluezState \/ RefreshNow \/ Quit
    BY <1>a, <1>b, <1>c, <1>1 DEF SyncBluezState, RefreshNow, Quit
  <1>2. CASE SocketConnected \/ SocketDisconnected \/ LateDisconnected \/ SocketError
    BY <1>a, <1>b, <1>2
    DEF SocketConnected, SocketDisconnected, LateDisconnected, SocketError, ErrorOccurred
  <1>3. CASE HandshakeAck \/ FeaturesAck
    BY <1>a, <1>b, <1>3 DEF HandshakeAck, FeaturesAck, ErrorOccurred
  <1>4. CASE NoiseReport \/ CaReport \/ EarReport \/ OtherReport
    <2>1. IsConnected /\ UNCHANGED <<sock, protocolReady>>
      BY <1>4 DEF NoiseReport, CaReport, EarReport, OtherReport, OnNoiseControl, CanReport,
                  OnConversationalAwareness, OnEarDetection, OnOtherReport, sessionVars, clientVars
    <2>2. CASE TryComplete
      BY <1>0, <2>1, <2>2, TryCompleteServes
    <2>3. CASE slot' = [slot EXCEPT !.fresh = TRUE] /\ UNCHANGED conn
      <3>1. OwnerKept
        BY <2>3 DEF OwnerKept, TypeOK, SlotType
      <3> QED
        BY <1>0, <2>3, <3>1, QuietServes
    <2> QED
      BY <1>4, <2>2, <2>3 DEF NoiseReport, CaReport, EarReport, OtherReport
  <1>5. CASE SlotTimeout \/ StatusSettle
    <2>1. CASE FinishPending("err")
      BY <1>0, <2>1, FinishServes DEF FinishPending, NoSlot, OwnerKept
    <2>2. CASE FinishPending("ok") /\ slot.kind = "Status"
      <3>1. \A c \in Clients : slot.sock = c => Promise!Confirmed(conn[c].req)
        BY <2>2 DEF SlotMatches, Promise!Confirmed
      <3> QED
        BY <1>0, <2>2, <3>1, FinishServes DEF FinishPending, NoSlot, OwnerKept
    <2>3. CASE UNCHANGED <<slot, conn>>
      BY <1>0, <2>3, QuietServes DEF OwnerKept
    <2> QED
      BY <1>5, <2>1, <2>2, <2>3 DEF SlotTimeout, StatusSettle
  <1>6. CASE StatusPoll
    <2>1. CASE UNCHANGED conn /\ (slot' = slot \/ slot' = [slot EXCEPT !.attempts = @ + 1])
      <3>1. OwnerKept
        BY <2>1 DEF OwnerKept, TypeOK, SlotType
      <3> QED
        BY <1>0, <2>1, <3>1, QuietServes
    <2>2. CASE slot.kind = "Status" /\ conn' = ConnAfterError
               /\ slot' = [NoSlot EXCEPT !.attempts = 1]
      <3>1. conn' = Reply(conn, slot.sock, "err") /\ slot'.sock = NoConn
        BY <2>2 DEF ConnAfterError, Pending, NoSlot
      <3> QED
        BY <1>0, <3>1, FinishServes DEF OwnerKept
    <2> QED
      BY <1>6, <2>1, <2>2 DEF StatusPoll
  <1>7. CASE SnapshotDelay \/ SnapshotTimer
    BY <1>c, <1>7 DEF SnapshotDelay, SnapshotTimer
  <1>8. CASE CaDelay
    BY <1>a, <1>b, <1>8 DEF CaDelay, ErrorOccurred
  <1> QED
    BY <1>1, <1>2, <1>3, <1>4, <1>5, <1>6, <1>7, <1>8 DEF Callback

(* Every step of the daemon is a step of the service, or none. *)
LEMMA PromiseStep ==
    ASSUME PromiseInv, TypeOK', SlotInv', Next
    PROVE  [Promise!Next]_Promise!vars /\ SlotMatches'
  <1> USE DEF PromiseInv
  <1>1. CASE BluezChange
    <2>1. UNCHANGED Promise!vars
      BY <1>1 DEF BluezChange, Promise!vars, SessionReady, IsConnected, clientVars, sessionVars,
                  reportVars, daemonVars
    <2>2. OwnerKept
      BY <1>1 DEF BluezChange, daemonVars, OwnerKept
    <2> QED
      BY <2>1, <2>2, OwnerKeptMatches
  <1>2. ASSUME NEW c \in Clients, ClientSend(c) \/ ClientGone(c) \/ ClientDone(c)
        PROVE  (Promise!Ask(c) \/ Promise!Leave(c) \/ Promise!Done(c)) /\ SlotMatches'
    <2>1. UNCHANGED <<phase, SessionReady, mode, ca>>
      BY <1>2 DEF ClientSend, ClientGone, ClientDone, SessionReady, IsConnected, clientVars,
                  sessionVars, reportVars, daemonVars
    <2>2. CASE ClientSend(c)
      <3>1. conn[c] = Promise!Idle
        BY <2>2 DEF ClientSend, IdleClean, Promise!Idle, Idle
      <3>2. Promise!Ask(c)
        BY <2>1, <2>2, <3>1 DEF ClientSend, Promise!Ask
      <3>3. OwnerKept
        BY <2>2 DEF ClientSend, daemonVars, OwnerKept, SlotInv, OneOwner, TypeOK
      <3> QED
        BY <3>2, <3>3, OwnerKeptMatches
    <2>3. CASE ClientGone(c)
      <3>1. Promise!Leave(c)
        BY <2>1, <2>3 DEF ClientGone, Promise!Leave, Promise!Idle, Idle
      <3>2. OwnerKept
        <4>1. CASE conn[c].st = "sent" /\ UNCHANGED slot /\ conn' = [conn EXCEPT ![c].st = "left"]
          BY <4>1 DEF OwnerKept, SlotInv, OneOwner, TypeOK
        <4>2. CASE conn[c].st = "waiting"
          <5>1. slot.sock = c
            BY <4>2 DEF SlotInv, OneOwner
          <5>2. slot' = [slot EXCEPT !.sock = NoConn]
            BY <2>3, <4>2, <5>1 DEF ClientGone
          <5> QED
            BY <5>2 DEF OwnerKept, TypeOK, SlotType
        <4> QED
          BY <2>3, <4>1, <4>2 DEF ClientGone
      <3> QED
        BY <3>1, <3>2, OwnerKeptMatches
    <2>4. CASE ClientDone(c)
      <3>1. Promise!Done(c)
        BY <2>1, <2>4 DEF ClientDone, Promise!Done, Promise!Idle, Idle
      <3>2. OwnerKept
        BY <2>4 DEF ClientDone, daemonVars, OwnerKept, SlotInv, OneOwner, TypeOK
      <3> QED
        BY <3>1, <3>2, OwnerKeptMatches
    <2> QED
      BY <1>2, <2>2, <2>3, <2>4
  <1>3. ASSUME NEW c \in Clients, ProcessControlRequest(c)
        PROVE  Promise!Serve /\ SlotMatches'
    BY <1>3, ProcessServes
  <1>4. CASE Start
    <2>1. Promise!Start
      BY <1>4 DEF Start, Promise!Start, SessionReady, IsConnected, clientVars, sessionVars,
                  reportVars, slotVars
    <2>2. OwnerKept
      BY <1>4 DEF Start, slotVars, OwnerKept
    <2> QED
      BY <2>1, <2>2, OwnerKeptMatches DEF Promise!Next
  <1>5. CASE Exit \/ Crash
    <2>1. ~SessionReady'
      BY <1>5 DEF Exit, Crash, ProcessGone, ClientReset, SessionReady, IsConnected
    <2>2. Promise!Ends
      BY <1>5, <2>1 DEF Exit, Crash, ProcessGone, Promise!Ends, Promise!Idle, Idle
    <2>3. OwnerKept
      BY <1>5 DEF Exit, Crash, ProcessGone, NoSlot, OwnerKept
    <2> QED
      BY <2>2, <2>3, OwnerKeptMatches DEF Promise!Next
  <1>6. CASE Callback
    BY <1>6, CallbackServes, OwnerKeptMatches DEF Promise!Next
  <1> QED
    BY <1>1, <1>2, <1>3, <1>4, <1>5, <1>6 DEF Next, Callback, Promise!Next

(* The service never leaves a request behind in an idle connection. *)
LEMMA IdleCleanKept ==
    ASSUME TypeOK, IdleClean, [Promise!Next]_Promise!vars
    PROVE  IdleClean'
  <1> USE DEF IdleClean, Promise!Idle, Idle
  <1>1. \A c \in Clients : conn[c] \in ConnType
    BY DEF TypeOK
  <1>2. ASSUME NEW c \in Clients, Promise!Ask(c) \/ Promise!Leave(c) \/ Promise!Done(c)
        PROVE  IdleClean'
    BY <1>1, <1>2 DEF Promise!Ask, Promise!Leave, Promise!Done, TypeOK, ConnType
  <1>3. CASE Promise!Serve
    <2> SUFFICES ASSUME NEW c \in Clients, conn'[c].st = "idle"
                 PROVE  conn'[c] = Idle
      OBVIOUS
    <2> QED
      BY <1>1, <1>3
      DEF Promise!Serve, Promise!Taken, Promise!Settled, Promise!Becomes, ConnType
  <1>4. CASE Promise!Start \/ UNCHANGED Promise!vars
    BY <1>4 DEF Promise!Start, Promise!vars
  <1>5. CASE Promise!Ends
    BY <1>1, <1>5 DEF Promise!Ends, ConnType
  <1> QED
    BY <1>2, <1>3, <1>4, <1>5 DEF Promise!Next

LEMMA PromiseInvariant ==
    ASSUME CloseKinds \subseteq {"sync", "late"}
    PROVE  Spec => []PromiseInv
  <1>1. Init => SlotMatches /\ IdleClean
    BY DaemonAssumption DEF Init, SlotMatches, IdleClean, NoSlot, Idle
  <1>2. PromiseInv /\ TypeOK' /\ SlotInv' /\ [Next]_vars => SlotMatches' /\ IdleClean'
    <2>1. ASSUME PromiseInv, UNCHANGED vars PROVE SlotMatches' /\ IdleClean'
      BY <2>1 DEF PromiseInv, SlotMatches, IdleClean, vars, daemonVars
    <2>2. ASSUME PromiseInv, TypeOK', SlotInv', Next PROVE SlotMatches' /\ IdleClean'
      BY <2>2, PromiseStep, IdleCleanKept DEF PromiseInv
    <2> QED
      BY <2>1, <2>2
  <1>3. PromiseInv <=> TypeOK /\ SlotInv /\ SessionInv /\ (SlotMatches /\ IdleClean)
    BY DEF PromiseInv
  <1> QED
    BY <1>1, <1>2, <1>3, TypeCorrect, SlotInvariant, SessionInvariant, PTL DEF Spec

(* The daemon implements the service of RequestReply, for any number of    *)
(* CLI processes, whatever the device, BlueZ and the timers do: what       *)
(* handleControlConnection, the pending slot and its timers add to it      *)
(* cannot be told from outside.                                            *)
THEOREM DaemonKeepsPromise ==
    ASSUME CloseKinds \subseteq {"sync", "late"}
    PROVE  Spec => KeepsPromise
  <1>1. Init => Promise!Init
    BY DEF Init, ClientInit, Promise!Init, Promise!Idle, Idle, SessionReady, IsConnected
  <1>2. PromiseInv /\ PromiseInv' /\ [Next]_vars => [Promise!Next]_Promise!vars
    <2>1. ASSUME UNCHANGED vars PROVE UNCHANGED Promise!vars
      BY <2>1 DEF vars, clientVars, sessionVars, reportVars, daemonVars, Promise!vars,
                  SessionReady, IsConnected
    <2>2. ASSUME PromiseInv, PromiseInv', Next PROVE [Promise!Next]_Promise!vars
      BY <2>2, PromiseStep DEF PromiseInv
    <2> QED
      BY <2>1, <2>2
  <1> QED
    BY <1>1, <1>2, PromiseInvariant, PTL DEF Spec, KeepsPromise, Promise!Spec

(* ok to a mode or CA command is given to what the record confirms, in     *)
(* every handler that answers (tryCompletePendingControl, the cached       *)
(* answers of processControlRequest).                                      *)
THEOREM OkOnRecord ==
    ASSUME CloseKinds \subseteq {"sync", "late"}
    PROVE  Spec => OkMatchesCache
  <1> DEFINE Matches ==
        \A c \in Clients :
          Answers(c) =>
            /\ conn[c].req.cmd = "mode" => SessionReady' /\ mode' = conn[c].req.mode
            /\ conn[c].req.cmd = "ca"   => SessionReady' /\ ca' = conn[c].req.on
  <1>1. ASSUME PromiseInv, PromiseInv', Next
        PROVE  Matches
    <2>1. [Promise!Next]_Promise!vars
      BY <1>1, PromiseStep DEF PromiseInv
    <2> SUFFICES ASSUME NEW c \in Clients, Answers(c)
                 PROVE  /\ conn[c].req.cmd = "mode" => SessionReady' /\ mode' = conn[c].req.mode
                        /\ conn[c].req.cmd = "ca"   => SessionReady' /\ ca' = conn[c].req.on
      OBVIOUS
    <2>2. conn[c] \in ConnType
      BY <1>1 DEF PromiseInv, TypeOK
    <2>3. Promise!Serve
      BY <1>1, <2>1, <2>2
      DEF Answers, Promise!Next, Promise!vars, Promise!Ask, Promise!Leave, Promise!Done,
          Promise!Start, Promise!Ends, Promise!Idle, PromiseInv, TypeOK, ConnType
    <2>4. Promise!Confirmed(conn[c].req)
      BY <2>2, <2>3
      DEF Answers, Promise!Serve, Promise!Taken, Promise!Settled, Promise!Becomes,
          Promise!Idle, ConnType
    <2>5. CASE SessionReady'
      BY <2>4, <2>5 DEF Promise!Confirmed
    <2>6. CASE ~SessionReady'
      BY <2>4, <2>6 DEF Promise!Confirmed, NoRecord
    <2> QED
      BY <2>5, <2>6
  <1>2. PromiseInv /\ PromiseInv' /\ [Next]_vars => [Matches]_vars
    BY <1>1
  <1> QED
    BY <1>2, PromiseInvariant, PTL DEF Spec, OkMatchesCache

----------------------------------------------------------------------------
(* FileFresh *)

(* all that buildStateObject reads *)
shownVars == <<sock, protocolReady, address, reportVars, bluezConnected, knownVars, lastError>>

Running == phase \in {"sync", "loop"}

Shown == IF address = NoMac /\ ConfiguredMac # NoMac
         THEN [Status EXCEPT !.address = file.address] ELSE Status

(* The file is right, also between refreshNow and the synchronisation that *)
(* follows; the address is that of the target while BlueZ has it           *)
(* connected; an address that is shown before the first session is that of *)
(* the selected device.                                                    *)
FreshInv ==
    /\ Running /\ ~late => file = Shown
    /\ bluezConnected => address = Target
    /\ sock \in {"connecting", "connected"} => address # NoMac
    /\ ConfiguredMac = NoMac /\ selectedMac # NoMac /\ address = NoMac =>
            knownAddress = selectedMac

LEMMA ShownWhenWritten ==
    ASSUME file' = Status'
    PROVE  file' = Shown'
  BY DEF Shown, Status

LEMMA ShownWhenQuiet ==
    ASSUME file = Shown, Running, Running', UNCHANGED <<shownVars, file>>
    PROVE  file' = Shown'
  <1>1. Status' = Status
    BY DEF Status, Running, SessionReady, IsConnected, InEar, HasEarData, EarsShown, Newest,
           shownVars, knownVars, reportVars
  <1> QED
    BY <1>1 DEF Shown, shownVars

(* the file is written, or nothing that it shows changes *)
Untouched == UNCHANGED <<shownVars, late, file>> /\ Running /\ Running'

LEMMA FileMoves ==
    ASSUME FALSE \notin FileResults, Next
    PROVE  \/ file' = Status' \/ Untouched \/ ~Running' \/ SyncBluezState
           \/ UNCHANGED <<clientVars, daemonVars, file>>
  <1> USE DEF Untouched, Running, shownVars, clientVars, sessionVars, reportVars, daemonVars,
              bluezVars, knownVars
  <1>1. WriteStateFile => file' = Status'
    BY DaemonAssumption DEF WriteStateFile
  <1>2. CASE BluezChange
    BY <1>2 DEF BluezChange
  <1>3. ASSUME NEW c \in Clients, ClientSend(c) \/ ClientGone(c) \/ ClientDone(c)
        PROVE  Untouched \/ UNCHANGED <<clientVars, daemonVars, file>>
    BY <1>3 DEF ClientSend, ClientGone, ClientDone
  <1>4. ASSUME NEW c \in Clients, ProcessControlRequest(c)
        PROVE  file' = Status' \/ Untouched
    <2>1. CASE ProcessStatus(c)
      BY <1>1, <2>1 DEF ProcessStatus, Request, Answer, Begin
    <2>2. CASE ProcessMode(c)
      BY <1>1, <2>2 DEF ProcessMode, Request, Answer, CachedAnswer, Begin, BeginFails
    <2>3. CASE ProcessCa(c)
      BY <1>1, <2>3 DEF ProcessCa, Request, Answer, CachedAnswer, Begin, BeginFails
    <2>4. CASE ProcessOther(c)
      BY <2>4 DEF ProcessOther, Request, Answer
    <2> QED
      BY <1>4, <2>1, <2>2, <2>3, <2>4 DEF ProcessControlRequest
  <1>5. \A w : RequestSnapshot(w) => file' = Status' \/ UNCHANGED <<lastError, file>>
    BY <1>1 DEF RequestSnapshot
  <1>6. CASE Start \/ RefreshNow
    BY <1>1, <1>5, <1>6 DEF Start, RefreshNow
  <1>7. CASE Quit \/ Exit \/ Crash
    BY <1>7 DEF Quit, Exit, Crash, ProcessGone
  <1>8. CASE SocketConnected \/ SocketDisconnected \/ LateDisconnected \/ SocketError
    BY <1>1, <1>8 DEF SocketConnected, SocketDisconnected, LateDisconnected, SocketError
  <1>9. CASE HandshakeAck
    BY <1>1, <1>9 DEF HandshakeAck, OnHandshakeAck
  <1>10. CASE FeaturesAck
    BY <1>1, <1>10 DEF FeaturesAck, OnFeaturesAck
  <1>11. CASE NoiseReport \/ CaReport \/ OtherReport \/ EarReport
    BY <1>1, <1>11 DEF NoiseReport, CaReport, OtherReport, EarReport
  <1>12. CASE SlotTimeout \/ StatusSettle
    BY <1>12 DEF SlotTimeout, StatusSettle
  <1>13. CASE StatusPoll
    BY <1>1, <1>13 DEF StatusPoll
  <1>14. CASE SnapshotDelay \/ SnapshotTimer
    BY <1>5, <1>14 DEF SnapshotDelay, SnapshotTimer
  <1>15. CASE CaDelay
    BY <1>1, <1>15 DEF CaDelay
  <1> QED
    BY <1>2, <1>3, <1>4, <1>6, <1>7, <1>8, <1>9, <1>10, <1>11, <1>12, <1>13, <1>14, <1>15
    DEF Next

(* which device is shown is settled in syncBluezState alone *)
Steady ==
    /\ UNCHANGED <<address, selectedMac>>
    /\ bluezConnected' \in {bluezConnected, FALSE}
    /\ sock' \in {"connecting", "connected"} => sock \in {"connecting", "connected"}
    /\ address = NoMac => knownAddress' = knownAddress

LEMMA AddressMoves ==
    ASSUME [Next]_vars
    PROVE  \/ Steady
           \/ SyncBluezState
           \/ sock' = "null" /\ address' = NoMac /\ selectedMac' = NoMac /\ bluezConnected' = FALSE
  <1> USE DEF Steady, clientVars, sessionVars, reportVars, daemonVars, bluezVars, knownVars
  <1>1. CASE BluezChange \/ Start \/ RefreshNow \/ UNCHANGED vars
    BY <1>1 DEF BluezChange, Start, RefreshNow, vars
  <1>2. ASSUME NEW c \in Clients,
               ClientSend(c) \/ ClientGone(c) \/ ClientDone(c) \/ ProcessControlRequest(c)
        PROVE  Steady
    BY <1>2 DEF ClientSend, ClientGone, ClientDone, ProcessControlRequest, ProcessStatus,
                ProcessMode, ProcessCa, ProcessOther
  <1>3. CASE Quit
    BY <1>3 DEF Quit, DisconnectFromDevice
  <1>4. CASE Exit \/ Crash
    BY <1>4 DEF Exit, Crash, ProcessGone, ClientReset
  <1>5. CASE SocketConnected
    BY <1>5 DEF SocketConnected, OnSocketConnected, RememberKnownState
  <1>6. CASE SocketDisconnected \/ LateDisconnected \/ SocketError
    BY <1>6 DEF SocketDisconnected, LateDisconnected, SocketError, OnSocketDisconnected,
                OnLateDisconnected, OnSocketError
  <1>7. CASE HandshakeAck
    BY <1>7 DEF HandshakeAck, OnHandshakeAck
  <1>8. CASE FeaturesAck
    BY <1>8 DEF FeaturesAck, OnFeaturesAck, RememberKnownState
  <1>9. CASE NoiseReport \/ CaReport \/ OtherReport \/ EarReport
    BY <1>9 DEF NoiseReport, CaReport, OtherReport, EarReport, StateChanged, RememberKnownState,
                OnNoiseControl, OnConversationalAwareness, OnOtherReport, OnEarDetection
  <1>10. CASE SlotTimeout \/ StatusPoll \/ StatusSettle
    BY <1>10 DEF SlotTimeout, StatusPoll, StatusSettle
  <1>11. CASE SnapshotDelay \/ CaDelay \/ SnapshotTimer
    BY <1>11 DEF SnapshotDelay, CaDelay, SnapshotTimer
  <1> QED
    BY <1>1, <1>2, <1>3, <1>4, <1>5, <1>6, <1>7, <1>8, <1>9, <1>10, <1>11 DEF Next

(* syncBluezState leaves the device to show right, and writes the file     *)
(* unless what it shows is the same: a session it replaces without a write *)
(* was not ready, and one it drops signals at once or is still to signal.  *)
LEMMA SyncKeepsFresh ==
    ASSUME CloseKinds \subseteq {"sync", "late"}, FALSE \notin FileResults,
           TypeOK, SessionInv, FreshInv, SyncBluezState
    PROVE  FreshInv'
  <1>1. PICK busOk \in BusResults, k \in CloseKinds, r \in DialResults :
            SyncBluezState!(busOk, k, r)
    BY DEF SyncBluezState
  <1> DEFINE devices   == Listed(busOk)
             selected  == IF ConfiguredMac = NoMac THEN Selection(devices) ELSE selectedMac
             switch    == selected # selectedMac
             target    == IF ConfiguredMac = NoMac THEN selected ELSE ConfiguredMac
             found     == target \in devices
             up        == found /\ bluez[target] = "connected"
             name      == IF found THEN target ELSE NoMac
             changed   == switch \/ up # bluezConnected \/ name # bluezName
             drop      == SessionUnwanted(switch, up, target)
             dial      == up /\ (drop \/ ~IsConnected)
             failed    == dial /\ r = "closed"
             signalled == (drop \/ dial) /\ ClosingSignals(k)
  <1>2. /\ phase \in {"sync", "loop"} /\ phase' = "loop"
        /\ selectedMac' = selected /\ bluezConnected' = up
        /\ knownAddress' = IF target = NoMac THEN knownAddress ELSE target
        /\ lastError' = (failed \/ (lastError /\ ~switch))
        /\ UNCHANGED knownEars
    BY <1>1
  <1>3. /\ dial => ConnectToDevice(target, k, r)
        /\ ~dial /\ drop => DisconnectFromDevice(k)
        /\ ~dial /\ ~drop => UNCHANGED clientVars
    BY <1>1
  <1>4. /\ changed \/ failed => file' = Status'
        /\ ~changed /\ ~failed /\ signalled => file' = [Status' EXCEPT !.address = address]
        /\ ~changed /\ ~failed /\ ~signalled => UNCHANGED file
    <2>1. \A ok \in FileResults : ok
      BY DaemonAssumption
    <2>2. WriteStateFile => file' = Status'
      BY <2>1 DEF WriteStateFile
    <2>3. changed \/ failed => WriteStateFile
      BY <1>1
    <2>4. ~changed /\ ~failed /\ signalled =>
            \E ok \in FileResults : file' = IF ok THEN [Status' EXCEPT !.address = address] ELSE file
      BY <1>1
    <2>5. ~changed /\ ~failed /\ ~signalled => UNCHANGED file
      BY <1>1
    <2> QED
      BY <2>1, <2>2, <2>3, <2>4, <2>5
  <1>5. up => target \in Macs /\ target # NoMac
    BY ClientAssumption DEF Listed
  <1>6. Target' = target
    BY <1>2 DEF Target
  <1>7. ~switch => target = Target
    BY DEF Target
  <1>8. drop <=> IsConnected /\ (switch \/ ~up \/ address # target)
    BY DEF SessionUnwanted
  <1>9. k \in {"sync", "late"} /\ r \in {"connecting", "closed"}
    BY ClientAssumption
  <1> HIDE DEF devices, selected, target, found, up, name, drop
  <1>9a. ASSUME dial, ~changed PROVE bluezConnected
    <2>1. up /\ up = bluezConnected
      BY <1>9a
    <2> QED
      BY <2>1, Zenon
  <1>10. bluezConnected' => address' = Target'
    <2>1. CASE dial
      BY <1>3, <1>6, <2>1 DEF ConnectToDevice
    <2>2. CASE ~dial
      BY <1>2, <1>3, <1>6, <1>8, <2>2 DEF clientVars, sessionVars
    <2> QED
      BY <2>1, <2>2
  <1>11. sock' \in {"connecting", "connected"} => address' # NoMac
    <2>1. CASE dial
      BY <1>3, <1>5, <2>1 DEF ConnectToDevice
    <2>2. CASE ~dial
      BY <1>3, <2>2 DEF clientVars, sessionVars, DisconnectFromDevice, FreshInv
    <2> QED
      BY <2>1, <2>2
  <1>12. ConfiguredMac = NoMac /\ selectedMac' # NoMac => knownAddress' = selectedMac'
    BY <1>2 DEF target
  <1>13. ASSUME ~late' PROVE file' = Shown'
    <2>1. CASE changed \/ failed
      BY <1>4, <2>1, ShownWhenWritten
    <2>2. CASE ~changed /\ ~failed /\ signalled
      <3>1. sock \in {"connecting", "connected"} /\ address # NoMac
        BY <2>2 DEF ClosingSignals, IsConnected, FreshInv
      <3>2. address' = address
        <4>1. CASE dial
          BY <1>3, <1>7, <1>9a, <2>2, <4>1 DEF ConnectToDevice, FreshInv
        <4>2. CASE ~dial
          BY <1>3, <4>2 DEF clientVars, sessionVars, DisconnectFromDevice
        <4> QED
          BY <4>1, <4>2
      <3>3. [Status' EXCEPT !.address = address] = Status'
        BY <3>1, <3>2 DEF Status
      <3> QED
        BY <1>4, <2>2, <3>3, ShownWhenWritten
    <2>3. CASE ~changed /\ ~failed /\ ~signalled
      <3>1. UNCHANGED file /\ lastError' = lastError /\ bluezConnected' = bluezConnected
        BY <1>2, <1>4, <2>3 DEF TypeOK
      <3>2. ~late
        BY <1>3, <1>13 DEF ConnectToDevice, DisconnectFromDevice, clientVars, sessionVars
      <3>3. file = Shown
        BY <1>2, <3>2 DEF FreshInv, Running
      <3>4. UNCHANGED <<protocolReady, address, reportVars>> /\ SessionReady' = SessionReady
        <4>1. CASE dial
          <5>1. address = target /\ ~IsConnected
            <6>1. bluezConnected /\ ~switch /\ target = Target
              BY <1>7, <1>9a, <2>3, <4>1
            <6>2. address = target
              BY <6>1 DEF FreshInv
            <6> QED
              BY <1>8, <4>1, <6>1, <6>2
          <5>2. ~protocolReady
            BY <3>2, <5>1 DEF SessionInv, ReadyImpliesSocket
          <5>3. ~protocolReady' /\ address' = target /\ UNCHANGED reportVars
            BY <1>3, <4>1 DEF ConnectToDevice
          <5>4. protocolReady' = protocolReady
            BY <1>3, <4>1, <5>2 DEF ConnectToDevice, TypeOK, ClientTypeOK
          <5> QED
            BY <5>1, <5>2, <5>3, <5>4 DEF SessionReady
        <4>2. CASE ~dial /\ drop
          BY <1>3, <1>8, <1>9, <1>13, <2>3, <4>2 DEF DisconnectFromDevice, ClosingSignals
        <4>3. CASE ~dial /\ ~drop
          BY <1>3, <4>3 DEF clientVars, sessionVars, SessionReady, IsConnected
        <4> QED
          BY <4>1, <4>2, <4>3
      <3>5. address = NoMac /\ ConfiguredMac = NoMac => knownAddress' = knownAddress
        BY <1>2, <1>7, <2>3 DEF FreshInv, Target
      <3>6. /\ Status'.address = IF address = NoMac THEN knownAddress' ELSE address
            /\ Status' = [Status EXCEPT !.address = IF address = NoMac THEN knownAddress'
                                                    ELSE address]
        <4>1. InEar("primary")' = InEar("primary") /\ InEar("secondary")' = InEar("secondary")
          BY <1>2, <3>1, <3>4 DEF InEar, HasEarData, EarsShown, Newest, reportVars
        <4>2. (phase \in {"sync", "loop"})' = (phase \in {"sync", "loop"})
          BY <1>2
        <4>3. UNCHANGED <<mode, ca>>
          BY <3>4 DEF reportVars
        <4> QED
          BY <3>1, <3>4, <4>1, <4>2, <4>3 DEF Status
      <3>7. address # NoMac \/ ConfiguredMac = NoMac => Status' = Status
        BY <3>5, <3>6 DEF Status
      <3>8. CASE address # NoMac \/ ConfiguredMac = NoMac
        BY <3>1, <3>3, <3>4, <3>7, <3>8 DEF Shown
      <3>9. CASE address = NoMac /\ ConfiguredMac # NoMac
        <4>1. [Status EXCEPT !.address = file.address] = [Status' EXCEPT !.address = file.address]
          BY <3>6 DEF Status
        <4> QED
          BY <3>1, <3>3, <3>4, <3>9, <4>1 DEF Shown
      <3> QED
        BY <3>8, <3>9
    <2> QED
      BY <2>1, <2>2, <2>3
  <1> QED
    BY <1>10, <1>11, <1>12, <1>13 DEF FreshInv

(* The state file shows what a status request would be told whenever a     *)
(* handler has returned, as long as writes succeed and the disconnected of *)
(* a closed socket comes: every handler that changes what buildStateObject *)
(* reads calls writeStateFile.                                             *)
THEOREM FileNeverBehind ==
    ASSUME CloseKinds \subseteq {"sync", "late"}, FALSE \notin FileResults
    PROVE  Spec => []FileFresh
  <1>1. Spec => []SessionInv
    BY SessionInvariant
  <1>2. Init => FreshInv
    BY DEF Init, ClientInit, FreshInv, Running
  <1>3. ASSUME TypeOK, SessionInv, FreshInv, [Next]_vars
        PROVE  FreshInv'
    <2>1. CASE SyncBluezState
      BY <1>3, <2>1, SyncKeepsFresh
    <2>2. CASE ~SyncBluezState
      <3>1. /\ bluezConnected' => address' = Target'
            /\ sock' \in {"connecting", "connected"} => address' # NoMac
            /\ ConfiguredMac = NoMac /\ selectedMac' # NoMac /\ address' = NoMac =>
                    knownAddress' = selectedMac'
        <4>1. CASE Steady
          <5>1. bluezConnected' => bluezConnected
            BY <4>1, Zenon DEF Steady
          <5> QED
            BY <1>3, <4>1, <5>1 DEF Steady, FreshInv, Target
        <4>2. CASE sock' = "null" /\ address' = NoMac /\ selectedMac' = NoMac
                   /\ bluezConnected' = FALSE
          BY <4>2
        <4> QED
          BY <1>3, <2>2, <4>1, <4>2, AddressMoves
      <3>2. Running' /\ ~late' => file' = Shown'
        <4>1. CASE file' = Status'
          BY <4>1, ShownWhenWritten
        <4>2. CASE Untouched
          BY <1>3, <4>2, ShownWhenQuiet DEF Untouched, FreshInv
        <4>3. CASE UNCHANGED <<clientVars, daemonVars, file>>
          BY <1>3, <4>3, ShownWhenQuiet
          DEF FreshInv, Running, shownVars, clientVars, sessionVars, daemonVars, bluezVars
        <4>4. CASE UNCHANGED vars
          BY <4>3, <4>4 DEF vars
        <4> QED
          BY <1>3, <2>2, <4>1, <4>2, <4>3, <4>4, FileMoves
      <3> QED
        BY <3>1, <3>2 DEF FreshInv
    <2> QED
      BY <2>1, <2>2
  <1>4. FreshInv => FileFresh
    BY DEF FreshInv, FileFresh, Running, Shown
  <1> QED
    BY <1>1, <1>2, <1>3, <1>4, TypeCorrect, PTL DEF Spec

----------------------------------------------------------------------------
(* PersistentSession, on a bus that answers *)

(* only syncBluezState and the end of the process let go of a socket *)
LEMMA SocketMoves ==
    ASSUME [Next]_vars
    PROVE  \/ UNCHANGED sock
           \/ sock' \in {"connected", "closed"} /\ sock \in {"connecting", "connected"}
           \/ SyncBluezState
           \/ sock' = "null" /\ phase' # "loop"
  <1> USE DEF clientVars, sessionVars
  <1>1. CASE BluezChange \/ Start \/ RefreshNow \/ UNCHANGED vars
    BY <1>1 DEF BluezChange, Start, RefreshNow, vars
  <1>2. ASSUME NEW c \in Clients,
               ClientSend(c) \/ ClientGone(c) \/ ClientDone(c) \/ ProcessControlRequest(c)
        PROVE  UNCHANGED sock
    BY <1>2 DEF ClientSend, ClientGone, ClientDone, ProcessControlRequest, ProcessStatus,
                ProcessMode, ProcessCa, ProcessOther
  <1>3. CASE Quit \/ Exit \/ Crash
    BY <1>3 DEF Quit, Exit, Crash, ProcessGone, ClientReset, DisconnectFromDevice
  <1>4. CASE SocketConnected \/ SocketDisconnected \/ LateDisconnected \/ SocketError
    BY <1>4 DEF SocketConnected, SocketDisconnected, LateDisconnected, SocketError,
                OnSocketConnected, OnSocketDisconnected, OnLateDisconnected, OnSocketError
  <1>5. CASE HandshakeAck \/ FeaturesAck
    BY <1>5 DEF HandshakeAck, FeaturesAck, OnHandshakeAck, OnFeaturesAck
  <1>6. CASE NoiseReport \/ CaReport \/ OtherReport \/ EarReport
    BY <1>6 DEF NoiseReport, CaReport, OtherReport, EarReport, OnNoiseControl,
                OnConversationalAwareness, OnOtherReport, OnEarDetection
  <1>7. CASE SlotTimeout \/ StatusPoll \/ StatusSettle
    BY <1>7 DEF SlotTimeout, StatusPoll, StatusSettle
  <1>8. CASE SnapshotDelay \/ CaDelay \/ SnapshotTimer
    BY <1>8 DEF SnapshotDelay, CaDelay, SnapshotTimer
  <1> QED
    BY <1>1, <1>2, <1>3, <1>4, <1>5, <1>6, <1>7, <1>8 DEF Next

(* with --mac every session is the configured device's *)
ConfiguredSession == sock \in {"connecting", "connected"} => address = ConfiguredMac

(* With --mac and a bus that answers, the daemon keeps a session for as    *)
(* long as BlueZ has the device connected: syncBluezState has no other     *)
(* reason to close it. (It has one more, a query that fails: the run       *)
(* daemon_bus_fault.)                                                      *)
THEOREM SessionPersists ==
    ASSUME BusResults \subseteq {TRUE}, ConfiguredMac # NoMac
    PROVE  Spec => PersistentSession
  <1>1. ASSUME ConfiguredSession, SyncBluezState
        PROVE  /\ ConfiguredSession'
               /\ IsConnected /\ ~IsConnected' => bluez[address] # "connected"
    <2>1. PICK busOk \in BusResults, k \in CloseKinds, r \in DialResults :
              SyncBluezState!(busOk, k, r)
      BY <1>1 DEF SyncBluezState
    <2> DEFINE up   == ConfiguredMac \in Listed(busOk) /\ bluez[ConfiguredMac] = "connected"
               drop == SessionUnwanted(FALSE, up, ConfiguredMac)
               dial == up /\ (drop \/ ~IsConnected)
    <2>2. /\ dial => ConnectToDevice(ConfiguredMac, k, r)
          /\ ~dial /\ drop => DisconnectFromDevice(k)
          /\ ~dial /\ ~drop => UNCHANGED clientVars
      BY <2>1
    <2>3. up <=> bluez[ConfiguredMac] = "connected"
      BY DaemonAssumption DEF Listed
    <2>4. drop <=> IsConnected /\ (~up \/ address # ConfiguredMac)
      BY DEF SessionUnwanted
    <2>5. IsConnected => address = ConfiguredMac
      BY <1>1 DEF ConfiguredSession, IsConnected
    <2> HIDE DEF up, drop
    <2>6. ConfiguredSession'
      BY <1>1, <2>2 DEF ConfiguredSession, ConnectToDevice, DisconnectFromDevice, clientVars,
                        sessionVars
    <2>7. ASSUME IsConnected, ~IsConnected', bluez[address] = "connected"
          PROVE  FALSE
      <3>1. up /\ ~drop /\ ~dial
        BY <2>3, <2>4, <2>5, <2>7
      <3> QED
        BY <2>2, <2>7, <3>1 DEF IsConnected, clientVars, sessionVars
    <2> QED
      BY <2>6, <2>7
  <1>2. ASSUME ConfiguredSession, [Next]_vars
        PROVE  ConfiguredSession'
    <2>1. CASE SyncBluezState
      BY <1>1, <1>2, <2>1
    <2>2. CASE ~SyncBluezState
      BY <1>2, <2>2, AddressMoves DEF ConfiguredSession, Steady
    <2> QED
      BY <2>1, <2>2
  <1>3. ConfiguredSession /\ [Next]_vars =>
            [IsConnected /\ phase = "loop" /\ phase' = "loop" /\ ~IsConnected' /\ sock' # "closed"
                => bluez[address] # "connected"]_vars
    BY <1>1, SocketMoves DEF IsConnected
  <1>4. Init => ConfiguredSession
    BY DEF Init, ClientInit, ConfiguredSession
  <1> QED
    BY <1>2, <1>3, <1>4, PTL DEF Spec, PersistentSession
============================================================================
