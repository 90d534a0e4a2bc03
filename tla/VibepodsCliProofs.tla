------------------------- MODULE VibepodsCliProofs -------------------------
(***************************************************************************)
(* Theorems about VibepodsCli, for every set of devices, of command lines, *)
(* of reports and of outcomes of D-Bus, the socket and the daemon.         *)
(***************************************************************************)
EXTENDS VibepodsCli, AirPodsCoreClientProofs, TLAPS

(***************************************************************************)
(* Type correctness.  First what each helper does with main's locals.      *)
(***************************************************************************)

LEMMA HelpersTyped ==
    ASSUME NEW s \in CliType
    PROVE  /\ \A f \in Flags : Set(s, f) \in CliType
           /\ \A t \in CliTimers : Start(s, t) \in CliType /\ Stop(s, t) \in CliType
           /\ \A n \in ExitCodes : Exit(s, n) \in CliType
           /\ Show(s) \in CliType
  BY DEF CliType, Set, Start, Stop, Exit, Show

LEMMA SendTyped ==
    ASSUME NEW s \in CliType, NEW w \in WriteResults
    PROVE  Send(s, w) \in CliType
  <1>1. Set(s, "sent") \in CliType /\ Exit(s, 3) \in CliType
    BY HelpersTyped DEF Flags, ExitCodes
  <1>2. [Set(s, "sent") EXCEPT !.sends = @ + 1] \in CliType
    BY <1>1 DEF CliType
  <1> QED
    BY <1>1, <1>2 DEF Send

LEMMA FinishTyped ==
    ASSUME NEW s \in CliType
    PROVE  MaybeFinish(s) \in CliType /\ Confirm(s) \in CliType
  <1> USE DEF Flags, CliTimers, ExitCodes
  <1>1. Exit(Show(Set(Stop(s, "poll"), "printed")), 0) \in CliType
    BY HelpersTyped
  <1>2. /\ Set(s, "confirmed") \in CliType
        /\ Exit(Show(Set(Set(s, "confirmed"), "printed")), 0) \in CliType
    BY HelpersTyped
  <1> QED
    BY <1>1, <1>2 DEF MaybeFinish, Confirm

LEMMA StateChangedTyped ==
    ASSUME NEW s \in CliType, NEW more \in SUBSET Flags, ears' \in EarStatuses
    PROVE  StateChanged(s, more) \in CliType
  <1> DEFINE t == [s EXCEPT !.flags = @ \union more
                          \union (IF ears' = NoEars THEN {} ELSE {"ears"})]
  <1>1. t \in CliType
    BY DEF CliType, Flags
  <1> HIDE DEF t
  <1>2. Watch(t) \in CliType
    BY <1>1 DEF Watch, CliType, Start, CliTimers
  <1> QED
    BY <1>1, <1>2, FinishTyped DEF StateChanged, t

(* the steps of main up to the event loop, as the rest sees them: nothing  *)
(* of the client or of the timers is touched, and main returns or goes on  *)
Early == AskDaemon \/ Choose \/ Check \/ Bring \/ Recheck \/ List \/ Pick \/ Each \/ Verify

LEMMA EarlyShape ==
    ASSUME CliTypeOK, Early
    PROVE  /\ stage \notin {"loop", "gone"} /\ stage' # "loop" /\ stage' \in Stages
           /\ UNCHANGED <<clientVars, bluez, want>>
           /\ cli' \in CliType
           /\ cli'.flags \subseteq cli.flags \union {"failed", "blind"}
           /\ cli'.timers = cli.timers /\ cli'.sends = cli.sends
           /\ cli'.lastEars = cli.lastEars /\ cli'.settleFor = cli.settleFor
           /\ cli'.shown \in {cli.shown, cli.shown + 1}
           /\ stage' # "gone" => cli'.shown = cli.shown /\ cli'.code = cli.code
  <1> USE DEF CliTypeOK, Stages, At, Goto, Return
  <1>1. ASSUME NEW s \in {cli, Show(cli)}, NEW n \in ExitCodes, Return(s, n)
        PROVE  /\ stage' = "gone" /\ cli' \in CliType
               /\ cli'.flags = cli.flags
               /\ cli'.timers = cli.timers /\ cli'.sends = cli.sends
               /\ cli'.lastEars = cli.lastEars /\ cli'.settleFor = cli.settleFor
               /\ cli'.shown \in {cli.shown, cli.shown + 1}
    BY <1>1 DEF Show, Exit, CliType, ExitCodes
  <1>2. ASSUME NEW F \in SUBSET {"failed", "blind"},
               cli' = [cli EXCEPT !.flags = @ \union F]
        PROVE  /\ cli' \in CliType
               /\ cli'.flags \subseteq cli.flags \union {"failed", "blind"}
               /\ cli'.timers = cli.timers /\ cli'.sends = cli.sends
               /\ cli'.lastEars = cli.lastEars /\ cli'.settleFor = cli.settleFor
               /\ cli'.shown = cli.shown /\ cli'.code = cli.code
    BY <1>2 DEF CliType, Flags
  <1>3. CASE AskDaemon
    <2>1. PICK answer \in {"none", "failed", "ok", "refused"} :
              CASE answer = "none"    -> Goto("choose")
                [] answer = "failed"  -> Return(cli, 5)
                [] answer = "ok"      -> Return(Show(cli), 0)
                [] answer = "refused" -> Return(Show(cli), 4)
      BY <1>3, CliAssumption DEF AskDaemon
    <2>2. \/ Goto("choose") \/ Return(cli, 5)
          \/ Return(Show(cli), 0) \/ Return(Show(cli), 4)
      BY <2>1
    <2> QED
      BY <1>1, <1>3, <2>2 DEF AskDaemon, ExitCodes
  <1>4. CASE Choose
    BY <1>1, <1>4 DEF Choose, ExitCodes
  <1>5. CASE Check
    BY <1>1, <1>5 DEF Check, ExitCodes
  <1>6. CASE Bring \/ Recheck
    BY <1>1, <1>6 DEF Bring, Recheck, ExitCodes
  <1>7. CASE List
    BY <1>1, <1>7 DEF List, ExitCodes
  <1>8. CASE Each
    <2>1. CASE todo = {}
      BY <1>1, <1>8, <2>1 DEF Each, ExitCodes
    <2>2. CASE todo # {} /\ Goto("verify")
      BY <1>8, <2>2 DEF Each, ExitCodes
    <2>3. CASE todo # {} /\ stage' = stage /\ cli' = Set(cli, "failed")
      BY <1>2, <1>8, <2>3 DEF Each, Set
    <2> QED
      BY <1>8, <2>1, <2>2, <2>3 DEF Each
  <1>9. CASE Verify
    <2>1. PICK busOk \in BusResults :
              cli' = [cli EXCEPT !.flags = @
                          \union (IF mac \in Up(Listed(busOk)) THEN {"failed"} ELSE {})
                          \union (IF busOk THEN {} ELSE {"blind"})]
      BY <1>9 DEF Verify
    <2> DEFINE F == (IF mac \in Up(Listed(busOk)) THEN {"failed"} ELSE {})
                          \union (IF busOk THEN {} ELSE {"blind"})
    <2>2. F \in SUBSET {"failed", "blind"} /\ cli' = [cli EXCEPT !.flags = @ \union F]
      BY <2>1 DEF CliType
    <2> HIDE DEF F
    <2> QED
      BY <1>2, <1>9, <2>2 DEF Verify
  <1>10. CASE Pick
    BY <1>1, <1>10 DEF Pick, ExitCodes
  <1> QED
    BY <1>3, <1>4, <1>5, <1>6, <1>7, <1>8, <1>9, <1>10 DEF Early

(* main's choice of devices keeps to the devices there are, and disconnect *)
(* only checks a target it took on                                         *)
AtTarget ==
    /\ stage = "list" => todo = {} /\ off = {}
    /\ stage = "verify" => mac \in targets \ todo

LEMMA ChosenTyped ==
    ASSUME CliTypeOK, AtTarget, Early
    PROVE  /\ mac' \in Macs \union {NoMac}
           /\ targets' \subseteq Macs /\ todo' \subseteq targets' /\ off' \subseteq targets'
           /\ AtTarget'
  <1> USE DEF CliTypeOK, At, AtTarget, Goto, Return
  <1>1. \A busOk \in BOOLEAN : Listed(busOk) \in SUBSET Macs
    BY DEF Listed
  <1>2. \A S \in SUBSET Macs : Up(S) \in SUBSET S
    BY DEF Up
  <1>3. \A S \in SUBSET Macs : S # {} => First(S) \in S
    BY FirstAssumption DEF First
  <1>4. BusResults \subseteq BOOLEAN
    BY CliAssumption
  <1>5. CASE AskDaemon \/ Check \/ Bring \/ Recheck
    <2>1. UNCHANGED pathVars
      BY <1>5 DEF AskDaemon, Check, Bring, Recheck
    <2>2. stage' \notin {"list", "verify"}
      <3>1. CASE AskDaemon
        <4>1. \/ Goto("choose") \/ Return(cli, 5)
              \/ Return(Show(cli), 0) \/ Return(Show(cli), 4)
          BY <3>1, CliAssumption DEF AskDaemon
        <4> QED
          BY <4>1
      <3>2. CASE Check \/ Bring \/ Recheck
        BY <3>2 DEF Check, Bring, Recheck
      <3> QED
        BY <1>5, <3>1, <3>2
    <2> QED
      BY <2>1, <2>2 DEF pathVars
  <1>6. CASE Choose
    BY <1>1, <1>2, <1>3, <1>4, <1>6 DEF Choose
  <1>7. CASE List
    <2>1. PICK busOk \in BusResults :
              \/ UNCHANGED <<mac, targets, todo>> /\ stage' = "gone"
              \/ /\ targets' = Listed(busOk) /\ stage' = "pick"
                 /\ UNCHANGED <<mac, todo>>
              \/ /\ mac' \in Listed(busOk) /\ stage' = "bring"
                 /\ UNCHANGED <<targets, todo>>
              \/ /\ targets' \in {Up(Listed(busOk)), Up(Listed(busOk) \intersect {want.mac})}
                 /\ todo' = targets' /\ stage' = "each"
                 /\ UNCHANGED mac
      BY <1>7 DEF List
    <2>2. Listed(busOk) \in SUBSET Macs
      BY <1>1, <1>4
    <2>3. /\ Up(Listed(busOk)) \in SUBSET Macs
          /\ Up(Listed(busOk) \intersect {want.mac}) \in SUBSET Macs
      BY <1>2, <2>2
    <2>4. UNCHANGED off
      BY <1>7 DEF List
    <2>5. todo = {} /\ off = {}
      BY <1>7 DEF List
    <2>6. CASE UNCHANGED <<mac, targets, todo>> /\ stage' = "gone"
      BY <2>4, <2>6
    <2>7. CASE mac' \in Listed(busOk) /\ stage' = "bring" /\ UNCHANGED <<targets, todo>>
      BY <2>2, <2>4, <2>7
    <2>8. CASE /\ targets' \in {Up(Listed(busOk)), Up(Listed(busOk) \intersect {want.mac})}
               /\ todo' = targets' /\ stage' = "each"
               /\ UNCHANGED mac
      BY <2>3, <2>4, <2>5, <2>8
    <2>9. CASE targets' = Listed(busOk) /\ stage' = "pick" /\ UNCHANGED <<mac, todo>>
      BY <2>2, <2>4, <2>5, <2>9
    <2> QED
      BY <2>1, <2>6, <2>7, <2>8, <2>9
  <1>8. CASE Each
    BY <1>3, <1>8 DEF Each
  <1>9. CASE Verify
    BY <1>9 DEF Verify
  <1>10. CASE Pick
    BY <1>10 DEF Pick
  <1> QED
    BY <1>5, <1>6, <1>7, <1>8, <1>9, <1>10 DEF Early

LEMMA SocketTyped ==
    ASSUME CliTypeOK, Socket
    PROVE  /\ Serving
           /\ ClientTypeOK'
           /\ cli' \in CliType
  <1> USE CliAssumption, ClientAssumption DEF CliTypeOK
  <1>1. \A s \in CliType, f \in Flags : Set(s, f) \in CliType
    BY HelpersTyped
  <1>2. \A s \in CliType, t \in CliTimers : Start(s, t) \in CliType
    BY HelpersTyped
  <1>3. \A s \in CliType, w \in WriteResults : Send(s, w) \in CliType
    BY SendTyped
  <1>4. \A b, a : Heard(b, a) \in SUBSET Flags
    BY DEF Heard, Flags
  <1>5. CASE SocketConnected
    <2>1. ClientTypeOK'
      BY <1>5, ClientTyped DEF SocketConnected
    <2> QED
      BY <1>2, <1>5, <2>1 DEF SocketConnected, CliTimers
  <1>6. CASE SocketDisconnected
    BY <1>6, ClientTyped DEF SocketDisconnected
  <1>7. CASE SocketError
    <2>1. Exit(Set(cli, "fatal"), 9) \in CliType
      BY HelpersTyped DEF Flags, ExitCodes
    <2> QED
      BY <1>7, <2>1, ClientTyped DEF SocketError
  <1>8. CASE HandshakeAck
    BY <1>8, ClientTyped DEF HandshakeAck
  <1>9. CASE FeaturesAck
    <2>1. PICK w \in WriteResults, v \in WriteResults :
              /\ Serving
              /\ OnFeaturesAck(w)
              /\ cli' = IF protocolReady \/ want.cmd = "mode" THEN cli
                        ELSE IF want.cmd = "status" THEN [Start(cli, "poll") EXCEPT !.attempts = 1]
                        ELSE IF want.on /\ mode \notin {"Adaptive", "Transparency"}
                        THEN Start(cli, "caDelay")
                        ELSE Send(cli, v)
      BY <1>9 DEF FeaturesAck
    <2>2. ClientTypeOK'
      BY <2>1, ClientTyped
    <2>3. [Start(cli, "poll") EXCEPT !.attempts = 1] \in CliType
      <3>1. 1 \in 0..PollLimit
        OBVIOUS
      <3> QED
        BY <1>2, <3>1 DEF CliType, CliTimers
    <2> QED
      BY <1>2, <1>3, <2>1, <2>2, <2>3 DEF CliTimers
  <1>10. CASE NoiseReport
    <2>1. PICK m \in NoiseReports, w \in WriteResults :
              /\ Serving
              /\ OnNoiseControl(m)
              /\ cli' = OnModePacket(StateChanged(cli, IF want.cmd = "mode"
                                                 THEN Heard(m, want.mode) ELSE {}), w)
      BY <1>10 DEF NoiseReport
    <2>2. ClientTypeOK'
      BY <2>1, ClientTyped
    <2>3. StateChanged(cli, IF want.cmd = "mode" THEN Heard(m, want.mode) ELSE {}) \in CliType
      BY <1>4, <2>2, StateChangedTyped DEF ClientTypeOK
    <2> QED
      BY <1>1, <1>3, <2>1, <2>2, <2>3 DEF OnModePacket, Flags
  <1>11. CASE NoiseUnparsed
    BY <1>1, <1>3, <1>11, ClientTyped DEF NoiseUnparsed, OnModePacket, Flags
  <1>12. CASE CaReport
    <2>1. PICK b \in CaReports, control \in BOOLEAN :
              /\ Serving
              /\ OnConversationalAwareness(b)
              /\ cli' \in {StateChanged(cli, IF want.cmd = "ca" THEN Heard(b, want.on) ELSE {}),
                           OnCaPacket(StateChanged(cli, IF want.cmd = "ca"
                                                        THEN Heard(b, want.on) ELSE {}), b)}
      BY <1>12 DEF CaReport
    <2>2. ClientTypeOK'
      BY <2>1, ClientTyped
    <2>3. StateChanged(cli, IF want.cmd = "ca" THEN Heard(b, want.on) ELSE {}) \in CliType
      BY <1>4, <2>2, StateChangedTyped DEF ClientTypeOK
    <2> QED
      BY <1>1, <1>2, <2>1, <2>2, <2>3 DEF OnCaPacket, Flags, CliTimers
  <1>13. CASE EarReport
    <2>1. ClientTypeOK' /\ cli' = StateChanged(cli, {}) /\ Serving
      BY <1>13, ClientTyped DEF EarReport
    <2> QED
      BY <2>1, StateChangedTyped DEF ClientTypeOK
  <1>14. CASE OtherReport
    <2>1. PICK more \in SUBSET {"battery"} : cli' = StateChanged(cli, more)
      BY <1>14 DEF OtherReport
    <2>2. ClientTypeOK' /\ Serving /\ more \in SUBSET Flags
      BY <1>14, ClientTyped DEF OtherReport, Flags
    <2> QED
      BY <2>1, <2>2, StateChangedTyped DEF ClientTypeOK
  <1> QED
    BY <1>5, <1>6, <1>7, <1>8, <1>9, <1>10, <1>11, <1>12, <1>13, <1>14 DEF Socket

LEMMA TimerTyped ==
    ASSUME CliTypeOK, Timer
    PROVE  /\ InLoop
           /\ UNCHANGED clientVars
           /\ cli' \in CliType
  <1> USE CliAssumption DEF CliTypeOK, Fires, CliTimers
  <1>1. \A s \in CliType, t \in CliTimers : Stop(s, t) \in CliType
    BY HelpersTyped
  <1>2. CASE PollTimer
    <2>1. cli.attempts < PollLimit => cli.attempts + 1 \in 0..PollLimit
      BY DEF CliType
    <2>2. cli.attempts < PollLimit => [cli EXCEPT !.attempts = @ + 1] \in CliType
      BY <2>1 DEF CliType
    <2>3. cli.attempts \in Nat
      BY DEF CliType
    <2> QED
      BY <1>1, <1>2, <2>2, <2>3 DEF PollTimer
  <1>3. CASE SettleTimer
    <2>1. Set(Stop(cli, "settle"), "settled") \in CliType
      BY <1>1, HelpersTyped DEF Flags
    <2> QED
      BY <1>3, <2>1, FinishTyped DEF SettleTimer
  <1>4. CASE SendTimer
    <2>1. PICK t \in {"fallback", "caDelay"}, w \in WriteResults :
              Fires(t) /\ cli' = Send(Stop(cli, t), w)
      BY <1>4 DEF SendTimer
    <2>2. Stop(cli, t) \in CliType
      BY <1>1
    <2> QED
      BY <2>1, <2>2, SendTyped
  <1>5. CASE RetryTimer
    <2>1. Stop(cli, "retry") \in CliType
      BY <1>1
    <2>2. /\ [Stop(cli, "retry") EXCEPT !.sends = @ + 1] \in CliType
          /\ [Stop(cli, "retry") EXCEPT !.sends = @] \in CliType
      BY <2>1 DEF CliType
    <2>3. /\ InLoop /\ UNCHANGED clientVars
          /\ \E w \in WriteResults :
                cli' = [Stop(cli, "retry") EXCEPT !.sends = IF Written(w) THEN @ + 1 ELSE @]
      BY <1>5 DEF RetryTimer
    <2> QED
      BY <2>2, <2>3
  <1>6. CASE OverallTimer
    <2>1. Stop(cli, "overall") \in CliType
      BY <1>1
    <2>2. \A s \in CliType : /\ Exit(s, 9) \in CliType /\ Exit(s, 0) \in CliType
                            /\ Exit(Show(Set(Stop(s, "poll"), "timedOut")), 4) \in CliType
      BY HelpersTyped DEF Flags, ExitCodes
    <2> QED
      BY <1>6, <2>1, <2>2 DEF OverallTimer
  <1> QED
    BY <1>2, <1>3, <1>4, <1>5, <1>6 DEF Timer

LEMMA TypedKept ==
    ASSUME CliTypeOK, AtTarget, [Next]_vars
    PROVE  CliTypeOK' /\ AtTarget'
  <1> USE DEF CliTypeOK, Stages
  <1>1. CASE UNCHANGED vars \/ Idle
    BY <1>1
    DEF vars, cliVars, pathVars, clientVars, sessionVars, reportVars, Idle, AtTarget, ClientTypeOK
  <1>2. CASE BluezChange
    <2>1. ClientTypeOK'
      BY <1>2, ClientTyped DEF BluezChange
    <2>2. bluez' \in [Macs -> {"absent", "paired", "connected"}]
      BY <1>2, CliAssumption DEF BluezChange
    <2> QED
      BY <1>2, <2>1, <2>2 DEF BluezChange, pathVars, AtTarget
  <1>3. CASE Early
    <2>1. ClientTypeOK'
      BY <1>3, EarlyShape, ClientTyped
    <2> QED
      BY <1>3, <2>1, EarlyShape, ChosenTyped
  <1>4. CASE Dial
    <2>1. PICK r \in DialResults : \E fatal \in BOOLEAN :
              /\ ConnectToDevice(mac, "sync", r)
              /\ cli' = IF r = "closed" /\ fatal THEN Set(Start(cli, "overall"), "fatal")
                        ELSE Start(cli, "overall")
      BY <1>4 DEF Dial
    <2>2. ClientTypeOK'
      BY <2>1, ClientAssumption DEF ConnectToDevice, ClientTypeOK, SocketStates, reportVars
    <2>3. Start(cli, "overall") \in CliType /\ Set(Start(cli, "overall"), "fatal") \in CliType
      BY HelpersTyped DEF CliTimers, Flags
    <2>4. /\ stage' = "loop" /\ UNCHANGED <<bluez, want, mac, targets, todo, off>>
      BY <1>4 DEF Dial, pathVars
    <2> QED
      BY <2>1, <2>2, <2>3, <2>4 DEF AtTarget
  <1>5. CASE Socket
    BY <1>5, SocketTyped DEF Serving, InLoop, pathVars, AtTarget
  <1>6. CASE Timer
    <2>1. ClientTypeOK'
      BY <1>6, TimerTyped, ClientTyped
    <2> QED
      BY <1>6, <2>1, TimerTyped DEF InLoop, pathVars, AtTarget
  <1>7. CASE Leave
    <2>1. ClientTypeOK'
      BY <1>7 DEF Leave, DisconnectFromDevice, ClientTypeOK, SocketStates, reportVars,
                  ClosingSignals, IsConnected
    <2> QED
      BY <1>7, <2>1 DEF Leave, pathVars, AtTarget
  <1> QED
    BY <1>1, <1>2, <1>3, <1>4, <1>5, <1>6, <1>7 DEF Next, Main, Limited, Early

LEMMA InitTyped == Init => CliTypeOK /\ AtTarget
  <1>1. NoEars \in EarStatuses
    BY DEF NoEars, EarStatuses, EarDetectionStatus
  <1>2. ClientInit => ClientTypeOK
    BY <1>1 DEF ClientInit, ClientTypeOK, SocketStates, NoiseControlMode
  <1>3. 0 \in 0..PollLimit
    BY CliAssumption
  <1>4. Init => cli \in CliType
    BY <1>1, <1>3 DEF Init, CliType
  <1>5. Init => bluez \in [Macs -> {"absent", "paired", "connected"}] /\ want \in CommandType
    BY CliAssumption DEF Init
  <1> QED
    BY <1>2, <1>4, <1>5 DEF Init, CliTypeOK, Stages, AtTarget

(* The locals of main, its timers and the path through it keep their types *)
(* in every run, and disconnect never checks a device it did not take on.  *)
THEOREM CliTypeCorrect == Spec => [](CliTypeOK /\ AtTarget)
  BY InitTyped, TypedKept, PTL DEF Spec

(***************************************************************************)
(* What the helpers change of main's locals, field by field.               *)
(***************************************************************************)

(* all of the record but its flags, and all but flags, code and shown *)
Kept(s, t) == t.timers = s.timers /\ t.lastEars = s.lastEars /\ t.settleFor = s.settleFor

LEMMA SendEffect ==
    ASSUME NEW s \in CliType, NEW w \in WriteResults
    PROVE  LET t == Send(s, w)
           IN  /\ Kept(s, t) /\ t.shown = s.shown
               /\ \/ t = s
                  \/ t.flags = s.flags /\ t.sends = s.sends /\ t.code = 3
                  \/ /\ "sent" \notin s.flags
                     /\ t.flags = s.flags \union {"sent"}
                     /\ t.sends = s.sends + 1 /\ t.code = s.code
               /\ "sent" \in s.flags => t = s
  BY DEF Send, Has, Set, Exit, Kept, CliType

LEMMA MaybeFinishEffect ==
    ASSUME NEW s \in CliType
    PROVE  LET t == MaybeFinish(s)
           IN  \/ t = s
               \/ /\ want.cmd = "status" /\ "printed" \notin s.flags /\ "ears" \in s.flags
                  /\ t.flags = s.flags \union {"printed"}
                  /\ t.timers = s.timers \ {"poll"}
                  /\ t.lastEars = s.lastEars /\ t.settleFor = s.settleFor
                  /\ t.shown = s.shown + 1 /\ t.sends = s.sends /\ t.code = 0
  BY DEF MaybeFinish, Has, Set, Exit, Show, Stop, CliType

LEMMA ConfirmEffect ==
    ASSUME NEW s \in CliType
    PROVE  LET t == Confirm(s)
           IN  /\ Kept(s, t) /\ t.sends = s.sends
               /\ \/ t = s
                  \/ /\ "sent" \in s.flags /\ t.flags = s.flags \union {"confirmed"}
                     /\ t.shown = s.shown /\ t.code = s.code
                  \/ /\ {"sent", "battery", "ears"} \subseteq s.flags
                     /\ "printed" \notin s.flags
                     /\ t.flags = s.flags \union {"confirmed", "printed"}
                     /\ t.shown = s.shown + 1 /\ t.code = 0
  BY DEF Confirm, Has, Set, Exit, Show, Kept, CliType

LEMMA WatchEffect ==
    ASSUME NEW s \in CliType
    PROVE  LET t == Watch(s)
           IN  /\ t.sends = s.sends /\ t.shown = s.shown /\ t.code = s.code
               /\ t.timers \in {s.timers, s.timers \union {"settle"}}
               /\ t.flags \in {s.flags, s.flags \ {"settled"}}
               /\ s.lastEars = s.settleFor => t.lastEars = t.settleFor
               /\ ears' # NoEars => t.lastEars = ears'
               /\ ears' = NoEars => t.lastEars = s.lastEars
  BY DEF Watch, Start, CliType

(* a status object is printed, and with it the program told to exit *)
Prints(s, t) ==
    /\ "printed" \notin s.flags /\ "printed" \in t.flags
    /\ t.shown = s.shown + 1 /\ t.code = 0
    /\ "ears" \in t.flags
    /\ want.cmd \in {"mode", "ca"} => {"sent", "confirmed", "battery"} \subseteq t.flags
    /\ want.cmd = "mode" => mode' = want.mode
    /\ want.cmd = "ca" => ca' = want.on

PrintsNothing(s, t) ==
    /\ "printed" \in t.flags <=> "printed" \in s.flags
    /\ t.shown = s.shown /\ t.code = s.code

LEMMA StateChangedEffect ==
    ASSUME NEW s \in CliType, NEW more \in SUBSET {"heard", "battery"}, ears' \in EarStatuses
    PROVE  LET t == StateChanged(s, more)
           IN  /\ t.sends = s.sends
               /\ t.timers \subseteq s.timers \union {"settle"}
               /\ s.timers \ {"poll"} \subseteq t.timers
               /\ want.cmd # "status" => t.timers = s.timers
               /\ (s.flags \ {"settled"}) \union more \subseteq t.flags
               /\ t.flags \subseteq s.flags \union more \union {"ears", "confirmed", "printed"}
               /\ Prints(s, t) \/ PrintsNothing(s, t)
               /\ want.cmd = "status" /\ s.lastEars = s.settleFor =>
                    /\ t.lastEars = t.settleFor
                    /\ ears' # NoEars => t.lastEars = ears'
                    /\ ears' = NoEars => t.lastEars = s.lastEars
  <1> DEFINE a == [s EXCEPT !.flags = @ \union more
                          \union (IF ears' = NoEars THEN {} ELSE {"ears"})]
  <1>1. /\ a \in CliType
        /\ a.flags = s.flags \union more \union (IF ears' = NoEars THEN {} ELSE {"ears"})
        /\ Kept(s, a) /\ a.sends = s.sends /\ a.shown = s.shown /\ a.code = s.code
    BY DEF CliType, Flags, Kept
  <1> DEFINE u == StateChanged(s, more)
  <1>2. u = IF want.cmd = "status" THEN MaybeFinish(Watch(a))
            ELSE IF want.cmd = "mode" THEN (IF mode' = want.mode THEN Confirm(a) ELSE a)
            ELSE IF want.cmd = "ca" THEN (IF ca' = want.on THEN Confirm(a) ELSE a)
            ELSE a
    BY DEF StateChanged
  <1> HIDE DEF a, u
  <1> USE DEF Kept, Prints, PrintsNothing
  <1>3. CASE want.cmd = "status"
    <2> DEFINE b == Watch(a)
    <2>1. b \in CliType
      BY <1>1 DEF Watch, CliType, Start, CliTimers
    <2>2. u = MaybeFinish(b)
      BY <1>2, <1>3
    <2>3. /\ b.sends = s.sends /\ b.shown = s.shown /\ b.code = s.code
          /\ b.timers \in {s.timers, s.timers \union {"settle"}}
          /\ b.flags \in {a.flags, a.flags \ {"settled"}}
          /\ s.lastEars = s.settleFor => b.lastEars = b.settleFor
          /\ ears' # NoEars => b.lastEars = ears'
          /\ ears' = NoEars => b.lastEars = s.lastEars
      BY <1>1, WatchEffect
    <2> HIDE DEF b
    <2> QED
      BY <1>1, <1>3, <2>1, <2>2, <2>3, MaybeFinishEffect DEF u
  <1>4. CASE want.cmd # "status" /\ u = a
    BY <1>1, <1>4 DEF u
  <1>5. CASE want.cmd # "status" /\ u = Confirm(a)
             /\ (want.cmd = "mode" => mode' = want.mode) /\ (want.cmd = "ca" => ca' = want.on)
    BY <1>1, <1>5, ConfirmEffect DEF u
  <1> QED
    BY <1>2, <1>3, <1>4, <1>5

----------------------------------------------------------------------------
(* What a socket event does, in the terms of the invariants below. *)

FlagsGrow ==
    /\ cli.flags \ {"settled"} \subseteq cli'.flags
    /\ "timedOut" \in cli'.flags => "timedOut" \in cli.flags
    /\ "fatal" \in cli'.flags \ cli.flags =>
        /\ sock = "connecting" /\ sock' = "closed"
        /\ cli'.timers = cli.timers /\ cli'.shown = cli.shown /\ cli'.code = 9

TimersGrow ==
    /\ cli'.timers \subseteq cli.timers \union (CliTimers \ {"overall"})
    /\ want.cmd = "status" => cli'.timers \subseteq cli.timers \union {"poll", "settle"}
    /\ "retry" \in cli.timers => "retry" \in cli'.timers
    /\ "overall" \in cli.timers => "overall" \in cli'.timers

PrintsOnce ==
    \/ Prints(cli, cli')
    \/ /\ "printed" \in cli'.flags <=> "printed" \in cli.flags
       /\ cli'.shown = cli.shown
       /\ cli'.code \in {cli.code, 3, 9}

SendsOnce ==
    /\ \/ cli'.sends = cli.sends
       \/ "sent" \in cli'.flags \ cli.flags /\ cli'.sends = cli.sends + 1
    /\ "retried" \in cli'.flags \ cli.flags =>
        /\ want.cmd = "ca" /\ "sent" \in cli.flags /\ "rejected" \in cli'.flags
        /\ "retry" \in cli'.timers /\ cli'.sends = cli.sends
    /\ "retry" \in cli'.timers \ cli.timers => "retried" \in cli'.flags \ cli.flags

HearsChanges ==
    /\ mode' # mode /\ want.cmd = "mode" /\ mode' = want.mode => "heard" \in cli'.flags
    /\ ca' # ca /\ want.cmd = "ca" /\ ca' = want.on => "heard" \in cli'.flags

FollowsEars ==
    want.cmd = "status" /\ cli.lastEars = cli.settleFor =>
        /\ cli'.lastEars = cli'.settleFor
        /\ \/ cli'.lastEars = ears'
           \/ cli'.lastEars = cli.lastEars /\ ears' \in {ears, NoEars}

SocketEffect ==
    /\ FlagsGrow /\ TimersGrow /\ PrintsOnce /\ SendsOnce /\ HearsChanges /\ FollowsEars
    /\ sock \in {"connecting", "connected"} /\ sock' \in {"connected", "closed"}
    /\ address' = address

LEMMA SocketStep ==
    ASSUME CliTypeOK, Socket
    PROVE  SocketEffect
  <1> USE DEF FlagsGrow, TimersGrow, PrintsOnce, SendsOnce, HearsChanges, FollowsEars,
              SocketEffect, PrintsNothing, IsConnected
  <1>1. cli \in CliType /\ ears' \in EarStatuses /\ cli.code = NoCode
    BY SocketTyped DEF CliTypeOK, ClientTypeOK, Serving
  <1>2. ASSUME NEW s \in CliType, NEW t \in CliTimers
        PROVE  /\ Start(s, t).timers = s.timers \union {t}
               /\ Start(s, t).flags = s.flags /\ Start(s, t).sends = s.sends
               /\ Start(s, t).shown = s.shown /\ Start(s, t).code = s.code
               /\ Start(s, t).lastEars = s.lastEars /\ Start(s, t).settleFor = s.settleFor
    BY DEF Start, CliType
  <1>3. ASSUME NEW s \in CliType, NEW f \in Flags
        PROVE  /\ Set(s, f).flags = s.flags \union {f}
               /\ Set(s, f).timers = s.timers /\ Set(s, f).sends = s.sends
               /\ Set(s, f).shown = s.shown /\ Set(s, f).code = s.code
               /\ Set(s, f).lastEars = s.lastEars /\ Set(s, f).settleFor = s.settleFor
    BY DEF Set, CliType
  <1>4. CASE SocketConnected
    BY <1>1, <1>2, <1>4 DEF SocketConnected, OnSocketConnected, reportVars, CliTimers
  <1>5. CASE SocketDisconnected
    BY <1>1, <1>5 DEF SocketDisconnected, OnSocketDisconnected, reportVars
  <1>6. CASE SocketError
    <2>1. CASE cli' = cli
      BY <1>1, <1>6, <2>1 DEF SocketError, OnSocketError, reportVars
    <2>2. CASE cli' = Exit(Set(cli, "fatal"), 9)
      BY <1>1, <1>6, <2>2 DEF SocketError, OnSocketError, reportVars, Exit, Set, CliType
    <2> QED
      BY <1>6, <2>1, <2>2 DEF SocketError
  <1>7. CASE HandshakeAck
    BY <1>1, <1>7 DEF HandshakeAck, OnHandshakeAck, reportVars
  <1>8. CASE FeaturesAck
    <2>1. PICK v \in WriteResults :
              cli' = IF protocolReady \/ want.cmd = "mode" THEN cli
                     ELSE IF want.cmd = "status" THEN [Start(cli, "poll") EXCEPT !.attempts = 1]
                     ELSE IF want.on /\ mode \notin {"Adaptive", "Transparency"}
                     THEN Start(cli, "caDelay")
                     ELSE Send(cli, v)
      BY <1>8 DEF FeaturesAck
    <2>2. /\ sock = "connected" /\ UNCHANGED <<sock, address, mode, ca, ears>>
      BY <1>8 DEF FeaturesAck, OnFeaturesAck, reportVars
    <2>3. CASE cli' = cli
      BY <1>1, <2>2, <2>3
    <2>4. CASE cli' = [Start(cli, "poll") EXCEPT !.attempts = 1]
      <3>1. /\ cli'.timers = cli.timers \union {"poll"}
            /\ cli'.flags = cli.flags /\ cli'.sends = cli.sends
            /\ cli'.shown = cli.shown /\ cli'.code = cli.code
            /\ cli'.lastEars = cli.lastEars /\ cli'.settleFor = cli.settleFor
        BY <1>1, <2>4 DEF Start, CliType
      <3> QED
        BY <1>1, <2>2, <3>1 DEF CliTimers
    <2>5. CASE want.cmd # "status" /\ cli' = Start(cli, "caDelay")
      BY <1>1, <1>2, <2>2, <2>5 DEF CliTimers
    <2>6. CASE want.cmd # "status" /\ cli' = Send(cli, v)
      BY <1>1, <2>2, <2>6, SendEffect DEF Kept
    <2> QED
      BY <2>1, <2>3, <2>4, <2>5, <2>6
  <1>9. ASSUME NEW more \in SUBSET {"heard", "battery"},
               sock = "connected", UNCHANGED <<sock, address>>,
               mode' # mode /\ want.cmd = "mode" /\ mode' = want.mode => "heard" \in more,
               ca' # ca /\ want.cmd = "ca" /\ ca' = want.on => "heard" \in more
        PROVE  LET t == StateChanged(cli, more)
               IN  /\ t \in CliType
                   /\ cli' = t => SocketEffect
                   /\ cli.flags \ {"settled"} \subseteq t.flags
                   /\ mode' # mode /\ want.cmd = "mode" /\ mode' = want.mode => "heard" \in t.flags
                   /\ ca' # ca /\ want.cmd = "ca" /\ ca' = want.on => "heard" \in t.flags
                   /\ {"timedOut", "fatal", "retried", "sent"} \intersect t.flags \subseteq cli.flags
                   /\ t.sends = cli.sends
                   /\ want.cmd # "status" => t.timers = cli.timers
                   /\ Prints(cli, t) \/ PrintsNothing(cli, t)
    <2> DEFINE t == StateChanged(cli, more)
    <2>1. t \in CliType
      BY <1>1, <1>9, StateChangedTyped DEF Flags
    <2>2. /\ t.sends = cli.sends
          /\ t.timers \subseteq cli.timers \union {"settle"}
          /\ cli.timers \ {"poll"} \subseteq t.timers
          /\ want.cmd # "status" => t.timers = cli.timers
          /\ (cli.flags \ {"settled"}) \union more \subseteq t.flags
          /\ t.flags \subseteq cli.flags \union more \union {"ears", "confirmed", "printed"}
          /\ Prints(cli, t) \/ PrintsNothing(cli, t)
          /\ want.cmd = "status" /\ cli.lastEars = cli.settleFor =>
                    /\ t.lastEars = t.settleFor
                    /\ ears' # NoEars => t.lastEars = ears'
                    /\ ears' = NoEars => t.lastEars = cli.lastEars
      BY <1>1, <1>9, StateChangedEffect
    <2> HIDE DEF t
    <2>3. {"timedOut", "fatal", "retried", "sent"} \intersect t.flags \subseteq cli.flags
      BY <1>9, <2>2
    <2>4. "retry" \notin t.timers \ cli.timers
      BY <2>2
    <2>5. cli' = t => FlagsGrow /\ TimersGrow /\ SendsOnce
      BY <2>2, <2>3, <2>4 DEF CliTimers
    <2>6. cli' = t => PrintsOnce /\ HearsChanges /\ FollowsEars
      BY <1>9, <2>2
    <2>7. cli' = t => SocketEffect
      BY <1>9, <2>5, <2>6
    <2> QED
      BY <1>9, <2>1, <2>2, <2>3, <2>7 DEF t
  <1>10. CASE NoiseReport
    <2>1. PICK m \in NoiseReports, w \in WriteResults :
              /\ OnNoiseControl(m)
              /\ cli' = OnModePacket(StateChanged(cli, IF want.cmd = "mode"
                                                 THEN Heard(m, want.mode) ELSE {}), w)
      BY <1>10 DEF NoiseReport
    <2> DEFINE more == IF want.cmd = "mode" THEN Heard(m, want.mode) ELSE {}
               t == StateChanged(cli, more)
    <2>2. /\ more \in SUBSET {"heard", "battery"}
          /\ want.cmd = "mode" /\ m = want.mode => "heard" \in more
      BY DEF Heard
    <2>3. /\ sock = "connected" /\ UNCHANGED <<sock, address, ca, ears>> /\ mode' = m
      BY <2>1 DEF OnNoiseControl, CanReport, sessionVars
    <2> HIDE DEF more
    <2>4. /\ t \in CliType
          /\ cli' = t => SocketEffect
          /\ cli.flags \ {"settled"} \subseteq t.flags
          /\ mode' # mode /\ want.cmd = "mode" /\ mode' = want.mode => "heard" \in t.flags
          /\ {"timedOut", "fatal", "retried", "sent"} \intersect t.flags \subseteq cli.flags
          /\ t.sends = cli.sends
          /\ want.cmd # "status" => t.timers = cli.timers
          /\ Prints(cli, t) \/ PrintsNothing(cli, t)
      BY <1>9, <2>2, <2>3
    <2>5. cli' = OnModePacket(t, w)
      BY <2>1 DEF more
    <2> HIDE DEF t
    <2>6. CASE want.cmd # "mode"
      BY <2>4, <2>5, <2>6 DEF OnModePacket
    <2>7. CASE want.cmd = "mode"
      <3> DEFINE u == Set(t, "initial")
      <3>1. /\ u \in CliType
            /\ u.flags = t.flags \union {"initial"} /\ u.timers = t.timers
            /\ u.sends = t.sends /\ u.shown = t.shown /\ u.code = t.code
        BY <1>3, <2>4, HelpersTyped DEF Flags
      <3>2. cli' = Send(u, w)
        BY <2>5, <2>7 DEF OnModePacket
      <3> HIDE DEF u
      <3>3. /\ cli'.timers = u.timers /\ cli'.shown = u.shown
            /\ \/ cli' = u
               \/ cli'.flags = u.flags /\ cli'.sends = u.sends /\ cli'.code = 3
               \/ /\ "sent" \notin u.flags
                  /\ cli'.flags = u.flags \union {"sent"}
                  /\ cli'.sends = u.sends + 1 /\ cli'.code = u.code
            /\ "sent" \in u.flags => cli' = u
        BY <3>1, <3>2, SendEffect DEF Kept
      <3>4. FlagsGrow /\ TimersGrow /\ SendsOnce
        BY <2>4, <2>7, <3>1, <3>3
      <3>5. PrintsOnce
        <4>1. CASE Prints(cli, t)
          <5>1. "sent" \in t.flags
            BY <2>7, <4>1 DEF Prints
          <5> QED
            BY <2>7, <3>1, <3>3, <4>1, <5>1 DEF Prints
        <4>2. CASE PrintsNothing(cli, t)
          BY <3>1, <3>3, <4>2
        <4> QED
          BY <2>4, <4>1, <4>2
      <3>6. HearsChanges /\ FollowsEars
        BY <2>3, <2>4, <2>7, <3>1, <3>3
      <3> QED
        BY <2>3, <3>4, <3>5, <3>6
    <2> QED
      BY <2>6, <2>7
  <1>11. CASE NoiseUnparsed
    <2>1. PICK w \in WriteResults : cli' = OnModePacket(cli, w)
      BY <1>11 DEF NoiseUnparsed
    <2>2. sock = "connected" /\ UNCHANGED <<sock, address, mode, ca, ears>>
      BY <1>11 DEF NoiseUnparsed, OnOtherReport, CanReport, clientVars, sessionVars, reportVars
    <2>3. CASE want.cmd # "mode"
      BY <1>1, <2>1, <2>2, <2>3 DEF OnModePacket
    <2>4. CASE want.cmd = "mode"
      <3> DEFINE u == Set(cli, "initial")
      <3>1. /\ u \in CliType
            /\ u.flags = cli.flags \union {"initial"} /\ u.timers = cli.timers
            /\ u.sends = cli.sends /\ u.shown = cli.shown /\ u.code = cli.code
        BY <1>1, <1>3, HelpersTyped DEF Flags
      <3>2. cli' = Send(u, w)
        BY <2>1, <2>4 DEF OnModePacket
      <3> HIDE DEF u
      <3>3. /\ cli'.timers = u.timers /\ cli'.shown = u.shown
            /\ \/ cli' = u
               \/ cli'.flags = u.flags /\ cli'.sends = u.sends /\ cli'.code = 3
               \/ /\ "sent" \notin u.flags
                  /\ cli'.flags = u.flags \union {"sent"}
                  /\ cli'.sends = u.sends + 1 /\ cli'.code = u.code
        BY <3>1, <3>2, SendEffect DEF Kept
      <3> QED
        BY <2>2, <2>4, <3>1, <3>3
    <2> QED
      BY <2>3, <2>4
  <1>12. CASE CaReport
    <2>1. PICK b \in CaReports :
              /\ OnConversationalAwareness(b)
              /\ cli' \in {StateChanged(cli, IF want.cmd = "ca" THEN Heard(b, want.on) ELSE {}),
                           OnCaPacket(StateChanged(cli, IF want.cmd = "ca"
                                                        THEN Heard(b, want.on) ELSE {}), b)}
      BY <1>12 DEF CaReport
    <2> DEFINE more == IF want.cmd = "ca" THEN Heard(b, want.on) ELSE {}
               t == StateChanged(cli, more)
    <2>2. /\ more \in SUBSET {"heard", "battery"}
          /\ want.cmd = "ca" /\ b = want.on => "heard" \in more
      BY DEF Heard
    <2>3. /\ sock = "connected" /\ UNCHANGED <<sock, address, mode, ears>> /\ ca' = b
      BY <2>1 DEF OnConversationalAwareness, CanReport, sessionVars
    <2> HIDE DEF more
    <2>4. /\ t \in CliType
          /\ cli' = t => SocketEffect
          /\ cli.flags \ {"settled"} \subseteq t.flags
          /\ ca' # ca /\ want.cmd = "ca" /\ ca' = want.on => "heard" \in t.flags
          /\ {"timedOut", "fatal", "retried", "sent"} \intersect t.flags \subseteq cli.flags
          /\ t.sends = cli.sends
          /\ want.cmd # "status" => t.timers = cli.timers
          /\ Prints(cli, t) \/ PrintsNothing(cli, t)
      BY <1>9, <2>2, <2>3
    <2>5. cli' \in {t, OnCaPacket(t, b)}
      BY <2>1 DEF more
    <2> HIDE DEF t
    <2>6. CASE cli' = t
      BY <2>4, <2>6
    <2>7. CASE cli' = OnCaPacket(t, b) /\ OnCaPacket(t, b) # t
      <3>1. /\ want.cmd = "ca" /\ "sent" \in t.flags /\ ca' # want.on
        BY <2>3, <2>7 DEF OnCaPacket, Has
      <3>2. \/ /\ "retried" \in t.flags /\ cli'.flags = t.flags \union {"rejected"}
               /\ cli'.timers = t.timers
            \/ /\ "retried" \notin t.flags
               /\ cli'.flags = t.flags \union {"rejected", "retried"}
               /\ cli'.timers = t.timers \union {"retry"}
        BY <2>4, <2>7 DEF OnCaPacket, Has, Set, Start, CliType
      <3>3. cli'.sends = t.sends /\ cli'.shown = t.shown /\ cli'.code = t.code
        BY <2>4, <2>7 DEF OnCaPacket, Set, Start, CliType
      <3>4. PrintsNothing(cli, t)
        BY <2>4, <3>1 DEF Prints
      <3>5. FlagsGrow /\ TimersGrow
        BY <2>4, <3>1, <3>2 DEF CliTimers
      <3>6. SendsOnce
        <4>1. "sent" \in cli.flags
          BY <2>4, <3>1
        <4>2. cli'.sends = cli.sends
          BY <2>4, <3>3
        <4>3. CASE "retried" \in t.flags
          BY <2>4, <3>1, <3>2, <4>2, <4>3
        <4>4. CASE "retried" \notin t.flags
          BY <2>4, <3>1, <3>2, <4>1, <4>2, <4>4
        <4> QED
          BY <4>3, <4>4
      <3>7. PrintsOnce
        BY <3>2, <3>3, <3>4
      <3>8. HearsChanges /\ FollowsEars
        BY <2>3, <3>1
      <3> QED
        BY <2>3, <3>5, <3>6, <3>7, <3>8
    <2> QED
      BY <2>5, <2>6, <2>7
  <1>13. CASE EarReport
    <2>1. /\ cli' = StateChanged(cli, {})
          /\ sock = "connected" /\ UNCHANGED <<sock, address, mode, ca>>
      BY <1>13 DEF EarReport, OnEarDetection, CanReport, sessionVars
    <2> QED
      BY <1>9, <2>1
  <1>14. CASE OtherReport
    <2>1. PICK more \in SUBSET {"battery"} : cli' = StateChanged(cli, more)
      BY <1>14 DEF OtherReport
    <2>2. /\ sock = "connected" /\ UNCHANGED <<sock, address, mode, ca>>
          /\ more \in SUBSET {"heard", "battery"}
      BY <1>14 DEF OtherReport, OnOtherReport, CanReport, clientVars, sessionVars, reportVars
    <2> QED
      BY <1>9, <2>1, <2>2
  <1> QED
    BY <1>4, <1>5, <1>6, <1>7, <1>8, <1>10, <1>11, <1>12, <1>13, <1>14 DEF Socket

----------------------------------------------------------------------------
(* What a timer does, timer by timer. *)

Unprinted == cli'.shown = cli.shown /\ cli'.code = cli.code

PollEffect == Unprinted /\ cli'.flags = cli.flags /\ cli'.sends = cli.sends

SettleEffect ==
    /\ cli'.sends = cli.sends
    /\ \/ Unprinted /\ cli'.flags = cli.flags \union {"settled"}
       \/ /\ want.cmd = "status" /\ Prints(cli, cli')
          /\ cli'.flags = cli.flags \union {"settled", "printed"}

SendTimerEffect ==
    /\ "fallback" \in cli.timers \/ "caDelay" \in cli.timers
    /\ cli'.shown = cli.shown
    /\ \/ cli'.flags = cli.flags /\ cli'.sends = cli.sends /\ cli'.code \in {cli.code, 3}
       \/ /\ "sent" \notin cli.flags /\ cli'.flags = cli.flags \union {"sent"}
          /\ cli'.sends = cli.sends + 1 /\ cli'.code = cli.code

RetryEffect ==
    /\ "retry" \in cli.timers /\ "retry" \notin cli'.timers
    /\ cli'.sends \in {cli.sends, cli.sends + 1}
    /\ Unprinted /\ cli'.flags = cli.flags

OverallEffect ==
    /\ "overall" \in cli.timers /\ "overall" \notin cli'.timers
    /\ cli'.sends = cli.sends
    /\ \/ "fatal" \in cli.flags /\ cli'.flags = cli.flags /\ cli'.shown = cli.shown /\ cli'.code = 9
       \/ /\ "fatal" \notin cli.flags /\ "printed" \in cli.flags
          /\ cli'.flags = cli.flags /\ cli'.shown = cli.shown /\ cli'.code = 0
       \/ /\ "fatal" \notin cli.flags /\ "printed" \notin cli.flags
          /\ cli'.flags = cli.flags \union {"timedOut"}
          /\ cli'.shown = cli.shown + 1 /\ cli'.code = 4

TimerEffect ==
    /\ cli'.timers \subseteq cli.timers
    /\ cli'.lastEars = cli.lastEars /\ cli'.settleFor = cli.settleFor
    /\ \/ "poll" \in cli.timers /\ PollEffect
       \/ "settle" \in cli.timers /\ SettleEffect
       \/ SendTimerEffect
       \/ RetryEffect
       \/ OverallEffect
    /\ "retry" \in cli.timers \ cli'.timers => RetryEffect
    /\ "overall" \in cli.timers \ cli'.timers => OverallEffect

LEMMA TimerStep ==
    ASSUME CliTypeOK, Timer
    PROVE  TimerEffect
  <1> USE DEF TimerEffect, Unprinted, Fires
  <1>1. cli \in CliType
    BY DEF CliTypeOK
  <1>2. \A t \in CliTimers :
            /\ Stop(cli, t) \in CliType
            /\ Stop(cli, t).timers = cli.timers \ {t}
            /\ Stop(cli, t).flags = cli.flags /\ Stop(cli, t).sends = cli.sends
            /\ Stop(cli, t).shown = cli.shown /\ Stop(cli, t).code = cli.code
            /\ Stop(cli, t).lastEars = cli.lastEars /\ Stop(cli, t).settleFor = cli.settleFor
    BY <1>1 DEF Stop, CliType
  <1>3. CASE PollTimer
    <2>1. CASE cli' = Stop(cli, "poll")
      BY <1>2, <1>3, <2>1 DEF PollTimer, PollEffect, CliTimers
    <2>2. CASE cli' = [cli EXCEPT !.attempts = @ + 1]
      BY <1>1, <1>3, <2>2 DEF PollTimer, PollEffect, CliType
    <2> QED
      BY <1>3, <2>1, <2>2 DEF PollTimer
  <1>4. CASE SettleTimer
    <2> DEFINE s == Set(Stop(cli, "settle"), "settled")
    <2>1. /\ s \in CliType
          /\ s.flags = cli.flags \union {"settled"} /\ s.timers = cli.timers \ {"settle"}
          /\ s.sends = cli.sends /\ s.shown = cli.shown /\ s.code = cli.code
          /\ s.lastEars = cli.lastEars /\ s.settleFor = cli.settleFor
      BY <1>1 DEF Set, Stop, CliType, Flags
    <2>2. cli' = MaybeFinish(s) /\ "settle" \in cli.timers
      BY <1>4 DEF SettleTimer
    <2> HIDE DEF s
    <2>3. CASE cli' = s
      BY <2>1, <2>2, <2>3 DEF SettleEffect
    <2>4. CASE /\ want.cmd = "status" /\ "printed" \notin s.flags /\ "ears" \in s.flags
               /\ cli'.flags = s.flags \union {"printed"}
               /\ cli'.timers = s.timers \ {"poll"}
               /\ cli'.lastEars = s.lastEars /\ cli'.settleFor = s.settleFor
               /\ cli'.shown = s.shown + 1 /\ cli'.sends = s.sends /\ cli'.code = 0
      BY <2>1, <2>2, <2>4 DEF SettleEffect, Prints
    <2> QED
      BY <2>1, <2>2, <2>3, <2>4, MaybeFinishEffect
  <1>5. CASE SendTimer
    <2>1. PICK t \in {"fallback", "caDelay"}, w \in WriteResults :
              t \in cli.timers /\ cli' = Send(Stop(cli, t), w)
      BY <1>5 DEF SendTimer
    <2> DEFINE s == Stop(cli, t)
    <2>2. /\ s \in CliType
          /\ s.flags = cli.flags /\ s.timers = cli.timers \ {t}
          /\ s.sends = cli.sends /\ s.shown = cli.shown /\ s.code = cli.code
          /\ s.lastEars = cli.lastEars /\ s.settleFor = cli.settleFor
      BY <1>2 DEF CliTimers
    <2>3. cli' = Send(s, w)
      BY <2>1
    <2> HIDE DEF s
    <2> QED
      BY <2>1, <2>2, <2>3, SendEffect DEF SendTimerEffect, Kept
  <1>6. CASE RetryTimer
    <2>1. PICK w \in WriteResults :
              cli' = [Stop(cli, "retry") EXCEPT !.sends = IF Written(w) THEN @ + 1 ELSE @]
      BY <1>6 DEF RetryTimer
    <2>2. "retry" \in cli.timers
      BY <1>6 DEF RetryTimer
    <2> QED
      BY <1>1, <2>1, <2>2 DEF RetryEffect, Stop, CliType
  <1>7. CASE OverallTimer
    <2> DEFINE s == Stop(cli, "overall")
    <2>1. /\ s \in CliType
          /\ s.flags = cli.flags /\ s.timers = cli.timers \ {"overall"}
          /\ s.sends = cli.sends /\ s.shown = cli.shown /\ s.code = cli.code
          /\ s.lastEars = cli.lastEars /\ s.settleFor = cli.settleFor
      BY <1>2 DEF CliTimers
    <2>2. /\ "overall" \in cli.timers
          /\ cli' = IF "fatal" \in s.flags THEN Exit(s, 9)
                    ELSE IF "printed" \in s.flags THEN Exit(s, 0)
                    ELSE Exit(Show(Set(Stop(s, "poll"), "timedOut")), 4)
      BY <1>7 DEF OverallTimer, Has
    <2> HIDE DEF s
    <2>3. CASE cli' = Exit(s, 9) /\ "fatal" \in s.flags
      BY <2>1, <2>2, <2>3 DEF OverallEffect, Exit, CliType
    <2>4. CASE cli' = Exit(s, 0) /\ "fatal" \notin s.flags /\ "printed" \in s.flags
      BY <2>1, <2>2, <2>4 DEF OverallEffect, Exit, CliType
    <2>5. CASE /\ cli' = Exit(Show(Set(Stop(s, "poll"), "timedOut")), 4)
               /\ "fatal" \notin s.flags /\ "printed" \notin s.flags
      BY <2>1, <2>2, <2>5 DEF OverallEffect, Exit, Show, Set, Stop, CliType
    <2> QED
      BY <2>2, <2>3, <2>4, <2>5
  <1> QED
    BY <1>3, <1>4, <1>5, <1>6, <1>7 DEF Timer

(***************************************************************************)
(* The inductive invariant.                                                *)
(***************************************************************************)

(* before the event loop there is no session, no timer and no flag but     *)
(* those of disconnect, and main has neither printed nor returned          *)
Before ==
    stage \notin {"loop", "gone"} =>
        /\ cli.flags \subseteq {"failed", "blind"}
        /\ cli.timers = {} /\ cli.shown = 0 /\ cli.sends = 0 /\ cli.code = NoCode
        /\ sock = "null" /\ address = NoMac

(* two objects are printed only by a status command whose timeout fired,   *)
(* and whose settle timer came after it                                    *)
Printing ==
    /\ "printed" \notin cli.flags /\ "timedOut" \notin cli.flags =>
            cli.shown \in (IF stage = "loop" THEN {0} ELSE {0, 1})
    /\ "printed" \in cli.flags /\ "timedOut" \notin cli.flags => cli.shown = 1
    /\ "printed" \notin cli.flags /\ "timedOut" \in cli.flags => cli.shown = 1
    /\ "printed" \in cli.flags /\ "timedOut" \in cli.flags =>
            cli.shown = 2 /\ want.cmd = "status" /\ cli.code = 0
    /\ "printed" \in cli.flags \/ "timedOut" \in cli.flags => cli.code # NoCode
    /\ "overall" \in cli.timers => "timedOut" \notin cli.flags
    /\ want.cmd = "status" => cli.timers \subseteq {"overall", "poll", "settle"}

(* after a fatal error nothing but the timeout is left to happen           *)
Reaching ==
    /\ "fatal" \in cli.flags =>
        /\ sock \notin {"connecting", "connected"} /\ cli.timers \subseteq {"overall"}
        /\ cli.shown = 0 /\ cli.code \in {NoCode, 9}
        /\ stage = "gone" => cli.code = 9
    /\ sock = "connecting" /\ cli.code = NoCode =>
        cli.timers \subseteq {"overall"} /\ cli.shown = 0
    /\ stage = "gone" => sock = "null" \/ cli.code # NoCode

(* the command is written once, and again by the retry timer alone         *)
Sending ==
    /\ "sent" \notin cli.flags => cli.sends = 0
    /\ "retried" \notin cli.flags => cli.sends \in {0, 1}
    /\ "retried" \in cli.flags =>
        /\ want.cmd = "ca" /\ {"sent", "rejected"} \subseteq cli.flags
        /\ cli.sends \in (IF "retry" \in cli.timers THEN {0, 1} ELSE {0, 1, 2})
    /\ "retry" \in cli.timers => "retried" \in cli.flags

(* the value on record is the initial one or was heard, and a program that *)
(* succeeded on its own session has printed                                *)
Confirming ==
    /\ want.cmd = "mode" /\ mode = want.mode => want.mode = "Off" \/ "heard" \in cli.flags
    /\ want.cmd = "ca" /\ ca = want.on => ~want.on \/ "heard" \in cli.flags
    /\ "printed" \in cli.flags =>
        /\ "ears" \in cli.flags
        /\ want.cmd \in {"mode", "ca"} =>
            /\ {"sent", "confirmed", "battery"} \subseteq cli.flags
            /\ want.cmd = "mode" => mode = want.mode
            /\ want.cmd = "ca" => ca = want.on
    /\ cli.code = 0 /\ address # NoMac => "printed" \in cli.flags

(* the ear states on record are those the settle timer was last started    *)
(* for, or both buds are gone                                              *)
Settling ==
    want.cmd = "status" => cli.lastEars = cli.settleFor /\ ears \in {cli.lastEars, NoEars}

LEMMA BeforeKept ==
    ASSUME CliTypeOK, Before, [Next]_vars
    PROVE  Before'
  <1> USE DEF Before
  <1>1. CASE UNCHANGED vars \/ Idle \/ BluezChange
    BY <1>1 DEF vars, cliVars, clientVars, sessionVars, Idle, BluezChange
  <1>2. CASE Early
    BY <1>2, EarlyShape DEF clientVars, sessionVars
  <1>3. CASE Dial \/ Leave
    BY <1>3 DEF Dial, Leave
  <1>4. CASE Socket
    BY <1>4, SocketTyped DEF Serving, InLoop
  <1>5. CASE Timer
    BY <1>5, TimerTyped DEF InLoop
  <1> QED
    BY <1>1, <1>2, <1>3, <1>4, <1>5 DEF Next, Main, Limited, Early

(* Dial and Leave, field by field *)
LEMMA DialShape ==
    ASSUME CliTypeOK, Before, Dial
    PROVE  /\ stage = "dial" /\ stage' = "loop" /\ want' = want /\ UNCHANGED <<mode, ca, ears>>
           /\ cli'.timers = {"overall"}
           /\ cli'.flags \subseteq {"failed", "blind", "fatal"}
           /\ cli'.shown = 0 /\ cli'.sends = 0 /\ cli'.code = NoCode
           /\ cli'.lastEars = cli.lastEars /\ cli'.settleFor = cli.settleFor
           /\ "fatal" \in cli'.flags => sock' = "closed"
  <1>1. PICK r \in DialResults, fatal \in BOOLEAN :
            /\ ConnectToDevice(mac, "sync", r)
            /\ cli' = IF r = "closed" /\ fatal THEN Set(Start(cli, "overall"), "fatal")
                      ELSE Start(cli, "overall")
    BY DEF Dial
  <1>2. /\ stage = "dial" /\ cli \in CliType
        /\ cli.flags \subseteq {"failed", "blind"}
        /\ cli.timers = {} /\ cli.shown = 0 /\ cli.sends = 0 /\ cli.code = NoCode
    BY DEF Dial, CliTypeOK, Before
  <1>3. /\ stage' = "loop" /\ want' = want /\ UNCHANGED <<mode, ca, ears>> /\ sock' = r
    BY <1>1 DEF Dial, ConnectToDevice, reportVars
  <1>4. CASE cli' = Start(cli, "overall")
    BY <1>2, <1>3, <1>4 DEF Start, CliType
  <1>5. CASE r = "closed" /\ cli' = Set(Start(cli, "overall"), "fatal")
    BY <1>2, <1>3, <1>5 DEF Start, Set, CliType
  <1> QED
    BY <1>1, <1>4, <1>5

LEMMA PrintingKept ==
    ASSUME CliTypeOK, Before, Printing, [Next]_vars
    PROVE  Printing'
  <1> USE DEF Printing, NoCode
  <1>1. CASE UNCHANGED vars \/ Idle \/ BluezChange \/ Leave
    BY <1>1 DEF vars, cliVars, Idle, BluezChange, Leave
  <1>2. CASE Early
    BY <1>2, EarlyShape DEF Before
  <1>3. CASE Dial
    BY <1>3, DialShape
  <1>4. CASE Socket
    <2>1. stage = "loop" /\ stage' = stage /\ want' = want /\ cli.code = NoCode
      BY <1>4, SocketTyped DEF Serving, InLoop
    <2> QED
      BY <1>4, <2>1, SocketStep DEF SocketEffect, FlagsGrow, TimersGrow, PrintsOnce, Prints, CliTimers
  <1>5. CASE Timer
    <2>1. stage = "loop" /\ stage' = stage /\ want' = want
      BY <1>5, TimerTyped DEF InLoop
    <2>2. cli'.timers \subseteq cli.timers
      BY <1>5, TimerStep DEF TimerEffect
    <2>3. CASE PollEffect
      BY <2>1, <2>2, <2>3 DEF PollEffect, Unprinted
    <2>4. CASE SettleEffect
      BY <2>1, <2>2, <2>4 DEF SettleEffect, Unprinted, Prints
    <2>5. CASE SendTimerEffect
      BY <2>1, <2>2, <2>5 DEF SendTimerEffect
    <2>6. CASE RetryEffect
      BY <2>1, <2>2, <2>6 DEF RetryEffect, Unprinted
    <2>7. CASE OverallEffect
      BY <2>1, <2>2, <2>7 DEF OverallEffect
    <2> QED
      BY <1>5, <2>3, <2>4, <2>5, <2>6, <2>7, TimerStep DEF TimerEffect
  <1> QED
    BY <1>1, <1>2, <1>3, <1>4, <1>5 DEF Next, Main, Limited, Early

LEMMA ReachingKept ==
    ASSUME CliTypeOK, Before, Printing, Reaching, [Next]_vars
    PROVE  Reaching'
  <1> USE DEF Reaching, NoCode
  <1>1. CASE UNCHANGED vars \/ Idle \/ BluezChange
    BY <1>1 DEF vars, cliVars, clientVars, sessionVars, Idle, BluezChange
  <1>2. CASE Early
    BY <1>2, EarlyShape DEF Before, clientVars, sessionVars
  <1>3. CASE Dial
    BY <1>3, DialShape
  <1>4. CASE Leave
    BY <1>4 DEF Leave, DisconnectFromDevice
  <1>5. CASE Socket
    <2>1. stage = "loop" /\ stage' = stage /\ cli.code = NoCode
      BY <1>5, SocketTyped DEF Serving, InLoop
    <2>2. /\ sock \in {"connecting", "connected"} /\ sock' \in {"connected", "closed"}
          /\ FlagsGrow
      BY <1>5, SocketStep DEF SocketEffect
    <2> QED
      BY <2>1, <2>2 DEF FlagsGrow
  <1>6. CASE Timer
    <2>1. stage = "loop" /\ stage' = stage /\ want' = want /\ sock' = sock
      BY <1>6, TimerTyped DEF InLoop, clientVars, sessionVars
    <2>2. cli'.timers \subseteq cli.timers
      BY <1>6, TimerStep DEF TimerEffect
    <2>3. CASE "poll" \in cli.timers /\ PollEffect
      BY <2>1, <2>2, <2>3 DEF PollEffect, Unprinted
    <2>4. CASE "settle" \in cli.timers /\ SettleEffect
      BY <2>1, <2>2, <2>4 DEF SettleEffect, Unprinted, Prints
    <2>5. CASE SendTimerEffect
      BY <2>1, <2>2, <2>5 DEF SendTimerEffect
    <2>6. CASE RetryEffect
      BY <2>1, <2>2, <2>6 DEF RetryEffect, Unprinted
    <2>7. CASE OverallEffect
      BY <2>1, <2>2, <2>7 DEF OverallEffect
    <2> QED
      BY <1>6, <2>3, <2>4, <2>5, <2>6, <2>7, TimerStep DEF TimerEffect
  <1> QED
    BY <1>1, <1>2, <1>3, <1>4, <1>5, <1>6 DEF Next, Main, Limited, Early

LEMMA SendingKept ==
    ASSUME CliTypeOK, Before, Sending, [Next]_vars
    PROVE  Sending'
  <1> USE DEF Sending
  <1>1. CASE UNCHANGED vars \/ Idle \/ BluezChange \/ Leave
    BY <1>1 DEF vars, cliVars, Idle, BluezChange, Leave
  <1>2. CASE Early
    BY <1>2, EarlyShape DEF Before
  <1>3. CASE Dial
    BY <1>3, DialShape
  <1>4. CASE Socket
    <2>1. want' = want
      BY <1>4, SocketTyped DEF Serving, InLoop
    <2>2. FlagsGrow /\ TimersGrow /\ SendsOnce
      BY <1>4, SocketStep DEF SocketEffect
    <2>3. \A f \in {"sent", "rejected", "retried"} : f \in cli.flags => f \in cli'.flags
      BY <2>2 DEF FlagsGrow
    <2>4. CASE "retried" \in cli'.flags \ cli.flags
      BY <2>1, <2>2, <2>3, <2>4 DEF TimersGrow, SendsOnce
    <2>5. CASE "retried" \notin cli'.flags
      BY <2>1, <2>2, <2>3, <2>5 DEF SendsOnce
    <2>6. CASE "retried" \in cli.flags
      BY <2>1, <2>2, <2>3, <2>6 DEF TimersGrow, SendsOnce
    <2> QED
      BY <2>4, <2>5, <2>6
  <1>5. CASE Timer
    <2>1. want' = want
      BY <1>5, TimerTyped DEF InLoop
    <2>2. /\ cli'.timers \subseteq cli.timers
          /\ "retry" \in cli.timers \ cli'.timers => RetryEffect
      BY <1>5, TimerStep DEF TimerEffect
    <2>3. CASE PollEffect
      BY <2>1, <2>2, <2>3 DEF PollEffect, RetryEffect
    <2>4. CASE SettleEffect
      BY <2>1, <2>2, <2>4 DEF SettleEffect, RetryEffect
    <2>5. CASE SendTimerEffect
      BY <2>1, <2>2, <2>5 DEF SendTimerEffect, RetryEffect
    <2>6. CASE RetryEffect
      BY <2>1, <2>2, <2>6 DEF RetryEffect
    <2>7. CASE OverallEffect
      BY <2>1, <2>2, <2>7 DEF OverallEffect, RetryEffect
    <2> QED
      BY <1>5, <2>3, <2>4, <2>5, <2>6, <2>7, TimerStep DEF TimerEffect
  <1> QED
    BY <1>1, <1>2, <1>3, <1>4, <1>5 DEF Next, Main, Limited, Early

LEMMA ConfirmingKept ==
    ASSUME CliTypeOK, Before, Printing, Confirming, [Next]_vars
    PROVE  Confirming'
  <1> USE DEF Confirming, NoCode
  <1>1. CASE UNCHANGED vars \/ Idle \/ BluezChange
    BY <1>1 DEF vars, cliVars, clientVars, sessionVars, reportVars, Idle, BluezChange
  <1>2. CASE Early
    BY <1>2, EarlyShape DEF Before, clientVars, sessionVars, reportVars
  <1>3. CASE Dial
    BY <1>3, DialShape DEF Before
  <1>4. CASE Leave
    BY <1>4 DEF Leave, DisconnectFromDevice, reportVars
  <1>5. CASE Socket
    <2>1. want' = want /\ cli.code = NoCode
      BY <1>5, SocketTyped DEF Serving, InLoop
    <2>2. FlagsGrow /\ PrintsOnce /\ HearsChanges /\ address' = address
      BY <1>5, SocketStep DEF SocketEffect
    <2>3. "heard" \in cli.flags => "heard" \in cli'.flags
      BY <2>2 DEF FlagsGrow
    <2>4. "printed" \notin cli.flags
      BY <2>1 DEF Printing
    <2> QED
      BY <2>1, <2>2, <2>3, <2>4 DEF PrintsOnce, HearsChanges, Prints
  <1>6. CASE Timer
    <2>1. stage = "loop" /\ want' = want /\ UNCHANGED <<address, mode, ca>>
      BY <1>6, TimerTyped DEF InLoop, clientVars, sessionVars, reportVars
    <2>3. CASE PollEffect
      BY <2>1, <2>3 DEF PollEffect, Unprinted
    <2>4. CASE SettleEffect
      BY <2>1, <2>4 DEF SettleEffect, Unprinted, Prints
    <2>5. CASE SendTimerEffect
      BY <2>1, <2>5 DEF SendTimerEffect
    <2>6. CASE RetryEffect
      BY <2>1, <2>6 DEF RetryEffect, Unprinted
    <2>7. CASE OverallEffect
      BY <2>1, <2>7 DEF OverallEffect
    <2> QED
      BY <1>6, <2>3, <2>4, <2>5, <2>6, <2>7, TimerStep DEF TimerEffect
  <1> QED
    BY <1>1, <1>2, <1>3, <1>4, <1>5, <1>6 DEF Next, Main, Limited, Early

LEMMA SettlingKept ==
    ASSUME CliTypeOK, Before, Settling, [Next]_vars
    PROVE  Settling'
  <1> USE DEF Settling
  <1>1. CASE UNCHANGED vars \/ Idle \/ BluezChange
    BY <1>1 DEF vars, cliVars, clientVars, reportVars, Idle, BluezChange
  <1>2. CASE Early
    BY <1>2, EarlyShape DEF clientVars, reportVars
  <1>3. CASE Dial
    BY <1>3, DialShape
  <1>4. CASE Leave
    BY <1>4 DEF Leave, DisconnectFromDevice, reportVars
  <1>5. CASE Socket
    <2>1. want' = want
      BY <1>5, SocketTyped DEF Serving, InLoop
    <2> QED
      BY <1>5, <2>1, SocketStep DEF SocketEffect, FollowsEars
  <1>6. CASE Timer
    BY <1>6, TimerTyped, TimerStep DEF InLoop, clientVars, reportVars, TimerEffect
  <1> QED
    BY <1>1, <1>2, <1>3, <1>4, <1>5, <1>6 DEF Next, Main, Limited, Early

CliInv == Before /\ Printing /\ Reaching /\ Sending /\ Confirming /\ Settling

LEMMA CliInvariant == Spec => []CliInv
  <1>1. Init => CliInv
    <2> SUFFICES ASSUME Init PROVE CliInv
      OBVIOUS
    <2>1. /\ cli.flags = {} /\ cli.timers = {} /\ cli.shown = 0 /\ cli.sends = 0
          /\ cli.code = NoCode /\ cli.lastEars = NoEars /\ cli.settleFor = NoEars
          /\ stage \in {"list", "ask"}
          /\ sock = "null" /\ address = NoMac /\ mode = "Off" /\ ca = FALSE /\ ears = NoEars
      BY DEF Init, ClientInit
    <2>2. want \in CommandType
      BY CliAssumption DEF Init
    <2> QED
      BY <2>1, <2>2
      DEF CliInv, Before, Printing, Reaching, Sending, Confirming, Settling, NoCode, CommandType
  <1>2. CliTypeOK /\ CliInv /\ [Next]_vars => CliInv'
    BY BeforeKept, PrintingKept, ReachingKept, SendingKept, ConfirmingKept, SettlingKept DEF CliInv
  <1> QED
    BY <1>1, <1>2, CliTypeCorrect, PTL DEF Spec

----------------------------------------------------------------------------
(* A program prints one status object, or, when its settle timer is due in *)
(* the round in which the timeout ended the loop (the timer does not set   *)
(* printed), a status command prints two and exits with the second's code. *)
THEOREM ObjectPrintedOnce == Spec => []OneStatusObject
  <1>1. CliInv => OneStatusObject
    BY DEF CliInv, Before, Printing, OneStatusObject, Has
  <1> QED
    BY <1>1, CliInvariant, PTL

(* errorOccurred before exec sets a flag that the timeout turns into exit  *)
(* code 9; after it nothing can be printed, whatever else is due.          *)
THEOREM UnreachableExitsNine == Spec => []FatalExitsNine
  <1>1. CliInv => FatalExitsNine
    BY DEF CliInv, Reaching, FatalExitsNine, Has
  <1> QED
    BY <1>1, CliInvariant, PTL

(* sendModeCommand and sendCaCommand are reached on four paths and write   *)
(* the command once; only a CA command the device contradicted is retried. *)
THEOREM CommandSentOnce == Spec => []SentOnce
  <1>1. CliInv => SentOnce
    BY DEF CliInv, Sending, SentOnce, Has
  <1> QED
    BY <1>1, CliInvariant, PTL

(* Exit code 0 of mode and ca: sent, confirmed, and heard from the device  *)
(* unless the value is the one a new client starts with.                   *)
THEOREM SuccessIsConfirmed == Spec => []ZeroMeansConfirmed
  <1>1. CliInv => ZeroMeansConfirmed
    BY DEF CliInv, Confirming, ZeroMeansConfirmed, Gone, OwnSession, Has
  <1> QED
    BY <1>1, CliInvariant, PTL

(* Exit code 0 of status: the ear states printed are those the settle      *)
(* timer was started for, or both buds have gone.                          *)
THEOREM PrintedIsSettled == Spec => []StatusSettled
  <1>1. CliInv => StatusSettled
    BY DEF CliInv, Confirming, Settling, StatusSettled, Gone, OwnSession, Has
  <1> QED
    BY <1>1, CliInvariant, PTL

----------------------------------------------------------------------------
(* disconnect keeps account: each target it is done with was off when it   *)
(* was checked, or a failure or a check without answer is on record.       *)
Accounted(done) == done \subseteq off \/ "failed" \in cli.flags \/ "blind" \in cli.flags

Accounting ==
    /\ want.cmd = "disconnect" => stage \in {"list", "each", "verify", "gone"}
    /\ stage = "each" => Accounted(targets \ todo)
    /\ stage = "verify" => Accounted(targets \ (todo \union {mac}))
    /\ Gone("disconnect", 0) => targets \subseteq off \/ "blind" \in cli.flags

LEMMA AccountingKept ==
    ASSUME CliTypeOK, AtTarget, Before, Accounting, [Next]_vars
    PROVE  Accounting'
  <1> USE DEF Accounting, Accounted, Gone
  <1>1. CASE UNCHANGED vars \/ Idle \/ BluezChange
    BY <1>1 DEF vars, cliVars, pathVars, Idle, BluezChange
  <1>2. CASE AskDaemon \/ Choose \/ Check \/ Bring \/ Recheck
    <2>1. want' = want /\ want.cmd # "disconnect"
      BY <1>2 DEF AskDaemon, Choose, Check, Bring, Recheck, At
    <2>2. stage' \notin {"each", "verify"}
      <3>1. CASE AskDaemon
        <4>1. \/ Goto("choose") \/ Return(cli, 5)
              \/ Return(Show(cli), 0) \/ Return(Show(cli), 4)
          BY <3>1, CliAssumption DEF AskDaemon
        <4> QED
          BY <4>1 DEF Goto, Return
      <3>2. CASE Choose
        BY <3>2 DEF Choose, Goto, Return
      <3>3. CASE Check \/ Bring \/ Recheck
        BY <3>3 DEF Check, Bring, Recheck, Goto, Return
      <3> QED
        BY <1>2, <3>1, <3>2, <3>3
    <2> QED
      BY <2>1, <2>2
  <1>3. CASE List
    <2>1. want' = want /\ stage = "list" /\ cli \in CliType
      BY <1>3 DEF List, At, CliTypeOK
    <2>2. \/ stage' = "gone" /\ cli'.code \in {1, 2, 6}
          \/ stage' \in {"pick", "bring"} /\ want.cmd = "connect"
          \/ stage' = "each" /\ todo' = targets'
      <3>1. \A n \in ExitCodes : Return(cli, n) => stage' = "gone" /\ cli'.code = n
        BY <2>1 DEF Return, Exit, CliType
      <3> QED
        BY <1>3, <3>1 DEF List, Goto, ExitCodes
    <2> QED
      BY <2>1, <2>2
  <1>4. CASE Each
    <2>1. want' = want /\ targets' = targets /\ off' = off /\ stage = "each" /\ cli \in CliType
      BY <1>4 DEF Each, At, CliTypeOK
    <2>2. CASE todo = {}
      <3>1. /\ stage' = "gone" /\ cli'.flags = cli.flags
            /\ cli'.code = IF "failed" \in cli.flags THEN 7 ELSE 0
        BY <1>4, <2>1, <2>2 DEF Each, Return, Exit, Has, CliType
      <3> QED
        BY <2>1, <2>2, <3>1
    <2>3. CASE todo # {}
      <3>1. todo' = todo \ {mac'}
        BY <1>4, <2>3 DEF Each
      <3>2. CASE stage' = "verify" /\ cli' = cli
        <4>1. targets' \ (todo' \union {mac'}) \subseteq targets \ todo
          BY <2>1, <3>1
        <4> QED
          BY <2>1, <3>2, <4>1
      <3>3. CASE stage' = stage /\ cli' = Set(cli, "failed")
        <4>1. "failed" \in cli'.flags
          BY <2>1, <3>3 DEF Set, CliType
        <4> QED
          BY <2>1, <3>3, <4>1
      <3> QED
        BY <1>4, <2>3, <3>2, <3>3 DEF Each, Goto
    <2> QED
      BY <2>2, <2>3
  <1>5. CASE Verify
    <2>1. /\ want' = want /\ targets' = targets /\ todo' = todo
          /\ stage = "verify" /\ stage' = "each" /\ cli \in CliType /\ bluez' = bluez
      BY <1>5 DEF Verify, At, CliTypeOK
    <2>2. PICK busOk \in BOOLEAN :
              /\ cli' = [cli EXCEPT !.flags = @
                          \union (IF mac \in Up(Listed(busOk)) THEN {"failed"} ELSE {})
                          \union (IF busOk THEN {} ELSE {"blind"})]
              /\ off' = IF bluez[mac] = "connected" THEN off ELSE off \union {mac}
      BY <1>5, CliAssumption DEF Verify
    <2>3. cli'.flags = cli.flags
                          \union (IF mac \in Up(Listed(busOk)) THEN {"failed"} ELSE {})
                          \union (IF busOk THEN {} ELSE {"blind"})
      BY <2>1, <2>2 DEF CliType
    <2>4. mac \in targets \ todo /\ mac \in Macs
      BY <2>1 DEF AtTarget, CliTypeOK
    <2>5. \/ mac \in off' \/ "failed" \in cli'.flags \/ "blind" \in cli'.flags
      <3>1. CASE bluez[mac] # "connected"
        BY <2>2, <3>1
      <3>2. CASE ~busOk
        BY <2>3, <3>2
      <3>3. CASE busOk /\ bluez[mac] = "connected"
        <4>1. mac \in Up(Listed(busOk))
          BY <2>4, <3>3 DEF Up, Listed
        <4> QED
          BY <2>3, <4>1
      <3> QED
        BY <3>1, <3>2, <3>3
    <2>6. off \subseteq off' /\ cli.flags \subseteq cli'.flags
      BY <2>2, <2>3
    <2> QED
      BY <2>1, <2>4, <2>5, <2>6
  <1>6. CASE Dial \/ Leave
    BY <1>6 DEF Dial, Leave
  <1>7. CASE Socket
    BY <1>7, SocketTyped DEF Serving, InLoop
  <1>8. CASE Timer
    BY <1>8, TimerTyped DEF InLoop
  <1>9. CASE Pick
    BY <1>9 DEF Pick, At, Goto, Return
  <1> QED
    BY <1>1, <1>2, <1>3, <1>4, <1>5, <1>6, <1>7, <1>8, <1>9 DEF Next, Main, Limited

(* A later target that disconnects does not make up for an earlier one     *)
(* that did not (failures in disconnect's loop): exit code 0 stands for    *)
(* all of them.                                                            *)
THEOREM DisconnectionsVerified == Spec => []DisconnectVerified
  <1>1. Init => Accounting
    <2>1. Init => cli.code = NoCode
      BY DEF Init
    <2> QED
      BY <2>1 DEF Init, Accounting, Gone, NoCode
  <1>2. CliTypeOK /\ AtTarget /\ CliInv /\ Accounting /\ [Next]_vars => Accounting'
    BY AccountingKept DEF CliInv
  <1>3. Accounting => DisconnectVerified
    BY DEF Accounting, DisconnectVerified, Has
  <1> QED
    BY <1>1, <1>2, <1>3, CliTypeCorrect, CliInvariant, PTL DEF Spec

(* What Terminates rests on, which TLC checks under fairness: as long as   *)
(* the loop has not been told to exit, the timeout runs.                   *)
Armed == stage = "loop" => cli.code # NoCode \/ "overall" \in cli.timers

(* No slot and no other timer stops the timeout, and the timeout itself    *)
(* leaves an exit code, also after an error that was reported before there *)
(* was a loop to exit (--timeout, a single shot that nothing cancels).     *)
THEOREM TimeoutStaysArmed == Spec => []Armed
  <1> USE DEF Armed
  <1>1. Init => Armed
    BY DEF Init
  <1>2. CliTypeOK /\ CliInv /\ Armed /\ [Next]_vars => Armed'
    <2> SUFFICES ASSUME CliTypeOK, CliInv, Armed, [Next]_vars PROVE Armed'
      OBVIOUS
    <2>1. CASE UNCHANGED vars \/ Idle \/ BluezChange
      BY <2>1 DEF vars, cliVars, Idle, BluezChange
    <2>2. CASE Early
      BY <2>2, EarlyShape
    <2>3. CASE Dial
      BY <2>3, DialShape DEF CliInv
    <2>4. CASE Leave
      BY <2>4 DEF Leave
    <2>5. CASE Socket
      <3>1. stage = "loop" /\ cli.code = NoCode
        BY <2>5, SocketTyped DEF Serving, InLoop
      <3> QED
        BY <2>5, <3>1, SocketStep DEF SocketEffect, TimersGrow
    <2>6. CASE Timer
      <3>1. stage = "loop" /\ TimerEffect
        BY <2>6, TimerTyped, TimerStep DEF InLoop
      <3>2. CASE "overall" \in cli.timers \ cli'.timers
        BY <3>1, <3>2 DEF TimerEffect, OverallEffect, NoCode
      <3>3. CASE "overall" \in cli'.timers
        BY <3>3
      <3>4. CASE "overall" \notin cli.timers
        <4>1. cli.code # NoCode
          BY <3>1, <3>4
        <4> QED
          BY <3>1, <3>4, <4>1
          DEF TimerEffect, PollEffect, SettleEffect, SendTimerEffect, RetryEffect, OverallEffect,
              Unprinted, Prints, NoCode
      <3> QED
        BY <3>2, <3>3, <3>4
    <2> QED
      BY <2>1, <2>2, <2>3, <2>4, <2>5, <2>6 DEF Next, Main, Limited, Early
  <1> QED
    BY <1>1, <1>2, CliInvariant, CliTypeCorrect, PTL DEF Spec

(***************************************************************************)
(* The one-shot program on the client.                                     *)
(***************************************************************************)

(* main has a device in hand whenever it is about to ask BlueZ, or the     *)
(* client, to connect one *)
InHand == stage \in {"check", "bring", "recheck", "dial"} => mac \in Macs

LEMMA InHandKept ==
    ASSUME CliTypeOK, InHand, [Next]_vars
    PROVE  InHand'
  <1> USE DEF InHand, At, Goto, Return
  <1>1. \A busOk \in BOOLEAN : Listed(busOk) \in SUBSET Macs
    BY DEF Listed
  <1>2. \A S \in SUBSET Macs : Up(S) \in SUBSET S
    BY DEF Up
  <1>3. \A S \in SUBSET Macs : S # {} => First(S) \in S
    BY FirstAssumption DEF First
  <1>4. CASE UNCHANGED vars \/ Idle \/ BluezChange
    BY <1>4 DEF vars, cliVars, pathVars, Idle, BluezChange
  <1>5. CASE AskDaemon
    <2>1. \/ Goto("choose") \/ Return(cli, 5)
          \/ Return(Show(cli), 0) \/ Return(Show(cli), 4)
      BY <1>5, CliAssumption DEF AskDaemon
    <2> QED
      BY <2>1
  <1>6. CASE Choose
    BY <1>1, <1>2, <1>3, <1>6, CliAssumption DEF Choose
  <1>7. CASE Check \/ Bring \/ Recheck
    BY <1>7 DEF Check, Bring, Recheck, pathVars
  <1>8. CASE List
    <2>1. PICK busOk \in BusResults :
              stage' = "bring" => mac' \in Listed(busOk)
      BY <1>8 DEF List
    <2>2. stage' \in {"pick", "bring", "each", "gone"}
      BY <1>8 DEF List
    <2> QED
      BY <1>1, <2>1, <2>2, CliAssumption
  <1>9. CASE Each \/ Verify
    BY <1>9 DEF Each, Verify
  <1>10. CASE Dial \/ Leave
    BY <1>10 DEF Dial, Leave
  <1>11. CASE Socket
    BY <1>11, SocketTyped DEF Serving, InLoop
  <1>12. CASE Timer
    BY <1>12, TimerTyped DEF InLoop
  <1>13. CASE Pick
    BY <1>13 DEF Pick, CliTypeOK
  <1> QED
    BY <1>4, <1>5, <1>6, <1>7, <1>8, <1>9, <1>10, <1>11, <1>12, <1>13 DEF Next, Main, Limited

(* The one-shot program uses the client as AirPodsCoreClient says an owner *)
(* does.  It dials an address it has chosen, never the empty one, and each *)
(* slot that it connects to a signal, and the destructor at the end, makes *)
(* at most the one call (Dial is connectToDevice in main).                 *)
THEOREM CliImplementsClient ==
    ASSUME "sync" \in CloseKinds
    PROVE  Spec => ClientSpec
  <1>1. Init => ClientInit /\ InHand
    BY DEF Init, InHand
  <1>2. CliTypeOK /\ InHand /\ [Next]_vars => [ClientNext]_clientVars
    <2> SUFFICES ASSUME CliTypeOK, InHand, [Next]_vars PROVE [ClientNext]_clientVars
      OBVIOUS
    <2>1. CASE UNCHANGED vars \/ Idle \/ BluezChange
      BY <2>1 DEF vars, Idle, BluezChange
    <2>2. CASE Early
      BY <2>2, EarlyShape
    <2>3. CASE Dial
      BY <2>3 DEF Dial, InHand, ClientNext
    <2>4. CASE SocketConnected \/ SocketDisconnected \/ SocketError
      BY <2>4 DEF SocketConnected, SocketDisconnected, SocketError, ClientNext
    <2>5. CASE HandshakeAck \/ FeaturesAck
      BY <2>5 DEF HandshakeAck, FeaturesAck, ClientNext
    <2>6. CASE NoiseReport \/ NoiseUnparsed \/ EarReport \/ OtherReport
      BY <2>6 DEF NoiseReport, NoiseUnparsed, EarReport, OtherReport, ClientNext
    <2>7. CASE CaReport
      BY <2>7 DEF CaReport, ClientNext
    <2>8. CASE Timer
      BY <2>8, TimerTyped
    <2>9. CASE Leave
      BY <2>9 DEF Leave, ClientNext
    <2> QED
      BY <2>1, <2>2, <2>3, <2>4, <2>5, <2>6, <2>7, <2>8, <2>9 DEF Next, Main, Limited, Early, Socket
  <1>3. CliTypeOK /\ InHand /\ [Next]_vars => InHand'
    BY InHandKept
  <1> QED
    BY <1>1, <1>2, <1>3, CliTypeCorrect, PTL DEF Spec, ClientSpec

(* So the commands that the program sends when the protocol is ready go to *)
(* a device that has answered this session's handshake and features.       *)
THEOREM CliReadyAfterHandshake ==
    ASSUME "sync" \in CloseKinds
    PROVE  Spec => []ReadyAfterHandshake
  BY CliImplementsClient, ReadyNeedsHandshake, PTL
============================================================================
