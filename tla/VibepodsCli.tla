----------------------------- MODULE VibepodsCli -----------------------------
(***************************************************************************)
(* One run of vibepods-cli: main() of src/linux/src/cli/main.cpp once the  *)
(* arguments are parsed.  status, mode and ca go to the daemon; without    *)
(* one they open a session of their own with the AACP client.  connect and *)
(* disconnect drive bluetoothctl.                                          *)
(*                                                                         *)
(* Up to app.exec() main is one sequence of blocking calls, and BlueZ can  *)
(* change between any two of them.  From there on each slot and each timer *)
(* is one action.  QCoreApplication::exit only marks the loop: in the same *)
(* round it still runs the timers that are due, a later exit overwrites    *)
(* the code of an earlier one, and before exec it has no effect at all.    *)
(*                                                                         *)
(* Time is left out: any running timer may be the next, the timeout        *)
(* included, which a user may set to one second.  Wording, the JSON        *)
(* layout and the audio routing of connect are left out.                   *)
(***************************************************************************)
EXTENDS AirPodsCoreClient, Integers, FiniteSets

CONSTANTS
    Commands,       \* the command lines the program may be started with
    BadMac,         \* a --mac that is not an address
    Rank,           \* order of the devices in BlueZ's object list
    BluezStates,    \* states BlueZ may have a device in
    BusResults,     \* may the D-Bus query succeed (TRUE), fail (FALSE)
    DaemonAnswers,  \* what may come of the request to the daemon
    PollLimit       \* snapshots one status command asks for (8)

CommandType == [cmd  : {"status", "mode", "ca", "connect", "disconnect"},
                mac  : Macs \union {NoMac, BadMac},
                mode : NoiseControlMode,
                on   : BOOLEAN]

ASSUME CliAssumption ==
    /\ BadMac \notin Macs \union {NoMac}
    /\ Commands \subseteq CommandType
    /\ Rank \in [Macs -> Nat]
    /\ BluezStates \subseteq {"absent", "paired", "connected"}
    /\ BusResults \subseteq BOOLEAN
    /\ DaemonAnswers \subseteq {"none", "failed", "ok", "refused"}
    /\ PollLimit \in Nat \ {0}

(* BlueZ returns a finite list, so any devices of it have a first one *)
ASSUME FirstAssumption ==
    \A S \in SUBSET Macs : S # {} => \E m \in S : \A n \in S : Rank[m] <= Rank[n]

VARIABLES
    bluez,    \* environment: what BlueZ knows of each device
    want,     \* the command line
    stage,    \* how far main has come
    mac,      \* statusMac, or the target of connect or disconnect at hand
    targets,  \* targets of disconnect, or the devices connect offers
    todo,     \* those it has not come to
    off,      \* history: those that were off when their disconnect was checked
    cli       \* main's locals and timers

pathVars == <<mac, targets, todo, off>>
cliVars  == <<bluez, want, stage, pathVars, cli>>
vars    == <<clientVars, cliVars>>

Stages == {"ask", "choose", "check", "bring", "recheck", "dial", "loop",
           "list", "pick", "each", "verify", "gone"}

(* the bool locals of main, and as history: the device reported the value  *)
(* asked for, the timeout printed, a check of disconnect had no answer     *)
Flags == {"sent", "confirmed", "initial", "rejected", "retried", "battery", "ears",
          "settled", "printed", "fatal", "failed", "heard", "timedOut", "blind"}

CliTimers == {"overall", "poll", "settle", "fallback", "caDelay", "retry"}

NoCode == -1

ExitCodes == {0, 1, 2, 3, 4, 5, 6, 7, 8, 9}

(* Not in the code: shown and sends count the status objects printed and   *)
(* the commands for the value asked for that were written, settleFor is    *)
(* what the settle timer was last started for.                             *)
CliType == [flags : SUBSET Flags, timers : SUBSET CliTimers, attempts : 0..PollLimit,
            lastEars : EarStatuses, settleFor : EarStatuses, shown : Nat, sends : Nat,
            code : ExitCodes \union {NoCode}]

(* The values the variables of the program take. *)
CliTypeOK ==
    /\ ClientTypeOK
    /\ bluez \in [Macs -> {"absent", "paired", "connected"}]
    /\ want \in CommandType
    /\ stage \in Stages
    /\ mac \in Macs \union {NoMac}
    /\ targets \subseteq Macs
    /\ todo \subseteq targets
    /\ off \subseteq targets
    /\ cli \in CliType

Init ==
    /\ ClientInit
    /\ bluez \in [Macs -> BluezStates]
    /\ want \in Commands
    /\ stage = IF want.cmd \in {"connect", "disconnect"} THEN "list" ELSE "ask"
    /\ mac = NoMac
    /\ targets = {} /\ todo = {} /\ off = {}
    /\ cli = [flags |-> {}, timers |-> {}, attempts |-> 0, lastEars |-> NoEars,
              settleFor |-> NoEars, shown |-> 0, sends |-> 0, code |-> NoCode]

----------------------------------------------------------------------------
(* main's locals.  s is the record cli before, the value is cli after. *)

Has(s, f) == f \in s.flags
Set(s, f) == [s EXCEPT !.flags = @ \union {f}]
Start(s, t) == [s EXCEPT !.timers = @ \union {t}]
Stop(s, t) == [s EXCEPT !.timers = @ \ {t}]
Exit(s, n) == [s EXCEPT !.code = n]
Show(s) == [s EXCEPT !.shown = @ + 1]

----------------------------------------------------------------------------
(* Environment. *)

(* after Dial nobody asks BlueZ any more *)
BluezChange ==
    /\ stage \notin {"loop", "gone"}
    /\ \E m \in Macs, b \in BluezStates :
            b # bluez[m] /\ bluez' = [bluez EXCEPT ![m] = b]
    /\ UNCHANGED <<clientVars, want, stage, pathVars, cli>>

(* queryBluezAirPods: a query that fails reads as a bus without AirPods *)
Listed(busOk) == IF busOk THEN {m \in Macs : bluez[m] # "absent"} ELSE {}

Up(devices) == {m \in devices : bluez[m] = "connected"}

First(S) == CHOOSE m \in S : \A n \in S : Rank[m] <= Rank[n]

----------------------------------------------------------------------------
(* main before the event loop: every step ends in the next one or returns. *)

At(s) == stage = s /\ UNCHANGED <<clientVars, bluez, want>>

Goto(next) == stage' = next /\ UNCHANGED cli

Return(s, n) == stage' = "gone" /\ cli' = Exit(s, n)

(* sendDaemonRequest; only a socket nobody listens on leads any further *)
AskDaemon ==
    /\ At("ask") /\ UNCHANGED pathVars
    /\ \E answer \in DaemonAnswers :
        CASE answer = "none"    -> Goto("choose")
          [] answer = "failed"  -> Return(cli, 5)
          [] answer = "ok"      -> Return(Show(cli), 0)
          [] answer = "refused" -> Return(Show(cli), 4)

(* statusMac: the one given, else the first connected, else the first *)
Choose ==
    /\ At("choose") /\ UNCHANGED <<targets, todo, off>>
    /\ \/ want.mac = BadMac /\ Return(cli, 1) /\ UNCHANGED mac
       \/ want.mac \in Macs /\ mac' = want.mac /\ Goto("check")
       \/ /\ want.mac = NoMac
          /\ \E busOk \in BusResults :
             LET devices == Listed(busOk)
             IN  \/ /\ devices # {}
                    /\ mac' = First(IF Up(devices) # {} THEN Up(devices) ELSE devices)
                    /\ Goto("check")
                 \/ /\ devices = {}
                    /\ IF want.cmd = "status" THEN Return(Show(cli), 0) ELSE Return(cli, 6)
                    /\ UNCHANGED mac

(* status never connects a device, mode and ca do *)
Check ==
    /\ At("check") /\ UNCHANGED pathVars
    /\ \E busOk \in BusResults :
        \/ mac \in Up(Listed(busOk)) /\ Goto("dial")
        \/ /\ mac \notin Up(Listed(busOk))
           /\ IF want.cmd = "status" THEN Return(Show(cli), 0) ELSE Goto("bring")

(* bluetoothctl connect *)
Bring ==
    /\ At("bring") /\ UNCHANGED pathVars
    /\ Goto("recheck") \/ Return(cli, 7)

Recheck ==
    /\ At("recheck") /\ UNCHANGED pathVars
    /\ \E busOk \in BusResults :
        IF mac \notin Up(Listed(busOk)) THEN Return(cli, 8)
        ELSE IF want.cmd = "connect" THEN Return(cli, 0)
        ELSE Goto("dial")

(* connect: the device given, or the user is asked; disconnect: the one    *)
(* given, if it is connected, or all that are                              *)
List ==
    /\ At("list") /\ UNCHANGED off
    /\ \E busOk \in BusResults :
        LET devices == Listed(busOk)
            chosen  == Up(IF want.mac = NoMac THEN devices ELSE devices \intersect {want.mac})
        IN  \/ /\ devices = {} /\ Return(cli, 6)
               /\ UNCHANGED <<mac, targets, todo>>
            \/ /\ devices # {} /\ want.mac \notin devices \union {NoMac}
               /\ Return(cli, 1)
               /\ UNCHANGED <<mac, targets, todo>>
            \/ /\ want.cmd = "connect" /\ want.mac = NoMac /\ devices # {}
               /\ targets' = devices
               /\ Goto("pick")
               /\ UNCHANGED <<mac, todo>>
            \/ /\ want.cmd = "connect" /\ want.mac \in devices
               /\ mac' = want.mac
               /\ Goto("bring")
               /\ UNCHANGED <<targets, todo>>
            \/ /\ want.cmd = "disconnect" /\ devices # {}
               /\ want.mac \in devices \union {NoMac}
               /\ targets' = chosen /\ todo' = chosen
               /\ Goto("each")
               /\ UNCHANGED mac

(* The user answers, with one of the devices that were there when the list *)
(* was printed, or with nonsense; the end of the input is no answer either *)
Pick ==
    /\ At("pick") /\ UNCHANGED <<targets, todo, off>>
    /\ \/ Return(cli, 2) /\ UNCHANGED mac
       \/ mac' \in targets /\ Goto("bring")

(* bluetoothctl disconnect for the next target; one that fails does not    *)
(* keep the others from being disconnected                                 *)
Each ==
    /\ At("each") /\ UNCHANGED <<targets, off>>
    /\ \/ /\ todo = {}
          /\ Return(cli, IF Has(cli, "failed") THEN 7 ELSE 0)
          /\ UNCHANGED <<mac, todo>>
       \/ /\ todo # {}
          /\ mac' = First(todo)
          /\ todo' = todo \ {mac'}
          /\ Goto("verify") \/ (stage' = stage /\ cli' = Set(cli, "failed"))

(* a faulty variant: a later target that disconnects clears the failure *)
VerifyLastOnly ==
    /\ At("verify") /\ UNCHANGED <<mac, targets, todo>>
    /\ stage' = "each"
    /\ \E busOk \in BusResults :
        LET on == mac \in Up(Listed(busOk))
        IN  /\ cli' = [cli EXCEPT !.flags = (@ \ {"failed"})
                          \union (IF on THEN {"failed"} ELSE {})
                          \union (IF busOk THEN {} ELSE {"blind"})]
            /\ off' = IF bluez[mac] = "connected" THEN off ELSE off \union {mac}

Verify ==
    /\ At("verify") /\ UNCHANGED <<mac, targets, todo>>
    /\ stage' = "each"
    /\ \E busOk \in BusResults :
        LET on == mac \in Up(Listed(busOk))
        IN  /\ cli' = [cli EXCEPT !.flags = @
                          \union (IF on THEN {"failed"} ELSE {})
                          \union (IF busOk THEN {} ELSE {"blind"})]
            /\ off' = IF bluez[mac] = "connected" THEN off ELSE off \union {mac}

(* a faulty variant: the timeout is not armed *)
DialUnlimited ==
    /\ stage = "dial"
    /\ stage' = "loop"
    /\ \E r \in DialResults : ConnectToDevice(mac, "sync", r)
    /\ UNCHANGED <<bluez, want, pathVars, cli>>

(* The timeout is armed and the socket opened, then exec() starts.  An     *)
(* error that connectToDevice reports at once finds no loop to exit.       *)
Dial ==
    /\ stage = "dial"
    /\ stage' = "loop"
    /\ \E r \in DialResults, fatal \in BOOLEAN :
        /\ ConnectToDevice(mac, "sync", r)
        /\ cli' = IF r = "closed" /\ fatal THEN Set(Start(cli, "overall"), "fatal")
                  ELSE Start(cli, "overall")
    /\ UNCHANGED <<bluez, want, pathVars>>

----------------------------------------------------------------------------
(* What the slots do with main's locals. *)

(* a faulty variant: printed is not set *)
MaybeFinishAgain(s) ==
    IF want.cmd = "status" /\ ~Has(s, "printed") /\ {"ears", "settled"} \subseteq s.flags
    THEN Exit(Show(Stop(s, "poll")), 0)
    ELSE s

(* maybeFinishStatus *)
MaybeFinish(s) ==
    IF want.cmd = "status" /\ ~Has(s, "printed") /\ {"ears", "settled"} \subseteq s.flags
    THEN Exit(Show(Set(Stop(s, "poll"), "printed")), 0)
    ELSE s

(* sendModeCommand, sendCaCommand *)
Send(s, w) ==
    IF Has(s, "sent") THEN s
    ELSE IF Written(w) THEN [Set(s, "sent") EXCEPT !.sends = @ + 1]
    ELSE Exit(s, 3)

(* a faulty variant: what the client has on record before the command went *)
(* out confirms it                                                         *)
ConfirmUnsent(s) ==
    IF {"battery", "ears"} \subseteq s.flags /\ ~Has(s, "printed")
    THEN Exit(Show(Set(Set(s, "confirmed"), "printed")), 0)
    ELSE Set(s, "confirmed")

(* stateChanged of a mode or ca command: the value is the one asked for *)
Confirm(s) ==
    IF ~Has(s, "sent") THEN s
    ELSE IF {"battery", "ears"} \subseteq s.flags /\ ~Has(s, "printed")
    THEN Exit(Show(Set(Set(s, "confirmed"), "printed")), 0)
    ELSE Set(s, "confirmed")

(* a faulty variant: a settle timer that runs is left to run *)
WatchOnce(s) ==
    IF ears' = NoEars \/ ears' = s.lastEars THEN s
    ELSE IF "settle" \in s.timers THEN [s EXCEPT !.lastEars = ears']
    ELSE [Start(s, "settle") EXCEPT !.lastEars = ears', !.settleFor = ears']

(* stateChanged of status: ear states other than the last start the settle *)
(* timer again                                                             *)
Watch(s) ==
    IF ears' = NoEars \/ ears' = s.lastEars THEN s
    ELSE [Start(s, "settle") EXCEPT !.lastEars = ears', !.settleFor = ears',
                                    !.flags = @ \ {"settled"}]

(* the slot of stateChanged; more are the flags the packet itself sets *)
StateChanged(s, more) ==
    LET t == [s EXCEPT !.flags = @ \union more
                          \union (IF ears' = NoEars THEN {} ELSE {"ears"})]
    IN  CASE want.cmd = "status" -> MaybeFinish(Watch(t))
          [] want.cmd = "mode"   -> IF mode' = want.mode THEN Confirm(t) ELSE t
          [] want.cmd = "ca"     -> IF ca' = want.on THEN Confirm(t) ELSE t
          [] OTHER               -> t

----------------------------------------------------------------------------
(* The event loop.  Once exit was called only timers are served. *)

InLoop == stage = "loop" /\ UNCHANGED <<bluez, want, stage, pathVars>>

Serving == InLoop /\ cli.code = NoCode

SocketConnected ==
    /\ Serving
    /\ \E w \in WriteResults : OnSocketConnected(w)
    /\ cli' = IF want.cmd = "status" THEN cli ELSE Start(cli, "fallback")

SocketDisconnected == Serving /\ OnSocketDisconnected /\ UNCHANGED cli

SocketError ==
    /\ Serving /\ OnSocketError
    /\ cli' \in {cli, Exit(Set(cli, "fatal"), 9)}

HandshakeAck ==
    /\ Serving
    /\ \E w \in WriteResults : OnHandshakeAck(w)
    /\ UNCHANGED cli

(* protocolReady.  ca on first leaves Off and NoiseCancellation. *)
FeaturesAck ==
    /\ Serving
    /\ \E w, v \in WriteResults :
        /\ OnFeaturesAck(w)
        /\ cli' = IF protocolReady \/ want.cmd = "mode" THEN cli
                  ELSE IF want.cmd = "status" THEN [Start(cli, "poll") EXCEPT !.attempts = 1]
                  ELSE IF want.on /\ mode \notin {"Adaptive", "Transparency"}
                  THEN Start(cli, "caDelay")
                  ELSE Send(cli, v)

Heard(value, asked) == IF value = asked THEN {"heard"} ELSE {}

(* packetReceived of mode: the first noise control packet, in the middle   *)
(* of which the device may not even report a mode, sends the command       *)
OnModePacket(s, w) == IF want.cmd = "mode" THEN Send(Set(s, "initial"), w) ELSE s

NoiseReport ==
    /\ Serving
    /\ \E m \in NoiseReports, w \in WriteResults :
        /\ OnNoiseControl(m)
        /\ cli' = OnModePacket(StateChanged(cli, IF want.cmd = "mode"
                                                 THEN Heard(m, want.mode) ELSE {}), w)

NoiseUnparsed ==
    /\ Serving /\ OnOtherReport
    /\ \E w \in WriteResults : cli' = OnModePacket(cli, w)

(* a faulty variant: caRetrySent is not set *)
OnCaPacketEachTime(s, b) ==
    IF want.cmd # "ca" \/ ~Has(s, "sent") \/ b = want.on THEN s
    ELSE Start(Set(s, "rejected"), "retry")

(* packetReceived of ca: the opposite value after the command is sent once *)
(* more                                                                    *)
OnCaPacket(s, b) ==
    IF want.cmd # "ca" \/ ~Has(s, "sent") \/ b = want.on THEN s
    ELSE IF Has(s, "retried") THEN Set(s, "rejected")
    ELSE Start(Set(Set(s, "rejected"), "retried"), "retry")

(* the value comes in a control packet, or in an event packet that the     *)
(* retry does not look at                                                  *)
CaReport ==
    /\ Serving
    /\ \E b \in CaReports, control \in BOOLEAN :
        LET s == StateChanged(cli, IF want.cmd = "ca" THEN Heard(b, want.on) ELSE {})
        IN  /\ OnConversationalAwareness(b)
            /\ cli' = IF control THEN OnCaPacket(s, b) ELSE s

EarReport ==
    /\ Serving
    /\ \E e \in EarReports : OnEarDetection(e)
    /\ cli' = StateChanged(cli, {})

(* battery data, once there, does not go away *)
OtherReport ==
    /\ Serving /\ OnOtherReport
    /\ \E more \in SUBSET {"battery"} : cli' = StateChanged(cli, more)

----------------------------------------------------------------------------
(* Timers. *)

Fires(t) == InLoop /\ UNCHANGED clientVars /\ t \in cli.timers

(* a faulty variant: status polls without end *)
PollTimerUnbounded ==
    /\ Fires("poll")
    /\ cli' = IF Has(cli, "printed") THEN Stop(cli, "poll") ELSE [cli EXCEPT !.attempts = @ + 1]

PollTimer ==
    /\ Fires("poll")
    /\ cli' = IF Has(cli, "printed") \/ cli.attempts >= PollLimit THEN Stop(cli, "poll")
              ELSE [cli EXCEPT !.attempts = @ + 1]

SettleTimer ==
    /\ Fires("settle")
    /\ cli' = MaybeFinish(Set(Stop(cli, "settle"), "settled"))

(* two seconds after the socket connected, and 350 ms after Adaptive *)
SendTimer ==
    \E t \in {"fallback", "caDelay"}, w \in WriteResults :
        Fires(t) /\ cli' = Send(Stop(cli, t), w)

RetryTimer ==
    /\ Fires("retry")
    /\ \E w \in WriteResults :
        cli' = [Stop(cli, "retry") EXCEPT !.sends = IF Written(w) THEN @ + 1 ELSE @]

(* a faulty variant: the flag a lost exit(9) leaves is not looked at *)
OverallTimerForgetsFatal ==
    /\ Fires("overall")
    /\ LET s == Stop(cli, "overall")
       IN  cli' = IF Has(s, "printed") THEN Exit(s, 0)
                  ELSE Exit(Show(Set(Stop(s, "poll"), "timedOut")), 4)

(* --timeout.  It prints without setting printed. *)
OverallTimer ==
    /\ Fires("overall")
    /\ LET s == Stop(cli, "overall")
       IN  cli' = IF Has(s, "fatal") THEN Exit(s, 9)
                  ELSE IF Has(s, "printed") THEN Exit(s, 0)
                  ELSE Exit(Show(Set(Stop(s, "poll"), "timedOut")), 4)

(* exec returns and the client is destroyed with its socket *)
Leave ==
    /\ stage = "loop" /\ cli.code # NoCode
    /\ stage' = "gone"
    /\ DisconnectFromDevice("sync")
    /\ UNCHANGED <<bluez, want, pathVars, cli>>

----------------------------------------------------------------------------
Limited == AskDaemon \/ Choose \/ Check \/ Bring \/ Recheck \/ List \/ Each \/ Verify \/ Dial

Main == Limited \/ Pick

Socket ==
    \/ SocketConnected \/ SocketDisconnected \/ SocketError
    \/ HandshakeAck \/ FeaturesAck
    \/ NoiseReport \/ NoiseUnparsed \/ CaReport \/ EarReport \/ OtherReport

Timer == PollTimer \/ SettleTimer \/ SendTimer \/ RetryTimer \/ OverallTimer

(* an event loop may wait for ever, and a program that has ended stays so *)
Idle == stage \in {"loop", "gone"} /\ UNCHANGED vars

Next == BluezChange \/ Main \/ Socket \/ Timer \/ Leave \/ Idle

Spec == Init /\ [][Next]_vars

(* D-Bus calls, bluetoothctl and each wait for the daemon have time limits *)
(* (that a daemon does not send an endless line in small pieces is an      *)
(* assumption about it: the repository's writes its answer at once), the   *)
(* timeout is always armed, and a loop told to exit ends.  Pick is not     *)
(* fair: connect waits for the user without limit.  Nothing is assumed of  *)
(* the device.                                                             *)
Fairness == WF_vars(Limited) /\ WF_vars(OverallTimer) /\ WF_vars(Leave)

FairSpec == Spec /\ Fairness

----------------------------------------------------------------------------
(* Properties. *)

Gone(cmd, code) == stage = "gone" /\ want.cmd = cmd /\ cli.code = code

OwnSession == address # NoMac

(* A mode or ca command of the program's own session succeeds only when    *)
(* the command went out, the client then had the value asked for on        *)
(* record, and battery and ear data had come in.  That value is the        *)
(* device's own report, unless it is what a new client starts with (Off,   *)
(* CA off): those a report of anything else confirms.                      *)
ZeroMeansConfirmed ==
    /\ Gone("mode", 0) /\ OwnSession =>
        /\ {"sent", "confirmed", "battery", "ears"} \subseteq cli.flags
        /\ mode = want.mode
        /\ want.mode = "Off" \/ Has(cli, "heard")
    /\ Gone("ca", 0) /\ OwnSession =>
        /\ {"sent", "confirmed", "battery", "ears"} \subseteq cli.flags
        /\ ca = want.on
        /\ ~want.on \/ Has(cli, "heard")

(* A status command that succeeds on its own session has printed ear       *)
(* states that outlasted the settle timer, or that both buds have gone     *)
(* since; never a state that a later report was about to replace.          *)
StatusSettled ==
    Gone("status", 0) /\ OwnSession =>
        Has(cli, "ears") /\ ears \in {cli.settleFor, NoEars}

(* The program prints one status object.  A second one comes only when the *)
(* settle timer is due in the round in which the timeout ended the loop:   *)
(* then the partial object is followed by the full one, and the exit code  *)
(* belongs to the second.                                                  *)
OneStatusObject ==
    cli.shown <= 1 \/ ( /\ cli.shown = 2
                        /\ want.cmd = "status"
                        /\ Has(cli, "timedOut")
                        /\ cli.code = 0 )

(* A device that cannot be reached ends the program with 9 and prints no   *)
(* status, also when the error came before there was a loop to exit.       *)
FatalExitsNine ==
    Has(cli, "fatal") => cli.shown = 0 /\ (stage = "gone" => cli.code = 9)

(* However the first report, the fallback, the delayed command and the     *)
(* retry fall, the device is sent the command once, and once more only     *)
(* when it reported the opposite of a ca command already sent.             *)
SentOnce ==
    /\ cli.sends <= IF Has(cli, "retried") THEN 2 ELSE 1
    /\ Has(cli, "retried") => want.cmd = "ca" /\ {"sent", "rejected"} \subseteq cli.flags

(* disconnect succeeds only when every device it took on was off when it   *)
(* was checked: a failure is not forgotten over the devices that follow.   *)
(* A check whose query fails reads as off.                                 *)
DisconnectVerified ==
    Gone("disconnect", 0) => targets \subseteq off \/ Has(cli, "blind")

(* The program ends, whatever the device and BlueZ do, and a daemon that   *)
(* answers, refuses or is silent.  The exception is connect without --mac, *)
(* which waits for a user who never answers for ever.                      *)
Terminates == <>(stage = "gone") \/ <>[](stage = "pick" /\ want.cmd = "connect" /\ want.mac = NoMac)
============================================================================
