---------------------------- MODULE PacketStream ----------------------------
(***************************************************************************)
(* AirPodsCoreClient::parseData on bytes.  The device writes packets, some *)
(* of which reach the socket before the one ahead has been read: readAll   *)
(* then takes them together, and parseData takes what it gets for one      *)
(* packet that it tells by its first bytes, and for three kinds by its     *)
(* exact size.                                                             *)
(*                                                                         *)
(* The state is that of AirPodsCoreClient, so that its specification is a  *)
(* property here: bytes change the client only in the ways in which it     *)
(* says packets do.                                                        *)
(***************************************************************************)
EXTENDS AirPodsCoreClient, AacpPackets

CONSTANTS
    AidReports,  \* hearing aid values the device may report
    Mute,        \* packets that carry no value the client keeps
    MaxWire      \* bound: packets written and not yet read

ASSUME StreamAssumption ==
    /\ AidReports \subseteq BOOLEAN
    /\ MaxWire \in Nat \ {0}

Byte == 0..255

(* In the layout of the packets, and whatever the client makes of them:    *)
(* the bytes answer no set-up packet and report no value.                  *)
Silent(p) ==
    /\ ~IsPrefix(HandshakeAck, p) /\ ~IsPrefix(FeaturesAck, p)
    /\ IsPrefix(NoiseHeader, p) /\ Len(p) = 11 => p[8] \notin 1..4
    /\ IsPrefix(CaHeader, p) /\ Len(p) >= 8 => p[8] \notin {1, 2}
    /\ IsPrefix(CaEventHeader, p) /\ Len(p) = 10 => p[10] \notin {8, 9}
    /\ IsPrefix(HearingAidHeader, p) /\ Len(p) >= 9 =>
          p[8] # 2 /\ p[9] # 2 /\ <<p[8], p[9]>> # <<1, 1>>
    /\ IsPrefix(EarDetection, p) => Len(p) # 8

(* No packet of the device is shorter than the six bytes of FeaturesAck. *)
ASSUME MuteAssumption == \A p \in Mute : p \in Seq(Byte) /\ Len(p) >= 6 /\ Silent(p)

VARIABLES
    hearingAid,  \* state_.hearingAidEnabled
    wire,        \* what the readAlls to come will return
    told         \* history: what the device has told in the packets read

streamVars == <<hearingAid, wire, told>>
vars       == <<clientVars, streamVars>>

Kinds == {"mode", "ca", "ears", "aid"}

Record(m, c, e, a) == [mode |-> m, ca |-> c, ears |-> e, aid |-> a]

RecordType == [mode : NoiseControlMode, ca : BOOLEAN, ears : EarStatuses, aid : BOOLEAN]

(* The bytes of one readAll, of how many packets they are, which kinds of  *)
(* value these report and what the device has told with the last of them.  *)
WireType == [bytes : Seq(Byte), packets : Nat \ {0}, tells : SUBSET Kinds, told : RecordType]

(* The values the variables take. *)
StreamTypeOK ==
    /\ ClientTypeOK
    /\ hearingAid \in BOOLEAN
    /\ wire \in Seq(WireType)
    /\ told \in RecordType

Init ==
    /\ ClientInit
    /\ hearingAid = FALSE
    /\ wire = <<>>
    /\ told = Record("Off", FALSE, NoEars, FALSE)

----------------------------------------------------------------------------
(* The device.  It reports in the layout of the commands. *)

ToldSoFar == IF wire = <<>> THEN told ELSE wire[Len(wire)].told

Unread == FoldSeq(LAMBDA p, n : n + p.packets, 0, wire)

(* a packet that tells the kinds of value in tells: a readAll of its own,  *)
(* or the rest of the one before                                           *)
Sends(bytes, tells, now) ==
    /\ Unread < MaxWire
    /\ \/ wire' = Append(wire, [bytes |-> bytes, packets |-> 1, tells |-> tells, told |-> now])
       \/ /\ wire # <<>>
          /\ wire' = [wire EXCEPT ![Len(wire)] =
                         [bytes |-> @.bytes \o bytes, packets |-> @.packets + 1,
                          tells |-> @.tells \union tells, told |-> now]]
    /\ UNCHANGED <<clientVars, hearingAid, told>>

OnOff(b) == IF b THEN 1 ELSE 2

EarByte(s) == CHOOSE b \in 0..3 : EarStatus(b) = s

Acknowledges ==
    \/ /\ IsConnected /\ "handshake" \in setup
       /\ Sends(HandshakeAck \o <<0, 0>>, {}, ToldSoFar)
    \/ /\ IsConnected /\ "features" \in setup
       /\ Sends(FeaturesAck, {}, ToldSoFar)

Reports ==
    /\ CanReport
    /\ \/ \E m \in NoiseReports :
            Sends(GetPacketForMode(m), {"mode"}, [ToldSoFar EXCEPT !.mode = m])
       \/ \E b \in CaReports : \E bytes \in {CreateCommand(40, OnOff(b), 0),
                                             CaEventHeader \o <<IF b THEN 9 ELSE 8>>} :
            Sends(bytes, {"ca"}, [ToldSoFar EXCEPT !.ca = b])
       \/ \E e \in EarReports :
            Sends(EarDetection \o <<EarByte(e.secondary), EarByte(e.primary)>>,
                  {"ears"}, [ToldSoFar EXCEPT !.ears = e])
       \/ \E b \in AidReports :
            Sends(CreateCommand(44, OnOff(b), OnOff(b)), {"aid"}, [ToldSoFar EXCEPT !.aid = b])
       \/ \E bytes \in Mute : Sends(bytes, {}, ToldSoFar)

----------------------------------------------------------------------------
(* parseData. *)

(* a value that is there replaces the one on record *)
Taken(value, old) == IF value = {} THEN old ELSE CHOOSE v \in value : TRUE

(* a faulty variant: any reply counts as the features reply *)
IsFeaturesAckAny(data) == IsPrefix(<<4, 0, 4, 0>>, data)

IsFeaturesAck(data) == IsPrefix(FeaturesAck, data)

IsCa(data)         == IsPrefix(CaHeader, data)
IsCaEvent(data)    == Len(data) = 10 /\ IsPrefix(CaEventHeader, data)
IsHearingAid(data) == IsPrefix(HearingAidHeader, data)
IsNoise(data)      == Len(data) = 11 /\ IsPrefix(NoiseHeader, data)
IsEars(data)       == Len(data) = 8 /\ IsPrefix(EarDetection, data)

(* The set-up packet that answers data, when writing it succeeds. *)
Answer(data) ==
    IF IsPrefix(HandshakeAck, data) THEN {"features"}
    ELSE IF IsFeaturesAck(data) THEN {"notifications"}
    ELSE {}

NoValues == [k \in Kinds |-> {}]

(* The values data carries.  Battery and metadata packets carry none that  *)
(* is kept here.                                                           *)
Values(data) ==
    CASE Answer(data) # {}  -> NoValues
      [] IsCa(data)         -> [NoValues EXCEPT !["ca"] = ParseState(data)]
      [] IsCaEvent(data)    -> [NoValues EXCEPT !["ca"] = ParseCaEvent(data)]
      [] IsHearingAid(data) -> [NoValues EXCEPT !["aid"] = ParseHearingAid(data)]
      [] IsNoise(data)      -> [NoValues EXCEPT !["mode"] = ParseMode(data)]
      [] IsEars(data)       -> [NoValues EXCEPT !["ears"] = {ParseEars(data)}]
      [] OTHER              -> NoValues

ParseData(data, w) ==
    /\ setup' = IF w THEN setup \union Answer(data) ELSE setup
    /\ protocolReady' = (protocolReady \/ "notifications" \in Answer(data))
    /\ mode' = Taken(Values(data)["mode"], mode)
    /\ ca' = Taken(Values(data)["ca"], ca)
    /\ ears' = Taken(Values(data)["ears"], ears)
    /\ hearingAid' = Taken(Values(data)["aid"], hearingAid)
    /\ UNCHANGED <<sock, late, address>>

RecordNow == Record(mode, ca, ears, hearingAid)

(* readyRead *)
Read ==
    /\ IsConnected /\ wire # <<>>
    /\ \E w \in WriteResults : ParseData(Head(wire).bytes, w)
    /\ wire' = Tail(wire)
    /\ told' = Head(wire).told

----------------------------------------------------------------------------
(* The session, as in AirPodsCoreClient; what was on its way is lost. *)

Drops == wire' = <<>> /\ UNCHANGED <<hearingAid, told>>

Session ==
    \/ Drops /\ \E d \in Macs, k \in CloseKinds, r \in DialResults : ConnectToDevice(d, k, r)
    \/ Drops /\ \E k \in CloseKinds : DisconnectFromDevice(k)
    \/ Drops /\ OnSocketDisconnected
    \/ Drops /\ OnSocketError
    \/ UNCHANGED streamVars /\ OnLateDisconnected
    \/ UNCHANGED streamVars /\ \E w \in WriteResults : OnSocketConnected(w)

Next == Session \/ Acknowledges \/ Reports \/ Read

Spec == Init /\ [][Next]_vars

----------------------------------------------------------------------------
(* The kinds of value the client has wrong: not what the device told last. *)
Wrong == {k \in Kinds : RecordNow[k] # told[k]}

(* A packet read alone leaves the client with what it tells on record and  *)
(* with everything else as it was: no layout is taken for another, no      *)
(* value is read off by one, one out of range changes nothing.  So only    *)
(* packets read together can make the client wrong about the device, and   *)
(* it stays wrong about a kind of value no longer than until the next      *)
(* report of it that is read alone.                                        *)
RecordIsReport ==
    /\ Wrong = {}
    /\ [][IF Read THEN Head(wire).packets > 1 \/ Wrong' \subseteq Wrong \ Head(wire).tells
          ELSE Wrong' = Wrong]_vars

(* However packets are joined, one read makes at most one of the changes   *)
(* that AirPodsCoreClient has for a packet: the protocol gets ready only   *)
(* on a connected socket to which the features packet was written, a set-  *)
(* up packet is only written in answer to one written before it, and of    *)
(* mode, CA and ear states no two change at once, none before the          *)
(* handshake packet was written.  Mode and ear states only take values     *)
(* that the device may report.  CA may take either: a CA packet that ends  *)
(* behind its header takes its value from what was read together with it.  *)
ImplementsClient == ClientSpec
============================================================================
