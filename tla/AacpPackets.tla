----------------------------- MODULE AacpPackets -----------------------------
(***************************************************************************)
(* The bytes of AACP: the packets of airpods_packets.h and                 *)
(* BasicControlCommand.hpp that the client recognises, and the functions   *)
(* that read a value out of one.  An optional value is a set of at most    *)
(* one element.                                                            *)
(***************************************************************************)
EXTENDS Integers, SequencesExt

Header      == <<4, 0, 4, 0, 9, 0>>     \* ControlCommand::HEADER

CreateCommand(id, data1, data2) == Header \o <<id, data1, data2, 0, 0>>

NoiseHeader      == Header \o <<13>>
CaHeader         == Header \o <<40>>
HearingAidHeader == Header \o <<44>>
CaEventHeader    == <<4, 0, 4, 0, 75, 0, 2, 0, 1>>

EarDetection  == <<4, 0, 4, 0, 6, 0>>
BatteryStatus == <<4, 0, 4, 0, 4, 0>>
Metadata      == <<4, 0, 4, 0, 29>>
HandshakeAck  == <<1, 0, 4, 0>>
FeaturesAck   == <<4, 0, 4, 0, 43, 0>>

(* QByteArray::at in a release build: one past the end is the terminator *)
At(data, i) == IF i < Len(data) THEN data[i + 1] ELSE 0

(* a byte stored in a (signed) char *)
AsChar(n) == ((n + 128) % 256) - 128

Modes == <<"Off", "NoiseCancellation", "Transparency", "Adaptive">>

GetPacketForMode(m) ==
    CreateCommand(13, CHOOSE b \in 1..4 : Modes[b] = m, 0)

(* a faulty variant: the modes on the wire are counted from zero *)
ParseModeFromZero(data) ==
    LET m == AsChar(At(data, 7)) IN IF m \in 0..3 THEN {Modes[m + 1]} ELSE {}

(* a faulty variant: the range is not checked *)
ParseModeUnchecked(data) ==
    LET m == AsChar(AsChar(At(data, 7)) - 1) IN {IF m \in 0..3 THEN Modes[m + 1] ELSE "Invalid"}

(* NoiseControl::parseMode *)
ParseMode(data) ==
    LET m == AsChar(AsChar(At(data, 7)) - 1) IN IF m \in 0..3 THEN {Modes[m + 1]} ELSE {}

(* BasicControlCommand::parseState *)
ParseState(data) ==
    CASE At(data, 7) = 1 -> {TRUE}
      [] At(data, 7) = 2 -> {FALSE}
      [] OTHER           -> {}

(* the event packets some firmware sends instead *)
ParseCaEvent(data) ==
    CASE At(data, 9) = 8 -> {FALSE}
      [] At(data, 9) = 9 -> {TRUE}
      [] OTHER           -> {}

(* HearingAid::parseState: on takes both bytes, off takes one *)
ParseHearingAid(data) ==
    IF Len(data) < 9 THEN {}
    ELSE IF At(data, 7) = 1 /\ At(data, 8) = 1 THEN {TRUE}
    ELSE IF At(data, 7) = 2 \/ At(data, 8) = 2 THEN {FALSE}
    ELSE {}

EarStatus(b) ==
    CASE b = 0 -> "InEar"
      [] b = 1 -> "NotInEar"
      [] b = 2 -> "InCase"
      [] OTHER -> "Disconnected"

(* parseStatusBytes: the secondary status comes first *)
ParseEars(data) == [primary |-> EarStatus(At(data, 7)), secondary |-> EarStatus(At(data, 6))]
============================================================================
