------------------------- MODULE PacketStreamProofs -------------------------
(***************************************************************************)
(* Theorems about PacketStream: what parseData makes of every packet of    *)
(* the device, of packets read together, and that bytes change the client  *)
(* only as AirPodsCoreClient says.                                         *)
(***************************************************************************)
EXTENDS PacketStream, AirPodsCoreClientProofs, SequenceTheorems

----------------------------------------------------------------------------
(* Bytes. *)

LEMMA PrefixByBytes ==
    ASSUME NEW S, NEW s \in Seq(S), NEW t \in Seq(S)
    PROVE  IsPrefix(s, t) <=> Len(s) <= Len(t) /\ \A i \in 1..Len(s) : s[i] = t[i]
  BY DEF IsPrefix

(* startsWith, for each of the headers parseData knows *)
LEMMA HandshakePrefix ==
    ASSUME NEW d \in Seq(Byte)
    PROVE  IsPrefix(HandshakeAck, d) <=>
              Len(d) >= 4 /\ d[1] = 1 /\ d[2] = 0 /\ d[3] = 4 /\ d[4] = 0
  <1>1. HandshakeAck \in Seq(Byte)
    BY DEF HandshakeAck, Byte
  <1>4. /\ Len(HandshakeAck) = 4
        /\ HandshakeAck[1] = 1 /\ HandshakeAck[2] = 0 /\ HandshakeAck[3] = 4 /\ HandshakeAck[4] = 0
    BY DEF HandshakeAck
  <1>2. IsPrefix(HandshakeAck, d) <=>
            Len(HandshakeAck) <= Len(d) /\ \A i \in 1..Len(HandshakeAck) : HandshakeAck[i] = d[i]
    BY <1>1, PrefixByBytes
  <1>3. Len(d) \in Nat
    OBVIOUS
  <1> QED
    BY <1>2, <1>3, <1>4

LEMMA FeaturesPrefix ==
    ASSUME NEW d \in Seq(Byte)
    PROVE  IsPrefix(FeaturesAck, d) <=>
              Len(d) >= 6 /\ d[1] = 4 /\ d[2] = 0 /\ d[3] = 4 /\ d[4] = 0 /\ d[5] = 43 /\ d[6] = 0
  <1>1. FeaturesAck \in Seq(Byte)
    BY DEF FeaturesAck, Byte
  <1>4. /\ Len(FeaturesAck) = 6
        /\ FeaturesAck[1] = 4 /\ FeaturesAck[2] = 0 /\ FeaturesAck[3] = 4 /\ FeaturesAck[4] = 0 /\ FeaturesAck[5] = 43 /\ FeaturesAck[6] = 0
    BY DEF FeaturesAck
  <1>2. IsPrefix(FeaturesAck, d) <=>
            Len(FeaturesAck) <= Len(d) /\ \A i \in 1..Len(FeaturesAck) : FeaturesAck[i] = d[i]
    BY <1>1, PrefixByBytes
  <1>3. Len(d) \in Nat
    OBVIOUS
  <1> QED
    BY <1>2, <1>3, <1>4

LEMMA EarPrefix ==
    ASSUME NEW d \in Seq(Byte)
    PROVE  IsPrefix(EarDetection, d) <=>
              Len(d) >= 6 /\ d[1] = 4 /\ d[2] = 0 /\ d[3] = 4 /\ d[4] = 0 /\ d[5] = 6 /\ d[6] = 0
  <1>1. EarDetection \in Seq(Byte)
    BY DEF EarDetection, Byte
  <1>4. /\ Len(EarDetection) = 6
        /\ EarDetection[1] = 4 /\ EarDetection[2] = 0 /\ EarDetection[3] = 4 /\ EarDetection[4] = 0 /\ EarDetection[5] = 6 /\ EarDetection[6] = 0
    BY DEF EarDetection
  <1>2. IsPrefix(EarDetection, d) <=>
            Len(EarDetection) <= Len(d) /\ \A i \in 1..Len(EarDetection) : EarDetection[i] = d[i]
    BY <1>1, PrefixByBytes
  <1>3. Len(d) \in Nat
    OBVIOUS
  <1> QED
    BY <1>2, <1>3, <1>4

LEMMA EventPrefix ==
    ASSUME NEW d \in Seq(Byte)
    PROVE  IsPrefix(CaEventHeader, d) <=>
              Len(d) >= 9 /\ d[1] = 4 /\ d[2] = 0 /\ d[3] = 4 /\ d[4] = 0 /\ d[5] = 75
              /\ d[6] = 0 /\ d[7] = 2 /\ d[8] = 0 /\ d[9] = 1
  <1>1. CaEventHeader \in Seq(Byte)
    BY DEF CaEventHeader, Byte
  <1>4. /\ Len(CaEventHeader) = 9
        /\ CaEventHeader[1] = 4 /\ CaEventHeader[2] = 0 /\ CaEventHeader[3] = 4 /\ CaEventHeader[4] = 0 /\ CaEventHeader[5] = 75 /\ CaEventHeader[6] = 0 /\ CaEventHeader[7] = 2 /\ CaEventHeader[8] = 0 /\ CaEventHeader[9] = 1
    BY DEF CaEventHeader
  <1>2. IsPrefix(CaEventHeader, d) <=>
            Len(CaEventHeader) <= Len(d) /\ \A i \in 1..Len(CaEventHeader) : CaEventHeader[i] = d[i]
    BY <1>1, PrefixByBytes
  <1>3. Len(d) \in Nat
    OBVIOUS
  <1> QED
    BY <1>2, <1>3, <1>4

LEMMA ControlPrefix ==
    ASSUME NEW d \in Seq(Byte), NEW id \in Byte
    PROVE  IsPrefix(Header \o <<id>>, d) <=>
              Len(d) >= 7 /\ d[1] = 4 /\ d[2] = 0 /\ d[3] = 4 /\ d[4] = 0 /\ d[5] = 9 /\ d[6] = 0
              /\ d[7] = id
  <1> DEFINE h == Header \o <<id>>
  <1>1. h \in Seq(Byte)
    BY DEF Header, Byte
  <1>2. /\ Len(h) = 7
        /\ h[1] = 4 /\ h[2] = 0 /\ h[3] = 4 /\ h[4] = 0 /\ h[5] = 9 /\ h[6] = 0 /\ h[7] = id
    BY DEF Header, Byte
  <1> HIDE DEF h
  <1>3. IsPrefix(h, d) <=> Len(h) <= Len(d) /\ \A i \in 1..Len(h) : h[i] = d[i]
    BY <1>1, PrefixByBytes
  <1>4. Len(d) \in Nat
    OBVIOUS
  <1>5. IsPrefix(h, d) <=>
            Len(d) >= 7 /\ d[1] = 4 /\ d[2] = 0 /\ d[3] = 4 /\ d[4] = 0 /\ d[5] = 9 /\ d[6] = 0
            /\ d[7] = id
    BY <1>2, <1>3, <1>4
  <1> QED
    BY <1>5 DEF h

LEMMA CommandBytes ==
    ASSUME NEW id \in Byte, NEW a \in Byte, NEW b \in Byte
    PROVE  /\ CreateCommand(id, a, b) \in Seq(Byte)
           /\ Len(CreateCommand(id, a, b)) = 11
           /\ CreateCommand(id, a, b)[1] = 4
           /\ CreateCommand(id, a, b)[2] = 0
           /\ CreateCommand(id, a, b)[3] = 4
           /\ CreateCommand(id, a, b)[4] = 0
           /\ CreateCommand(id, a, b)[5] = 9
           /\ CreateCommand(id, a, b)[6] = 0
           /\ CreateCommand(id, a, b)[7] = id
           /\ CreateCommand(id, a, b)[8] = a
           /\ CreateCommand(id, a, b)[9] = b
  BY DEF CreateCommand, Header, Byte

(* a byte stored in a signed char, and one below the least of them *)
LEMMA CharOfByte ==
    /\ \A n \in -128..127 : AsChar(n) = n
    /\ \A n \in 128..255 : AsChar(n) = n - 256
    /\ \A n \in -256..-129 : AsChar(n) = n + 256
  <1>1. \A n \in -128..127 : AsChar(n) = n
    BY DEF AsChar
  <1>2. \A n \in 128..255 : AsChar(n) = n - 256
    BY DEF AsChar
  <1>3. \A n \in -256..-129 : AsChar(n) = n + 256
    BY DEF AsChar
  <1> QED
    BY <1>1, <1>2, <1>3

LEMMA ModeIndex ==
    ASSUME NEW b \in 0..255
    PROVE  /\ b \in 1..4 => AsChar(AsChar(b) - 1) = b - 1
           /\ b \notin 1..4 => AsChar(AsChar(b) - 1) \notin 0..3
  <1>1. CASE b \in 0..127
    <2>1. AsChar(b) = b
      BY <1>1, CharOfByte
    <2>2. AsChar(b - 1) = b - 1
      <3>1. b - 1 \in -128..127
        BY <1>1
      <3> QED
        BY <3>1, CharOfByte
    <2> QED
      BY <1>1, <2>1, <2>2
  <1>2. CASE b = 128
    <2>1. AsChar(b) = -128
      BY <1>2, CharOfByte
    <2>2. AsChar(-129) = 127
      BY CharOfByte
    <2> QED
      BY <1>2, <2>1, <2>2
  <1>3. CASE b \in 129..255
    <2>1. AsChar(b) = b - 256
      BY <1>3, CharOfByte
    <2>2. AsChar(b - 257) = b - 257
      <3>1. b - 257 \in -128..127
        BY <1>3
      <3> QED
        BY <3>1, CharOfByte
    <2>3. AsChar(b) - 1 = b - 257
      BY <2>1
    <2> QED
      BY <1>3, <2>2, <2>3
  <1> QED
    BY <1>1, <1>2, <1>3

(* parseMode knows the four bytes of the modes and no other *)
LEMMA ModeOfByte ==
    ASSUME NEW d \in Seq(Byte), Len(d) >= 8
    PROVE  /\ d[8] \in 1..4 => ParseMode(d) = {Modes[d[8]]}
           /\ d[8] \notin 1..4 => ParseMode(d) = {}
  <1>0. Len(d) \in Nat
    OBVIOUS
  <1>1. 8 \in 1..Len(d)
    BY <1>0
  <1>2. d[8] \in 0..255
    BY <1>1, ElementOfSeq DEF Byte
  <1>3. At(d, 7) = d[8]
    <2>1. 7 < Len(d)
      BY <1>0
    <2> QED
      BY <2>1 DEF At
  <1> DEFINE m == AsChar(AsChar(d[8]) - 1)
  <1>4. ParseMode(d) = IF m \in 0..3 THEN {Modes[m + 1]} ELSE {}
    BY <1>3 DEF ParseMode
  <1>5. /\ d[8] \in 1..4 => m = d[8] - 1
        /\ d[8] \notin 1..4 => m \notin 0..3
    BY <1>2, ModeIndex
  <1> HIDE DEF m
  <1>6. d[8] \in 1..4 => m \in 0..3 /\ m + 1 = d[8]
    BY <1>5
  <1> QED
    BY <1>4, <1>5, <1>6

----------------------------------------------------------------------------
(* What parseData takes a packet for.  The layouts exclude each other. *)

LEMMA Layouts ==
    ASSUME NEW d \in Seq(Byte)
    PROVE  /\ IsPrefix(HandshakeAck, d) => Len(d) >= 4 /\ d[1] = 1
           /\ IsFeaturesAck(d) => Len(d) >= 6 /\ d[1] = 4 /\ d[5] = 43
           /\ IsCa(d) => Len(d) >= 7 /\ d[1] = 4 /\ d[5] = 9 /\ d[7] = 40
           /\ IsHearingAid(d) => Len(d) >= 7 /\ d[1] = 4 /\ d[5] = 9 /\ d[7] = 44
           /\ IsNoise(d) => Len(d) = 11 /\ d[1] = 4 /\ d[5] = 9 /\ d[7] = 13
           /\ IsCaEvent(d) => Len(d) = 10 /\ d[1] = 4 /\ d[5] = 75
           /\ IsEars(d) => Len(d) = 8 /\ d[1] = 4 /\ d[5] = 6
  <1>1. IsPrefix(HandshakeAck, d) => Len(d) >= 4 /\ d[1] = 1
    BY HandshakePrefix
  <1>2. IsFeaturesAck(d) => Len(d) >= 6 /\ d[1] = 4 /\ d[5] = 43
    BY FeaturesPrefix DEF IsFeaturesAck
  <1>3. {13, 40, 44} \subseteq Byte
    BY DEF Byte
  <1>4. IsCa(d) => Len(d) >= 7 /\ d[1] = 4 /\ d[5] = 9 /\ d[7] = 40
    BY <1>3, ControlPrefix DEF IsCa, CaHeader
  <1>5. IsHearingAid(d) => Len(d) >= 7 /\ d[1] = 4 /\ d[5] = 9 /\ d[7] = 44
    BY <1>3, ControlPrefix DEF IsHearingAid, HearingAidHeader
  <1>6. IsNoise(d) => Len(d) = 11 /\ d[1] = 4 /\ d[5] = 9 /\ d[7] = 13
    BY <1>3, ControlPrefix DEF IsNoise, NoiseHeader
  <1>7. IsCaEvent(d) => Len(d) = 10 /\ d[1] = 4 /\ d[5] = 75
    BY EventPrefix DEF IsCaEvent
  <1>8. IsEars(d) => Len(d) = 8 /\ d[1] = 4 /\ d[5] = 6
    BY EarPrefix DEF IsEars
  <1> QED
    BY <1>1, <1>2, <1>4, <1>5, <1>6, <1>7, <1>8

LEMMA ValuesByLayout ==
    ASSUME NEW d \in Seq(Byte)
    PROVE  /\ Answer(d) # {} => Values(d) = NoValues
           /\ IsCa(d) => Answer(d) = {} /\ Values(d) = [NoValues EXCEPT !["ca"] = ParseState(d)]
           /\ IsCaEvent(d) =>
                 Answer(d) = {} /\ Values(d) = [NoValues EXCEPT !["ca"] = ParseCaEvent(d)]
           /\ IsHearingAid(d) =>
                 Answer(d) = {} /\ Values(d) = [NoValues EXCEPT !["aid"] = ParseHearingAid(d)]
           /\ IsNoise(d) => Answer(d) = {} /\ Values(d) = [NoValues EXCEPT !["mode"] = ParseMode(d)]
           /\ IsEars(d) => Answer(d) = {} /\ Values(d) = [NoValues EXCEPT !["ears"] = {ParseEars(d)}]
           /\ ~IsCa(d) /\ ~IsCaEvent(d) /\ ~IsHearingAid(d) /\ ~IsNoise(d) /\ ~IsEars(d) =>
                 Values(d) = NoValues
  <1>1. Answer(d) # {} <=> IsPrefix(HandshakeAck, d) \/ IsFeaturesAck(d)
    BY DEF Answer
  <1>2. Answer(d) # {} =>
            ~IsCa(d) /\ ~IsCaEvent(d) /\ ~IsHearingAid(d) /\ ~IsNoise(d) /\ ~IsEars(d)
    BY <1>1, Layouts
  <1>3. IsCa(d) => ~IsCaEvent(d) /\ ~IsHearingAid(d) /\ ~IsNoise(d) /\ ~IsEars(d)
    BY Layouts
  <1>4. IsCaEvent(d) => ~IsHearingAid(d) /\ ~IsNoise(d) /\ ~IsEars(d)
    BY Layouts
  <1>5. IsHearingAid(d) => ~IsNoise(d) /\ ~IsEars(d)
    BY Layouts
  <1>6. IsNoise(d) => ~IsEars(d)
    BY Layouts
  <1>7. CASE Answer(d) # {}
    BY <1>2, <1>7 DEF Values
  <1>8. CASE Answer(d) = {}
    BY <1>3, <1>4, <1>5, <1>6, <1>8 DEF Values
  <1> QED
    BY <1>7, <1>8

(* what the packets of the device say *)
LEMMA AtByte ==
    ASSUME NEW d \in Seq(Byte), NEW i \in Nat, i < Len(d)
    PROVE  At(d, i) = d[i + 1]
  BY DEF At

LEMMA Command ==
    ASSUME NEW id \in {13, 40, 44}, NEW a \in Byte, NEW b \in Byte
    PROVE  LET c == CreateCommand(id, a, b)
           IN  /\ c \in Seq(Byte) /\ Len(c) = 11 /\ ~IsFeaturesAck(c)
               /\ id = 13 => IsNoise(c)
               /\ id = 40 => IsCa(c)
               /\ id = 44 => IsHearingAid(c)
               /\ At(c, 7) = a /\ At(c, 8) = b /\ c[8] = a
  <1> DEFINE c == CreateCommand(id, a, b)
  <1>1. id \in Byte /\ 13 \in Byte /\ 40 \in Byte /\ 44 \in Byte
    BY DEF Byte
  <1>2. /\ c \in Seq(Byte) /\ Len(c) = 11
        /\ c[1] = 4 /\ c[2] = 0 /\ c[3] = 4 /\ c[4] = 0 /\ c[5] = 9 /\ c[6] = 0
        /\ c[7] = id /\ c[8] = a /\ c[9] = b
    BY <1>1, CommandBytes
  <1> HIDE DEF c
  <1>3. ~IsFeaturesAck(c)
    BY <1>2, Layouts
  <1>4. id = 13 => IsNoise(c)
    BY <1>1, <1>2, ControlPrefix DEF IsNoise, NoiseHeader
  <1>5. id = 40 => IsCa(c)
    BY <1>1, <1>2, ControlPrefix DEF IsCa, CaHeader
  <1>6. id = 44 => IsHearingAid(c)
    BY <1>1, <1>2, ControlPrefix DEF IsHearingAid, HearingAidHeader
  <1>7. At(c, 7) = a
    BY <1>2, AtByte
  <1>8. At(c, 8) = b
    BY <1>2, AtByte
  <1> QED
    BY <1>2, <1>3, <1>4, <1>5, <1>6, <1>7, <1>8 DEF c

(* the bytes that mean on and off *)
LEMMA SwitchOfBytes ==
    ASSUME NEW d
    PROVE  /\ At(d, 7) = 1 => ParseState(d) = {TRUE}
           /\ At(d, 7) = 2 => ParseState(d) = {FALSE}
           /\ At(d, 9) = 9 => ParseCaEvent(d) = {TRUE}
           /\ At(d, 9) = 8 => ParseCaEvent(d) = {FALSE}
           /\ Len(d) = 11 /\ At(d, 7) = 1 /\ At(d, 8) = 1 => ParseHearingAid(d) = {TRUE}
           /\ Len(d) = 11 /\ At(d, 7) = 2 /\ At(d, 8) = 2 => ParseHearingAid(d) = {FALSE}
  <1>1. ASSUME At(d, 7) = 1
        PROVE  ParseState(d) = {TRUE}
    <2>1. At(d, 7) # 2
      BY <1>1
    <2> QED
      BY <1>1, <2>1 DEF ParseState
  <1>2. ASSUME At(d, 7) = 2
        PROVE  ParseState(d) = {FALSE}
    BY <1>2 DEF ParseState
  <1>3. ASSUME At(d, 9) = 9
        PROVE  ParseCaEvent(d) = {TRUE}
    BY <1>3 DEF ParseCaEvent
  <1>4. ASSUME At(d, 9) = 8
        PROVE  ParseCaEvent(d) = {FALSE}
    <2>1. At(d, 9) # 9
      BY <1>4
    <2> QED
      BY <1>4, <2>1 DEF ParseCaEvent
  <1>5. ASSUME Len(d) = 11 /\ At(d, 7) = 1 /\ At(d, 8) = 1
        PROVE  ParseHearingAid(d) = {TRUE}
    BY <1>5 DEF ParseHearingAid
  <1>6. ASSUME Len(d) = 11 /\ At(d, 7) = 2 /\ At(d, 8) = 2
        PROVE  ParseHearingAid(d) = {FALSE}
    <2>1. At(d, 7) # 1
      BY <1>6
    <2> QED
      BY <1>6, <2>1 DEF ParseHearingAid
  <1> QED
    BY <1>1, <1>2, <1>3, <1>4, <1>5, <1>6

LEMMA ModePacket ==
    ASSUME NEW m \in NoiseControlMode
    PROVE  LET d == GetPacketForMode(m)
           IN  /\ d \in Seq(Byte) /\ Len(d) >= 6 /\ ~IsFeaturesAck(d)
               /\ Values(d) = [NoValues EXCEPT !["mode"] = {m}]
  <1> DEFINE b == CHOOSE x \in 1..4 : Modes[x] = m
  <1>1. \E x \in 1..4 : Modes[x] = m
    <2>1. Modes[1] = "Off" /\ Modes[2] = "NoiseCancellation" /\ Modes[3] = "Transparency"
          /\ Modes[4] = "Adaptive"
      BY DEF Modes
    <2> QED
      BY <2>1 DEF NoiseControlMode
  <1>2. b \in 1..4 /\ Modes[b] = m
    BY <1>1
  <1> HIDE DEF b
  <1>3. b \in Byte /\ 0 \in Byte
    BY <1>2 DEF Byte
  <1> DEFINE d == CreateCommand(13, b, 0)
  <1>4. /\ d \in Seq(Byte) /\ Len(d) = 11 /\ ~IsFeaturesAck(d)
        /\ IsNoise(d) /\ d[8] = b
    BY <1>3, Command
  <1>5. GetPacketForMode(m) = d
    BY DEF GetPacketForMode, b
  <1> HIDE DEF d
  <1>6. ParseMode(d) = {m}
    <2>1. Len(d) >= 8 /\ d[8] \in 1..4
      BY <1>2, <1>4
    <2>2. ParseMode(d) = {Modes[d[8]]}
      BY <1>4, <2>1, ModeOfByte
    <2> QED
      BY <1>2, <1>4, <2>2
  <1>7. Values(d) = [NoValues EXCEPT !["mode"] = {m}]
    BY <1>4, <1>6, ValuesByLayout
  <1>9. Len(d) >= 6
    BY <1>4
  <1> QED
    BY <1>9, <1>4, <1>5, <1>7

LEMMA CaPacket ==
    ASSUME NEW b \in BOOLEAN
    PROVE  LET d == CreateCommand(40, OnOff(b), 0)
           IN  /\ d \in Seq(Byte) /\ Len(d) >= 6 /\ ~IsFeaturesAck(d)
               /\ Values(d) = [NoValues EXCEPT !["ca"] = {b}]
  <1> DEFINE d == CreateCommand(40, OnOff(b), 0)
  <1>1. OnOff(b) \in Byte /\ 0 \in Byte
    BY DEF OnOff, Byte
  <1>2. /\ d \in Seq(Byte) /\ Len(d) = 11 /\ ~IsFeaturesAck(d)
        /\ IsCa(d) /\ At(d, 7) = OnOff(b)
    BY <1>1, Command
  <1> HIDE DEF d
  <1>3. ParseState(d) = {b}
    <2>1. CASE b = TRUE
      <3>1. At(d, 7) = 1
        BY <1>2, <2>1 DEF OnOff
      <3>2. ParseState(d) = {TRUE}
        BY <3>1, SwitchOfBytes
      <3> QED
        BY <2>1, <3>2, Zenon
    <2>2. CASE b = FALSE
      <3>1. At(d, 7) = 2
        BY <1>2, <2>2 DEF OnOff
      <3>2. ParseState(d) = {FALSE}
        BY <3>1, SwitchOfBytes
      <3> QED
        BY <2>2, <3>2
    <2> QED
      BY <2>1, <2>2
  <1>9. Len(d) >= 6
    BY <1>2
  <1> QED
    BY <1>9, <1>2, <1>3, ValuesByLayout DEF d

LEMMA AidPacket ==
    ASSUME NEW b \in BOOLEAN
    PROVE  LET d == CreateCommand(44, OnOff(b), OnOff(b))
           IN  /\ d \in Seq(Byte) /\ Len(d) >= 6 /\ ~IsFeaturesAck(d)
               /\ Values(d) = [NoValues EXCEPT !["aid"] = {b}]
  <1> DEFINE d == CreateCommand(44, OnOff(b), OnOff(b))
  <1>1. OnOff(b) \in Byte
    BY DEF OnOff, Byte
  <1>2. /\ d \in Seq(Byte) /\ Len(d) = 11 /\ ~IsFeaturesAck(d)
        /\ IsHearingAid(d) /\ At(d, 7) = OnOff(b) /\ At(d, 8) = OnOff(b)
    BY <1>1, Command
  <1> HIDE DEF d
  <1>3. ParseHearingAid(d) = {b}
    <2>1. CASE b = TRUE
      <3>1. At(d, 7) = 1 /\ At(d, 8) = 1
        BY <1>2, <2>1 DEF OnOff
      <3>2. ParseHearingAid(d) = {TRUE}
        BY <1>2, <3>1, SwitchOfBytes
      <3> QED
        BY <2>1, <3>2, Zenon
    <2>2. CASE b = FALSE
      <3>1. At(d, 7) = 2 /\ At(d, 8) = 2
        BY <1>2, <2>2 DEF OnOff
      <3>2. ParseHearingAid(d) = {FALSE}
        BY <1>2, <3>1, SwitchOfBytes
      <3> QED
        BY <2>2, <3>2
    <2> QED
      BY <2>1, <2>2
  <1>9. Len(d) >= 6
    BY <1>2
  <1> QED
    BY <1>9, <1>2, <1>3, ValuesByLayout DEF d

LEMMA CaEventPacket ==
    ASSUME NEW b \in BOOLEAN
    PROVE  LET d == CaEventHeader \o <<IF b THEN 9 ELSE 8>>
           IN  /\ d \in Seq(Byte) /\ Len(d) >= 6 /\ ~IsFeaturesAck(d)
               /\ Values(d) = [NoValues EXCEPT !["ca"] = {b}]
  <1> DEFINE d == CaEventHeader \o <<IF b THEN 9 ELSE 8>>
  <1>1. /\ d \in Seq(Byte) /\ Len(d) = 10
        /\ d[1] = 4 /\ d[2] = 0 /\ d[3] = 4 /\ d[4] = 0 /\ d[5] = 75
        /\ d[6] = 0 /\ d[7] = 2 /\ d[8] = 0 /\ d[9] = 1
    BY DEF CaEventHeader, Byte
  <1>2. d[10] = IF b THEN 9 ELSE 8
    BY DEF CaEventHeader
  <1> HIDE DEF d
  <1>3. IsCaEvent(d) /\ ~IsFeaturesAck(d)
    BY <1>1, EventPrefix, Layouts DEF IsCaEvent
  <1>4. At(d, 9) = d[10]
    <2>1. 9 < Len(d) /\ d \in Seq(Byte)
      BY <1>1
    <2> QED
      BY <2>1 DEF At
  <1>5. ParseCaEvent(d) = {b}
    <2>1. CASE b = TRUE
      <3>1. ParseCaEvent(d) = {TRUE}
        BY <1>2, <1>4, <2>1, SwitchOfBytes
      <3> QED
        BY <2>1, <3>1, Zenon
    <2>2. CASE b = FALSE
      <3>1. ParseCaEvent(d) = {FALSE}
        BY <1>2, <1>4, <2>2, SwitchOfBytes
      <3> QED
        BY <2>2, <3>1, Zenon
    <2> QED
      BY <2>1, <2>2
  <1>9. Len(d) >= 6
    BY <1>1
  <1> QED
    BY <1>9, <1>1, <1>3, <1>5, ValuesByLayout DEF d

LEMMA EarPacket ==
    ASSUME NEW e \in EarStatuses
    PROVE  LET d == EarDetection \o <<EarByte(e.secondary), EarByte(e.primary)>>
           IN  /\ d \in Seq(Byte) /\ Len(d) >= 6 /\ ~IsFeaturesAck(d)
               /\ Values(d) = [NoValues EXCEPT !["ears"] = {e}]
  <1>1. \A s \in EarDetectionStatus : EarByte(s) \in 0..3 /\ EarStatus(EarByte(s)) = s
    <2>1. EarStatus(0) = "InEar" /\ EarStatus(1) = "NotInEar" /\ EarStatus(2) = "InCase"
          /\ EarStatus(3) = "Disconnected"
      BY DEF EarStatus
    <2>2. ASSUME NEW s \in EarDetectionStatus
          PROVE  \E b \in 0..3 : EarStatus(b) = s
      BY <2>1 DEF EarDetectionStatus
    <2> QED
      BY <2>2 DEF EarByte
  <1>2. e.primary \in EarDetectionStatus /\ e.secondary \in EarDetectionStatus
    BY DEF EarStatuses
  <1> DEFINE p == EarByte(e.primary)
             q == EarByte(e.secondary)
             d == EarDetection \o <<q, p>>
  <1>3. p \in Byte /\ q \in Byte /\ EarStatus(p) = e.primary /\ EarStatus(q) = e.secondary
    BY <1>1, <1>2 DEF Byte
  <1> HIDE DEF p, q
  <1>4. /\ d \in Seq(Byte) /\ Len(d) = 8
        /\ d[1] = 4 /\ d[2] = 0 /\ d[3] = 4 /\ d[4] = 0 /\ d[5] = 6 /\ d[6] = 0
        /\ d[7] = q /\ d[8] = p
    BY <1>3 DEF EarDetection, Byte
  <1> HIDE DEF d
  <1>5. IsEars(d)
    BY <1>4, EarPrefix DEF IsEars
  <1>8. ~IsFeaturesAck(d)
    BY <1>4, Layouts
  <1>6. At(d, 6) = q /\ At(d, 7) = p
    BY <1>4 DEF At
  <1>7. ParseEars(d) = e
    BY <1>3, <1>6 DEF ParseEars, EarStatuses
  <1>9. Len(d) >= 6
    BY <1>4
  <1> QED
    BY <1>9, <1>4, <1>5, <1>7, <1>8, ValuesByLayout DEF d, p, q

(* a reply answers a set-up packet and carries no value *)
LEMMA Replies ==
    /\ HandshakeAck \o <<0, 0>> \in Seq(Byte) /\ Len(HandshakeAck \o <<0, 0>>) = 6
    /\ ~IsFeaturesAck(HandshakeAck \o <<0, 0>>)
    /\ Values(HandshakeAck \o <<0, 0>>) = NoValues
    /\ FeaturesAck \in Seq(Byte) /\ Len(FeaturesAck) = 6
    /\ Values(FeaturesAck) = NoValues
  <1> DEFINE d == HandshakeAck \o <<0, 0>>
  <1>1. /\ d \in Seq(Byte) /\ Len(d) = 6
        /\ d[1] = 1 /\ d[2] = 0 /\ d[3] = 4 /\ d[4] = 0
    BY DEF HandshakeAck, Byte
  <1> HIDE DEF d
  <1>2. IsPrefix(HandshakeAck, d) /\ ~IsFeaturesAck(d)
    BY <1>1, HandshakePrefix, Layouts
  <1>3. Values(d) = NoValues
    BY <1>1, <1>2, ValuesByLayout DEF Answer
  <1>4. /\ FeaturesAck \in Seq(Byte) /\ Len(FeaturesAck) = 6
        /\ FeaturesAck[1] = 4 /\ FeaturesAck[2] = 0 /\ FeaturesAck[3] = 4
        /\ FeaturesAck[4] = 0 /\ FeaturesAck[5] = 43 /\ FeaturesAck[6] = 0
    BY DEF FeaturesAck, Byte
  <1>5. IsFeaturesAck(FeaturesAck)
    BY <1>4, FeaturesPrefix DEF IsFeaturesAck
  <1>6. Values(FeaturesAck) = NoValues
    BY <1>4, <1>5, ValuesByLayout DEF Answer
  <1> QED
    BY <1>1, <1>2, <1>3, <1>4, <1>6 DEF d

(* What reports nothing by its layout changes nothing: a value out of      *)
(* range, a packet cut short, an event nobody knows.                       *)
LEMMA SilentPacket ==
    ASSUME NEW d \in Seq(Byte), Len(d) >= 6, Silent(d)
    PROVE  ~IsFeaturesAck(d) /\ Values(d) = NoValues
  <1>1. ~IsFeaturesAck(d)
    BY DEF Silent, IsFeaturesAck
  <1>2. [NoValues EXCEPT !["ca"] = {}] = NoValues /\ [NoValues EXCEPT !["aid"] = {}] = NoValues
        /\ [NoValues EXCEPT !["mode"] = {}] = NoValues
    BY DEF NoValues, Kinds
  <1>3. Len(d) \in Nat
    OBVIOUS
  <1>4. CASE IsCa(d)
    <2>1. At(d, 7) # 1 /\ At(d, 7) # 2
      <3>1. CASE Len(d) = 7
        <4>1. ~(7 < Len(d))
          BY <1>3, <3>1
        <4> QED
          BY <4>1 DEF At
      <3>2. CASE Len(d) >= 8
        <4>1. At(d, 7) = d[8]
          <5>1. 7 < Len(d)
            BY <1>3, <3>2
          <5> QED
            BY <5>1 DEF At
        <4>2. d[8] # 1 /\ d[8] # 2
          BY <1>4, <3>2 DEF Silent, IsCa
        <4> QED
          BY <4>1, <4>2
      <3> QED
        <4>1. Len(d) >= 7
          BY <1>4, Layouts
        <4>2. \A n \in Nat : n >= 7 => n = 7 \/ n >= 8
          OBVIOUS
        <4>3. Len(d) = 7 \/ Len(d) >= 8
          BY <1>3, <4>1, <4>2, Zenon
        <4> QED
          BY <3>1, <3>2, <4>3
    <2>2. ParseState(d) = {}
      BY <2>1 DEF ParseState
    <2> QED
      BY <1>1, <1>2, <1>4, <2>2, ValuesByLayout
  <1>5. CASE IsCaEvent(d)
    <2>1. At(d, 9) = d[10]
      <3>1. 9 < Len(d)
        BY <1>5 DEF IsCaEvent
      <3> QED
        BY <3>1 DEF At
    <2>2. d[10] # 8 /\ d[10] # 9
      BY <1>5 DEF Silent, IsCaEvent
    <2>3. ParseCaEvent(d) = {}
      BY <2>1, <2>2 DEF ParseCaEvent
    <2> QED
      BY <1>1, <1>2, <1>5, <2>3, ValuesByLayout
  <1>6. CASE IsHearingAid(d)
    <2>1. CASE Len(d) < 9
      <3>1. ParseHearingAid(d) = {}
        BY <2>1 DEF ParseHearingAid
      <3> QED
        BY <1>1, <1>2, <1>6, <3>1, ValuesByLayout
    <2>2. CASE Len(d) >= 9
      <3>1. At(d, 7) = d[8] /\ At(d, 8) = d[9]
        <4>1. 7 < Len(d) /\ 8 < Len(d)
          BY <1>3, <2>2
        <4> QED
          BY <4>1 DEF At
      <3>2. d[8] # 2 /\ d[9] # 2 /\ ~(d[8] = 1 /\ d[9] = 1)
        BY <1>6, <2>2 DEF Silent, IsHearingAid
      <3>3. ParseHearingAid(d) = {}
        BY <3>1, <3>2 DEF ParseHearingAid
      <3> QED
        BY <1>1, <1>2, <1>6, <3>3, ValuesByLayout
    <2> QED
      BY <1>3, <2>1, <2>2
  <1>7. CASE IsNoise(d)
    <2>1. Len(d) >= 8 /\ d[8] \notin 1..4
      BY <1>7 DEF Silent, IsNoise
    <2>2. ParseMode(d) = {}
      BY <2>1, ModeOfByte
    <2> QED
      BY <1>1, <1>2, <1>7, <2>2, ValuesByLayout
  <1>8. ~IsEars(d)
    BY DEF Silent, IsEars
  <1> QED
    BY <1>1, <1>4, <1>5, <1>6, <1>7, <1>8, ValuesByLayout

(* whatever the bytes are, the values read out of them are values *)
LEMMA ParsedValues ==
    ASSUME NEW d \in Seq(Byte)
    PROVE  /\ Values(d)["mode"] \subseteq NoiseControlMode
           /\ Values(d)["ca"] \subseteq BOOLEAN
           /\ Values(d)["ears"] \subseteq EarStatuses
           /\ Values(d)["aid"] \subseteq BOOLEAN
  <1>1. ParseMode(d) \subseteq NoiseControlMode
    <2>1. \A i \in 1..4 : Modes[i] \in NoiseControlMode
      <3>1. Modes[1] = "Off" /\ Modes[2] = "NoiseCancellation" /\ Modes[3] = "Transparency"
            /\ Modes[4] = "Adaptive"
        BY DEF Modes
      <3> QED
        BY <3>1 DEF NoiseControlMode
    <2> DEFINE m == AsChar(AsChar(At(d, 7)) - 1)
    <2>2. ParseMode(d) = IF m \in 0..3 THEN {Modes[m + 1]} ELSE {}
      BY DEF ParseMode
    <2> HIDE DEF m
    <2>3. m \in 0..3 => m + 1 \in 1..4
      OBVIOUS
    <2> QED
      BY <2>1, <2>2, <2>3
  <1>2. ParseState(d) \subseteq BOOLEAN /\ ParseCaEvent(d) \subseteq BOOLEAN
    BY DEF ParseState, ParseCaEvent
  <1>3. ParseHearingAid(d) \subseteq BOOLEAN
    BY DEF ParseHearingAid
  <1>4. ParseEars(d) \in EarStatuses
    BY DEF ParseEars, EarStatus, EarStatuses, EarDetectionStatus
  <1>5. NoValues = [k \in Kinds |-> {}] /\ "mode" \in Kinds /\ "ca" \in Kinds
        /\ "ears" \in Kinds /\ "aid" \in Kinds
    BY DEF NoValues, Kinds
  <1>6. CASE IsCa(d)
    BY <1>2, <1>5, <1>6, ValuesByLayout
  <1>7. CASE IsCaEvent(d)
    BY <1>2, <1>5, <1>7, ValuesByLayout
  <1>8. CASE IsHearingAid(d)
    BY <1>3, <1>5, <1>8, ValuesByLayout
  <1>9. CASE IsNoise(d)
    BY <1>1, <1>5, <1>9, ValuesByLayout
  <1>10. CASE IsEars(d)
    BY <1>4, <1>5, <1>10, ValuesByLayout
  <1>11. CASE Values(d) = NoValues
    BY <1>5, <1>11
  <1> QED
    BY <1>6, <1>7, <1>8, <1>9, <1>10, <1>11, ValuesByLayout

LEMMA TakenValue ==
    ASSUME NEW S, NEW value \in SUBSET S, NEW old \in S
    PROVE  Taken(value, old) \in S
  BY DEF Taken

----------------------------------------------------------------------------
(* What the device writes. *)

Carried(tells, now) == [k \in Kinds |-> IF k \in tells THEN {now[k]} ELSE {}]

Reportable(tells, now) ==
    /\ "mode" \in tells => now["mode"] \in NoiseReports
    /\ "ears" \in tells => now["ears"] \in EarReports

(* bytes is a packet of the device that says what tells and now have it say *)
Genuine(bytes, tells, now) ==
    /\ bytes \in Seq(Byte) /\ Len(bytes) >= 6
    /\ IsFeaturesAck(bytes) => "features" \in setup
    /\ tells \subseteq Kinds /\ now \in RecordType
    /\ Reportable(tells, now)
    /\ Values(bytes) = Carried(tells, now)
    /\ \A k \in Kinds \ tells : now[k] = ToldSoFar[k]

LEMMA ToldTyped ==
    ASSUME StreamTypeOK
    PROVE  ToldSoFar \in RecordType
  <1>1. wire # <<>> => wire[Len(wire)] \in WireType
    <2>1. wire \in Seq(WireType)
      BY DEF StreamTypeOK
    <2>2. wire # <<>> => Len(wire) \in 1..Len(wire)
      BY <2>1
    <2> QED
      BY <2>1, <2>2, ElementOfSeq
  <1> QED
    BY <1>1 DEF ToldSoFar, StreamTypeOK, WireType

(* a packet that carries one value is the report of that value *)
LEMMA ReportGenuine ==
    ASSUME StreamTypeOK, NEW k \in Kinds, NEW v,
           NEW bytes \in Seq(Byte), Len(bytes) >= 6, ~IsFeaturesAck(bytes),
           Values(bytes) = [NoValues EXCEPT ![k] = {v}],
           [ToldSoFar EXCEPT ![k] = v] \in RecordType,
           Reportable({k}, [ToldSoFar EXCEPT ![k] = v])
    PROVE  Genuine(bytes, {k}, [ToldSoFar EXCEPT ![k] = v])
  <1> DEFINE now == [ToldSoFar EXCEPT ![k] = v]
  <1>1. DOMAIN ToldSoFar = Kinds
    BY ToldTyped DEF RecordType, Kinds
  <1>2. now[k] = v /\ \A j \in Kinds \ {k} : now[j] = ToldSoFar[j]
    BY <1>1
  <1> HIDE DEF now
  <1>3. Carried({k}, now) = [NoValues EXCEPT ![k] = {v}]
    BY <1>2 DEF Carried, NoValues
  <1>4. now \in RecordType /\ Reportable({k}, now)
    BY DEF now
  <1>5. Genuine(bytes, {k}, now)
    BY <1>2, <1>3, <1>4 DEF Genuine
  <1> QED
    BY <1>5 DEF now

(* every packet of the device says what the device has to say *)
LEMMA DeviceWrites ==
    ASSUME StreamTypeOK, Acknowledges \/ Reports
    PROVE  /\ IsConnected /\ ("handshake" \in setup \/ "features" \in setup)
           /\ \E bytes, tells, now : Sends(bytes, tells, now) /\ Genuine(bytes, tells, now)
  <1>1. ToldSoFar \in RecordType
    BY ToldTyped
  <1>2. Carried({}, ToldSoFar) = NoValues
    BY DEF Carried, NoValues
  <1>3. CASE Acknowledges
    <2>1. CASE /\ IsConnected /\ "handshake" \in setup
               /\ Sends(HandshakeAck \o <<0, 0>>, {}, ToldSoFar)
      <3>1. Genuine(HandshakeAck \o <<0, 0>>, {}, ToldSoFar)
        BY <1>1, <1>2, Replies DEF Genuine, Reportable
      <3> QED
        BY <2>1, <3>1
    <2>2. CASE /\ IsConnected /\ "features" \in setup
               /\ Sends(FeaturesAck, {}, ToldSoFar)
      <3>1. Genuine(FeaturesAck, {}, ToldSoFar)
        BY <1>1, <1>2, <2>2, Replies DEF Genuine, Reportable
      <3> QED
        BY <2>2, <3>1
    <2> QED
      BY <1>3, <2>1, <2>2 DEF Acknowledges
  <1>4. CASE Reports
    <2>1. IsConnected /\ "handshake" \in setup
      BY <1>4 DEF Reports, CanReport
    <2> DEFINE Writes == \E bytes, tells, now : Sends(bytes, tells, now) /\ Genuine(bytes, tells, now)
    <2>2. ASSUME NEW m \in NoiseReports,
                 Sends(GetPacketForMode(m), {"mode"}, [ToldSoFar EXCEPT !.mode = m])
          PROVE  Writes
      <3>1. m \in NoiseControlMode
        BY ClientAssumption
      <3>2. /\ [ToldSoFar EXCEPT !.mode = m] \in RecordType
            /\ Reportable({"mode"}, [ToldSoFar EXCEPT !.mode = m])
        BY <1>1, <3>1 DEF RecordType, Reportable
      <3>3. "mode" \in Kinds
        BY DEF Kinds
      <3>4. /\ GetPacketForMode(m) \in Seq(Byte) /\ Len(GetPacketForMode(m)) >= 6
            /\ ~IsFeaturesAck(GetPacketForMode(m))
            /\ Values(GetPacketForMode(m)) = [NoValues EXCEPT !["mode"] = {m}]
        BY <3>1, ModePacket
      <3>5. Genuine(GetPacketForMode(m), {"mode"}, [ToldSoFar EXCEPT !["mode"] = m])
        BY <3>2, <3>3, <3>4, ReportGenuine
      <3> QED
        BY <2>2, <3>5
    <2>3. ASSUME NEW b \in CaReports,
                 NEW bytes \in {CreateCommand(40, OnOff(b), 0),
                                CaEventHeader \o <<IF b THEN 9 ELSE 8>>},
                 Sends(bytes, {"ca"}, [ToldSoFar EXCEPT !.ca = b])
          PROVE  Writes
      <3>1. b \in BOOLEAN
        BY ClientAssumption
      <3>2. /\ [ToldSoFar EXCEPT !.ca = b] \in RecordType
            /\ Reportable({"ca"}, [ToldSoFar EXCEPT !.ca = b])
        BY <1>1, <3>1 DEF RecordType, Reportable
      <3>3. "ca" \in Kinds
        BY DEF Kinds
      <3>4. /\ bytes \in Seq(Byte) /\ Len(bytes) >= 6 /\ ~IsFeaturesAck(bytes)
            /\ Values(bytes) = [NoValues EXCEPT !["ca"] = {b}]
        BY <3>1, CaPacket, CaEventPacket
      <3>5. Genuine(bytes, {"ca"}, [ToldSoFar EXCEPT !["ca"] = b])
        BY <3>2, <3>3, <3>4, ReportGenuine
      <3> QED
        BY <2>3, <3>5
    <2>4. ASSUME NEW e \in EarReports,
                 Sends(EarDetection \o <<EarByte(e.secondary), EarByte(e.primary)>>,
                       {"ears"}, [ToldSoFar EXCEPT !.ears = e])
          PROVE  Writes
      <3> DEFINE bytes == EarDetection \o <<EarByte(e.secondary), EarByte(e.primary)>>
      <3>1. e \in EarStatuses
        BY ClientAssumption
      <3>2. /\ [ToldSoFar EXCEPT !.ears = e] \in RecordType
            /\ Reportable({"ears"}, [ToldSoFar EXCEPT !.ears = e])
        BY <1>1, <3>1 DEF RecordType, Reportable
      <3>3. "ears" \in Kinds
        BY DEF Kinds
      <3>4. /\ bytes \in Seq(Byte) /\ Len(bytes) >= 6 /\ ~IsFeaturesAck(bytes)
            /\ Values(bytes) = [NoValues EXCEPT !["ears"] = {e}]
        BY <3>1, EarPacket
      <3> HIDE DEF bytes
      <3>5. Genuine(bytes, {"ears"}, [ToldSoFar EXCEPT !["ears"] = e])
        BY <3>2, <3>3, <3>4, ReportGenuine
      <3> QED
        BY <2>4, <3>5 DEF bytes
    <2>5. ASSUME NEW b \in AidReports,
                 Sends(CreateCommand(44, OnOff(b), OnOff(b)), {"aid"}, [ToldSoFar EXCEPT !.aid = b])
          PROVE  Writes
      <3> DEFINE bytes == CreateCommand(44, OnOff(b), OnOff(b))
      <3>1. b \in BOOLEAN
        BY StreamAssumption
      <3>2. /\ [ToldSoFar EXCEPT !.aid = b] \in RecordType
            /\ Reportable({"aid"}, [ToldSoFar EXCEPT !.aid = b])
        BY <1>1, <3>1 DEF RecordType, Reportable
      <3>3. "aid" \in Kinds
        BY DEF Kinds
      <3>4. /\ bytes \in Seq(Byte) /\ Len(bytes) >= 6 /\ ~IsFeaturesAck(bytes)
            /\ Values(bytes) = [NoValues EXCEPT !["aid"] = {b}]
        BY <3>1, AidPacket
      <3> HIDE DEF bytes
      <3>5. Genuine(bytes, {"aid"}, [ToldSoFar EXCEPT !["aid"] = b])
        BY <3>2, <3>3, <3>4, ReportGenuine
      <3> QED
        BY <2>5, <3>5 DEF bytes
    <2>6. ASSUME NEW bytes \in Mute, Sends(bytes, {}, ToldSoFar)
          PROVE  Writes
      <3>1. bytes \in Seq(Byte) /\ Len(bytes) >= 6 /\ Silent(bytes)
        BY MuteAssumption
      <3>2. ~IsFeaturesAck(bytes) /\ Values(bytes) = NoValues
        BY <3>1, SilentPacket
      <3>3. Genuine(bytes, {}, ToldSoFar)
        BY <1>1, <1>2, <3>1, <3>2 DEF Genuine, Reportable
      <3> QED
        BY <2>6, <3>3
    <2> HIDE DEF Writes
    <2>7. Writes
      BY <1>4, <2>2, <2>3, <2>4, <2>5, <2>6 DEF Reports
    <2> QED
      BY <2>1, <2>7 DEF Writes
  <1> QED
    BY <1>3, <1>4

----------------------------------------------------------------------------
(* What is on its way. *)

LEMMA WireAfterSend ==
    ASSUME StreamTypeOK, NEW bytes, NEW tells, NEW now,
           Genuine(bytes, tells, now), Sends(bytes, tells, now)
    PROVE  /\ wire' \in Seq(WireType)
           /\ \/ /\ Len(wire') = Len(wire) + 1
                 /\ \A i \in 1..Len(wire) : wire'[i] = wire[i]
                 /\ wire'[Len(wire) + 1] =
                       [bytes |-> bytes, packets |-> 1, tells |-> tells, told |-> now]
              \/ /\ Len(wire) \in 1..Len(wire)
                 /\ Len(wire') = Len(wire)
                 /\ \A i \in 1..Len(wire) - 1 : wire'[i] = wire[i]
                 /\ wire'[Len(wire)].bytes = wire[Len(wire)].bytes \o bytes
                 /\ wire'[Len(wire)].packets = wire[Len(wire)].packets + 1
  <1>1. wire \in Seq(WireType) /\ Len(wire) \in Nat
    BY DEF StreamTypeOK
  <1>2. bytes \in Seq(Byte) /\ tells \subseteq Kinds /\ now \in RecordType
    BY DEF Genuine
  <1>3. CASE wire' = Append(wire, [bytes |-> bytes, packets |-> 1, tells |-> tells, told |-> now])
    <2> DEFINE r == [bytes |-> bytes, packets |-> 1, tells |-> tells, told |-> now]
    <2>1. r \in WireType
      BY <1>2 DEF WireType
    <2> HIDE DEF r
    <2>2. wire' = Append(wire, r)
      BY <1>3 DEF r
    <2>3. wire' \in Seq(WireType) /\ Len(wire') = Len(wire) + 1
          /\ (\A i \in 1..Len(wire) : wire'[i] = wire[i]) /\ wire'[Len(wire) + 1] = r
      BY <1>1, <2>1, <2>2
    <2> QED
      BY <2>3 DEF r
  <1>4. CASE /\ wire # <<>>
             /\ wire' = [wire EXCEPT ![Len(wire)] =
                            [bytes |-> @.bytes \o bytes, packets |-> @.packets + 1,
                             tells |-> @.tells \union tells, told |-> now]]
    <2> DEFINE n == Len(wire)
               r == [bytes |-> wire[n].bytes \o bytes, packets |-> wire[n].packets + 1,
                     tells |-> wire[n].tells \union tells, told |-> now]
    <2>1. n \in 1..Len(wire)
      BY <1>1, <1>4
    <2>2. wire[n] \in WireType
      BY <1>1, <2>1, ElementOfSeq
    <2>3. wire[n].bytes \in Seq(Byte) /\ wire[n].packets \in Nat \ {0} /\ wire[n].tells \subseteq Kinds
      BY <2>2 DEF WireType
    <2>4. wire[n].bytes \o bytes \in Seq(Byte)
      BY <1>2, <2>3, ConcatProperties
    <2>5. r \in WireType
      BY <1>2, <2>3, <2>4 DEF WireType
    <2>6. wire' = [wire EXCEPT ![n] = r]
      BY <1>4
    <2>7. r.bytes = wire[n].bytes \o bytes /\ r.packets = wire[n].packets + 1
      OBVIOUS
    <2> HIDE DEF r
    <2>8. /\ wire' \in Seq(WireType) /\ Len(wire') = Len(wire)
          /\ \A i \in 1..Len(wire) : wire'[i] = IF i = n THEN r ELSE wire[i]
      BY <1>1, <2>1, <2>5, <2>6, ExceptSeq
    <2>9. wire'[n] = r /\ \A i \in 1..n - 1 : wire'[i] = wire[i]
      BY <1>1, <2>1, <2>8
    <2> QED
      BY <2>1, <2>7, <2>8, <2>9
  <1> QED
    BY <1>3, <1>4 DEF Sends

LEMMA FirstOnWire ==
    ASSUME StreamTypeOK, wire # <<>>
    PROVE  /\ Head(wire) = wire[1] /\ 1 \in 1..Len(wire)
           /\ Head(wire).bytes \in Seq(Byte) /\ Head(wire).packets \in Nat \ {0}
           /\ Head(wire).tells \subseteq Kinds /\ Head(wire).told \in RecordType
           /\ Tail(wire) \in Seq(WireType) /\ Len(Tail(wire)) = Len(wire) - 1
           /\ \A i \in 1..Len(wire) - 1 : Tail(wire)[i] = wire[i + 1]
  <1>1. wire \in Seq(WireType) /\ Len(wire) \in Nat
    BY DEF StreamTypeOK
  <1>2. 1 \in 1..Len(wire) /\ Head(wire) = wire[1]
    BY <1>1
  <1>3. Head(wire) \in WireType
    BY <1>1, HeadTailProperties
  <1>4. /\ Tail(wire) \in Seq(WireType) /\ Len(Tail(wire)) = Len(wire) - 1
        /\ \A i \in 1..Len(wire) - 1 : Tail(wire)[i] = wire[i + 1]
    BY <1>1, HeadTailProperties
  <1>5. /\ Head(wire).bytes \in Seq(Byte) /\ Head(wire).packets \in Nat \ {0}
        /\ Head(wire).tells \subseteq Kinds /\ Head(wire).told \in RecordType
    BY <1>3 DEF WireType
  <1> QED
    BY <1>2, <1>4, <1>5

(* the steps of the session, for the client alone *)
LEMMA SessionSteps ==
    ASSUME Session
    PROVE  /\ hearingAid' = hearingAid /\ told' = told
           /\ UNCHANGED reportVars
           /\ \/ \E d \in Macs, k \in CloseKinds, r \in DialResults : ConnectToDevice(d, k, r)
              \/ \E k \in CloseKinds : DisconnectFromDevice(k)
              \/ OnSocketDisconnected
              \/ OnSocketError
              \/ OnLateDisconnected
              \/ \E w \in WriteResults : OnSocketConnected(w)
           /\ \/ wire' = <<>>
              \/ wire' = wire /\ OnLateDisconnected
              \/ wire' = wire /\ \E w \in WriteResults : OnSocketConnected(w)
  BY DEF Session, Drops, streamVars, reportVars, ConnectToDevice, DisconnectFromDevice,
     OnSocketDisconnected, OnSocketError, OnLateDisconnected, OnSocketConnected

LEMMA StreamTyped ==
    ASSUME StreamTypeOK, [Next]_vars
    PROVE  StreamTypeOK'
  <1>1. CASE Session
    <2>1. ClientTypeOK'
      BY <1>1, SessionSteps, ClientTyped DEF StreamTypeOK
    <2>2. hearingAid' \in BOOLEAN /\ told' \in RecordType
      BY <1>1, SessionSteps DEF StreamTypeOK
    <2>3. wire' \in Seq(WireType)
      BY <1>1, SessionSteps, EmptySeq DEF StreamTypeOK
    <2> QED
      BY <2>1, <2>2, <2>3 DEF StreamTypeOK
  <1>2. CASE Acknowledges \/ Reports
    <2>1. PICK bytes, tells, now : Sends(bytes, tells, now) /\ Genuine(bytes, tells, now)
      BY <1>2, DeviceWrites
    <2>2. UNCHANGED <<clientVars, hearingAid, told>>
      BY <2>1 DEF Sends
    <2>3. ClientTypeOK'
      BY <2>2, ClientTyped DEF StreamTypeOK
    <2>4. wire' \in Seq(WireType)
      BY <2>1, WireAfterSend
    <2> QED
      BY <2>2, <2>3, <2>4 DEF StreamTypeOK
  <1>3. CASE Read
    <2> DEFINE d == Head(wire).bytes
    <2>1. PICK w \in WriteResults : ParseData(d, w)
      BY <1>3 DEF Read
    <2>2. wire # <<>> /\ wire' = Tail(wire) /\ told' = Head(wire).told
      BY <1>3 DEF Read
    <2>3. d \in Seq(Byte) /\ wire' \in Seq(WireType) /\ told' \in RecordType
      BY <2>2, FirstOnWire
    <2> HIDE DEF d
    <2>4. /\ mode' \in NoiseControlMode /\ ca' \in BOOLEAN
          /\ ears' \in EarStatuses /\ hearingAid' \in BOOLEAN
      BY <2>1, <2>3, ParsedValues, TakenValue DEF ParseData, StreamTypeOK, ClientTypeOK
    <2>5. Answer(d) \subseteq SetupPackets
      BY DEF Answer, SetupPackets
    <2>6. setup' \subseteq SetupPackets
      BY <2>1, <2>5 DEF ParseData, StreamTypeOK, ClientTypeOK
    <2>7. protocolReady' \in BOOLEAN
      BY <2>1, Zenon DEF ParseData
    <2>8. UNCHANGED <<sock, late, address>>
      BY <2>1 DEF ParseData
    <2>9. ClientTypeOK'
      BY <2>4, <2>6, <2>7, <2>8 DEF StreamTypeOK, ClientTypeOK
    <2> QED
      BY <2>3, <2>4, <2>9 DEF StreamTypeOK
  <1>4. CASE UNCHANGED vars
    BY <1>4 DEF vars, clientVars, sessionVars, reportVars, streamVars, StreamTypeOK, ClientTypeOK
  <1> QED
    BY <1>1, <1>2, <1>3, <1>4 DEF Next

LEMMA StreamInit == Init => StreamTypeOK
  <1>1. NoEars \in EarStatuses
    BY DEF NoEars, EarStatuses, EarDetectionStatus
  <1>2. Init => ClientTypeOK
    BY <1>1 DEF Init, ClientInit, ClientTypeOK, SocketStates, NoiseControlMode
  <1>3. Init => told \in RecordType
    BY <1>1 DEF Init, Record, RecordType, NoiseControlMode
  <1>4. Init => wire \in Seq(WireType) /\ hearingAid \in BOOLEAN
    BY EmptySeq DEF Init
  <1> QED
    BY <1>2, <1>3, <1>4 DEF StreamTypeOK

(* Every variable keeps its type, whatever bytes parseData is handed: a    *)
(* mode is one of the four, packets of any length change nothing else.     *)
THEOREM StreamTypeCorrect == Spec => []StreamTypeOK
  <1> QED
    BY StreamInit, StreamTyped, PTL DEF Spec

----------------------------------------------------------------------------
(* The invariant of the stream.  What is on its way belongs to the session *)
(* that is up.  A readAll of one packet holds a report of the device, said *)
(* right after what came before it; one of several is longer than any      *)
(* packet that is known by its size, and still starts with the first one.  *)

PacketOK(p, before) ==
    /\ Len(p.bytes) >= 6
    /\ IsFeaturesAck(p.bytes) => "features" \in setup
    /\ p.packets = 1 =>
          /\ Reportable(p.tells, p.told)
          /\ Values(p.bytes) = Carried(p.tells, p.told)
          /\ \A k \in Kinds \ p.tells : p.told[k] = before[k]
    /\ p.packets # 1 => Len(p.bytes) >= 12

Before(i) == IF i = 1 THEN told ELSE wire[i - 1].told

WireOK == \A i \in 1..Len(wire) : PacketOK(wire[i], Before(i))

InSession ==
    /\ wire # <<>> => CanReport
    /\ "features" \in setup => "handshake" \in setup

StreamInv == StreamTypeOK /\ InSession /\ WireOK

LEMMA InSessionKept ==
    ASSUME StreamInv, [Next]_vars
    PROVE  InSession'
  <1> USE DEF InSession, CanReport, IsConnected
  <1>0. InSession /\ StreamTypeOK
    BY DEF StreamInv
  <1>1. CASE Session
    <2>1. \/ wire' = <<>>
          \/ wire' = wire /\ OnLateDisconnected
          \/ wire' = wire /\ \E w \in WriteResults : OnSocketConnected(w)
      BY <1>1, SessionSteps
    <2>2. wire' # <<>> => CanReport'
      BY <1>0, <2>1 DEF OnLateDisconnected, OnSocketConnected
    <2>3. "features" \in setup' => "handshake" \in setup'
      BY <1>0, <1>1, SessionSteps
      DEF ConnectToDevice, DisconnectFromDevice, OnSocketDisconnected, OnSocketError,
          OnLateDisconnected, OnSocketConnected
    <2> QED
      BY <2>2, <2>3
  <1>2. CASE Acknowledges \/ Reports
    <2>1. IsConnected /\ ("handshake" \in setup \/ "features" \in setup)
      BY <1>0, <1>2, DeviceWrites
    <2>2. sock' = sock /\ setup' = setup
      BY <1>0, <1>2, DeviceWrites DEF Sends, clientVars, sessionVars
    <2> QED
      BY <1>0, <2>1, <2>2
  <1>3. CASE Read
    <2>1. wire # <<>>
      BY <1>3 DEF Read
    <2>2. sock' = sock /\ setup \subseteq setup'
      BY <1>3 DEF Read, ParseData
    <2> QED
      BY <1>0, <2>1, <2>2
  <1>4. CASE UNCHANGED vars
    BY <1>0, <1>4 DEF vars, clientVars, sessionVars, streamVars
  <1> QED
    BY <1>1, <1>2, <1>3, <1>4 DEF Next

(* the first bytes tell the packet, however much follows *)
LEMMA JoinedBytes ==
    ASSUME NEW d \in Seq(Byte), NEW more \in Seq(Byte), Len(d) >= 6, Len(more) >= 6
    PROVE  Len(d \o more) >= 12 /\ (IsFeaturesAck(d \o more) => IsFeaturesAck(d))
  <1>1. Len(d) \in Nat /\ Len(more) \in Nat /\ Len(d \o more) = Len(d) + Len(more)
        /\ d \o more \in Seq(Byte)
    BY ConcatProperties
  <1>2. Len(d \o more) >= 12
    BY <1>1
  <1>3. \A i \in 1..6 : (d \o more)[i] = d[i]
    BY <1>1, ConcatProperties
  <1>4. /\ (d \o more)[1] = d[1] /\ (d \o more)[2] = d[2] /\ (d \o more)[3] = d[3]
        /\ (d \o more)[4] = d[4] /\ (d \o more)[5] = d[5] /\ (d \o more)[6] = d[6]
    BY <1>3
  <1>5. IsFeaturesAck(d \o more) => IsFeaturesAck(d)
    BY <1>1, <1>4, FeaturesPrefix DEF IsFeaturesAck
  <1> QED
    BY <1>2, <1>5

LEMMA WireOKKept ==
    ASSUME StreamInv, [Next]_vars
    PROVE  WireOK'
  <1>0. StreamTypeOK /\ WireOK /\ wire \in Seq(WireType) /\ Len(wire) \in Nat
    BY DEF StreamInv, StreamTypeOK
  <1>1. CASE Session
    <2>1. CASE wire' = <<>>
      BY <2>1 DEF WireOK
    <2>2. CASE wire' = wire /\ OnLateDisconnected
      BY <1>0, <1>1, <2>2, SessionSteps DEF WireOK, PacketOK, Before, OnLateDisconnected
    <2>3. CASE wire' = wire /\ \E w \in WriteResults : OnSocketConnected(w)
      <3>1. wire = <<>>
        BY <2>3 DEF StreamInv, InSession, CanReport, IsConnected, OnSocketConnected
      <3> QED
        BY <2>1, <2>3, <3>1
    <2> QED
      BY <1>1, <2>1, <2>2, <2>3, SessionSteps
  <1>2. CASE Acknowledges \/ Reports
    <2>1. PICK bytes, tells, now : Sends(bytes, tells, now) /\ Genuine(bytes, tells, now)
      BY <1>0, <1>2, DeviceWrites
    <2>2. setup' = setup /\ told' = told
      BY <2>1 DEF Sends, clientVars, sessionVars
    <2>3. ASSUME NEW i \in 1..Len(wire), wire'[i] = wire[i],
                 i = 1 \/ wire'[i - 1] = wire[i - 1]
          PROVE  PacketOK(wire[i], Before(i))'
      <3>1. PacketOK(wire[i], Before(i))
        BY <1>0 DEF WireOK
      <3>2. Before(i)' = Before(i)
        BY <2>2, <2>3 DEF Before
      <3> QED
        BY <2>2, <2>3, <3>1, <3>2 DEF PacketOK
    <2>4. CASE /\ Len(wire') = Len(wire) + 1
               /\ \A i \in 1..Len(wire) : wire'[i] = wire[i]
               /\ wire'[Len(wire) + 1] =
                     [bytes |-> bytes, packets |-> 1, tells |-> tells, told |-> now]
      <3>0. PICK n \in Nat : n = Len(wire) + 1
        BY <1>0
      <3>1. Before(n)' = ToldSoFar
        <4>1. CASE wire = <<>>
          <5>1. n = 1
            BY <3>0, <4>1
          <5> QED
            BY <2>2, <4>1, <5>1 DEF Before, ToldSoFar
        <4>2. CASE wire # <<>>
          <5>1. n # 1 /\ n - 1 = Len(wire) /\ n - 1 \in 1..Len(wire)
            BY <1>0, <3>0, <4>2
          <5>2. wire'[n - 1] = wire[Len(wire)]
            BY <2>4, <5>1
          <5> QED
            BY <4>2, <5>1, <5>2 DEF Before, ToldSoFar
        <4> QED
          BY <4>1, <4>2
      <3>2. PacketOK(wire[n], Before(n))'
        <4> DEFINE r == [bytes |-> bytes, packets |-> 1, tells |-> tells, told |-> now]
        <4>1. wire'[n] = r
          BY <2>4, <3>0
        <4>2. r.bytes = bytes /\ r.packets = 1 /\ r.tells = tells /\ r.told = now
          OBVIOUS
        <4> HIDE DEF r
        <4> QED
          BY <2>1, <2>2, <3>1, <4>1, <4>2 DEF PacketOK, Genuine
      <3>3. ASSUME NEW i \in 1..Len(wire)
            PROVE  PacketOK(wire[i], Before(i))'
        <4>1. i = 1 \/ i - 1 \in 1..Len(wire)
          BY <1>0
        <4> QED
          BY <2>3, <2>4, <4>1
      <3>4. \A i \in 1..Len(wire') : i \in 1..Len(wire) \/ i = n
        BY <1>0, <2>4, <3>0
      <3> QED
        BY <3>2, <3>3, <3>4 DEF WireOK
    <2>5. CASE /\ Len(wire) \in 1..Len(wire)
               /\ Len(wire') = Len(wire)
               /\ \A i \in 1..Len(wire) - 1 : wire'[i] = wire[i]
               /\ wire'[Len(wire)].bytes = wire[Len(wire)].bytes \o bytes
               /\ wire'[Len(wire)].packets = wire[Len(wire)].packets + 1
      <3>0. PICK n \in 1..Len(wire) : n = Len(wire)
        BY <2>5
      <3>1. PacketOK(wire[n], Before(n))
        BY <1>0 DEF WireOK
      <3>9. wire[n].bytes \in Seq(Byte) /\ wire[n].packets \in Nat \ {0}
        <4>1. wire[n] \in WireType
          BY <1>0, ElementOfSeq
        <4> QED
          BY <4>1 DEF WireType
      <3>2. wire'[n].packets # 1
        BY <2>5, <3>0, <3>9
      <3>3. Len(wire'[n].bytes) >= 12
            /\ (IsFeaturesAck(wire'[n].bytes) => IsFeaturesAck(wire[n].bytes))
        <4>1. Len(wire[n].bytes) >= 6
          BY <3>1 DEF PacketOK
        <4>2. bytes \in Seq(Byte) /\ Len(bytes) >= 6
          BY <2>1 DEF Genuine
        <4>3. wire'[n].bytes = wire[n].bytes \o bytes
          BY <2>5, <3>0
        <4> QED
          BY <3>9, <4>1, <4>2, <4>3, JoinedBytes
      <3>4. PacketOK(wire[n], Before(n))'
        BY <2>2, <3>1, <3>2, <3>3 DEF PacketOK
      <3>5. ASSUME NEW i \in 1..n - 1
            PROVE  PacketOK(wire[i], Before(i))'
        <4>1. i \in 1..Len(wire) /\ (i = 1 \/ i - 1 \in 1..n - 1)
          BY <1>0, <3>0
        <4>2. wire'[i] = wire[i] /\ (i = 1 \/ wire'[i - 1] = wire[i - 1])
          BY <2>5, <3>0, <4>1
        <4> QED
          BY <2>3, <4>1, <4>2
      <3>6. \A i \in 1..Len(wire') : i \in 1..n - 1 \/ i = n
        BY <1>0, <2>5, <3>0
      <3> QED
        BY <3>4, <3>5, <3>6 DEF WireOK
    <2>6. \/ /\ Len(wire') = Len(wire) + 1
             /\ \A i \in 1..Len(wire) : wire'[i] = wire[i]
             /\ wire'[Len(wire) + 1] =
                   [bytes |-> bytes, packets |-> 1, tells |-> tells, told |-> now]
          \/ /\ Len(wire) \in 1..Len(wire)
             /\ Len(wire') = Len(wire)
             /\ \A i \in 1..Len(wire) - 1 : wire'[i] = wire[i]
             /\ wire'[Len(wire)].bytes = wire[Len(wire)].bytes \o bytes
             /\ wire'[Len(wire)].packets = wire[Len(wire)].packets + 1
      BY <1>0, <2>1, WireAfterSend
    <2> QED
      BY <2>4, <2>5, <2>6
  <1>3. CASE Read
    <2>1. /\ wire # <<>> /\ wire' = Tail(wire) /\ told' = wire[1].told
          /\ Len(wire') = Len(wire) - 1
          /\ \A i \in 1..Len(wire) - 1 : wire'[i] = wire[i + 1]
      BY <1>0, <1>3, FirstOnWire DEF Read
    <2>2. setup \subseteq setup'
      BY <1>3 DEF Read, ParseData
    <2>3. ASSUME NEW i \in 1..Len(wire')
          PROVE  PacketOK(wire[i], Before(i))'
      <3>1. i \in 1..Len(wire) - 1 /\ i + 1 \in 1..Len(wire) /\ i + 1 # 1
            /\ (i = 1 \/ i - 1 \in 1..Len(wire) - 1) /\ (i + 1) - 1 = i /\ (i - 1) + 1 = i
        BY <1>0, <2>1
      <3>2. PacketOK(wire[i + 1], Before(i + 1))
        BY <1>0, <3>1 DEF WireOK
      <3>3. wire'[i] = wire[i + 1]
        BY <2>1, <3>1
      <3>4. Before(i)' = Before(i + 1)
        <4>1. Before(i + 1) = wire[i].told
          BY <3>1 DEF Before
        <4>2. CASE i = 1
          BY <2>1, <4>1, <4>2 DEF Before
        <4>3. CASE i # 1
          <5>1. wire'[i - 1] = wire[i]
            BY <2>1, <3>1, <4>3
          <5> QED
            BY <4>1, <4>3, <5>1 DEF Before
        <4> QED
          BY <4>2, <4>3
      <3> QED
        BY <2>2, <3>2, <3>3, <3>4 DEF PacketOK
    <2> QED
      BY <2>3 DEF WireOK
  <1>4. CASE UNCHANGED vars
    BY <1>0, <1>4 DEF vars, clientVars, sessionVars, streamVars, WireOK, PacketOK, Before
  <1> QED
    BY <1>1, <1>2, <1>3, <1>4 DEF Next

LEMMA StreamInvariant == Spec => []StreamInv
  <1>1. Init => StreamInv
    <2>1. Init => InSession /\ WireOK
      BY DEF Init, ClientInit, InSession, WireOK
    <2> QED
      BY <2>1, StreamInit DEF StreamInv
  <1>2. StreamInv /\ [Next]_vars => StreamInv'
    BY StreamTyped, InSessionKept, WireOKKept DEF StreamInv
  <1> QED
    BY <1>1, <1>2, PTL DEF Spec

----------------------------------------------------------------------------
(* What reading does to the client. *)

(* A readAll of one packet leaves the client with what it tells on record  *)
(* and with the rest as it was; so the client is wrong about nothing it    *)
(* was not wrong about before (parseData on one packet of any layout, with *)
(* values in and out of range).                                            *)
THEOREM RecordFollowsReports == Spec => RecordIsReport
  <1> DEFINE Step == IF Read THEN Head(wire).packets > 1 \/ Wrong' \subseteq Wrong \ Head(wire).tells
                     ELSE Wrong' = Wrong
  <1>1. Init => Wrong = {}
    <2>1. Init => \A k \in Kinds : RecordNow[k] = told[k]
      BY DEF Init, ClientInit, RecordNow
    <2> QED
      BY <2>1 DEF Wrong
  <1>2. ASSUME StreamInv, Read, ~(Head(wire).packets > 1)
        PROVE  Wrong' \subseteq Wrong \ Head(wire).tells
    <2> DEFINE p == Head(wire)
    <2>1. PICK w \in WriteResults : ParseData(p.bytes, w)
      BY <1>2 DEF Read
    <2>2. wire # <<>> /\ told' = p.told
      BY <1>2 DEF Read
    <2>3. PacketOK(p, told) /\ p.packets = 1
      <3>1. p = wire[1] /\ 1 \in 1..Len(wire) /\ p.packets \in Nat \ {0}
        BY <1>2, <2>2, FirstOnWire DEF StreamInv
      <3>2. PacketOK(wire[1], Before(1)) /\ Before(1) = told
        BY <1>2, <3>1 DEF StreamInv, WireOK, Before
      <3> QED
        BY <1>2, <3>1, <3>2
    <2>4. \A k \in Kinds : Values(p.bytes)[k] = IF k \in p.tells THEN {p.told[k]} ELSE {}
      BY <2>3 DEF PacketOK, Carried
    <2> HIDE DEF p
    <2>5. \A k \in Kinds : RecordNow'[k] = Taken(Values(p.bytes)[k], RecordNow[k])
      BY <2>1 DEF ParseData, RecordNow, Record, Kinds
    <2>6. ASSUME NEW k \in Kinds, k \in p.tells
          PROVE  RecordNow'[k] = told'[k]
      <3>1. Values(p.bytes)[k] = {p.told[k]}
        BY <2>4, <2>6
      <3> QED
        BY <2>2, <2>5, <3>1 DEF Taken
    <2>7. ASSUME NEW k \in Kinds, k \notin p.tells
          PROVE  RecordNow'[k] = RecordNow[k] /\ told'[k] = told[k]
      <3>1. Values(p.bytes)[k] = {}
        BY <2>4, <2>7
      <3>2. p.told[k] = told[k]
        BY <2>3, <2>7 DEF PacketOK
      <3> QED
        BY <2>2, <2>5, <3>1, <3>2 DEF Taken
    <2>8. Wrong' \subseteq Wrong \ p.tells
      BY <2>6, <2>7 DEF Wrong
    <2> QED
      BY <2>8 DEF p
  <1>3. ASSUME StreamInv, [Next]_vars, ~Read
        PROVE  Wrong' = Wrong
    <2>1. UNCHANGED <<reportVars, hearingAid, told>>
      <3>1. CASE Session
        BY <3>1, SessionSteps
      <3>2. CASE Acknowledges \/ Reports
        BY <1>3, <3>2, DeviceWrites DEF StreamInv, Sends, clientVars
      <3>3. CASE UNCHANGED vars
        BY <3>3 DEF vars, clientVars, streamVars
      <3> QED
        BY <1>3, <3>1, <3>2, <3>3 DEF Next
    <2> QED
      BY <2>1 DEF Wrong, RecordNow, reportVars
  <1>4. StreamInv /\ [Next]_vars => [Step]_vars
    BY <1>2, <1>3
  <1> QED
    BY <1>1, <1>4, StreamInvariant, PTL DEF Spec, RecordIsReport

(* One readAll is one packet to the client of AirPodsCoreClient.  Bytes    *)
(* that hold several can pass for a control packet with a value borrowed   *)
(* from the packet behind, never for one that is known by its size.        *)
LEMMA ReadIsPacket ==
    ASSUME CaReports = BOOLEAN, StreamInv, Read
    PROVE  \/ \E w \in WriteResults : OnHandshakeAck(w)
           \/ \E w \in WriteResults : OnFeaturesAck(w)
           \/ \E m \in NoiseReports : OnNoiseControl(m)
           \/ \E b \in CaReports : OnConversationalAwareness(b)
           \/ \E e \in EarReports : OnEarDetection(e)
           \/ OnOtherReport
  <1> DEFINE p == Head(wire)
             d == p.bytes
             v == Values(d)
  <1>1. PICK w \in WriteResults : ParseData(d, w)
    BY DEF Read
  <1>2. CanReport /\ IsConnected /\ "handshake" \in setup
    BY DEF Read, StreamInv, InSession, CanReport
  <1>3. /\ d \in Seq(Byte) /\ Len(d) \in Nat
        /\ PacketOK(p, told)
    <2>1. wire # <<>> /\ StreamTypeOK /\ WireOK
      BY DEF Read, StreamInv
    <2>2. p = wire[1] /\ 1 \in 1..Len(wire) /\ d \in Seq(Byte)
      BY <2>1, FirstOnWire
    <2>3. PacketOK(wire[1], Before(1)) /\ Before(1) = told
      BY <2>1, <2>2 DEF WireOK, Before
    <2> QED
      BY <2>2, <2>3
  <1> HIDE DEF d, p, v
  <1>4. UNCHANGED <<sock, late, address>>
    BY <1>1 DEF ParseData
  <1>5. /\ mode' = Taken(v["mode"], mode)
        /\ ca' = Taken(v["ca"], ca)
        /\ ears' = Taken(v["ears"], ears)
    BY <1>1 DEF ParseData, v
  <1>6. \A old : Taken({}, old) = old
    BY DEF Taken
  <1>7. CASE Answer(d) # {}
    <2>1. v["mode"] = {} /\ v["ca"] = {} /\ v["ears"] = {}
      BY <1>3, <1>7, ValuesByLayout DEF v, NoValues, Kinds
    <2>2. UNCHANGED reportVars
      BY <1>5, <1>6, <2>1 DEF reportVars
    <2>3. CASE IsPrefix(HandshakeAck, d)
      <3>1. Answer(d) = {"features"}
        BY <2>3 DEF Answer
      <3>2. setup' = IF w THEN setup \union {"features"} ELSE setup
        BY <1>1, <3>1 DEF ParseData
      <3>3. protocolReady' = protocolReady
        <4>1. "notifications" \notin Answer(d)
          BY <3>1
        <4>2. protocolReady' = (protocolReady \/ "notifications" \in Answer(d))
          BY <1>1 DEF ParseData
        <4>3. protocolReady \in BOOLEAN
          BY DEF StreamInv, StreamTypeOK, ClientTypeOK
        <4> QED
          BY <4>1, <4>2, <4>3, Zenon
      <3> QED
        BY <1>2, <1>4, <2>2, <3>2, <3>3 DEF OnHandshakeAck
    <2>4. CASE ~IsPrefix(HandshakeAck, d)
      <3>1. IsFeaturesAck(d) /\ Answer(d) = {"notifications"}
        BY <1>7, <2>4 DEF Answer
      <3>2. setup' = IF w THEN setup \union {"notifications"} ELSE setup
        BY <1>1, <3>1 DEF ParseData
      <3>3. protocolReady' = TRUE
        <4>1. "notifications" \in Answer(d)
          BY <3>1
        <4>2. protocolReady' = (protocolReady \/ "notifications" \in Answer(d))
          BY <1>1 DEF ParseData
        <4> QED
          BY <4>1, <4>2, Zenon
      <3>4. "features" \in setup
        BY <1>3, <3>1 DEF PacketOK, d
      <3> QED
        BY <1>2, <1>4, <2>2, <3>2, <3>3, <3>4 DEF OnFeaturesAck
    <2> QED
      BY <2>3, <2>4
  <1>8. CASE Answer(d) = {}
    <2>1. setup' = setup
      BY <1>1, <1>8 DEF ParseData
    <2>2. protocolReady' = protocolReady
      <3>1. "notifications" \notin Answer(d)
        BY <1>8
      <3>2. protocolReady' = (protocolReady \/ "notifications" \in Answer(d))
        BY <1>1 DEF ParseData
      <3>3. protocolReady \in BOOLEAN
        BY DEF StreamInv, StreamTypeOK, ClientTypeOK
      <3> QED
        BY <3>1, <3>2, <3>3, Zenon
    <2>3. UNCHANGED sessionVars
      BY <1>4, <2>1, <2>2 DEF sessionVars
    <2>4. CASE IsCa(d) \/ IsCaEvent(d)
      <3>1. v["mode"] = {} /\ v["ears"] = {}
        BY <1>3, <2>4, ValuesByLayout DEF v, NoValues, Kinds
      <3>2. UNCHANGED <<mode, ears>>
        BY <1>5, <1>6, <3>1
      <3>3. ca' \in CaReports
        <4>1. v["ca"] \subseteq BOOLEAN /\ ca \in BOOLEAN
          BY <1>3, ParsedValues DEF v, StreamInv, StreamTypeOK, ClientTypeOK
        <4> QED
          BY <1>5, <4>1, TakenValue
      <3> QED
        BY <1>2, <2>3, <3>2, <3>3 DEF OnConversationalAwareness
    <2>5. CASE IsHearingAid(d)
      <3>1. v["mode"] = {} /\ v["ca"] = {} /\ v["ears"] = {}
        BY <1>3, <2>5, ValuesByLayout DEF v, NoValues, Kinds
      <3> QED
        BY <1>2, <1>5, <1>6, <2>3, <3>1 DEF OnOtherReport, clientVars, reportVars
    <2>6. CASE IsNoise(d) \/ IsEars(d)
      <3>1. p.packets = 1
        <4>1. Len(d) = 11 \/ Len(d) = 8
          BY <1>3, <2>6, Layouts
        <4>3. \A n \in Nat : n = 11 \/ n = 8 => ~(n >= 12)
          OBVIOUS
        <4>2. ~(Len(d) >= 12)
          BY <1>3, <4>1, <4>3, Zenon
        <4> QED
          BY <1>3, <4>2 DEF PacketOK, d
      <3>2. /\ Reportable(p.tells, p.told)
            /\ \A k \in Kinds : v[k] = IF k \in p.tells THEN {p.told[k]} ELSE {}
        BY <1>3, <3>1 DEF PacketOK, Carried, v, d
      <3>3. "mode" \in Kinds /\ "ears" \in Kinds /\ \A x, old : Taken({x}, old) = x
        BY DEF Kinds, Taken
      <3>4. CASE IsNoise(d)
        <4>1. v["ca"] = {} /\ v["ears"] = {}
          BY <1>3, <3>4, ValuesByLayout DEF v, NoValues, Kinds
        <4>2. UNCHANGED <<ca, ears>>
          BY <1>5, <1>6, <4>1
        <4>3. mode' = mode \/ mode' \in NoiseReports
          <5>1. CASE "mode" \in p.tells
            <6>1. v["mode"] = {p.told["mode"]} /\ p.told["mode"] \in NoiseReports
              BY <3>2, <3>3, <5>1 DEF Reportable
            <6>2. mode' = Taken({p.told["mode"]}, mode)
              BY <1>5, <6>1
            <6>3. mode' = p.told["mode"]
              BY <3>3, <6>2, Zenon
            <6> QED
              BY <6>1, <6>3
          <5>2. CASE "mode" \notin p.tells
            <6>1. v["mode"] = {}
              BY <3>2, <3>3, <5>2
            <6> QED
              BY <1>5, <1>6, <6>1
          <5> QED
            BY <5>1, <5>2
        <4> QED
          BY <1>2, <2>3, <4>2, <4>3 DEF OnNoiseControl, OnOtherReport, clientVars, reportVars
      <3>5. CASE IsEars(d)
        <4>1. v["ca"] = {} /\ v["mode"] = {}
          BY <1>3, <3>5, ValuesByLayout DEF v, NoValues, Kinds
        <4>2. UNCHANGED <<mode, ca>>
          BY <1>5, <1>6, <4>1
        <4>3. ears' = ears \/ ears' \in EarReports
          <5>1. CASE "ears" \in p.tells
            <6>1. v["ears"] = {p.told["ears"]} /\ p.told["ears"] \in EarReports
              BY <3>2, <3>3, <5>1 DEF Reportable
            <6>2. ears' = Taken({p.told["ears"]}, ears)
              BY <1>5, <6>1
            <6>3. ears' = p.told["ears"]
              BY <3>3, <6>2, Zenon
            <6> QED
              BY <6>1, <6>3
          <5>2. CASE "ears" \notin p.tells
            <6>1. v["ears"] = {}
              BY <3>2, <3>3, <5>2
            <6> QED
              BY <1>5, <1>6, <6>1
          <5> QED
            BY <5>1, <5>2
        <4> QED
          BY <1>2, <2>3, <4>2, <4>3 DEF OnEarDetection, OnOtherReport, clientVars, reportVars
      <3> QED
        BY <2>6, <3>4, <3>5
    <2>7. CASE v = NoValues
      <3>1. v["mode"] = {} /\ v["ca"] = {} /\ v["ears"] = {}
        BY <2>7 DEF NoValues, Kinds
      <3> QED
        BY <1>2, <1>5, <1>6, <2>3, <3>1 DEF OnOtherReport, clientVars, reportVars
    <2> QED
      BY <1>3, <2>4, <2>5, <2>6, <2>7, ValuesByLayout DEF v
  <1> QED
    BY <1>7, <1>8

(* Whatever the device writes and however its packets arrive, the client   *)
(* moves only as AirPodsCoreClient lets it, when the device may report     *)
(* either value of conversational awareness.                               *)
THEOREM StreamImplementsClient ==
    ASSUME CaReports = BOOLEAN
    PROVE  Spec => ImplementsClient
  <1>1. Init => ClientInit
    BY DEF Init
  <1>2. ASSUME StreamInv, [Next]_vars
        PROVE  [ClientNext]_clientVars
    <2>1. CASE Session
      BY <2>1, SessionSteps DEF ClientNext
    <2>2. CASE Acknowledges \/ Reports
      BY <1>2, <2>2, DeviceWrites DEF StreamInv, Sends
    <2>3. CASE Read
      BY <1>2, <2>3, ReadIsPacket DEF ClientNext
    <2>4. CASE UNCHANGED vars
      BY <2>4 DEF vars
    <2> QED
      BY <1>2, <2>1, <2>2, <2>3, <2>4 DEF Next
  <1> QED
    BY <1>1, <1>2, StreamInvariant, PTL DEF Spec, ImplementsClient, ClientSpec

(* So what is proved of every client holds of the one that reads bytes: a  *)
(* ready protocol has had its handshake and its features request answered  *)
(* on the very socket it is ready on, even with both replies in one read.  *)
THEOREM BytesReadyAfterHandshake ==
    ASSUME CaReports = BOOLEAN
    PROVE  Spec => []ReadyAfterHandshake
  BY StreamImplementsClient, ReadyNeedsHandshake DEF ImplementsClient
============================================================================
