---------------------------- MODULE BatteryProofs ----------------------------
(***************************************************************************)
(* Theorems about Battery, for every set of packets the device may send.   *)
(***************************************************************************)
EXTENDS Battery, TLAPS

(* a packet parsePacket may see: one entry or three *)
LEMMA PacketTyped ==
    ASSUME NEW p \in Packets, Dispatched(p)
    PROVE  /\ DOMAIN p.entries \in {1..1, 1..3}
           /\ \A i \in DOMAIN p.entries : p.entries[i] \in Entry
  <1>1. p.entries \in Seq(Entry)
    BY BatteryAssumption
  <1>2. DOMAIN p.entries = 1..Len(p.entries)
    BY <1>1
  <1>3. \A i \in 1..Len(p.entries) : p.entries[i] \in Entry
    BY <1>1
  <1>4. Len(p.entries) = 1 \/ Len(p.entries) = 3
    BY DEF Dispatched
  <1> QED
    BY <1>2, <1>3, <1>4

LEMMA LastPicks ==
    ASSUME NEW S \in SUBSET (1..3), S # {}
    PROVE  Last(S) \in S
  <1>1. \E i \in S : \A j \in S : j <= i
    <2>1. CASE 3 \in S
      BY <2>1
    <2>2. CASE 3 \notin S /\ 2 \in S
      BY <2>2
    <2>3. CASE 3 \notin S /\ 2 \notin S
      <3>1. PICK i \in S : TRUE
        OBVIOUS
      <3>2. \A j \in S : j = 1
        BY <2>3
      <3>3. 1 \in S
        BY <3>1, <3>2
      <3> QED
        BY <3>2, <3>3
    <2> QED
      BY <2>1, <2>2, <2>3
  <1> QED
    BY <1>1 DEF Last

LEMMA FirstPicks ==
    ASSUME NEW S \in SUBSET (1..3), S # {}
    PROVE  First(S) \in S
  <1>1. \E i \in S : \A j \in S : i <= j
    <2>1. CASE 1 \in S
      BY <2>1
    <2>2. CASE 1 \notin S /\ 2 \in S
      BY <2>2
    <2>3. CASE 1 \notin S /\ 2 \notin S
      <3>1. PICK i \in S : TRUE
        OBVIOUS
      <3>2. \A j \in S : j = 3
        BY <2>3
      <3>3. 3 \in S
        BY <3>1, <3>2
      <3> QED
        BY <3>2, <3>3
    <2> QED
      BY <2>1, <2>2, <2>3
  <1> QED
    BY <1>1 DEF First

(* What the last level-carrying entry of a component brings is a typed     *)
(* level among those of the packet.                                        *)
LEMMA LevelTaken ==
    ASSUME NEW p \in Packets, Dispatched(p), NEW c \in Component, Carries(p, c) # {}
    PROVE  LET e == p.entries[Last(Carries(p, c))]
           IN  /\ e \in Entry
               /\ e.status # "Disconnected"
               /\ <<c, e.level>> \in LevelsIn(p)
  <1>1. Carries(p, c) \in SUBSET (1..3)
    BY PacketTyped DEF Carries
  <1>2. Last(Carries(p, c)) \in Carries(p, c)
    BY <1>1, LastPicks
  <1>3. p.entries[Last(Carries(p, c))] \in Entry
    BY <1>2, PacketTyped DEF Carries
  <1>4. /\ p.entries[Last(Carries(p, c))].type = c
        /\ p.entries[Last(Carries(p, c))].status # "Disconnected"
    BY <1>2 DEF Carries
  <1>5. Last(Carries(p, c)) \in UNION {Carries(p, d) : d \in Component}
    BY <1>2
  <1>6. <<p.entries[Last(Carries(p, c))].type, p.entries[Last(Carries(p, c))].level>>
            \in LevelsIn(p)
    BY <1>5 DEF LevelsIn
  <1> QED
    BY <1>3, <1>4, <1>6

LEMMA LevelsTyped ==
    ASSUME NEW p \in Packets, Dispatched(p)
    PROVE  LevelsIn(p) \subseteq Component \X Byte
  <1>1. \A c \in Component : \A i \in Carries(p, c) :
            p.entries[i] \in Entry /\ p.entries[i].type \in Component
    BY PacketTyped DEF Carries
  <1>2. \A i \in UNION {Carries(p, c) : c \in Component} :
            p.entries[i].type \in Component /\ p.entries[i].level \in Byte
    BY <1>1 DEF Entry
  <1> QED
    BY <1>2 DEF LevelsIn

(* The battery's variables keep their types whatever packets arrive        *)
(* (parsePacket, reset).                                                   *)
THEOREM BatteryTypeCorrect == BatterySpec => []BatteryTypeOK
  <1>1. BatteryInit => BatteryTypeOK
    BY DEF BatteryInit, BatteryTypeOK, Unknown, BatteryState, BatteryStatus, Byte
  <1>2. ASSUME BatteryTypeOK, BatteryNext
        PROVE  BatteryTypeOK'
    <2>1. PICK p \in Packets : Dispatched(p) /\ ParsePacket(p)
      BY <1>2 DEF BatteryNext
    <2>2. CASE ~WellFormed(p)
      BY <1>2, <2>1, <2>2 DEF ParsePacket, batteryVars, BatteryTypeOK
    <2>3. CASE WellFormed(p)
      <3>1. states' \in [Component -> BatteryState]
        <4>1. ASSUME NEW c \in Component
              PROVE  (IF Carries(p, c) = {} THEN states[c]
                      ELSE LET e == p.entries[Last(Carries(p, c))]
                           IN  [level |-> e.level, status |-> e.status]) \in BatteryState
          <5>1. CASE Carries(p, c) = {}
            BY <1>2, <5>1 DEF BatteryTypeOK
          <5>2. CASE Carries(p, c) # {}
            BY <2>1, <5>2, LevelTaken DEF Entry, BatteryState
          <5> QED
            BY <5>1, <5>2
        <4> QED
          BY <2>1, <2>3, <4>1 DEF ParsePacket, NewStates
      <3>2. \A S \in {PodsIn(p), OtherPodsIn(p)} :
                S # {} => p.entries[First(S)].type \in Pods
        <4>1. \A S \in {PodsIn(p), OtherPodsIn(p)} : S \subseteq PodsIn(p)
          BY DEF OtherPodsIn
        <4>2. PodsIn(p) \in SUBSET (1..3)
          BY <2>1, PacketTyped DEF PodsIn
        <4>3. \A S \in {PodsIn(p), OtherPodsIn(p)} : S # {} => First(S) \in PodsIn(p)
          BY <4>1, <4>2, FirstPicks
        <4> QED
          BY <4>3 DEF PodsIn
      <3>3. primaryPod' \in Pods \union {"Unset"} /\ secondaryPod' \in Pods \union {"Unset"}
        BY <1>2, <2>1, <2>3, <3>2 DEF ParsePacket, BatteryTypeOK
      <3>4. reported' \subseteq Component \X Byte
        BY <1>2, <2>1, <2>3, LevelsTyped DEF ParsePacket, BatteryTypeOK
      <3> QED
        BY <3>1, <3>3, <3>4 DEF BatteryTypeOK
    <2> QED
      BY <2>2, <2>3
  <1>3. BatteryTypeOK /\ UNCHANGED batteryVars => BatteryTypeOK'
    BY DEF BatteryTypeOK, batteryVars
  <1> QED
    BY <1>1, <1>2, <1>3, PTL DEF BatterySpec

(* What one accepted packet does to one component: it keeps its state or   *)
(* takes a level from the packet.                                          *)
LEMMA ComponentStep ==
    ASSUME NEW p \in Packets, Dispatched(p), ParsePacket(p), WellFormed(p),
           NEW c \in Component
    PROVE  \/ states'[c] = states[c]
           \/ /\ states'[c].status # "Disconnected"
              /\ <<c, states'[c].level>> \in reported'
  <1>1. states'[c] = IF Carries(p, c) = {} THEN states[c]
                     ELSE LET e == p.entries[Last(Carries(p, c))]
                          IN  [level |-> e.level, status |-> e.status]
    BY DEF ParsePacket, NewStates
  <1>2. LevelsIn(p) \subseteq reported'
    BY DEF ParsePacket
  <1>3. CASE Carries(p, c) = {}
    BY <1>1, <1>3
  <1>4. CASE Carries(p, c) # {}
    <2> DEFINE e == p.entries[Last(Carries(p, c))]
    <2>1. e.status # "Disconnected" /\ <<c, e.level>> \in LevelsIn(p)
      BY <1>4, LevelTaken
    <2>2. states'[c] = [level |-> e.level, status |-> e.status]
      BY <1>1, <1>4
    <2> QED
      BY <1>2, <2>1, <2>2
  <1> QED
    BY <1>3, <1>4

(* A level in the state file is one the device sent for that component in  *)
(* a packet without a fault (parsePacket replaces states only when the     *)
(* whole packet has passed).                                               *)
THEOREM ShownCorrect == BatterySpec => []ShownWasReported
  <1>1. BatteryInit => ShownWasReported
    BY DEF BatteryInit, ShownWasReported, BatteryValue, Unknown
  <1>2. ASSUME ShownWasReported, BatteryNext
        PROVE  ShownWasReported'
    <2>1. PICK p \in Packets : Dispatched(p) /\ ParsePacket(p)
      BY <1>2 DEF BatteryNext
    <2>2. CASE ~WellFormed(p)
      BY <1>2, <2>1, <2>2 DEF ParsePacket, batteryVars, ShownWasReported, BatteryValue
    <2>3. CASE WellFormed(p)
      <3> SUFFICES ASSUME NEW c \in Component, BatteryValue(c)' # NoLevel
                   PROVE  <<c, BatteryValue(c)'>> \in reported'
        BY DEF ShownWasReported
      <3>1. reported \subseteq reported'
        BY <2>1, <2>3 DEF ParsePacket
      <3>2. CASE states'[c] = states[c]
        BY <1>2, <3>1, <3>2 DEF ShownWasReported, BatteryValue
      <3>3. CASE states'[c].status # "Disconnected" /\ <<c, states'[c].level>> \in reported'
        BY <3>3 DEF BatteryValue
      <3> QED
        BY <2>1, <2>3, <3>2, <3>3, ComponentStep
    <2> QED
      BY <2>2, <2>3
  <1>3. ShownWasReported /\ UNCHANGED batteryVars => ShownWasReported'
    BY DEF ShownWasReported, BatteryValue, batteryVars
  <1> QED
    BY <1>1, <1>2, <1>3, PTL DEF BatterySpec

(* A component once seen never loses its level, and only a reported level  *)
(* replaces the one shown (parsePacket skips entries without a level).     *)
THEOREM LevelsKept == BatterySpec => LastLevelKept
  <1> DEFINE Kept ==
        \A c \in Component : BatteryValue(c) # NoLevel =>
            BatteryValue(c)' # NoLevel /\
            (BatteryValue(c)' # BatteryValue(c) => <<c, BatteryValue(c)'>> \in reported')
  <1>1. ASSUME BatteryTypeOK', BatteryNext
        PROVE  Kept
    <2>1. PICK p \in Packets : Dispatched(p) /\ ParsePacket(p)
      BY <1>1 DEF BatteryNext
    <2>2. CASE ~WellFormed(p)
      BY <2>1, <2>2 DEF ParsePacket, batteryVars, BatteryValue
    <2>3. CASE WellFormed(p)
      <3> SUFFICES ASSUME NEW c \in Component, BatteryValue(c) # NoLevel
                   PROVE  /\ BatteryValue(c)' # NoLevel
                          /\ BatteryValue(c)' # BatteryValue(c) =>
                                <<c, BatteryValue(c)'>> \in reported'
        OBVIOUS
      <3>1. CASE states'[c] = states[c]
        BY <3>1 DEF BatteryValue
      <3>2. CASE states'[c].status # "Disconnected" /\ <<c, states'[c].level>> \in reported'
        <4>1. BatteryValue(c)' = states'[c].level
          BY <3>2 DEF BatteryValue
        <4>2. states'[c].level \in Byte
          BY <1>1 DEF BatteryTypeOK, BatteryState
        <4> QED
          BY <3>2, <4>1, <4>2, BatteryAssumption
      <3> QED
        BY <2>1, <2>3, <3>1, <3>2, ComponentStep
    <2> QED
      BY <2>2, <2>3
  <1>2. BatteryTypeOK' /\ [BatteryNext]_batteryVars => [Kept]_batteryVars
    BY <1>1
  <1> QED
    BY <1>2, BatteryTypeCorrect, PTL DEF BatterySpec, LastLevelKept
==============================================================================
