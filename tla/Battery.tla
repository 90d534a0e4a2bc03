------------------------------- MODULE Battery -------------------------------
(***************************************************************************)
(* The battery levels of src/linux/include/librepods/battery.hpp, as the   *)
(* packets dispatched by AirPodsCoreClient::parseData change them and as   *)
(* the daemon's batteryValue shows them in the state file.                 *)
(*                                                                         *)
(* A packet is the count byte and the component entries that follow it; an *)
(* entry is framed when its spacer and end bytes are right.  A type byte   *)
(* the enumeration does not name is "Unnamed": the map gets an entry that  *)
(* nothing reads.                                                          *)
(***************************************************************************)
EXTENDS Naturals, Sequences, FiniteSets

CONSTANTS
    Packets,    \* the battery packets the device may send
    NoLevel     \* JSON's null

Component == {"Headset", "Right", "Left", "Case"}
Pods      == {"Headset", "Right", "Left"}

BatteryStatus == {"Charging", "Discharging", "Disconnected", "Invalid"}

Byte == 0..255

BatteryState == [level : Byte, status : BatteryStatus]

Entry == [type : Component \union {"Unnamed"}, level : Byte,
          status : BatteryStatus, framed : BOOLEAN]

ASSUME BatteryAssumption ==
    /\ NoLevel \notin Byte
    /\ \A p \in Packets : p.count \in Byte /\ p.entries \in Seq(Entry)

VARIABLES
    states,         \* states
    primaryPod,     \* primaryPod
    secondaryPod,   \* secondaryPod
    reported        \* history: <<component, level>> of the accepted packets

batteryVars == <<states, primaryPod, secondaryPod, reported>>

Unknown == [level |-> 0, status |-> "Disconnected"]

(* reset(), called by the constructor only.  The pods are not initialized; *)
(* nothing reads them before a packet sets them.                           *)
BatteryInit ==
    /\ states = [c \in Component |-> Unknown]
    /\ primaryPod = "Unset"
    /\ secondaryPod = "Unset"
    /\ reported = {}

(* The values the variables of the battery take. *)
BatteryTypeOK ==
    /\ states \in [Component -> BatteryState]
    /\ primaryPod \in Pods \union {"Unset"}
    /\ secondaryPod \in Pods \union {"Unset"}
    /\ reported \subseteq Component \X Byte

(* parseData hands over packets of 22 and 12 bytes: three entries or one *)
Dispatched(p) == Len(p.entries) \in {3, 1}

(* the checks of parsePacket *)
WellFormed(p) ==
    /\ p.count <= 3
    /\ p.count = Len(p.entries)
    /\ \A i \in DOMAIN p.entries : p.entries[i].framed

(* a faulty variant: an entry without a level is taken over as well *)
CarriesOrNot(p, c) == {i \in DOMAIN p.entries : p.entries[i].type = c}

(* the entries that carry a level for c *)
Carries(p, c) ==
    {i \in DOMAIN p.entries : p.entries[i].type = c /\ p.entries[i].status # "Disconnected"}

Last(S) == CHOOSE i \in S : \A j \in S : j <= i

First(S) == CHOOSE i \in S : \A j \in S : i <= j

(* the levels an accepted packet brings *)
LevelsIn(p) ==
    {<<p.entries[i].type, p.entries[i].level>> :
        i \in UNION {Carries(p, c) : c \in Component}}

(* the last entry of a component wins; one without a level keeps the old one *)
NewStates(p) ==
    [c \in Component |->
        IF Carries(p, c) = {} THEN states[c]
        ELSE LET e == p.entries[Last(Carries(p, c))]
             IN  [level |-> e.level, status |-> e.status]]

(* a faulty variant: any component is taken for a pod *)
AllIn(p) == DOMAIN p.entries

PodsIn(p) == {i \in DOMAIN p.entries : p.entries[i].type \in Pods}

OtherPodsIn(p) == {i \in PodsIn(p) : \E j \in PodsIn(p) : j < i}

(* a faulty variant: entries are stored before the whole packet is checked *)
ParsePacketInPlace(p) ==
    /\ p.count = Len(p.entries)
    /\ states' = NewStates(p)
    /\ UNCHANGED <<primaryPod, secondaryPod>>
    /\ reported' = IF WellFormed(p) THEN reported \union LevelsIn(p) ELSE reported

(* A packet that fails a check leaves everything as it was. *)
ParsePacket(p) ==
    \/ ~WellFormed(p) /\ UNCHANGED batteryVars
    \/ /\ WellFormed(p)
       /\ states' = NewStates(p)
       /\ primaryPod' = IF PodsIn(p) = {} THEN primaryPod
                        ELSE p.entries[First(PodsIn(p))].type
       /\ secondaryPod' = IF OtherPodsIn(p) = {} THEN secondaryPod
                          ELSE p.entries[First(OtherPodsIn(p))].type
       /\ reported' = reported \union LevelsIn(p)

BatteryNext == \E p \in Packets : Dispatched(p) /\ ParsePacket(p)

BatterySpec == BatteryInit /\ [][BatteryNext]_batteryVars

----------------------------------------------------------------------------
(* what the state file shows *)
BatteryValue(c) ==
    IF states[c].status = "Disconnected" THEN NoLevel ELSE states[c].level

(* Every level the state file shows was sent for that component in a       *)
(* packet that passed all its checks: a packet with one broken entry       *)
(* leaves no trace (parsePacket works on a copy of states).                *)
ShownWasReported ==
    \A c \in Component : BatteryValue(c) # NoLevel => <<c, BatteryValue(c)>> \in reported

(* A component that was seen once keeps showing its last level, however    *)
(* many later packets call it disconnected or leave it out: a pod put back *)
(* into a closed case does not lose its level.                             *)
LastLevelKept ==
    [][\A c \in Component : BatteryValue(c) # NoLevel =>
            BatteryValue(c)' # NoLevel /\
            (BatteryValue(c)' # BatteryValue(c) => <<c, BatteryValue(c)'>> \in reported')]_batteryVars
=============================================================================
