------------------------------ MODULE Dialling ------------------------------
(***************************************************************************)
(* How long vibepods-daemon takes to get a session: syncBluezState at      *)
(* every BlueZ poll and at SIGUSR1, on the client of AirPodsCoreClient,    *)
(* with time.  Every poll that finds the target connected in BlueZ and the *)
(* socket not connected calls connectToDevice, which abandons an attempt   *)
(* that is under way.                                                      *)
(*                                                                         *)
(* One device, which stays the target.  Time passes in Tick, in units of   *)
(* which PollInterval, DialTime and ReplyTime are multiples; handlers take *)
(* none.  What the device reports is left out: it matters only in that a   *)
(* reply read together with a report is lost, see ReplyTime.               *)
(***************************************************************************)
EXTENDS AirPodsCoreClient

CONSTANTS
    Device,        \* the target
    BusResults,    \* may the D-Bus query succeed (TRUE), fail (FALSE)
    PollInterval,  \* --bluez-poll
    DialTime,      \* a connection attempt that succeeds takes at most this
    ReplyTime      \* and a reply to a set-up packet this: no reply is lost
                   \* behind a report that readAll joins it to

ASSUME DiallingAssumption ==
    /\ Device \in Macs
    /\ BusResults \subseteq BOOLEAN
    /\ PollInterval \in Nat \ {0}
    /\ DialTime \in Nat
    /\ ReplyTime \in Nat

(* Without it the poll can abandon every attempt. *)
ASSUME PollSlowerThanDial == DialTime < PollInterval

VARIABLES
    up,      \* environment: BlueZ has the device connected
    bluezConnected,  \* what the last syncBluezState saw of that
    poll,    \* time to the next timeout of bluezPollTimer_
    age,     \* time since the attempt, or the wait for a reply, began
    wedged,  \* history: a set-up packet could not be written on this socket
    quiet    \* history: time since the last disturbance, up to Bound + 1

timeVars == <<up, bluezConnected, poll, age, wedged, quiet>>
vars     == <<clientVars, timeVars>>

(* a poll interval, an attempt, two replies *)
Bound == PollInterval + DialTime + ReplyTime + ReplyTime

AwaitsReply == IsConnected /\ ~protocolReady /\ ~wedged

(* The values the variables take; no attempt and no reply takes longer     *)
(* than assumed.                                                           *)
DiallingTypeOK ==
    /\ ClientTypeOK
    /\ up \in BOOLEAN /\ bluezConnected \in BOOLEAN /\ wedged \in BOOLEAN
    /\ poll \in 0..PollInterval
    /\ age \in Nat
    /\ sock = "connecting" => age <= DialTime
    /\ AwaitsReply => age <= ReplyTime
    /\ quiet \in 0..(Bound + 1)

(* start() synchronises at once *)
Init ==
    /\ ClientInit
    /\ up \in BOOLEAN
    /\ poll = 0 /\ age = 0 /\ quiet = 0
    /\ bluezConnected = FALSE /\ wedged = FALSE

----------------------------------------------------------------------------
(* syncBluezState. *)

Disturbed(b) == quiet' = IF b THEN 0 ELSE quiet

(* a faulty variant: a session that is not ready yet is dialled again *)
WantsDialUnlessReady(seen) == seen /\ ~(IsConnected /\ protocolReady)

WantsDial(seen) == seen /\ ~IsConnected

(* A failed query and an attempt that fails at once are disturbances. *)
SyncBluezState(disturbed) ==
    \E busOk \in BusResults :
    LET seen == busOk /\ up
    IN  /\ bluezConnected' = seen
        /\ \/ /\ WantsDial(seen)
              /\ \E r \in DialResults :
                   /\ ConnectToDevice(Device, "sync", r)
                   /\ Disturbed(disturbed \/ r = "closed")
              /\ age' = 0 /\ wedged' = FALSE
           \/ /\ ~seen /\ IsConnected
              /\ DisconnectFromDevice("sync")
              /\ Disturbed(TRUE)
              /\ age' = 0 /\ wedged' = FALSE
           \/ /\ ~WantsDial(seen) /\ (seen \/ ~IsConnected)
              /\ Disturbed(disturbed \/ ~busOk)
              /\ UNCHANGED <<clientVars, age, wedged>>

(* a faulty variant: the timer is started one unit late *)
PollLate ==
    /\ poll = 0
    /\ poll' = PollInterval + 1
    /\ SyncBluezState(FALSE)
    /\ UNCHANGED up

Poll ==
    /\ poll = 0
    /\ poll' = PollInterval
    /\ SyncBluezState(FALSE)
    /\ UNCHANGED up

(* SIGUSR1.  A snapshot that is asked for changes nothing here, and then   *)
(* syncBluezState is not called; without a session that could answer one,  *)
(* or when its packet cannot be written, it is.                            *)
CanSnapshot == bluezConnected /\ IsConnected /\ protocolReady

RefreshNow ==
    /\ CanSnapshot => FALSE \in WriteResults
    /\ SyncBluezState(TRUE)
    /\ UNCHANGED <<up, poll>>

----------------------------------------------------------------------------
(* The socket and the device. *)

SocketConnected ==
    \E w \in WriteResults :
        /\ OnSocketConnected(w)
        /\ wedged' = ~w
        /\ age' = 0
        /\ UNCHANGED <<up, bluezConnected, poll, quiet>>

HandshakeAck ==
    /\ AwaitsReply /\ setup = {"handshake"}
    /\ \E w \in WriteResults :
        /\ OnHandshakeAck(w)
        /\ wedged' = ~w
        /\ age' = 0
        /\ UNCHANGED <<up, bluezConnected, poll, quiet>>

(* ready even when the notifications request could not be written *)
FeaturesAck ==
    /\ AwaitsReply
    /\ \E w \in WriteResults : OnFeaturesAck(w)
    /\ age' = 0
    /\ UNCHANGED <<up, bluezConnected, poll, quiet, wedged>>

SocketGone ==
    /\ OnSocketDisconnected \/ OnSocketError
    /\ age' = 0 /\ wedged' = FALSE
    /\ Disturbed(TRUE)
    /\ UNCHANGED <<up, bluezConnected, poll>>

BluezChange ==
    /\ up' = ~up
    /\ Disturbed(TRUE)
    /\ UNCHANGED <<clientVars, bluezConnected, poll, age, wedged>>

----------------------------------------------------------------------------
Tick ==
    /\ poll > 0
    /\ sock = "connecting" => age < DialTime
    /\ AwaitsReply => age < ReplyTime
    /\ poll' = poll - 1
    /\ age' = IF sock = "connecting" \/ AwaitsReply THEN age + 1 ELSE age
    /\ quiet' = IF quiet <= Bound THEN quiet + 1 ELSE quiet
    /\ UNCHANGED <<clientVars, up, bluezConnected, wedged>>

Next ==
    \/ Poll \/ RefreshNow \/ BluezChange
    \/ SocketConnected \/ HandshakeAck \/ FeaturesAck \/ SocketGone
    \/ Tick

Spec == Init /\ [][Next]_vars

----------------------------------------------------------------------------
(* How far a session is, told by how long nothing has disturbed it.  Only  *)
(* an attempt that SIGUSR1 began can be cut short by a poll.               *)
Progress ==
    up => \/ sock \in {"null", "closed"} /\ quiet + poll <= PollInterval
          \/ sock = "connecting" /\ quiet <= age
          \/ /\ sock = "connecting"
             /\ poll + age = PollInterval /\ quiet <= PollInterval + age
          \/ IsConnected /\ (protocolReady \/ wedged)
          \/ /\ AwaitsReply /\ setup = {"handshake"}
             /\ quiet <= PollInterval + DialTime + age
          \/ /\ AwaitsReply /\ setup = {"handshake", "features"}
             /\ quiet <= PollInterval + DialTime + ReplyTime + age

(* The daemon reaches a device: when BlueZ has had it connected for Bound  *)
(* and nothing got in the way (a failed query, a lost link, a refused      *)
(* attempt, SIGUSR1), its session is ready.  There is one exception: after *)
(* a set-up packet that could not be written the socket stays connected,   *)
(* so that no poll dials again and nothing makes the protocol ready.  A    *)
(* features reply that parseData loses behind a report of the same read    *)
(* would leave the same socket; that every reply is read on its own and in *)
(* time is assumed (ReplyTime).                                            *)
ReadyInTime ==
    up /\ quiet > Bound => IsConnected /\ (protocolReady \/ wedged)
============================================================================
