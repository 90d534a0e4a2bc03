---------------------------- MODULE RequestReply ----------------------------
(***************************************************************************)
(* What vibepods-daemon promises the CLI processes on its control socket,  *)
(* without the slot, the timers and the session it takes to keep it: each  *)
(* request is answered at most once, one request is worked on at a time,   *)
(* ok to a command means that the record agrees with it at that moment,    *)
(* and no connection ends without an answer while the daemon runs.         *)
(*                                                                         *)
(* VibepodsDaemon implements this (KeepsPromise there).                    *)
(***************************************************************************)
CONSTANTS
    Clients,   \* CLI processes
    Requests,  \* what they ask
    NoReq,     \* what an idle one asks
    Records,   \* what the daemon may have on record of the device
    NoRecord   \* no session is ready

VARIABLES
    up,      \* a daemon runs
    record,  \* what it has on record
    conn     \* the connection of each CLI process

vars == <<up, record, conn>>

Idle == [st |-> "idle", req |-> NoReq]

Init ==
    /\ up = FALSE
    /\ record = NoRecord
    /\ conn = [c \in Clients |-> Idle]

----------------------------------------------------------------------------
(* The CLI: asks, gives up, or takes note of how it ended. *)

Ask(c) ==
    /\ up /\ conn[c] = Idle
    /\ \E r \in Requests : conn' = [conn EXCEPT ![c] = [st |-> "sent", req |-> r]]
    /\ UNCHANGED <<up, record>>

Leave(c) ==
    /\ up
    /\ \/ conn[c].st = "sent" /\ conn' = [conn EXCEPT ![c].st = "left"]
       \/ conn[c].st = "waiting" /\ conn' = [conn EXCEPT ![c] = Idle]
    /\ UNCHANGED <<up, record>>

Done(c) ==
    /\ conn[c].st \in {"ok", "err", "lost"}
    /\ conn' = [conn EXCEPT ![c] = Idle]
    /\ UNCHANGED <<up, record>>

----------------------------------------------------------------------------
(* The daemon: one callback. *)

(* ok is given to what the record then confirms *)
Confirmed(req) ==
    /\ req.cmd # "other"
    /\ req.cmd = "mode" => record' # NoRecord /\ record'.mode = req.mode
    /\ req.cmd = "ca"   => record' # NoRecord /\ record'.ca = req.on

Becomes(c, st) == conn'[c] = [conn[c] EXCEPT !.st = st]

Settled(c) ==
    \/ Becomes(c, "err")
    \/ Becomes(c, "ok") /\ Confirmed(conn[c].req)

(* a request that is read is answered, or accepted; nobody sees what       *)
(* becomes of that of a CLI that has left                                  *)
Taken(c) ==
    \/ conn[c].st = "sent" /\ (Settled(c) \/ Becomes(c, "waiting"))
    \/ conn[c].st = "left" /\ conn'[c] = Idle

Serve ==
    /\ up /\ up'
    /\ record' \in Records \union {NoRecord}
    /\ DOMAIN conn' = Clients
    /\ \A c \in Clients :
        \/ conn'[c] = conn[c]
        \/ conn[c].st = "waiting" /\ Settled(c)
        \/ Taken(c)
    /\ \A c, d \in Clients : Taken(c) /\ Taken(d) => c = d
    /\ \A c, d \in Clients :
        conn'[c].st = "waiting" /\ conn'[d].st = "waiting" => c = d

Start ==
    /\ ~up /\ up'
    /\ UNCHANGED <<record, conn>>

(* The daemon ends; who has no answer learns that much. *)
Ends ==
    /\ up /\ ~up'
    /\ record' = NoRecord
    /\ conn' = [c \in Clients |->
                  CASE conn[c].st \in {"sent", "waiting"} -> [conn[c] EXCEPT !.st = "lost"]
                    [] conn[c].st = "left"                -> Idle
                    [] OTHER                              -> conn[c]]

Next ==
    \/ \E c \in Clients : Ask(c) \/ Leave(c) \/ Done(c)
    \/ Serve \/ Start \/ Ends

Spec == Init /\ [][Next]_vars
============================================================================
