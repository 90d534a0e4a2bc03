-------------------------- MODULE MCVibepodsDaemon --------------------------
(***************************************************************************)
(* Values for the constants of VibepodsDaemon.                             *)
(***************************************************************************)
EXTENDS VibepodsDaemon, TLC

CONSTANTS d1, d2, c1, c2

MCRankOne == d1 :> 1
MCRankTwo == d1 :> 1 @@ d2 :> 2

Ask(cmd, mac, m, on) == [cmd |-> cmd, mac |-> mac, mode |-> m, on |-> on]

AskStatus == Ask("status", NoMac, "Off", FALSE)
AskMode(m) == Ask("mode", NoMac, m, FALSE)
AskCa(on) == Ask("ca", NoMac, "Off", on)

(* one of each kind, so that commands of two CLIs meet in every order *)
MCRequests == {AskStatus, AskMode("Adaptive"), AskCa(TRUE)}

MCRequestsMac == {AskStatus, Ask("mode", d2, "Adaptive", FALSE), Ask("other", NoMac, "Off", FALSE)}

MCRequestsLive == {AskStatus, AskMode("Adaptive")}

MCNoEars == {}
MCEars == {[primary |-> "InEar", secondary |-> "NotInEar"]}
MCEarsTwo == {[primary |-> "InEar", secondary |-> "Disconnected"],
              [primary |-> "Disconnected", secondary |-> "Disconnected"]}

ClientSymmetry == Permutations({c1, c2})
=============================================================================
