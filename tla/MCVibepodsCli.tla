---------------------------- MODULE MCVibepodsCli ----------------------------
(***************************************************************************)
(* Values for the constants of VibepodsCli.                                *)
(***************************************************************************)
EXTENDS VibepodsCli, TLC

CONSTANTS d1, d2

MCRank == d1 :> 1 @@ d2 :> 2

Line(cmd, m, noise, on) == [cmd |-> cmd, mac |-> m, mode |-> noise, on |-> on]

(* every command; the default values and others; a --mac, none, a bad one *)
MCCommands ==
    {Line("status", NoMac, "Off", FALSE), Line("status", BadMac, "Off", FALSE),
     Line("mode", NoMac, "Off", FALSE), Line("mode", d1, "Adaptive", FALSE),
     Line("ca", NoMac, "Off", TRUE), Line("ca", d1, "Off", FALSE),
     Line("connect", NoMac, "Off", FALSE), Line("connect", d2, "Off", FALSE),
     Line("disconnect", NoMac, "Off", FALSE), Line("disconnect", d1, "Off", FALSE),
     Line("disconnect", BadMac, "Off", FALSE)}

MCEars == {[primary |-> "InEar", secondary |-> "NotInEar"],
           [primary |-> "InEar", secondary |-> "InEar"],
           [primary |-> "Disconnected", secondary |-> "Disconnected"]}
=============================================================================
