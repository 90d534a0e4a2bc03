--------------------------- MODULE MCPacketStream ---------------------------
(***************************************************************************)
(* Values for the constants of PacketStream.                               *)
(***************************************************************************)
EXTENDS PacketStream

MCEars == {[primary |-> "InEar", secondary |-> "NotInEar"]}

(* values out of range, a control packet cut short, one hearing aid byte,  *)
(* an unknown event, metadata, one battery                                 *)
MCMute ==
    {CreateCommand(13, 128, 0), CreateCommand(40, 3, 0), CaHeader, CreateCommand(44, 1, 0),
     CaEventHeader \o <<7>>, Metadata \o <<0, 0>>, BatteryStatus \o <<1, 1, 1, 90, 2, 1>>}
=============================================================================
