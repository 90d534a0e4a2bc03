------------------------ MODULE MCAirPodsCoreClient ------------------------
(***************************************************************************)
(* Values for the constants of AirPodsCoreClient.                          *)
(***************************************************************************)
EXTENDS AirPodsCoreClient

CONSTANTS d1, d2

MCEars == {[primary |-> "InEar", secondary |-> "NotInEar"],
           [primary |-> "InCase", secondary |-> "Disconnected"]}
=============================================================================
