------------------------------ MODULE MCBattery ------------------------------
(***************************************************************************)
(* Packets for Battery: three entries in the orders the pods come in, with *)
(* one of them broken or none, single entries, and wrong counts.           *)
(***************************************************************************)
EXTENDS Battery

E(t, l, s, f) == [type |-> t, level |-> l, status |-> s, framed |-> f]

Orders == {<<"Left", "Right", "Case">>, <<"Right", "Left", "Case">>,
           <<"Left", "Left", "Unnamed">>}

Levels == {0, 80}

Statuses == {"Charging", "Disconnected"}

Three == {[count |-> n, entries |-> [i \in 1..3 |-> E(o[i], l, s[i], i # bad)]] :
             o \in Orders, l \in Levels, s \in [1..3 -> Statuses],
             bad \in {0, 1, 3}, n \in {3}}

One == {[count |-> 1, entries |-> <<E(t, l, s, TRUE)>>] :
             t \in {"Headset", "Right", "Case"}, l \in Levels, s \in Statuses}

Refused == {[count |-> 2, entries |-> <<E("Left", 80, "Charging", TRUE)>>],
            [count |-> 2, entries |-> <<E("Left", 80, "Charging", TRUE),
                                        E("Right", 80, "Charging", TRUE)>>]}

MCPackets == Three \union One \union Refused
=============================================================================
