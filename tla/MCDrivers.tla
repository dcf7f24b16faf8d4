----------------------------- MODULE MCDrivers -----------------------------
(* The drivers, with small graphs. *)
EXTENDS Drivers

Undirected == {"livegraph", "gtx", "sortledton", "sortledton_v2", "teseo", "teseo_rv"}
Either == {"csr", "graphone", "graphone_dense", "llama", "llama_dv", "stinger", "stinger_dv", "adjacency_list"}
MayBeBlind == {"graphone", "graphone_dense", "llama_dv"}
MCDriverSet ==
    {[name |-> n, directed |-> FALSE, blind |-> FALSE] : n \in Undirected \cup Either}
    \cup {[name |-> n, directed |-> TRUE, blind |-> FALSE] : n \in Either \cup {"livegraph"}}
    \cup {[name |-> n, directed |-> b, blind |-> TRUE] : n \in MayBeBlind, b \in BOOLEAN}

(* A triangle, which updates may extend; a square with a diagonal and a    *)
(* tail; a broom, whose levels have 1, 1, 5, 1, 1, 1 and 1 vertices.       *)
Triangle == <<<<1, 2, 3>>, <<2, 3, 1>>, <<3, 1, 1>>>>
Kite == <<<<1, 2, 4>>, <<2, 3, 1>>, <<3, 4, 1>>, <<4, 1, 1>>, <<1, 3, 1>>, <<5, 4, 2>>>>
Broom == <<<<1, 2, 1>>, <<2, 3, 5>>, <<2, 4, 1>>, <<2, 5, 2>>, <<2, 6, 1>>, <<2, 7, 1>>,
           <<4, 3, 1>>, <<3, 8, 1>>, <<8, 9, 2>>, <<9, 10, 1>>, <<10, 11, 3>>>>
MCShapes == {[edges |-> Triangle, updates |-> 3], [edges |-> Kite, updates |-> 1],
             [edges |-> Broom, updates |-> 0]}
MCSparse == <<7, 3, 9, 5, 2, 4, 6, 8, 11, 10, 12>>
=============================================================================
