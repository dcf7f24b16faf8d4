---------------------------- MODULE MCGTXDriver ----------------------------
(* Instances of GTXDriver for TLC. *)
EXTENDS GTXDriver

Request(op, src, dst, weight) == [op |-> op, src |-> src, dst |-> dst, weight |-> weight]

(* Every operation, on edges whose source precedes the destination: the    *)
(* threads lock the entries of the dictionary in the same order.           *)
MCVertices == {1, 2, 3}
MCOrdered ==
    {Request("add_edge_v2", 1, 2, 1), Request("add_edge_v3", 2, 3, 1), Request("update_edge_v1", 1, 3, 1),
     Request("add_edge", 1, 2, 1), Request("remove_edge", 1, 2, 1),
     Request("get_weight", 1, 2, 1), Request("add_vertex", 2, 2, 1)}

(* A triangle, inserted by three threads. *)
MCTriangle ==
    {Request("add_edge_v2", 1, 2, 1), Request("add_edge_v2", 2, 3, 1), Request("add_edge_v2", 3, 1, 1)}

(* The same edge, with two weights. *)
MCWeights == {Request("add_edge_v3", 1, 2, 1), Request("add_edge_v3", 1, 2, 2)}
=============================================================================
