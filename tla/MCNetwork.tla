----------------------------- MODULE MCNetwork -----------------------------
(* The requests that the client is able to answer for. *)
EXTENDS Network

MCOutcomes ==
    [type \in RequestType |->
        CASE type \in Counts -> {Count(2)}
          [] type \in Predicates -> {Answer(TRUE), Answer(FALSE)}
          [] type = "ADD_EDGE" -> {Answer(TRUE)}
          [] type \in Updates \ {"ADD_EDGE"} -> {Answer(TRUE), Answer(FALSE), Unsupported}
          [] type = "BATCH_PLAIN_FORCE_NO" -> {Answer(TRUE), Answer(FALSE)}
          [] type = "BATCH_PLAIN_FORCE_YES" -> {Answer(TRUE), Timeout}
          [] type \in {"PAGERANK", "WCC"} -> {Void, Unsupported, Timeout}
          [] type \in Kernels \ {"PAGERANK", "WCC"} -> {Void, Unsupported, Timeout, Error}
          [] type = "LOAD" -> {Void, Unsupported, Error}
          [] type = "BUILD" -> {Void, Unsupported}
          [] type \in {"LIBRARY_NAME", "DUMP_CLIENT"} -> {Name("text")}
          [] type = "GET_WEIGHT" -> {Weight(3)}
          [] OTHER -> {Void}]

MCThreads == {-1, 0, 1}
=============================================================================
