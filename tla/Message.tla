------------------------------ MODULE Message ------------------------------
(***************************************************************************)
(* The messages between the network client and the server                  *)
(* (network/message.hpp): the types of the requests, what the server        *)
(* answers for each outcome of the library, and what the client makes of   *)
(* the answer.                                                             *)
(*                                                                         *)
(* An argument is stored in a word of eight bytes and read back as the     *)
(* type that the reader asks for.  The outcome of a call to the library is *)
(* a value, or how the call fails: "unsupported" (the interface is not     *)
(* implemented), "timeout" (TimeoutError) or "error" (any other Error).    *)
(***************************************************************************)
EXTENDS Integers, Sequences

Hooks == {"ON_MAIN_INIT", "ON_THREAD_INIT", "ON_THREAD_DESTROY", "ON_MAIN_DESTROY", "SET_TIMEOUT"}
Controls == {"TERMINATE_WORKER", "TERMINATE_SERVER", "TERMINATE_ON_LAST_CONNECTION"}
Counts == {"NUM_EDGES", "NUM_VERTICES"}
Predicates == {"IS_DIRECTED", "HAS_VERTEX", "HAS_EDGE"}
Updates == {"ADD_VERTEX", "REMOVE_VERTEX", "ADD_EDGE", "REMOVE_EDGE"}
Batches == {"BATCH_PLAIN_FORCE_NO", "BATCH_PLAIN_FORCE_YES"}
Answers == Predicates \cup Updates \cup Batches    \* the requests for a Boolean
Texts == {"LIBRARY_NAME", "DUMP_CLIENT"}          \* ... and for a string
Kernels == {"BFS", "PAGERANK", "WCC", "CDLP", "LCC", "SSSP"}
RequestType ==
    Hooks \cup Controls \cup Counts \cup Answers \cup Texts \cup Kernels
    \cup {"GET_WEIGHT", "LOAD", "BUILD", "DUMP_FILE"}

(* store_single_arg: a Boolean is an unsigned integer. *)
Integral(n) == [rep |-> "integral", bits |-> n]
Bool(b) == Integral(IF b THEN 1 ELSE 0)
Text(t) == [rep |-> "text", bits |-> 1, text |-> t]    \* the word is the length

(* retrieve_single_arg: the bits of an integer are not those of the same   *)
(* number in floating point.                                               *)
Reinterpreted == "the bits of an integer read as a double"
GetBool(word) == word.bits # 0
GetDouble(word) == IF word.rep = "double" THEN word.bits ELSE Reinterpreted

Unsupported == [failed |-> "unsupported"]
Timeout == [failed |-> "timeout"]
Error == [failed |-> "error"]
Void == [void |-> "void"]
Answer(b) == [answer |-> b]
Count(n) == [count |-> n]
Weight(w) == [weight |-> w]
Name(t) == [name |-> t]

(* ResponseType, and the argument of the response. *)
OK(args) == [type |-> "OK", args |-> args]
Failure(type) == [type |-> type, args |-> IF type = "ERROR" THEN <<Text("what")>> ELSE <<>>]

(* handle_request, for the requests to the library: GET_WEIGHT converts    *)
(* the weight, here in halves, to an integer; DUMP_FILE has no case.       *)
Reply(type, outcome) ==
    IF type = "DUMP_FILE" \/ outcome = Error THEN Failure("ERROR")
    ELSE IF outcome = Unsupported THEN Failure("NOT_SUPPORTED")
    ELSE IF outcome = Timeout THEN Failure("TIMEOUT")
    ELSE CASE type \in Counts                  -> OK(<<Integral(outcome.count)>>)
           [] type \in Answers                 -> OK(<<Bool(outcome.answer)>>)
           [] type = "GET_WEIGHT"              -> OK(<<Integral(outcome.weight \div 2)>>)
           [] type \in Texts                   -> OK(<<Text(outcome.name)>>)
           [] OTHER                            -> OK(<<>>)

(* The methods of Client: the answers that each one tells apart from OK,   *)
(* the exceptions they become, and the value returned.  What is left is up *)
(* to assert(response()->type() == ResponseType::OK).                      *)
Handles(type) ==
    (IF type \in Updates \cup Kernels \cup {"LOAD", "BUILD"} THEN {"NOT_SUPPORTED"} ELSE {})
    \cup (IF type \in (Kernels \ {"PAGERANK", "WCC"}) \cup {"LOAD"} THEN {"ERROR"} ELSE {})
    \cup (IF type \in Kernels \cup Batches THEN {"TIMEOUT"} ELSE {})

Throws(response) ==
    CASE response.type = "NOT_SUPPORTED" -> Unsupported
      [] response.type = "ERROR"         -> Error
      [] response.type = "TIMEOUT"       -> Timeout

(* The methods that read an argument, which get() asserts to be there. *)
Reads == Counts \cup Answers \cup Texts \cup {"GET_WEIGHT"}

Result(type, response) ==
    IF response.type \in Handles(type) THEN Throws(response)
    ELSE IF response.type # "OK" \/ (response.args = <<>> /\ type \in Reads) THEN [failed |-> "assertion"]
    ELSE CASE type \in Counts                  -> Count(response.args[1].bits)
           [] type \in Answers                 -> Answer(GetBool(response.args[1]))
           [] type = "GET_WEIGHT"              -> Weight(GetDouble(response.args[1]))
           [] type \in Texts                   -> Name(response.args[1].text)
           [] OTHER                            -> Void
=============================================================================
