----------------------- MODULE GraphalyticsSequential -----------------------
(***************************************************************************)
(* The Graphalytics experiment (experiment/graphalytics.cpp): the enabled  *)
(* algorithms run one after the other, for a number of repetitions.  An    *)
(* algorithm that hits the timeout, or whose output is not the expected    *)
(* one, is not executed again.  In place of CDLP and LCC the code runs the *)
(* scans of the two-hop and one-hop neighbours, outside of any handler.    *)
(*                                                                         *)
(* Execution times are not kept, only that one was recorded ("time") or    *)
(* that -1 was recorded ("timeout").                                       *)
(***************************************************************************)
EXTENDS Naturals, Sequences

CONSTANTS
    Algorithms,         \* the algorithms enabled by the property file: bfs, cdlp, lcc,
                        \* pagerank, sssp, wcc
    NumRepetitions,     \* m_num_repetitions
    ValidateOutput,     \* m_validate_output_enabled
    Outcomes            \* what an invocation of a kernel may end with: match, mismatch,
                        \* no_reference, timeout

VARIABLES
    m_enabled,          \* the flags m_enabled of m_properties
    m_exec,             \* what each vector m_exec_<algorithm> contains
    m_validate_results, \* pairs of an algorithm and its validation result
    i,                  \* the repetition
    stage               \* the algorithm execute() is at; 0 when it is not running

graphalyticsVars == <<m_enabled, m_exec, m_validate_results, i, stage>>

Order == <<"bfs", "cdlp", "lcc", "pagerank", "sssp", "wcc">>
Scans == {"cdlp", "lcc"}

GraphalyticsInit ==
    /\ m_enabled = Algorithms
    /\ m_exec = [a \in Algorithms |-> {}]
    /\ m_validate_results = {}
    /\ i = 0 /\ stage = 0

Executing == stage # 0
Begin == i' = 0 /\ stage' = 1 /\ UNCHANGED <<m_enabled, m_exec, m_validate_results>>

(* The validation of the output of algorithm a, when it is enabled.        *)
Validation(a, outcome) ==
    IF ~ ValidateOutput THEN {}
    ELSE CASE outcome = "match" -> {<<a, "SUCCEEDED">>}
           [] outcome = "mismatch" -> {<<a, "FAILED">>}
           [] outcome = "no_reference" -> IF i = 0 THEN {<<a, "SKIPPED">>} ELSE {}

(* One `if(m_properties.<algorithm>.m_enabled) { ... }' of the loop.       *)
RunKernel(a) ==
    \/ /\ a \notin m_enabled
       /\ UNCHANGED <<m_enabled, m_exec, m_validate_results>>
    \/ /\ a \in m_enabled \cap Scans
       /\ m_exec' = [m_exec EXCEPT ![a] = @ \cup {"time"}]
       /\ UNCHANGED <<m_enabled, m_validate_results>>
    \/ /\ a \in m_enabled \ Scans /\ "timeout" \in Outcomes
       /\ m_exec' = [m_exec EXCEPT ![a] = @ \cup {"timeout"}]
       /\ m_enabled' = m_enabled \ {a}
       /\ UNCHANGED m_validate_results
    \/ /\ a \in m_enabled \ Scans
       /\ m_exec' = [m_exec EXCEPT ![a] = @ \cup {"time"}]
       /\ \E outcome \in Outcomes \ {"timeout"} :
            /\ m_validate_results' = m_validate_results \cup Validation(a, outcome)
            /\ m_enabled' = IF <<a, "FAILED">> \in Validation(a, outcome)
                              THEN m_enabled \ {a} ELSE m_enabled

(* The loop of execute(). *)
Execute ==
    /\ Executing
    /\ IF i = NumRepetitions
         THEN /\ stage' = 0
              /\ UNCHANGED <<m_enabled, m_exec, m_validate_results, i>>
         ELSE /\ RunKernel(Order[stage])
              /\ stage' = (stage % Len(Order)) + 1
              /\ i' = IF stage = Len(Order) THEN i + 1 ELSE i
=============================================================================
