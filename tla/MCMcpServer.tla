----------------------------- MODULE MCMcpServer ------------------------------
(***************************************************************************)
(* Parameters for model checking McpServer: values at and next to every    *)
(* bound, wrong types, and the two names of one parameter together.        *)
(***************************************************************************)
EXTENDS McpServer, TLC

\* The tools left out take no parameters and are answered like get_state_root.
AllTools == {"run_load_test", "get_reorg_history", "get_apply_block_latency",
             "validate_determinism", "get_state_root"}

Text == [type |-> "string"]
Command == [type |-> "command"]

LoadTests ==
    {[tps |-> t, duration |-> d] :
        t \in {Number(1), Number(2), Number(20000), Number(20001), Text},
        d \in {Number(1), Number(600), Number(601)}}
    \cup {[tps |-> Number(20), duration |-> Number(d), duration_seconds |-> Number(s)] :
             d \in {2, 602}, s \in {2, 602}}
    \cup {[tps |-> Number(20), duration_seconds |-> Command], [tps |-> Number(20)]}
Limits ==
    {[limit |-> v] : v \in {Number(h) : h \in {0, 1, 2, 202, 2000, 2001, 20000, 20001}} \cup {Text}}
Counts == {[block_count |-> Number(h)] : h \in {1, 2, 200, 201}}
Sent == LoadTests \cup Limits \cup Counts

\* Every name that has parameters of its own, one that has none, and one that
\* is not registered; two of them together share the server.
Names == {{"run_load_test", "get_reorg_history"}, {"get_apply_block_latency"},
          {"validate_determinism"}, {"get_state_root"}, {"unknown"}}

Symmetry == Permutations(Requests)
===============================================================================
