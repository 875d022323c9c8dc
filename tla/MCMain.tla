------------------------------- MODULE MCMain -------------------------------
(***************************************************************************)
(* Lines for each command of the REPL, some of them incomplete, about the  *)
(* first Task and the first chain.                                         *)
(***************************************************************************)
EXTENDS Main

MCTaskIds  == <<"task-0", "task-1", "task-2">>
MCChainIds == <<"chain-1", "chain-2", "chain-3">>
MCLine ==
    {<<"/accept", "task-0">>, <<"/reject", "task-0">>, <<"/accept">>,
     <<"/answer", "task-0", "yes">>, <<"/answer", "task-0", "\"\"">>,
     <<"message", "fix">>, <<"message", "explain", "fix">>,
     <<"/continue", "-i", "5", "fix">>, <<"/continue", "fix", "-i">>, <<"/continue", "status">>,
     <<"/stop-continuation", "chain-1">>, <<"/stop-continuation", "all">>, <<"/quit">>}
=============================================================================
