----------------------------- MODULE MCLibrary ------------------------------
(***************************************************************************)
(* The parts on small instances.  Two plugins that bring hooks, one of     *)
(* which may not block and has a matcher, three that cannot be installed,  *)
(* and one that brings nothing.  In the memory, sizes matter to the        *)
(* threshold strategy only, kinds and Tasks to the Orchestrator's only.  A *)
(* command prints a failure that may move or be there twice, one without a *)
(* place, one of two kinds, a warning, or none.                            *)
(***************************************************************************)
EXTENDS Library

CONSTANTS p, q, tool, merge, f, g, h, t1, t2

Blocking == [event |-> tool, matches |-> {p, q}, can_block |-> TRUE, handler |-> "command"]
Watching == [event |-> tool, matches |-> {p}, can_block |-> FALSE, handler |-> "http"]
Holding  == [event |-> merge, matches |-> {p, q}, can_block |-> TRUE, handler |-> "prompt"]
Directory(manifest, context, hooksFile, brought) ==
    [manifest |-> manifest, context |-> context, file |-> hooksFile, hooks |-> brought]

MCPlugin == {Directory("ok", "text", "ok", <<Blocking, Holding>>),
             Directory("ok", "absent", "ok", <<Watching>>),
             Directory("ok", "unreadable", "ok", <<Blocking>>),
             Directory("malformed", "text", "ok", <<Watching>>),
             Directory("ok", "text", "malformed", <<Watching>>),
             Directory("ok", "text", "absent", <<>>)}
MCCandidates == <<g, f>>

MCEvents ==
    [threshold |-> {[kind |-> "other", task |-> t1, size |-> n] : n \in {1, 4}},
     orchestrator |-> {[kind |-> k, task |-> t, size |-> 1] :
                          k \in {"heartbeat", "open", "closed"}, t \in Task}]

Word(text) == [text |-> text, numbers |-> <<>>]
Error(at) == <<[text |-> "a.rs", numbers |-> at], Word("error:"), Word("x")>>
Failed == <<Word("y"), Word("FAILED")>>
Warned == <<Word("warning:"), [text |-> "b.rs", numbers |-> <<1>>]>>
MCOutput == {<<>>, <<Error(<<1>>)>>, <<Error(<<2, 3>>)>>, <<Error(<<1>>), Error(<<2, 3>>)>>,
             <<Failed>>, <<Append(Failed, Word("error:"))>>, <<Warned, <<Word("plain")>>>>}
=============================================================================
