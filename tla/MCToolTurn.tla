----------------------------- MODULE MCToolTurn -----------------------------
(***************************************************************************)
(* ToolTurn on small instances: the calls the model may make and the focus *)
(* updates the user may send.                                              *)
(***************************************************************************)
EXTENDS ToolTurn

Call(tool, arg, old) == [tool |-> tool, arg |-> arg, old |-> old]

\* Every kind of tool, and one that nobody registered.
MCCalls ==
    {Call("look", "f", ""), Call("note", "n", ""), Call("ask", "q", ""),
     Call("spawn", "s", ""), Call("write", "a", ""), Call("edit", "b", "a"),
     Call("bash", "c", ""), Call("bogus", "x", ""), Call("report", "d1", "")}

\* A third reply where ids recur: room for a sub-task, a wait for it that times
\* out, another sub-task, and the late result of the first.
MCTurns == [d \in Dialects |-> IF d = "gemini" THEN 3 ELSE 2]

\* An update that adds more than the cap leaves room for.
MCFocusLetters == {[remove |-> {"d1"}, add |-> <<"d2", "d1">>]}
=============================================================================
