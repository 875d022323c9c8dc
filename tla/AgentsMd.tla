------------------------------ MODULE AgentsMd ------------------------------
(***************************************************************************)
(* load_agents_md and expand_imports (extensions/context.rs): the first    *)
(* AGENTS.md on the way up from the project, with the files it imports in  *)
(* the place of the lines that import them, theirs too.  The recursion of  *)
(* expand_imports is a stack of files being read.                          *)
(***************************************************************************)
EXTENDS Naturals, SequencesExt

CONSTANTS
    File,        \* Markdown files
    Candidates,  \* the AGENTS.md of the project, of its parent, ...: a sequence
    MaxLines     \* bound: lines of a file

VARIABLES
    present,     \* the files that exist
    lines,       \* what is in each: text, or the file a line imports
    visited,     \* the files begun
    stack,       \* those being read, each with its next line
    out,         \* the text so far: <<file, line>>
    loaded       \* "no", "loading", "none", "ok" or "error"

vars == <<present, lines, visited, stack, out, loaded>>

Text == "text"
Contents == SeqOf(File \cup {Text}, MaxLines)

Init ==
    /\ present = {} /\ lines = [f \in File |-> <<>>]
    /\ visited = <<>> /\ stack = <<>> /\ out = <<>> /\ loaded = "no"

\* Mutant: a file that has been read may be read again.
VisitedNow(f) == f \in {frame.file : frame \in ToSet(stack)}
\* visited is never popped: it holds the files read to the end too.
Visited(f) == f \in ToSet(visited)

Found == {k \in DOMAIN Candidates : Candidates[k] \in present'}

\* The walk up to the first that is a file.
Load(there, what) ==
    /\ present' = there
    /\ lines' = [f \in File |-> IF f \in there THEN what[f] ELSE <<>>]
    /\ \/ /\ Found = {}
          /\ loaded' = "none"
          /\ UNCHANGED <<visited, stack>>
       \/ \E k \in Found :
             /\ \A j \in Found : k <= j
             /\ visited' = <<Candidates[k]>>
             /\ loaded' = "loading"
             /\ stack' = <<[file |-> Candidates[k], line |-> 1]>>
    /\ UNCHANGED out

Top == Last(stack)
Line == lines[Top.file][Top.line]
Past == [stack EXCEPT ![Len(stack)].line = @ + 1]
AtEnd == Top.line > Len(lines[Top.file])

ReadText ==
    /\ loaded = "loading" /\ ~AtEnd /\ Line = Text
    /\ out' = Append(out, <<Top.file, Top.line>>)
    /\ stack' = Past
    /\ UNCHANGED <<present, lines, visited, loaded>>

\* The importing file goes on behind the line when the imported one is done.
Import ==
    /\ loaded = "loading" /\ ~AtEnd /\ Line # Text
    /\ visited' = IF Visited(Line) THEN visited ELSE Append(visited, Line)
    /\ IF Visited(Line) \/ Line \notin present
       THEN loaded' = "error" /\ stack' = <<>>
       ELSE loaded' = "loading" /\ stack' = Append(Past, [file |-> Line, line |-> 1])
    /\ UNCHANGED <<present, lines, out>>

Leave ==
    /\ loaded = "loading" /\ AtEnd
    /\ stack' = Front(stack)
    /\ loaded' = IF stack' = <<>> THEN "ok" ELSE "loading"
    /\ UNCHANGED <<present, lines, visited, out>>

Next ==
    \/ /\ loaded = "no"
       /\ \E there \in SUBSET File : \E what \in [there -> Contents] : Load(there, what)
    \/ ReadText
    \/ Import
    \/ Leave

-----------------------------------------------------------------------------
(* Properties *)

\* The lines of the files that were begun, by file and number.
Lines == UNION {{f} \X DOMAIN lines[f] : f \in ToSet(visited)}
At(p) == lines[p[1]][p[2]]
Texts == {p \in Lines : At(p) = Text}
Imports == Lines \ Texts

\* A file with what it imports, what that imports, and so on.
Brought(f) ==
    {g \in File : \A S \in SUBSET File :
        f \in S /\ (\A h \in S : \A i \in DOMAIN lines[h] : At(<<h, i>>) # Text => At(<<h, i>>) \in S)
            => g \in S}

\* The text that stands for line p.
For(p) == IF At(p) = Text THEN {p} ELSE {q \in Texts : q[1] \in Brought(At(p))}

\* Every line of text once; what stands for a line of a file is before what stands
\* for the lines after it.
AsWritten ==
    /\ IsInjective(out) /\ ToSet(out) = Texts
    /\ \A p, q \in Lines : p[1] = q[1] /\ p[2] < q[2] =>
          \A a, b \in DOMAIN out : out[a] \in For(p) /\ out[b] \in For(q) => a < b

\* No file is asked for again, in a circle or not, and none is missing.
EachOnce ==
    /\ \A p \in Imports : At(p) \in present /\ At(p) # visited[1]
    /\ \A p, q \in Imports : At(p) = At(q) => p = q

\* What is loaded is the text as written; a file is in it at most once, and it
\* is an error, and the only one, that one is missing or asked for again
\* (context.rs:76-80).
ImportsOnce ==
    /\ loaded = "ok" => AsWritten
    /\ loaded \in {"ok", "error"} => (loaded = "ok" <=> EachOnce)
=============================================================================
