------------------------------ MODULE Library -------------------------------
(***************************************************************************)
(* The parts of opca-core that run on their own, beside the Orchestrator   *)
(* and the Tasks: the extension points (MCP client, hooks and the plugins  *)
(* that bring them, AGENTS.md), the memory, the session log and the        *)
(* evidence gate's judgement.  They share no state (a plugin names an MCP  *)
(* server and nobody starts it, plugin.rs:161-167), so one of them is at   *)
(* work in a behaviour.                                                    *)
(***************************************************************************)
EXTENDS Naturals, SequencesExt, FiniteSets

CONSTANTS MaxCalls, PipeSize, MaxNoise,
          Plugin, Event, Payload, MaxInstalls, MaxRuns,
          File, Candidates, MaxLines,
          Task, Events, Recent, MaxTokens, CompactAt, Target, SummarySize, MaxEvents, MaxFaults,
          MaxEntries, MaxKills,
          Output, Path, Commands, MaxVerified

ASSUME LibraryAssumption ==
    /\ {MaxCalls, PipeSize, MaxNoise, MaxInstalls, MaxRuns, MaxLines, MaxEntries, MaxKills,
        Recent, MaxTokens, CompactAt, Target, SummarySize, MaxEvents, MaxFaults,
        Commands, MaxVerified} \subseteq Nat
    /\ PipeSize > 0 /\ ToSet(Candidates) \subseteq File
    /\ \A s \in {"threshold", "orchestrator"} :
          Events[s] \subseteq [kind : {"heartbeat", "open", "closed", "other"}, task : Task, size : Nat]
    /\ \A plugin \in Plugin :
          plugin.hooks \in Seq([event : Event, matches : SUBSET Payload, can_block : BOOLEAN,
                               handler : STRING])
    \* What is behind a colon is a line, and perhaps a column.
    /\ Output \subseteq Seq(Seq([text : STRING, numbers : {<<>>} \cup [1..1 -> Nat] \cup [1..2 -> Nat]]))

VARIABLES
    part,        \* the part at work
    phase, ready, id, pending, reply, returned, stdin, torn, stdout, asked, alive, reader, noise,
    hooks, installed, installs, runs, event, payload, next, results, took, orphans,
    present, lines, visited, stack, out, loaded,
    strategy, active, rows, completed, log, kept, used, faults,
    file, buffer, writing, count, row, appended, flushed, kills,
    baseline, current, verdict, verified

clientVars  == <<phase, ready, id, pending, reply, returned, stdin, torn, stdout,
                 asked, alive, reader, noise>>
hookVars    == <<hooks, installed, installs, runs, event, payload, next, results, took, orphans>>
agentsVars  == <<present, lines, visited, stack, out, loaded>>
memoryVars  == <<strategy, active, rows, completed, log, kept, used, faults>>
sessionVars == <<file, buffer, writing, count, row, appended, flushed, kills>>
gateVars    == <<baseline, current, verdict, verified>>
vars == <<part, clientVars, hookVars, agentsVars, memoryVars, sessionVars, gateVars>>

Client  == INSTANCE Mcp
Hook    == INSTANCE Hooks
Agents  == INSTANCE AgentsMd
Store   == INSTANCE Memory
Journal == INSTANCE Session
Gate    == INSTANCE EvidenceGate

\* What one part's step leaves alone.
Others(p) ==
    /\ p # "mcp" => UNCHANGED clientVars
    /\ p # "hooks" => UNCHANGED hookVars
    /\ p # "context" => UNCHANGED agentsVars
    /\ p # "memory" => UNCHANGED memoryVars
    /\ p # "session" => UNCHANGED sessionVars
    /\ p # "gate" => UNCHANGED gateVars

Init ==
    /\ part \in {"mcp", "hooks", "context", "memory", "session", "gate"}
    /\ Client!Init /\ Hook!Init /\ Agents!Init /\ Store!Init /\ Journal!Init /\ Gate!Init

Next ==
    /\ UNCHANGED part /\ Others(part)
    /\ \/ part = "mcp" /\ Client!Next
       \/ part = "hooks" /\ Hook!Next
       \/ part = "context" /\ Agents!Next
       \/ part = "memory" /\ Store!Next
       \/ part = "session" /\ Journal!Next
       \/ part = "gate" /\ Gate!Next

Spec == Init /\ [][Next]_vars /\ Client!Fairness

-----------------------------------------------------------------------------
\* No answer to a call reaches another call, whatever came late or twice.
AnswersMatch == Client!AnswersMatch
\* A call of the server returns, answered or not, if its request can be written.
CallReturns == part = "mcp" => Client!CallReturns
\* Plugins are installed whole or not at all; results belong to their hooks.
HooksAnswer == Hook!HooksAnswer
\* AGENTS.md is loaded as written, or not at all.
ImportsOnce == Agents!ImportsOnce
\* Whatever was pushed is in the context or in the archive.
NothingForgotten == Store!NothingForgotten
\* What the context says of each highlight.
HighlightsTold == Store!HighlightsTold
\* What a Task said last stays in the context.
LatestStay == Store!LatestStay
\* Flushed entries are read back; nothing is unreadable without a kill
\* (no write fails here).
FlushedIsRead == Journal!FlushedIsRead
\* Old failures pass, new ones do not.
GateTolerates == Gate!GateTolerates
=============================================================================
