# OpenPilot: TLA+ models and proofs

OpenPilot (`opca`) is a coding agent in Rust. An Orchestrator turns what the
user asks for into Tasks; every Task runs an LLM-driven loop in its own
workspace, reports its life through heartbeats, and its result is accepted or
rejected by the user, or continued by follow-up Tasks. This directory holds
TLA+ models of that machinery and of what surrounds it (providers, tools,
memory, extensions, session log, front ends), the TLC configurations that check
them and the theorems that TLAPS proves about them. File names below are
relative to `src/crates/opca-core/src/` unless they begin with `opca-cli/`,
`docs/` or `openspec/`.

Run everything from this directory:

    tlc -workers 2 -config TaskSolo.cfg MCTaskRun.tla     # one run of PROJECT.json
    tlapm TaskRunProofs.tla                               # one module of proofs

1. Inventory  2. Modules  3. Models and code  4. Runs  5. Fairness  6. Proofs
7. Where code and documents differ  8. What is not modelled  9. Plan

## 1. Inventory

Each entry: the state a component keeps, what happens to it, what is hard
about it, and what makes it correct.

**Task lifecycle** (`lifecycle/`). `LifecycleTracker.current`, one of ten
statuses; `transition` checks a table and sends a heartbeat. Callers mostly
ignore its error. Correct: heartbeats describe a legal life, none is lost or
reordered.

**Task run loop** (`task/`). Turn counter, phase, evidence gate and baseline,
3-strike counters, conversation, steering and heartbeat channels, pending
sub-tasks and the clock of the wait for them. One tokio task; it meets the user
at the steering channel, the provider at an await, the Orchestrator at the
heartbeats and the sub-task queues. Hard: messages that arrive between any two
awaits, waits that time out while results are under way, counters that survive
retries. Correct: it returns, stops when cancelled, completes only verified work
and only after its sub-tasks; every call it remembers has its result.

**Evidence gate** (`task/evidence_gate.rs`). The errors of the untouched
workspace and those of a verification, compared by kind, file and a text with
some numbers taken out. Correct: what failed before does not block, what fails
since does.

**Orchestrator** (`orchestrator/`). The registry of Tasks (status, estimated
files, steering sender, parent, workspace path), aggregated channels, event
memory. `dispatch_task` predicts file conflicts and either spawns the Task or
registers it undispatched; `drain_*` feed the registry; `drain_subtask_requests`
and `check_subtask_completions` serve parents. Hard: decisions on a registry
that lags behind the Tasks. Correct: two running Tasks never claim the same
file; a result is offered once its Task is over.

**CLI driver** (`opca-cli/src/real.rs`). `TrackedTasks`: the last status told,
the questions pending, the time since they are. A poll loop every 100 ms under
the Orchestrator's mutex: drain, tell the user what changed, time out
clarifications, advance continuation chains; commands (answer, accept, reject,
start and stop of chains) interleave with it. Hard: notifications derived from
differences between two polls, timers kept beside the state they time,
decisions made in one lock scope and carried out in another. Correct: a
completion is told once, every end is told, no question waits for ever.

**Continuation** (`continuation/`). Chains of Tasks with a budget, a policy, a
no-progress detector and a termination record. Correct: a chain stays within
its budget, it always ends, it ends with one reason and for good.

**Completion** (`completion/`). `CompletionPipeline::run`: freeze, review,
audit, merge, memorialize, cleanup, dependents. State: the cleanup schedule, the
dependency graph, the successors that are ready. Hard: a stage that fails
half-way, and the retry after it. Correct: source code is merged after an audit
confirmed it, successors start after a predecessor is merged and kept, no
directory is removed while its work may still be submitted.

**Workspaces** (`workspace/`). Git worktree, mirror or copy; diff against a
baseline, freeze, merge into the project, delayed cleanup. Hard: the project
changes while the Task works, and a killed process leaves worktrees behind.
Correct: the user's changes are not overwritten, a clean merge leaves nothing
out.

**Providers** (`provider/`). Three streaming parsers, each with the tool calls
under construction. Hard: calls that interleave, a stream that is cut, vendors
that name results differently. Correct: the calls the loop runs are those the
model made, and the next request pairs every call with its result.

**Tools** (`tools/`). Registry and `dispatch_batch`: reading calls in parallel,
then the writing ones in order; results put back into the order of the calls.
**Sub-agents** (`sub_agent/`, feature `sub-agents`, off by default). The request
queue, ticket ids, notification queues, limits on depth and parallelism.
**Focus** (`focus/`): dimensions under a cap, updated by steering.
**Audit** (`audit/`): an LLM judge with a structured report.

**Memory** (`memory/`). An active region, which is the Orchestrator's context,
and an SQLite archive with tables of items, keywords and tags; compaction moves
items from one to the other. Hard: a step that fails between two inserts;
summaries that are compacted again. Correct: what was pushed is in the context
or in the archive, and what a Task reported once it was completed is still told of.

**Session log** (`session/`). A JSONL file written through a buffer, an index
row, a cold store. Hard: a process killed while a line is on its way. Correct:
what was flushed is read back.

**Extensions** (`extensions/`). *MCP client*: a child process behind two pipes, a
table of pending requests shared with a reader task. Hard: late, repeated and
missing answers, requests of the server's own, callers that give up. Correct: an
answer reaches its own call. *Hooks and plugins*: a list of hooks run one after the other, installed by
plugins. Correct: a plugin is installed whole or not at all, every hook that is to
fire answers once. *AGENTS.md*: a file with imports; correct: each is read as written, a
cycle ends the load.

**Terminal front ends** (`opca-cli/src/tui/`, `main.rs`, `repl.rs`, `mock.rs`).
*TUI*: chat items, a queue of typed lines, one stream per answer, one channel for
all of them. Hard: events do not say to which answer they belong. Correct: every
line typed is handled once, an answer is shown whole, the queue drains. *REPL over
the mock*: an input thread, a loop, the mock's Tasks and chains. Correct: a Task is
settled once, `/quit` ends the program.

**Workspace files, prompts, configuration, dependency injection**: text and
values.

PROJECT.json lists the components with their status, and under `hazards` the
places where each is hard to test.

## 2. Modules

| module | models | proofs |
| --- | --- | --- |
| `Lifecycle` | one Task's life as Task, channel and registry see it; the abstract specification of a Task | in `TaskRunProofs` |
| `TaskRun` (extends `Lifecycle`) | `Task::run` with user, provider, Orchestrator and sub-tasks | `TaskRunProofs` |
| `ProviderStream` | one streamed reply: server, parser of each vendor, `collect_stream` | in `ToolTurnProofs` |
| `ToolTurn` (extends `ProviderStream`) | the conversation, batches of tools and what they leave | `ToolTurnProofs` |
| `Chains` | what continuation promises: the abstract specification | |
| `Continuation` (refines `Chains`) | coordinator, budget, policy, detector, `check_continuations`, the user's commands | `ContinuationProofs` |
| `Delivery` | completion pipeline over git, mirror and copy workspaces, the user's edits, cleanup | `DeliveryProofs` |
| `Orchestrator` (instantiates `Lifecycle` per Task) | dispatch, registry, poll loop, clarification time-outs, commands, over several Tasks | `OrchestratorProofs` |
| `Mcp` | the client of an MCP server, its reader task and the server | in `ExtensionProofs` |
| `Hooks` | hooks, and the plugins that bring them | in `ExtensionProofs` |
| `AgentsMd` | AGENTS.md with its imports | in `ExtensionProofs` |
| `Memory` | active region, archive, both compactions, recall | in `LibraryProofs` |
| `Session` | the session log under kills and restarts | in `LibraryProofs` |
| `EvidenceGate` | the gate's comparison of what commands print | in `LibraryProofs` |
| `Library` | the six above, which share no state, one at a time | `ExtensionProofs`, `LibraryProofs` |
| `FrontEnd` | the terminal interface | in `MainProofs` |
| `Repl` | the line-oriented interface over the mock | in `MainProofs` |
| `Main` (extends `FrontEnd`, instantiates `Repl`) | the program's choice between the two | `MainProofs` |

`MCTaskRun`, `MCContinuation`, `MCDelivery`, `MCOrchestrator`, `MCToolTurn`,
`MCLibrary` and `MCMain` instantiate them for TLC. The modules meet in
`Lifecycle`: `TaskRun` implements it for the one Task it shows in full,
`Orchestrator` for each of several Tasks that it shows by their lifecycle only.
`Continuation` and `Delivery` take a Task that has ended from there. `ToolTurn`
opens the step of `TaskRun` in which a reply's tools run; `EvidenceGate` opens
the reports that `TaskRun` only counts.

## 3. Models and code

**Lifecycle.** `status` is the tracker's, `stream` what is in flight (the Task's
channel, its relay and the Orchestrator's channel are one FIFO), `registry` the
entry's status. `TryTransition` is `transition` the way its callers use it,
`let _ = ...`: an illegal move changes nothing. `Drain` is `drain_heartbeats`
under the lock: readers see the last status drained only.

**TaskRun.** `pc` names the point between two awaits. An iteration is `LoopHead`
(turn counter), the `Steer*` actions (one message each), `BeginTurn` or
`KeepWaiting`/`GiveUpWaiting` (drain of sub-task notifications and the wait),
then the reply: `ProviderFails`, `ReplyWithTools` and `ToolsDone`, or
`ReplyText`, the gate (`GateProceeds`, `GateRetries`, `GateSticks`) and
`WaitForKids` or `Complete`. The surroundings are `Send`, `DrainHeartbeats`,
`DispatchKid`, `ReportKids` and `WaitExpires`. A report of the evidence gate is a
bag of issue signatures; a tool batch is one step with the sub-tasks it asked for
and whether it asked a question. History variables: `hits`, `verified`,
`orphans`.

**ProviderStream.** `said` is what the model means to call, `sent` how much of
each call the server has sent, `open` and `got.flight` what parser and collector
have under construction, `got.calls` what came of it. A call is sent as a start
and two pieces, each with its index, so that a piece that lands in another call
is seen. OpenAI's calls end when the next begins or the stream is done,
Anthropic's when their block stops, Gemini's arrive whole. `Fail` cuts the stream
anywhere.

**ToolTurn.** `history` is the conversation, `Request` its translation for the
dialect at hand. A batch runs the calls that only read first, in any order
(`Parallel`), then the others in the reply's order (`NextInOrder`); `Does` is
what each built-in tool does to the file, the todo list, the question, the
tickets or the highlights, `Refused` when it does nothing. `Id` is the id the
vendor gives a call: Gemini's start over in every reply. `ReadsMail` is
`process_steering`, focus updates under the cap included. `ReadsNote` is one result
of a sub-task read from the notification queue: it takes one from `pending`, whose
ever it is. `GivesUpWaiting` is the wait that timed out: it sets `pending` to zero
and the Task back to work, and nothing is remembered of the sub-tasks it waited for.
The history variables do: a ticket is awaited, `settled`, or `lapsed` and perhaps
`late` when its result comes after all.

**Continuation.** A chain is a record with its budget counters and history;
`poll` is where `check_continuations` stands between its three lock scopes
(`CollectDelivered`, `AuditTask`, `EvaluateEnds`/`EvaluateContinues`/
`EvaluateNothing`), and every command of the user may fall between them.
`start_continuation` is two steps, as in the code. A Task is running, delivered,
delivered while sub-tasks are pending (`held`) or failed. The audit returns any
report, or fails, which the caller takes for a confirmation.

**Delivery.** A file's content is `absent`, `old`, `user` or the Task that wrote
it; trees are functions from files to contents. The three kinds of workspace
share `Diff`, and differ in `Create*`, `Freeze` (git and mirror commit and move
the baseline) and merge. `git merge` is an external three-way merge by files,
modelled from how it is called: clean, merged but not committed, conflict,
refused. Line counts are abstracted to numbers of files (`LowFiles`,
`HighFiles`). The pipeline is borrowed mutably by `run`, so one Task is in it
(`Busy`), but stages are separate steps: the user edits and commits between
them.

**Orchestrator.** `entry`, `claims` and `registry` are the registry; `last`,
`asked` and `since` the tracked state of the command line; `pc` where the poll
loop is between its lock scopes (`Collect`, `Scan`, one `TimeOut` per Task that
is due, `Rest`). `Compare` is `collect_changes` branch by branch. A Task is
reduced to transitions of `Lifecycle`, questions, reading of mail and the ways
`run()` returns. Messages for a Task that has returned are lost, as on a closed
channel.

**Mcp.** `request` is `Begin` (liveness check, number, entry in the table),
`Write` (which waits while the pipe is full), then `Receive` or `TimeOut`;
`Abandon` is the caller's future dropped at any await, which may leave part of a
line in the pipe. `ReadLine` is the reader task, which takes every line with a
number for the response with that number. The server may answer in any order,
twice or never, or die, and it talks of its own (`ServerTalks`): notifications,
which have no number (0), and requests, which it numbers itself, so with any number a
call has had, has or will have. `request` borrows the client mutably, so calls follow
one another; their traces do not.

**Hooks, AgentsMd.** `Install` registers a plugin's hooks or fails on the manifest,
the hooks or the context file, and what a failure leaves is the point; a plugin is a
record of those three as they are on disk. `RunHook`
is one hook with what its handler said or how it failed; `Finish` ends at the end of
the list: a denial is a result like another, and the hooks behind it run too. In `AgentsMd` the recursion of `expand_imports` is a
stack of files, `ReadText`, `Import` and `Leave` one line's work each. Its property
is stated without a recursion of its own: what stands for a line is the line, or all
that the file it imports brings in (`Brought`, the least set closed under imports),
and the text has every line once, with what stands for one line of a file before what
stands for the next.

**Memory.** A row of the archive is an item and the indices that have it, so that
a failure between two inserts is a row under fewer indices (`Torn`). The two
compactions are functions of the active region: `CompactThreshold` splits where
the tokens fit, `CompactOrchestrator` sorts items into heartbeats, highlights of
running and of completed Tasks, and writes a summary per completed Task, which
the code stores as a highlight again. A highlight is of a running or of a completed
Task by what the registry said when it was drained (`Push`), for ever: `completed`
are the Tasks of which the registry says so, by the heartbeats drained (`Records`).
`Recall*` are the queries.

**Session, EvidenceGate.** An entry on disk is three pieces, any prefix of which
a kill may leave; `Begins` are the places where a line begins, `IsEntry` says that the
line parses, and `Read` is the entries in order, or nothing if one does not. The gate's lines are
sequences of words with numbers behind them; `Normalized`, `KindOf` and `Located`
say which of them the comparison sees. What all commands printed, and the errors
taken from it, are sets: the comparison asks only whether there is an equal one.

**FrontEnd.** `chat`, `queue` and the flags are the App's; `running` are the tasks
that stream an answer, `channel` the one channel; `Take` is the App's handling of
an event, which depends on the last chat item only; `Enter` a line typed, by the
kind of command it is; a tick takes the events one by one (`PollStream`), those that
the tasks send meanwhile included, and no key is looked at until the channel is empty
and the first of the queue is sent (`SendQueued`). **Repl.** A line is a sequence
of words, `Parse` is `Command::parse`, `Effect` what a command does to the mock.
`Interrupt` is Ctrl-C or Ctrl-D at the prompt. Who drives the mock's Tasks is
external: in the repository its tests.

## 4. Runs

| run | instance | distinct states | question |
| --- | --- | --- | --- |
| `TaskSolo` | 4 turns, 3 strikes, 2 issues up to twice in a report, 2 messages | 148 k | one Task in the default build |
| `TaskParent` | 4 turns, 2 sub-tasks, queue of 1, 1 message | 1.0 M | a Task with sub-tasks |
| `ToolTurn` | 2 replies, with Gemini 3, 3 calls of 9 kinds, 3 vendors, 1 message | 4.3 M | replies, batches, conversation |
| `ChainPair` | 2 chains, limit 1, sub-tasks | 144 k | chains against each other and the commands |
| `ChainBudget` | 1 chain, limits 0 and 5, one finding | 200 k | budget, doom loop |
| `Delivery` | 2 Tasks, a source and a Markdown file, 1 edit of the user | 2.6 M | delivery of work |
| `Dispatching` | 2 Tasks, 1 file, 1 question, 1 command | 325 k | conflicts and lives |
| `Polling` | 1 Task, 2 questions, 2 commands | 24 k | what the user is told |
| `Library` | see below | 1.0 M | six parts that share nothing |
| `Main` | 3 lines, 2 pieces an answer, 1 trouble; 2 changes of the mock's Tasks | 991 k | the two front ends |
| `DocMirrorLoses` | 2 Tasks, as `Delivery` | | does a mirror's work arrive? |
| `DocCtrlC` | as `Main` | | does Ctrl-C end the REPL? |

`TaskSolo`: `ThreeStrikesStop`, `Returns`, `RegistrySettles`, and `LSpec`, the
refinement. Three strikes need three failures of one issue with others mixed in,
which four turns and two issues allow.

`TaskParent`: `CompletedAfterKids` (the count of pending sub-tasks is raised,
lowered and zeroed by three parties), `CompletedIsVerified`, `CancelStops`
(also in a wait for sub-tasks that never answer). Two sub-tasks and a queue of one let
a notification be dropped; in the code the queue holds ten. Four turns (a batch that
dispatches, a text whose verification passes, a batch after the wait, a text) give a
Task that waited after its gate had passed and then ran tools: it must verify again,
and in the mutant it does not.

`ChainPair`: `NoSharedTask`, `ChainsSpec` (refinement: a stop between audit and
evaluation is final), `ChainEnds`. `ChainBudget`: `TasksWithinBudget`,
`DoomLoopStops`; a doom loop of two rounds takes four audits, hence limit 5.

`Delivery`: `NoLostUpdate`, `CleanAppliesAll`, `SourceIsAudited`,
`SuccessorsFollow`, `WorkIsKept`. Two Tasks in one project give every order of
two merges; one user edit gives every place for it. `CleanAppliesAll` is stated
for git and copy, `SourceIsAudited` for copy: for the other kinds the code does
not keep them (section 7). An edit and its commit count once.

`Dispatching`: `NoSharedFiles`, `TaskLives`. `Polling`: `CompletedOnce`,
`EveryEndIsTold`, `WaitEnds`. Two questions are needed for a question that is
asked, answered and asked again between two ticks.

`ToolTurn`: `ReplyCollected` (the calls run are calls the model made, in its
order, each with its own arguments, whatever interleaves or is cut),
`HistoryPaired` (in the next request, in the vendor's form, every call has its
result behind it and nothing in between that the vendor refuses),
`BatchIsSerial` (what the writing calls leave is what they would leave one after
the other), `PendingCountsTickets` (between batches the parent's count of pending
sub-tasks is at most the number of tickets awaited, and short of it by no more than the
late results read; equality does not hold, since a late result is counted for another
ticket, section 7). Two replies are needed for ids that recur; two calls in one reply
for calls that interleave; the third call makes two batches of different size. The
calls range over every kind of tool. The third reply, with Gemini, where ids recur,
gives a sub-task, a wait for it that times out, another sub-task, and the late result
of the first.

`Library`: `AnswersMatch` and `CallReturns` (MCP), `HooksAnswer`, `ImportsOnce`,
`NothingForgotten`, `HighlightsTold` and `LatestStay` (memory), `FlushedIsRead`
(session), `GateTolerates` (evidence gate). The six parts share no state, so the
run starts in any one of them: its states are their sum. Three MCP calls give a
late answer to the first while the third is under way. `HighlightsTold` has a part
for highlights drained after their Task completed (in the context, or told of by a
summary there) and one for those drained while it ran, which are never summarised,
although their Task completes (in the context, or found in the archive and displaced
by later ones; section 7). The six plugins have hooks of
every kind, a malformed manifest, malformed hooks, a hooks file that is absent and a
context file that cannot be read; three files give a cycle of
length three and a diamond; four items force two compactions, the second of which
meets the first one's summary; two kills give a torn line and another behind it;
two commands, one verification and failures that move or are there twice give every
comparison the gate makes.

`Main`: `TypedIsHandled` (every line typed is queued, sent, shown or done, once),
`ReplyIsWhole` (what is shown of an answer is where it belongs, in the order of sending
and there once, and an answer that nobody disturbed is whole), `QueueDrains`; `SettledOnce` (a delivery of the mock is accepted or rejected once),
`QuitEnds` (once `/quit` is entered and the input thread is over). Three messages,
or a message and a command (which counts for two), give a queue behind a streamed
answer; one trouble (Esc, a notification that prints, a stream that ends
silently) falls anywhere.

Two runs check a sentence of the repository and find it violated: `DocMirrorLoses`
and `DocCtrlC` (section 7).

Every property has a mutant, an operator named in a comment that begins with
`Mutant:`, which replaces a definition of the model by a plausible mistake; the
property then fails.

Deadlock is checked in the runs of `TaskRun` and `Continuation`, whose quiet
states are actions of their own (`Stopped`, `Quiet`). The others may stop where
everything is done or a bound is reached, so their configurations say so.

Bounds that are not in the code: `MaxSends` (messages or commands), `MaxRepeat`,
`Kids`, `MaxAsks`, `MaxMail` (no question expires while so many messages wait:
the Task reads them far faster than 300 s), `MaxEdits`, `MaxLife` (the longest
stream the two together allow), `MaxCalls`, `MaxRuns`, `MaxTurns` of `ToolTurn`
(calls and replies), `MaxNoise` (lines of the server that answer nothing, and
second answers), `MaxInstalls`, `MaxLines`, `MaxEvents`, `MaxFaults` (inserts
that fail), `MaxEntries`, `MaxKills`, `MaxVerified`, `MaxTyped`, `MaxPieces`,
`MaxTrouble`, `MaxDriven`. `MAX_TURNS`, `THREE_STRIKE_LIMIT`, the queue's
capacity, the size of a pipe, the focus cap, the number of recent highlights and
the thresholds of risk and compaction are constants with smaller values.

## 5. Fairness

`TaskRun`: the loop itself (tokio polls a task that is ready, and every awaited
call ends: a provider that never answers is outside the code), the drain (a
100 ms ticker) and time. Not the user, not the sub-tasks.

`Continuation`: the poll loop, the ends of Tasks (which `TaskRun` shows) and the
expiry of the total duration. Not the user.

`Orchestrator`: the poll loop; time; a Task that starts, and one that has mail,
goes on (a wait for mail is the only wait it has); and, as strong fairness,
that a heartbeat on its way is found by some later tick. A tick that comes too
early finds none, so weak fairness would not say that the relay, a tokio task
that is always ready, gets its turn. A Task need not ask, fail or end.

`Mcp`: a write that can go on, and the wait for an answer, which ends by an
answer or by its timer. Nothing is asked of the server, which is why
`CallReturns` excepts a pipe that stays full.

`FrontEnd`: the loop's tick (it polls every 50 ms when user and Tasks are quiet),
and the end of an answer that has begun, however it ends; a stream that ends
silently is a way to end, which `QueueDrains` excepts. `Repl`: the loop handles a
line and a notification (`select!` takes a ready branch at random, so neither
waits for ever), and the runtime ends when nothing is left. Not the user, not who
drives the Tasks.

`Delivery` and the other parts state no liveness: every step is taken by someone
who may stop.

## 6. Proofs

All theorems hold for every value of the constants under the assumption named in
the module. Numbers are natural numbers, and further:

- `TaskRunAssumption`: the sub-tasks are finitely many.
- `DeliveryAssumption`: Markdown and source files are files, and no file is both;
  the threshold of low risk is not above that of high risk, as the constants of
  `completion/review.rs` are.
- `ProviderStreamAssumption`, `ToolTurnAssumption`: the dialects are the three; the
  file starts with some text.
- `MainAssumption`: the mock's ids do not repeat (it counts), and there are as many
  as lines may be typed.
- `LibraryAssumption`: events have a kind, a Task and a size; what stands behind the
  colons of a word that a command prints is nothing, a line, or a line and a column;
  a plugin brings a list of hooks; the AGENTS.md on the way up are files.

`TaskRunProofs`. Types need `TurnsPaid`: the wait gives a turn back, so the
counter stays natural only because every iteration past its head has paid.
`ImplementsLifecycle` maps each action to a transition, a drain or a stutter, and
`ReportsAreLegal` is proved of `Lifecycle` and inherited. `InactiveMeansReturned`
rests on `AllActive`: while the loop runs, tracker, registry and everything in
flight are active, since one transition out of the active ones is followed by the
return in the same step. `StrikeInv` relates the counters the code keeps to the
failures that happened; `CompletionInv` says what is known at `finish`;
`KidInv` says that the pending count covers the live sub-tasks until one is given
up, with the cardinality facts that step needs.

`ContinuationProofs`. `ChainStep` is the key lemma: every step starts, stops,
ages, ends or continues a chain, or leaves it alone. `Account` strengthens
`IterationsAccounted` with the bound of the iterations by the limit, from which
`TasksWithinBudget` follows by counting. `Owned` says that a Task of a chain was
dispatched for it and is not about to become another's root; it gives
`NoSharedTask`. `ImplementsChains` maps `left` to the iterations that remain.

`OrchestratorProofs`. `NextLife`: every step leaves a Task's life alone, is a
transition of it while it runs, or forwards heartbeats. `Lag` is `AllActive` for
all Tasks and gives `NoSharedFiles` against a stale registry. `Once` adds that
Delivered is the last heartbeat and that an announcement is remembered by `last`;
it gives `CompletedOnce`. `EveryTaskLives` is the refinement.

`ExtensionProofs`, the MCP client. `AnswersMatch` is not inductive: it speaks of the
call under way and of what was returned, but a wrong answer would first be a line in a
pipe. `Traces` says of every line, in the pipes or at the server, that it is the
server's own (`Sent`) or that its number has been taken already and, if it is the
number of the call under way, that it belongs to that call; a call that begins takes
a number no answer bears, so the statement survives it, and a line that finds its
entry brings the call's answer or the server's own request. The theorem holds for a
server that answers in any order, again and again, and numbers requests of its own as
it likes, and for callers that give up at any await. It does not say that a call gets
its answer and not such a request, which is not so (section 7).

`ExtensionProofs`, hooks. `HookInv` says that the dispatcher's list is the installed
plugins' lists one behind the other (`Whole`, which an installation extends by one
list or not at all), and that the hooks that have run for an event are those that
fire among the ones before `next`, each with its one result. `PartsOfJoined` finds a
plugin's hooks again in the longer list. `HooksAreAnswered` follows.

`ExtensionProofs`, AGENTS.md. The text as written is defined by what a file brings in
through any number of files, the code goes one line at a time, so `LoadInv` says what
holds of a load that is half done. There are, for every file begun, a line reached
(`ln`) and for every line of it up to there the length that the text had (`at`): a line
of text makes it longer by that line, an import by all that its file has become
(`LinesInv`); what is not on the stack was read to its end (`FilesInv`), the stack is a
chain of imports (`FramesInv`), every file begun but the first was asked for by exactly
one line (`AsksInv`), and the text holds nothing else (`TextInv`). At the end,
`Within` shows that what stands for a line lies between its two lengths, since the set
of files that lie there is closed under imports; lengths do not fall, so the text is as
written. An import that fails asks for a missing file or repeats a line that `AsksInv`
names (`ImportFails`). `ImportsAreOnce` follows.

`ContinuationProofs` also has `DoomLoopsStop`. The detector counts repetitions as
it goes, the property counts them in the history; `Progressing` says that the
counter is the number of positions that repeat the two before them, which one more
entry raises by one or leaves alone. Nothing sets it back.

`DeliveryProofs`. What each stage relies on was true when an earlier one looked, and
the user edits in between; so the invariant `IInv` says per Task what nobody else
can undo (`Sound`): a Task that may be submitted has its directory (`HeldOnDisk`),
only what is merged is scheduled for cleanup (`CleanupAfterMerge`), a copy compares
against what it was made from (`CopyKeepsBase`) while a frozen mirror compares with
itself (`MirrorForgetsBase`), and what is past its review was audited or needed no audit
(`AuditedBefore`). With `SuccessorsFollow` and edges that do not begin and end in one
Task this is inductive; a frame lemma (`SoundFrame`) takes care of all other Tasks. From it follow
`WorkIsKept`, `SuccessorsFollow`, `SourceIsAudited` and the two action properties
`NoLostUpdate` and `CleanAppliesAll`.

`MainProofs`. `Lines` says that the lines handled do not repeat, the queued ones rise,
the two share none and make up the lines typed, which gives `TypedIsHandled`.
`Screen` is the invariant behind `ReplyIsWhole`. For every answer (`Placed`, `Waits`):
the numbers of its pieces rise through the chat (`Rises`), from there into the channel
(`Precedes`) and through it (`Climbs`). For one that has the screen to itself and goes
on (`Undisturbed`): it is the only one, the last item is no thought that is closed, and
until a dispatch or an error the last item takes its pieces and the App works, so that
no line can come between. For one that has ended (`AtRest`): while any other answer goes
on, the last item holds none of its pieces, so that nothing can overwrite them. Without
the last two `Kept`, which says that no piece is lost, is not inductive. `Shape` says of
every event what it does to the chat: only the last item changes, and a piece goes to
the end. For the
mock, `Books` says for each Task that what was settled and what stands delivered was
delivered before, `ChainBooks` that ids are given out in order, so that none comes back, and that as
many chains are inactive as were stopped; together they give `SettledOnce`.

`ToolTurnProofs` has four theorems, one over the other. `ReplyCollected` speaks of a
finished reply; the invariant speaks of each call under construction: `Flow` says
that a call in flight holds just the pieces of its own that have been sent, and
`OpenAI`, `Anthropic` and `Gemini` say which calls may be under construction in each
parser (OpenAI's is the one `current_index` names, Anthropic's are those whose block
is open, Gemini has none). The three differ in when a call is taken over, which is
why the order of the calls (`Rising`) holds for each by a reason of its own. `HistoryPaired` rests on
`Paired(h, n)`: up to position n every call of the conversation is answered before the
next message of the model, and the results under way (`Slots`) are those of the last
one. `PendingCountsTickets` rests on `Counted`: tickets awaited, settled and lapsed
are together the tickets given out, of which those of the batch under way are the
calls that succeeded so far; a batch's end moves that set into the count by a
bijection of positions. A wait that times out moves all that is awaited to `lapsed`
and zeroes the count; a late result takes one from the count and is one more in
`late`, so the two bounds of the property stay. `BatchIsSerial` rests on `Ordered` (the writing calls that ran are a
prefix of them) and `Effects` (each saw what the last one before it left, `Behind`).

`LibraryProofs`, the evidence gate. `MatchIsSame` shows that two entries match if and
only if their lines differ by places only: normalising, kind and file all depend on no
more than that, and the normalised text tells it. `JudgedTolerates` lifts this to the
sets a verification compares, `GateJudges` to the life of the gate.

`LibraryProofs`, the memory. `Picked` says that the items a compaction takes out of the
active region are those of the indices it chose, all of them and no others, by counting
(`Ranks`: of a finite set of numbers the j-th exists and is one). Rows are only added
(`RowsGrow`), a list stored to its end is found by every index (`StoredAreFound`), and
both strategies drop nothing before that; hence `NothingForgotten`, through any number of
failures. A summary covers what its Task's highlights cover, earlier summaries among
them, and each Task that had one gets one, in whatever order the hash map gives
(`Summarised`); hence what was drained of a completed Task is told of
(`CompletedAreTold`). What was drained while it ran leaves the context only behind
`Recent` later ones, since the region holds the latest of each Task (`StayInv`, below),
and then it is in the archive (`NothingForgotten`). The two give `HighlightsTold`.

`LibraryProofs`, what a Task said last. `LatestStay` is about the Orchestrator's
compaction only: the threshold compaction, which is Tasks' own, promises nothing of
the kind. It speaks of the items pushed after one (`Later`). Under the Orchestrator's compaction the running Tasks' items of the
active region are those pushed, in their order (`StayInv`), because `Picked` keeps
indices in order (`PickedInOrder`) and summaries go behind; so an item has as many
after it in the region as in the log, and one that is among the latest is in neither
`OldHeartbeats` nor `OldHighlights` (`LatestIsNotArchived`). `LatestAreKept` follows.

`LibraryProofs`, the session log. `JournalInv` says that file and buffer together are
pieces whose entries rise, that each entry flushed stands in the file, and that
without a kill they are whole entries (`Regular`) cut anywhere but within one.
`ReadAsWritten` shows that a file which can be read yields every entry that stands in
it, in order: an entry that stands there but does not begin a line is behind the torn
one of a killed process, which makes the line unreadable (`StandsAtBeginning`);
writes do not fail in the model, and `RegularIsReadable` that without a kill every line parses. `FlushedAreRead` follows.

Where an argument needs the first or last of a set of numbers, it takes the least
element by well-founded order (`Least`, `HighestExists`), since the library's induction
theorems cannot be instantiated; `Memory.Nth` is written with `Cardinality` instead of a library sort
for the same reason: the provers do not know `SortSeq`.

Proving found places where the model said less than it meant: the arms of a CASE that
overlap leave its value open (`BatchIsSerial`, `AfterReview`, `KindOf`, what
`SendMessage` marks), where TLC takes the first. They are disjoint now, as the
branches of the code are, and `DeliveryAssumption` orders the two thresholds, without
which the rating of a change is not defined.

The type invariants, `ReportsAreLegal`, `InactiveMeansReturned`,
`IterationsAccounted` and `EndedForGood` are proved and no longer run.

Only model-checked:

- all liveness (`Returns`, `CancelStops`, `RegistrySettles`, `ChainEnds`,
  `EveryEndIsTold`, `WaitEnds`, `CallReturns`, `QueueDrains`, `QuitEnds`), which needs
  ENABLED.

## 7. Where code and documents differ

Shown by a run:

- `DocMirrorLoses`: the merge of a frozen mirror workspace is clean and empty;
  the end-to-end test that says otherwise is `#[ignore]`d.
- `DocCtrlC`: Ctrl-C ends the REPL's input thread only; the loop waits on a
  channel whose other sender it holds itself
  (`openspec/specs/cli-frontend/spec.md:81`).

Met while modelling, without a run of their own. Four of these are the exceptions
that a checked property makes, as it says: `PendingCountsTickets`, `DoomLoopStops`,
`HighlightsTold`, `AnswersMatch`.

Task loop:

- a Task that waits for a clarification and answers with text returns Completed
  and announces Delivered; the tracker refuses the transition and it stays
  Waiting (`task/run.rs:283`, `docs/architecture.md:227`);
- a result of a sub-task that was given up is read like any other and taken off the
  count of pending sub-tasks, which the time-out has set to zero and later tickets have
  raised: the Task stops waiting for another one (`task/run.rs:258-276`, `:590`;
  `openspec/specs/sub-agent-async/spec.md:63` says that late results are ignored);
- a wait entered by a clarification in the batch that dispatched a sub-task has no
  clock; one report with three errors of one signature makes the Task Stuck at
  once; a Task asks the provider while it is Waiting for the user; cancellation
  is looked at between turns only; a provider error before the first reply leaves
  the entry at Pondering, active for ever; the branch of `run_turn` for follow-ups
  and the resume of a Stuck Task are unreachable.

Tools and providers:

- the parallel limit of `dispatch_subtask` is never enforced: `set_active_count`,
  "called by the run loop" (`sub_agent/dispatch.rs:168`), has no caller; ticket ids
  are the length of a queue and recur;
- of two questions in one batch only the last is shown; the reading calls of a
  batch run before its writing ones, wherever they stand;
- a reply that is cut is taken as complete: Anthropic's open calls are dropped,
  OpenAI's run with `{}`;
- `report_highlight` uses the focus cloned when the Task was made, although
  `openspec/specs/task-context-layering/spec.md:34-40` lets an update count from
  the next turn;
- Gemini's function responses carry the call's id as the function's name; an
  assistant message without text or calls goes to Anthropic and Gemini with an
  empty list; thinking is pushed behind the calls and sent without a signature.

Orchestrator and command line:

- a Task that conflicts is entered undispatched and nothing ever dispatches it
  (`orchestrator/orchestrator.rs:158`, `openspec/specs/orchestrator-core/spec.md:59`);
- feedback with a rejection goes to a closed channel (`opca-cli/src/real.rs:487`,
  `docs/getting-started.md:214`);
- a question is notified, told as a change of status, and notified again, with its
  clock restarted; a Task that returned while Waiting is asked about every 300 s
  for ever; `accepted` and `rejected` are never read; the command line dispatches
  with no estimated files, so in production no conflict is ever predicted; it never
  constructs the completion pipeline.

Continuation:

- an audit that fails counts as Confirmed (`opca-cli/src/real.rs:341`,
  `openspec/specs/task-continuation/spec.md:23`);
- a failed dispatch makes the next poll evaluate the same Task again; a chain whose
  Task failed stays active even after its duration (`continuation/budget.rs:110` is
  only reached by an evaluation); the detector's diff heuristic is never fed; the
  limit counts continuations, not Tasks;
- three consecutive audits with the same finding do not end a chain
  (`openspec/specs/task-continuation/spec.md:75-77` says that they do): the third is the
  first repetition that is counted, and two are needed, so a fourth Task is dispatched
  and audited (`continuation/coordinator.rs:127`, `continuation/budget.rs:113`);
- the count of rounds without progress is never set back: `reset_no_progress` has no
  caller, although `openspec/specs/task-continuation/spec.md:71-73` resets it with the
  first round of progress, so two repetitions far apart end a chain too.

Workspaces and completion:

- freeze moves the baseline, so git and mirror work is rated of low risk and merged
  unaudited (`openspec/specs/completion-pipeline/spec.md:32`); a copy overwrites
  added files unasked; a successor of two predecessors is released by the first; an
  uncommitted merge blocks all later ones; a leftover worktree entry gives a
  workspace without a directory; freeze sends another Delivered heartbeat.

Memory:

- production never compacts: `is_near_limit` has no caller;
- the highlights of a completed Task are not all replaced by one summary
  (`openspec/specs/memory-system/spec.md:54-57` says five become one): those drained
  while it ran count as a running Task's for ever
  (`orchestrator/orchestrator.rs:525-539`), the last three stay and older ones are
  archived without a summary;
- the Orchestrator's compaction is not "idempotent" (`memory/compact.rs:240`): the
  summary of a completed Task's highlights is a completed highlight, which the next
  compaction archives and summarises again (`:332`);
- older highlights of running Tasks are archived without the rolling summary of the
  comment; the threshold compaction archives the items it keeps too, and stores
  neither Task nor tags; with an empty active region and a threshold of 0 it panics.

Session log:

- "a crash truncates at most the final line" (`session/writer.rs:5-6`): entries
  wait in a `BufWriter`, so a crash loses everything since the last flush; a crash
  between a line and its end leaves a valid last line, to which the next writer
  appends; an index row written after a reopening counts the new entries only.

Evidence gate:

- exit codes are not consulted: a command that fails without a recognisable line
  passes; a report lists baseline errors too; `test result: FAILED` holds counts
  and times that are not normalised, so an old failure can block
  (`task/evidence_gate.rs:142-144` says it cannot); a second equal failure
  elsewhere in the same file is tolerated; a baseline that cannot be captured turns
  the gate off.

Extensions:

- nothing of `extensions/` but `load_agents_md` is called outside its tests;
- MCP: the reader does not dispatch responses only (`extensions/mcp.rs:251-252`): it
  takes every line with an integer id for one (`:290-297`), a request of the server's
  own such as `ping` included; if its number is that of the call under way, the call
  returns Null and its response finds no entry;
- MCP: the 30 s do not cover the write; a call that is dropped may leave part of a
  line, which spoils the next; entries of calls that timed out stay; the child's
  standard error is piped and never read;
- hooks: an explicit denial counts whatever `can_block` says
  (`extensions/hooks.rs:26-30`); no output means Allow; a command that timed out is
  not killed;
- a plugin's errors in skills are swallowed and its MCP server is never started;
- AGENTS.md: a file imported along two paths is reported as a cycle; files are told
  apart by the path as spelled, so a cycle through `../x/` is not noticed.

Terminal front ends:

- `/accept`, `/reject`, `/answer` and `/continue` are unknown to the TUI, and the
  REPL that knows them runs with the mock only: with a real provider a question can
  only time out;
- a line typed in the TUI's Task mode is shown as steering and dropped
  (`opca-cli/src/tui/app.rs:152-156`);
  `openspec/specs/tui-interface/spec.md:56-59` says that it is sent as
  `SteeringMessage::Inject`;
- Esc does not stop the stream, whose late pieces and end go to the next answer;
  after a dispatch a queued line is sent while the old stream still runs, and its
  end finishes the new answer early; pieces are lost after a notification that
  printed (`openspec/specs/tui-interface/spec.md:123-139`); a line entered after Esc
  overtakes the queue; a provider's error event is ignored, and a stream that ends
  silently leaves the App working until Esc; text before a dispatch is overwritten;
- `--no-review-indicator` is passed as `enable_input_thread` (`main.rs:136`): with it
  the REPL reads nothing and never ends; after `/quit` the process waits for the
  blocking input thread (`openspec/specs/cli-frontend/spec.md:73-79` says it exits);
- the mock prints "discarded" for a rejection without feedback and sets OnIt; a
  prompt that begins with `status` is never started as a chain.

## 8. What is not modelled

Texts (prompts, summaries, notifications), parsing of compiler output beyond what
the gate compares, of audit reports and manifests, pattern matching of ignored
files, search tools, SQL as such, rendering, HTTP: no property is about them.
Panics and the u8 width of the strike counters. Errors of writing and flushing the
session log (`session/writer.rs:66`), so what is said of it holds where no write fails;
a root AGENTS.md that is there and cannot be read. `git merge` is external: real git
brings back a tracked file that the user deleted without a commit where the model's
refuses the merge. Two processes on one machine. The
lock that an audit holds while the provider answers is a matter of time, not of
order. Cancellation of sub-agents and the aggregation of their heartbeats have no
caller. PROJECT.json gives the reason for each component.

## 9. Plan

Done: modules and theorems of section 2. All safety properties that a run checks are
proved. Next: refinement between `ToolTurn` and the tool step of `TaskRun`: the tickets
and the question it leaves are those that step may leave.
