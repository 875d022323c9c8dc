-------------------------------- MODULE Repl --------------------------------
(***************************************************************************)
(* The line-oriented front end of --mock (crates/opca-cli/src/repl.rs,     *)
(* commands.rs) over MockOrchestrator (mock.rs): a thread that reads lines *)
(* from the terminal, a loop that takes a line or a notification at a      *)
(* time, and whoever drives the mock's Tasks, which in the repository are  *)
(* its tests.                                                              *)
(*                                                                         *)
(* A line is a sequence of words.  What is printed is left out, and so is  *)
(* the progress of a Task.  A command takes the mock's lock more than once *)
(* at most to make a Task (next_id, seed_task) or a chain; the driver can  *)
(* do nothing with an id that is not entered yet, so it is one step.       *)
(***************************************************************************)
EXTENDS Naturals, SequencesExt

CONSTANTS
    Line,        \* the lines the user may enter
    TaskIds,     \* the ids the mock gives, in order
    ChainIds,
    Driven,      \* the statuses the driver sets
    MaxTyped,    \* bound: lines entered
    MaxDriven    \* bound: calls of the driver

VARIABLES
    reader,      \* the thread of run_reedline_input: "absent", "reading" or "over"
    input,       \* the channel of lines
    looping,     \* repl_main_loop has not ended; its channels end with it
    exited,      \* the process has ended
    notices,     \* the channel of notifications
    tasks,       \* MockState.tasks: the status by id
    chains,      \* MockState.chains: active or not, by id
    entered, driven,    \* counters for the bounds
    delivered, settled, \* history: by Task, how often it was delivered, accepted or rejected
    stopped             \* history: how many chains the user was told were stopped

mockVars == <<tasks, chains, delivered, settled, stopped>>
vars == <<mockVars, reader, input, looping, exited, notices, entered, driven>>

Zero == [t \in ToSet(TaskIds) |-> 0]

\* main passes !no_review_indicator as enable_input_thread.
Init ==
    /\ reader \in {"absent", "reading"}
    /\ input = <<>> /\ looping = TRUE /\ exited = FALSE /\ notices = <<>>
    /\ tasks = <<>> /\ chains = <<>>
    /\ entered = 0 /\ driven = 0 /\ delivered = Zero /\ settled = Zero /\ stopped = 0

-----------------------------------------------------------------------------
(* SlashCommand::parse and route *)

Quotes == "\"\""
\* What is left of the words when the quotes around them are taken off.
Says(words) == \E i \in DOMAIN words : words[i] # Quotes

\* parse_continue: -i takes the next word, which must be a number.
StartsChain(words) ==
    LET read == FoldLeft(LAMBDA s, w :
                    CASE s.value -> [s EXCEPT !.value = FALSE, !.ok = s.ok /\ w = "5"]
                      [] ~s.value /\ w = "-i" -> [s EXCEPT !.value = TRUE]
                      [] OTHER -> [s EXCEPT !.prompt = TRUE],
                [value |-> FALSE, ok |-> TRUE, prompt |-> FALSE], words)
    IN  read.ok /\ read.prompt /\ ~read.value

Command(name, id) == [name |-> name, id |-> id]
Looks == {"/tasks", "/status", "/help", "/subtasks"}

Parse(line) ==
    LET name == Head(line)
        rest == Tail(line)
    IN  CASE name = "/accept" /\ rest # <<>> -> Command("accept", rest[1])
          [] name = "/reject" /\ rest # <<>> -> Command("reject", rest[1])
          [] name = "/answer" /\ rest # <<>> /\ Says(Tail(rest)) -> Command("answer", rest[1])
          [] name = "/continue" /\ rest # <<>> /\ rest[1] # "status" /\ StartsChain(rest) ->
                Command("continue", "")
          [] name = "/stop-continuation" /\ rest # <<>> -> Command("stop", rest[1])
          [] name = "/quit" -> Command("quit", "")
          [] name \in Looks \/ (name = "/continue" /\ rest # <<>> /\ rest[1] = "status") ->
                Command("look", "")
          [] name \in {"how is", "what's running"} -> Command("look", "")
          [] name = "message" -> Command("message", "")
          [] OTHER -> Command("error", "")

\* A message makes a Task if it has a word of work and none of a question.
Background(line) == Contains(line, "fix") /\ ~Contains(line, "explain")

-----------------------------------------------------------------------------
(* MockOrchestrator *)

NextId(ids, made) == ids[Cardinality(DOMAIN made) + 1]

\* HashMap::insert, whether the key is there or not.
Insert(map, key, value) ==
    [k \in DOMAIN map \cup {key} |-> IF k = key THEN value ELSE map[k]]

Dispatch == tasks' = Insert(tasks, NextId(TaskIds, tasks), "Pondering")

SetStatus(t, status) == tasks' = [tasks EXCEPT ![t] = status]
Is(t, status) == t \in DOMAIN tasks /\ tasks[t] = status

\* Mutant: accepting a Task leaves it delivered.
AcceptQuietly(t) ==
    /\ Is(t, "Delivered") /\ UNCHANGED tasks
    /\ settled' = [settled EXCEPT ![t] = @ + 1]

Accept(t) ==
    /\ Is(t, "Delivered") /\ SetStatus(t, "Archived")
    /\ settled' = [settled EXCEPT ![t] = @ + 1]

\* With feedback or without, the Task is OnIt again.
Reject(t) ==
    /\ Is(t, "Delivered") /\ SetStatus(t, "OnIt")
    /\ settled' = [settled EXCEPT ![t] = @ + 1]

Broadcast(kind, t) == notices' = IF looping THEN Append(notices, [kind |-> kind, task |-> t]) ELSE notices

AnswerTask(t) ==
    /\ Is(t, "Waiting") /\ SetStatus(t, "OnIt")
    /\ Broadcast("StatusChanged", t)
    /\ UNCHANGED <<chains, delivered, settled, stopped>>

StartContinuation ==
    /\ Dispatch
    /\ chains' = Insert(chains, NextId(ChainIds, chains), TRUE)

StopContinuation(id) ==
    LET hit == {c \in DOMAIN chains : chains[c] /\ id \in {c, "all"}}
    IN  /\ chains' = [c \in DOMAIN chains |-> chains[c] /\ c \notin hit]
        /\ stopped' = stopped + Cardinality(hit)

\* push_heartbeat and complete_task, from any status to any.
Drive(t, status) ==
    /\ ~exited /\ driven < MaxDriven
    /\ driven' = driven + 1
    /\ t \in DOMAIN tasks /\ SetStatus(t, status)
    /\ delivered' = [delivered EXCEPT ![t] = @ + (IF Is(t, status) \/ status # "Delivered" THEN 0 ELSE 1)]
    /\ Broadcast(IF status = "Delivered" THEN "Completed" ELSE "StatusChanged", t)
    /\ UNCHANGED <<chains, settled, stopped, reader, input, looping, exited, entered>>

-----------------------------------------------------------------------------
(* The loop and its thread *)

\* The effect of a command that is carried out; others print an error.
Effect(line, c) ==
    \/ /\ \/ c.name = "accept" /\ Accept(c.id)
          \/ c.name = "reject" /\ Reject(c.id)
       /\ UNCHANGED <<chains, delivered, stopped, notices>>
    \/ c.name = "answer" /\ AnswerTask(c.id)
    \/ /\ c.name = "message" /\ Background(line) /\ Dispatch
       /\ UNCHANGED <<chains, delivered, settled, stopped, notices>>
    \/ /\ c.name = "continue" /\ StartContinuation
       /\ UNCHANGED <<delivered, settled, stopped, notices>>
    \/ /\ c.name = "stop" /\ StopContinuation(c.id)
       /\ UNCHANGED <<tasks, delivered, settled, notices>>

\* The commands that print and change nothing.
Prints(line, c) ==
    \/ c.name \in {"look", "error", "quit"}
    \/ c.name = "message" /\ ~Background(line)
    \/ c.name \in {"accept", "reject"} /\ ~Is(c.id, "Delivered")
    \/ c.name = "answer" /\ ~Is(c.id, "Waiting")

\* Mutant: the loop goes on after /quit.
NeverQuits(c) == FALSE
Quits(c) == c.name = "quit"

\* handle_line.  The lines behind a /quit are lost with the channel.
HandleLine ==
    /\ looping /\ input # <<>>
    /\ LET line == Head(input)
           c    == Parse(line)
       IN  /\ \/ Effect(line, c)
              \/ Prints(line, c) /\ UNCHANGED <<mockVars, notices>>
           /\ looping' = ~Quits(c)
    /\ input' = IF looping' THEN Tail(input) ELSE <<>>
    /\ UNCHANGED <<reader, exited, entered, driven>>

RenderNotification ==
    /\ looping /\ notices # <<>>
    /\ notices' = Tail(notices)
    /\ UNCHANGED <<mockVars, reader, input, looping, exited, entered, driven>>

\* read_line returns a line.  Only a send that fails tells the thread that the
\* loop is over.
EnterLine(line) ==
    /\ reader = "reading" /\ entered < MaxTyped
    /\ entered' = entered + 1
    /\ IF looping THEN input' = Append(input, line) /\ UNCHANGED reader
       ELSE reader' = "over" /\ UNCHANGED input
    /\ UNCHANGED <<mockVars, looping, exited, notices, driven>>

\* Control-C, Control-D or an error of the terminal.  The runtime keeps a
\* sender of its own, so the loop does not learn of it.
Interrupt ==
    /\ reader = "reading"
    /\ reader' = "over"
    /\ UNCHANGED <<mockVars, input, looping, exited, notices, entered, driven>>

\* main waits for the loop, then for the thread: abort does not stop a blocking
\* task that has begun, and dropping tokio's runtime waits for it.
Exit ==
    /\ ~looping /\ reader # "reading" /\ ~exited
    /\ exited' = TRUE
    /\ UNCHANGED <<mockVars, reader, input, looping, notices, entered, driven>>

Next ==
    \/ \E line \in Line : EnterLine(line)
    \/ Interrupt
    \/ HandleLine
    \/ RenderNotification
    \/ Exit
    \/ \E t \in ToSet(TaskIds), status \in Driven : Drive(t, status)

\* select! takes a ready branch at random, so neither line nor notification
\* waits for ever.  Nothing is assumed of the user or the driver.
Fairness == WF_vars(HandleLine) /\ WF_vars(RenderNotification) /\ WF_vars(Exit)

-----------------------------------------------------------------------------
(* Properties *)

\* Hazard: the user's commands are queued behind each other while the driver
\* delivers Tasks.  Each delivery is accepted or rejected at most once, and the
\* user is told of each chain at most once that it was stopped (mock.rs accept,
\* reject, stop_continuation).
SettledOnce ==
    /\ \A t \in ToSet(TaskIds) : settled[t] <= delivered[t]
    /\ stopped <= Cardinality({c \in DOMAIN chains : ~chains[c]})

\* The program ends once the user has entered /quit and has then pressed
\* Control-C, Control-D or entered any further line; /quit alone leaves the
\* thread at its prompt (openspec/specs/cli-frontend/spec.md:73-79).
QuitEnds ==
    (reader = "over" /\ (~looping \/ Contains(input, <<"/quit">>))) ~> exited

\* openspec/specs/cli-frontend/spec.md:81-83: when the user presses Control-C
\* the input loop breaks immediately and the process exits.
CtrlCExits == (reader = "over") ~> exited
=============================================================================
