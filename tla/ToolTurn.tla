------------------------------ MODULE ToolTurn ------------------------------
(***************************************************************************)
(* A Task's turns from the inside: the conversation it sends, the reply it *)
(* collects (ProviderStream), the tools it runs in a batch (tools/dispatch *)
(* .rs and tools/builtin) and what they leave: files, the todo list, the   *)
(* question for the user, highlights and sub-task tickets.  What TaskRun   *)
(* takes for one step, "the reply has tools and they run", is opened here; *)
(* phases and gates are TaskRun's, and the passing of time.                *)
(***************************************************************************)
EXTENDS ProviderStream, FiniteSets

CONSTANTS
    Text,        \* contents of the one file the calls are about
    Start,       \* what it holds first
    Dimension,   \* focus dimensions
    FocusCap,    \* FocusContract::DEFAULT_CAP
    FocusLetters,\* updates the user may send: records [remove, add]
    MaxTurns,    \* bound, for each dialect: replies of the provider
    MaxRuns,     \* bound: calls in all replies
    MaxSends     \* bound: messages of the user

ASSUME ToolTurnAssumption ==
    /\ Start \in Text
    /\ MaxTurns \in [Dialects -> Nat]
    /\ FocusCap \in Nat /\ MaxRuns \in Nat /\ MaxSends \in Nat

VARIABLES
    pc,          \* "head", "stream", "batch" or "returned"
    turn,
    status,      \* LifecycleTracker.current, as far as questions go
    mail, sends, \* the steering channel
    history,     \* Task.active
    slots,       \* results of dispatch_batch; what each call saw or left
    file, todo,  \* the file; the TodoStore
    question,    \* the ClarificationStore
    shown,       \* the question announced last
    focus,       \* Task.focus
    bound,       \* ReportHighlightTool.focus, cloned by Task::new
    tickets,     \* SubTaskRequests queued
    pending,     \* Task.pending_subtask_count
    since,       \* whether Task.waiting_since is set
    settled,     \* history: tickets whose result was read in time,
    lapsed,      \* given up when a wait timed out, the result yet to come,
    late,        \* given up, and the result read since
    before       \* history: file and todo list when the batch began

effects == <<file, todo, question, tickets>>
tallies == <<pending, settled, lapsed, late>>
kidVars == <<tallies, since>>
vars == <<dialect, streamVars, pc, turn, status, mail, sends, history, slots,
          effects, shown, focus, bound, kidVars, before>>

User == [role |-> "user"]
Assistant(ids) == [role |-> "assistant", ids |-> ids]
ToolResult(id, ok) == [role |-> "tool", id |-> id, ok |-> ok]
\* A slot of dispatch_batch that is not filled yet: None.
Empty == <<>>

\* Ids come from the server; gemini's are made up, afresh in every reply.
Id(i) == <<IF dialect = "gemini" THEN 0 ELSE turn, i>>

Init ==
    /\ dialect \in Dialects
    /\ said = <<>> /\ sent = [i \in Index |-> 0] /\ current = 0 /\ open = <<>>
    /\ got = Nothing /\ end = "closed" /\ straight = TRUE
    /\ pc = "head" /\ turn = 0 /\ status = "OnIt" /\ mail = <<>> /\ sends = 0
    /\ history = <<User>> /\ slots = <<>>
    /\ file = Start /\ todo = NoArg /\ question = NoArg /\ shown = NoArg
    /\ focus \in {s \in SeqOf(Dimension, FocusCap) : IsInjective(s)}
    /\ bound = ToSet(focus)
    /\ tickets = 0 /\ pending = 0 /\ since = FALSE
    /\ settled = 0 /\ lapsed = 0 /\ late = 0
    /\ before = [file |-> file, todo |-> todo]

-----------------------------------------------------------------------------
(* The user *)

\* Only the head of the loop looks into the channel: to send earlier is to have
\* sent by then.
Send(letter) ==
    /\ pc = "head" /\ sends < MaxSends
    /\ mail' = Append(mail, letter)
    /\ sends' = sends + 1
    /\ UNCHANGED <<dialect, streamVars, pc, turn, status, history, slots,
                   effects, shown, focus, bound, kidVars, before>>

-----------------------------------------------------------------------------
(* The head of the loop: process_steering, drain_subtask_notifications *)

\* FocusContract::update: stops at the first dimension it cannot add, and
\* keeps what it did before.
Refuses(f, d) == Contains(f, d) \/ Len(f) >= FocusCap
Added(f, d) == IF Refuses(f, d) THEN f ELSE Append(f, d)
Updated(f, letter) ==
    LET kept == SelectSeq(f, LAMBDA d : d \notin letter.remove)
        grown[n \in 0..Len(letter.add)] ==
            IF n = 0 THEN [focus |-> kept, stopped |-> FALSE]
            ELSE LET g == grown[n - 1]
                     d == letter.add[n]
                 IN  [focus |-> IF g.stopped THEN g.focus ELSE Added(g.focus, d),
                      stopped |-> g.stopped \/ Refuses(g.focus, d)]
    IN  grown[Len(letter.add)].focus

AtHead == UNCHANGED <<dialect, streamVars, turn, sends, slots, effects, shown,
                      bound, before>>

ReadsMail ==
    /\ pc = "head" /\ mail # <<>>
    /\ mail' = Tail(mail)
    /\ LET letter == Head(mail) IN
       \/ /\ letter.kind = "inject"
          /\ history' = Append(history, User)
          /\ status' = "OnIt"
          /\ UNCHANGED <<pc, focus>>
       \/ /\ letter.kind = "focus"
          /\ focus' = Updated(focus, letter)
          /\ UNCHANGED <<pc, status, history>>
       \/ /\ letter.kind = "cancel"
          /\ pc' = "returned"
          /\ UNCHANGED <<status, history, focus>>
    /\ AtHead /\ UNCHANGED kidVars

\* The tickets whose result is to come and that were not given up.
Awaited == tickets - settled - lapsed - late

\* The result of one sub-task.  The Task does not ask whether it gave it up.
ReadsNote ==
    /\ pc = "head" /\ mail = <<>>
    /\ \/ Awaited > 0 /\ settled' = settled + 1 /\ UNCHANGED <<lapsed, late>>
       \/ lapsed > 0 /\ lapsed' = lapsed - 1 /\ late' = late + 1 /\ UNCHANGED settled
    /\ history' = Append(history, User)
    /\ pending' = IF pending = 0 THEN 0 ELSE pending - 1
    /\ AtHead /\ UNCHANGED <<pc, status, since, mail, focus>>

\* A wait that lasted SUBTASK_WAIT_TIMEOUT_SECS gives up what it waits for.  The
\* clock is that of the last reply that was text, however the wait began.
GivesUpWaiting ==
    /\ pc = "head" /\ mail = <<>> /\ status = "Waiting" /\ pending > 0 /\ since
    /\ history' = Append(history, User)
    /\ status' = "OnIt" /\ since' = FALSE
    /\ pending' = 0 /\ lapsed' = lapsed + Awaited
    /\ AtHead /\ UNCHANGED <<pc, mail, focus, settled, late>>

\* What each provider makes of a message: who speaks, the calls made and the call
\* answered.  Gemini's calls have no id; its answers bear it as their name.
OpenAIMessage(m) ==
    [role    |-> m.role,
     calls   |-> IF m.role = "assistant" THEN m.ids ELSE <<>>,
     answers |-> IF m.role = "tool" THEN <<m.id>> ELSE <<>>]
AnthropicMessage(m) ==
    [OpenAIMessage(m) EXCEPT !.role = IF m.role = "tool" THEN "user" ELSE @]
GeminiContent(m) ==
    [AnthropicMessage(m) EXCEPT !.role = IF @ = "assistant" THEN "model" ELSE @,
                                !.calls = [k \in DOMAIN @ |-> <<"functionCall", k>>]]

Request(h) ==
    [k \in DOMAIN h |-> CASE dialect = "openai" -> OpenAIMessage(h[k])
                          [] dialect = "anthropic" -> AnthropicMessage(h[k])
                          [] dialect = "gemini" -> GeminiContent(h[k])]

\* run_turn up to the answer's head.  A Task that waits for sub-tasks does not
\* ask.
AsksProvider(reply) ==
    /\ pc = "head" /\ mail = <<>> /\ turn < MaxTurns[dialect]
    /\ ~(status = "Waiting" /\ pending > 0)
    /\ Len(reply) + Len(SelectSeq(history, LAMBDA m : m.role = "tool")) <= MaxRuns
    /\ pc' = "stream" /\ turn' = turn + 1
    /\ Open(reply)
    /\ UNCHANGED <<dialect, status, mail, sends, history, slots, effects, shown,
                   focus, bound, kidVars, before>>

Receives ==
    /\ pc = "stream" /\ Arrives
    /\ UNCHANGED <<dialect, pc, turn, status, mail, sends, history, slots,
                   effects, shown, focus, bound, kidVars, before>>

-----------------------------------------------------------------------------
(* The reply *)

Calling == got.calls
Ids == [k \in DOMAIN Calling |-> Id(Calling[k].index)]

\* The parser's task is over, and what it knew is gone.
Forget ==
    /\ end' = "closed"
    /\ sent' = [i \in Index |-> 0] /\ current' = 0 /\ open' = <<>>
    /\ straight' = TRUE

RestOfReply == UNCHANGED <<dialect, turn, mail, sends, effects,
                           shown, focus, bound, tallies>>

\* An error ends the Task; the conversation does not get the broken reply.
ReplyFails ==
    /\ pc = "stream" /\ end = "failed"
    /\ pc' = "returned"
    /\ Forget /\ said' = <<>> /\ got' = Nothing
    /\ RestOfReply /\ UNCHANGED <<status, since, history, slots, before>>

\* A reply without calls ends the Task, or is answered by the evidence gate, or
\* leaves the Task waiting for its sub-tasks.
ReplyIsText ==
    /\ pc = "stream" /\ end = "done" /\ Calling = <<>>
    /\ \/ /\ history' = Append(history, Assistant(<<>>))
          /\ pending = 0 /\ pc' = "returned" /\ UNCHANGED <<status, since>>
       \/ /\ history' = history \o <<Assistant(<<>>), User>>
          /\ pc' = "head" /\ UNCHANGED <<status, since>>
       \/ /\ history' = Append(history, Assistant(<<>>))
          /\ pending > 0 /\ pc' = "head" /\ status' = "Waiting" /\ since' = TRUE
    /\ Forget /\ said' = <<>> /\ got' = Nothing
    /\ RestOfReply /\ UNCHANGED <<slots, before>>

Parallel == {"look", "note", "ask", "spawn", "report"}  \* Read, Append
Serial   == {"write", "edit", "bash"}                   \* Write, Process

\* The assistant message is pushed and dispatch_batch begins: a tool that does
\* not exist has its result at once.
ReplyHasCalls ==
    /\ pc = "stream" /\ end = "done" /\ Calling # <<>>
    /\ history' = Append(history, Assistant(Ids))
    /\ slots' = [k \in DOMAIN Calling |->
                   IF Calling[k].tool \in Parallel \cup Serial THEN Empty
                   ELSE [ok |-> FALSE, seen |-> file]]
    /\ before' = [file |-> file, todo |-> todo]
    /\ pc' = "batch"
    /\ Forget /\ got' = [got EXCEPT !.flight = <<>>]
    /\ RestOfReply /\ UNCHANGED <<status, since, said>>

-----------------------------------------------------------------------------
(* The tools *)

Waits(k, tools) == slots[k] = Empty /\ Calling[k].tool \in tools

\* Mutant: the calls run in the order of the reply.
NextInOrder(k) ==
    /\ Waits(k, Parallel \cup Serial)
    /\ \A j \in 1..(k - 1) : slots[j] # Empty

\* join_all over the calls that read, which never suspend; then the others, one
\* after another.
Next1(k) ==
    \/ Waits(k, Parallel) /\ \A j \in 1..(k - 1) : ~Waits(j, Parallel)
    \/ /\ Waits(k, Serial)
       /\ \A j \in DOMAIN slots : ~Waits(j, Parallel)
       /\ \A j \in 1..(k - 1) : ~Waits(j, Serial)

\* Task::new gave the tool the focus of that time.
MayReport(tag) == tag \in bound

\* What each tool does when it succeeds.
Looks(c)   == c.tool = "look" /\ UNCHANGED effects
TodoWrite(c) == c.tool = "note" /\ todo' = c.arg /\ UNCHANGED <<file, question, tickets>>
Asks(c)    == c.tool = "ask" /\ question' = c.arg /\ UNCHANGED <<file, todo, tickets>>
Spawns(c)  == c.tool = "spawn" /\ tickets' = tickets + 1 /\ UNCHANGED <<file, todo, question>>
Reports(c) == c.tool = "report" /\ MayReport(c.arg) /\ UNCHANGED effects
Writes(c)  == c.tool = "write" /\ file' = c.arg /\ UNCHANGED <<todo, question, tickets>>
Edits(c)   == /\ c.tool = "edit" /\ file = said[c.index].old /\ file' = c.arg
              /\ UNCHANGED <<todo, question, tickets>>
Bash(c)    == c.tool = "bash" /\ file' \in Text /\ UNCHANGED <<todo, question, tickets>>

Does(c) ==
    /\ c.arg # NoArg
    /\ \/ Looks(c) \/ TodoWrite(c) \/ Asks(c) \/ Spawns(c) \/ Reports(c)
       \/ Writes(c) \/ Edits(c) \/ Bash(c)

\* A missing argument, a value the tool rejects, text it does not find, a limit
\* or a file error; only a question that is there is always taken.
Refused(c) == (c.tool = "ask" => c.arg = NoArg) /\ UNCHANGED effects

RunCall(k) ==
    /\ pc = "batch" /\ k \in DOMAIN slots /\ Next1(k)
    /\ \E ok \in BOOLEAN :
         /\ IF ok THEN Does(Calling[k])
                  ELSE \/ Refused(Calling[k])
                       \/ Calling[k].arg # NoArg /\ Bash(Calling[k])
         /\ slots' = [slots EXCEPT ![k] = [ok |-> ok, seen |-> file']]
    /\ UNCHANGED <<dialect, streamVars, pc, turn, status, mail, sends, history,
                   shown, focus, bound, kidVars, before>>

-----------------------------------------------------------------------------
(* The end of the batch: execute_tools, the tickets, the question *)

\* Mutant: the results of the calls that ran first are pushed first.
ResultsAsRun ==
    LET result(k) == ToolResult(Ids[k], slots[k].ok)
        first == SelectSeq([k \in DOMAIN slots |-> k], LAMBDA k : Calling[k].tool \in Parallel)
        last  == SelectSeq([k \in DOMAIN slots |-> k], LAMBDA k : Calling[k].tool \notin Parallel)
    IN  [k \in DOMAIN slots |-> result((first \o last)[k])]

\* One tool message per call, in the order of the calls.
Results == [k \in DOMAIN slots |-> ToolResult(Ids[k], slots[k].ok)]

SpawnIds == {Ids[k] : k \in {j \in DOMAIN Calling : Calling[j].tool = "spawn"}}
IsTicket(m) == m.role = "tool" /\ m.id \in SpawnIds /\ m.ok

\* Mutant: the whole conversation is searched for the ids.
NewTicketsAnywhere(h) == Cardinality({k \in DOMAIN h : IsTicket(h[k])})

\* Only the last messages are, as many as there were calls.
NewTickets(h) ==
    Cardinality({k \in (Len(h) - Len(Calling) + 1)..Len(h) : IsTicket(h[k])})

BatchDone ==
    /\ pc = "batch" /\ \A k \in DOMAIN slots : slots[k] # Empty
    /\ history' = history \o Results
    /\ pending' = pending + NewTickets(history \o Results)
    /\ question' = NoArg
    /\ IF question = NoArg THEN UNCHANGED <<status, shown>>
       ELSE status' = "Waiting" /\ shown' = question
    /\ slots' = <<>> /\ pc' = "head"
    /\ said' = <<>> /\ got' = Nothing
    /\ before' = [file |-> file, todo |-> todo]
    /\ UNCHANGED <<dialect, sent, current, open, end, straight, turn, mail, sends,
                   file, todo, tickets, focus, bound, since, settled, lapsed, late>>

-----------------------------------------------------------------------------

Letters == {[kind |-> "inject"], [kind |-> "cancel"]}
             \cup {[kind |-> "focus", remove |-> l.remove, add |-> l.add] : l \in FocusLetters}

Next ==
    \/ \E letter \in Letters : Send(letter)
    \/ ReadsMail \/ ReadsNote \/ GivesUpWaiting
    \/ \E reply \in Reply : AsksProvider(reply)
    \/ Receives
    \/ ReplyFails \/ ReplyIsText \/ ReplyHasCalls
    \/ \E k \in Index : RunCall(k)
    \/ BatchDone

Spec == Init /\ [][Next]_vars

-----------------------------------------------------------------------------
(* Properties *)

\* Hazard: every provider rejects a conversation in which a call has no result,
\* or a result comes where none is owed.  Whatever was collected, refused or
\* injected, in the request as each provider is sent it every message with calls
\* is followed at once by exactly one answer for each of them, in their order and
\* with their ids where there are any, and answers come nowhere else
\* (run.rs 357-363, 520-543; build_api_messages, build_contents).
HistoryPaired ==
    pc # "batch" =>
      LET request == Request(history)
          Made(k) == request[k].calls
      IN  /\ \A k \in DOMAIN request : \A j \in DOMAIN Made(k) :
               /\ k + j <= Len(request) /\ request[k].role \in {"assistant", "model"}
               /\ request[k + j].role \in {"user", "tool"} /\ request[k + j].answers # <<>>
               /\ dialect # "gemini" => request[k + j].answers = <<Made(k)[j]>>
          /\ \A k \in DOMAIN request : request[k].answers # <<>> =>
               \E a \in 1..(k - 1) : k - a <= Len(Made(a))

\* Hazard: calls of one reply run partly at once and partly one by one.  Those
\* that read see the file as it was when the batch began, wherever they stand;
\* those that change it act on what the one before them left, in the order of
\* the reply; and the todo list is the last one that was accepted
\* (tools/dispatch.rs, write.rs, edit.rs, todowrite.rs).
Writers == {k \in DOMAIN slots : Calling[k].tool \in Serial}
Earlier(k) == {j \in Writers : j < k}
Left(S) == IF S = {} THEN before.file ELSE slots[CHOOSE j \in S : \A i \in S : i <= j].seen
Notes == {k \in DOMAIN slots : Calling[k].tool = "note" /\ slots[k].ok}
BatchIsSerial ==
    (pc = "batch" /\ \A k \in DOMAIN slots : slots[k] # Empty) =>
      /\ \A k \in DOMAIN slots : Calling[k].tool = "look" => slots[k].seen = before.file
      /\ \A k \in Writers : Calling[k].tool # "bash" =>
           /\ ~slots[k].ok => slots[k].seen = Left(Earlier(k))
           /\ slots[k].ok =>
                /\ slots[k].seen = Calling[k].arg
                /\ Calling[k].tool = "edit" =>
                     Left(Earlier(k)) = said[Calling[k].index].old
      /\ file = Left(Writers)
      /\ todo = IF Notes = {} THEN before.todo
                ELSE Calling[CHOOSE j \in Notes : \A i \in Notes : i <= j].arg

\* Hazard: a sub-task the Task does not count is not waited for; one counted
\* twice is waited for until the time-out.  Between batches the count is the
\* number of tickets awaited, although ids may recur and waits time out; but for
\* results of sub-tasks that were given up, each of which takes at most one from
\* it, at whatever ticket's cost (run.rs 258-276, 410-440, 590-599).
PendingCountsTickets ==
    pc # "batch" => pending <= Awaited /\ Awaited <= pending + late
=============================================================================
