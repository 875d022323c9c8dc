------------------------------ MODULE TaskRun ------------------------------
(***************************************************************************)
(* Task::run (task/run.rs): the agent loop of one Task, with the three     *)
(* parties it talks to concurrently:                                       *)
(*   - whoever holds the steering channel (the user, through the CLI),     *)
(*   - the provider, whose replies are awaited,                            *)
(*   - the Orchestrator, which drains heartbeats, dispatches the sub-tasks *)
(*     the Task asks for and reports their completion.                     *)
(*                                                                         *)
(* pc is the point between two awaits (or two visible effects) that the    *)
(* loop has reached.  With Kids = {} this is the default build; a non-empty *)
(* Kids is the `sub-agents` feature.                                       *)
(***************************************************************************)
EXTENDS Lifecycle, FiniteSets

CONSTANTS
    MaxTurns,      \* MAX_TURNS
    StrikeLimit,   \* THREE_STRIKE_LIMIT
    NoteCap,       \* capacity of the sub-task notification queue
    Issues,        \* issue signatures an evidence command may report
    MaxRepeat,     \* how often one signature may occur in one report (bound)
    Kids,          \* sub-tasks this Task may dispatch (bound)
    MaxSends       \* steering messages the user sends (bound)

ASSUME TaskRunAssumption ==
    /\ MaxTurns \in Nat
    /\ StrikeLimit \in Nat \ {0}
    /\ NoteCap \in Nat
    /\ MaxRepeat \in Nat
    /\ MaxSends \in Nat
    /\ IsFiniteSet(Kids)

VARIABLES
    pc,          \* where the loop stands
    turn,        \* Task.turn_count
    phase,       \* run_state.current_phase
    gateOn,      \* run_state.evidence_gate is Some
    baseline,    \* the issues the gate recorded before the first turn
    strikes,     \* run_state.three_strike_counters
    steering,    \* the steering channel, oldest first
    sends,       \* steering messages the user has sent
    pending,     \* Task.pending_subtask_count
    since,       \* Task.waiting_since: unset, ticking, or over the limit
    kid,         \* what became of each sub-task
    outcome,     \* what run() returned; an Error carries its reason
    announced,   \* the TaskOutput::StatusChanged sent last
    hits,        \* history: failed verifications that reported the issue
    verified,    \* history: the gate passed and no tool ran since
    orphans      \* history: sub-tasks given up on when the wait timed out

loopVars == <<pc, turn, phase>>
gateVars == <<gateOn, baseline, strikes, hits, verified>>
mailVars == <<steering, sends>>
kidVars  == <<pending, since, kid, orphans>>
endVars  == <<outcome, announced>>
vars == <<lvars, loopVars, gateVars, mailVars, kidVars, endVars>>

PC == {"spawned", "waking", "baseline", "head", "steer", "queues", "call",
       "tools", "gate", "finish", "done"}
Phase == {"Zero", "One", "Two", "Three"}
Letter == {"inject", "focus", "cancel"}
ErrorReason == {"MaxTurns", "ProviderError", "Strikes"}
Outcome == {"none", "Completed", "Cancelled"} \cup ErrorReason
KidState == {"unused", "requested", "running", "noted", "settled"}

\* A live sub-task: its result has not reached the Task, and may still.
Live == {k \in Kids : kid[k] \in {"requested", "running", "noted"}}
Noted == {k \in Kids : kid[k] = "noted"}

NoStrikes == [i \in Issues |-> 0]

Init ==
    /\ LInit
    /\ pc = "spawned" /\ turn = 0 /\ phase = "Zero"
    /\ gateOn \in BOOLEAN /\ baseline = {} /\ strikes = NoStrikes
    /\ hits = NoStrikes /\ verified = FALSE
    /\ steering = <<>> /\ sends = 0
    /\ pending = 0 /\ since = "unset"
    /\ kid = [k \in Kids |-> "unused"] /\ orphans = {}
    /\ outcome = "none" /\ announced = "none"

-----------------------------------------------------------------------------
(* Shared effects *)

\* run() returns: the receiving end of the steering channel goes with it.
Return(o) ==
    /\ outcome' = o
    /\ pc' = "done"
    /\ steering' = <<>>
    /\ UNCHANGED <<turn, sends>>

\* The first provider reply of a turn that began by pondering.
StartExecuting ==
    IF status = "Pondering" THEN TryTransition("OnIt")
                            ELSE UNCHANGED <<status, stream>>

\* The conversation holds what the sub-tasks reported so far.
PendingAfterNotes ==
    IF Cardinality(Noted) > pending THEN 0 ELSE pending - Cardinality(Noted)
Settle == [k \in Kids |-> IF kid[k] = "noted" THEN "settled" ELSE kid[k]]

-----------------------------------------------------------------------------
(* The Task *)

Wake ==
    /\ pc = "spawned"
    /\ TryTransition("Waking")
    /\ pc' = "waking"
    /\ UNCHANGED <<registry, turn, phase, gateVars, mailVars, kidVars, endVars>>

Ponder ==
    /\ pc = "waking"
    /\ TryTransition("Pondering")
    /\ pc' = "baseline"
    /\ UNCHANGED <<registry, turn, phase, gateVars, mailVars, kidVars, endVars>>

\* The evidence commands run once before the first turn.  If they cannot be
\* run at all the gate is dropped and the Task goes on without it.
CaptureBaseline ==
    /\ pc = "baseline"
    /\ pc' = "head"
    /\ \/ gateOn /\ gateOn' = FALSE /\ UNCHANGED baseline
       \/ gateOn /\ baseline' \in SUBSET Issues /\ UNCHANGED gateOn
       \/ ~gateOn /\ UNCHANGED <<gateOn, baseline>>
    /\ UNCHANGED <<lvars, turn, phase, strikes, hits, verified, mailVars,
                   kidVars, endVars>>

LoopHead ==
    /\ pc = "head"
    /\ turn < MaxTurns
    /\ turn' = turn + 1
    /\ pc' = "steer"
    /\ UNCHANGED <<lvars, phase, gateVars, mailVars, kidVars, endVars>>

\* The turn budget is spent: run() returns at once, without a transition, a
\* heartbeat or an output.
TurnsExceeded ==
    /\ pc = "head"
    /\ turn = MaxTurns
    /\ outcome' = "MaxTurns"
    /\ pc' = "done"
    /\ turn' = turn + 1
    /\ steering' = <<>>
    /\ UNCHANGED <<lvars, phase, gateVars, sends, kidVars, announced>>

\* process_steering takes one message after the other until none is left.
SteerInject ==
    /\ pc = "steer" /\ steering # <<>> /\ Head(steering) = "inject"
    /\ steering' = Tail(steering)
    /\ strikes' = IF status = "Stuck" THEN NoStrikes ELSE strikes
    /\ IF status \in {"Stuck", "Waiting"} THEN TryTransition("OnIt")
                                          ELSE UNCHANGED <<status, stream>>
    /\ UNCHANGED <<registry, loopVars, gateOn, baseline, hits, verified, sends,
                   kidVars, endVars>>

SteerFocus ==
    /\ pc = "steer" /\ steering # <<>> /\ Head(steering) = "focus"
    /\ steering' = Tail(steering)
    /\ UNCHANGED <<lvars, loopVars, gateVars, sends, kidVars, endVars>>

SteerCancel ==
    /\ pc = "steer" /\ steering # <<>> /\ Head(steering) = "cancel"
    /\ TryTransition("Axed")
    /\ Return("Cancelled")
    /\ UNCHANGED <<registry, phase, gateVars, kidVars, announced>>

SteerDone ==
    /\ pc = "steer" /\ steering = <<>>
    /\ pc' = "queues"
    /\ UNCHANGED <<lvars, turn, phase, gateVars, mailVars, kidVars, endVars>>

\* Sub-task notifications are drained, and the turn begins.
BeginTurn ==
    /\ pc = "queues"
    /\ ~(status = "Waiting" /\ PendingAfterNotes > 0)
    /\ pending' = PendingAfterNotes
    /\ kid' = Settle
    /\ pc' = "call"
    /\ UNCHANGED <<lvars, turn, phase, gateVars, mailVars, since, orphans,
                   endVars>>

\* Mutant: the wait loop does not go back to process_steering.
KeepWaitingDeaf ==
    /\ pc = "queues"
    /\ status = "Waiting" /\ PendingAfterNotes > 0 /\ since # "over"
    /\ pending' = PendingAfterNotes
    /\ kid' = Settle
    /\ UNCHANGED <<lvars, loopVars, gateVars, mailVars, since, orphans, endVars>>

\* Notifications are drained, but the Task waits for more: it sleeps 200 ms
\* and starts the loop over without paying a turn.
KeepWaiting ==
    /\ pc = "queues"
    /\ status = "Waiting" /\ PendingAfterNotes > 0 /\ since # "over"
    /\ pending' = PendingAfterNotes
    /\ kid' = Settle
    /\ turn' = turn - 1
    /\ pc' = "head"
    /\ UNCHANGED <<lvars, phase, gateVars, mailVars, since, orphans, endVars>>

\* The wait has lasted SUBTASK_WAIT_TIMEOUT_SECS: the Task forgets what it
\* was waiting for.
GiveUpWaiting ==
    /\ pc = "queues"
    /\ status = "Waiting" /\ PendingAfterNotes > 0 /\ since = "over"
    /\ TryTransition("OnIt")
    /\ pending' = 0
    /\ since' = "unset"
    /\ kid' = Settle
    /\ orphans' = orphans \cup (Live \ Noted)
    /\ turn' = turn - 1
    /\ pc' = "head"
    /\ UNCHANGED <<registry, phase, gateVars, mailVars, endVars>>

\* provider.stream or the stream itself fails.  Only OnIt may become Stuck.
ProviderFails ==
    /\ pc = "call"
    /\ TryTransition("Stuck")
    /\ Return("ProviderError")
    /\ UNCHANGED <<registry, phase, gateVars, kidVars, announced>>

\* A reply with tool calls; `assessed` when one of them reports the codebase
\* assessment.
ReplyWithTools(assessed) ==
    /\ pc = "call"
    /\ StartExecuting
    /\ LET entered == IF phase = "Zero" THEN "One" ELSE phase
       IN  phase' = IF assessed /\ entered = "One" THEN "Two" ELSE entered
    /\ pc' = "tools"
    /\ UNCHANGED <<registry, turn, gateVars, mailVars, kidVars, endVars>>

\* Mutant: a batch counts as one sub-task however many it requested.
ToolsDoneCountsOnce(new, asks) ==
    /\ pc = "tools"
    /\ new \subseteq {k \in Kids : kid[k] = "unused"}
    /\ kid' = [k \in Kids |-> IF k \in new THEN "requested" ELSE kid[k]]
    /\ pending' = IF new = {} THEN pending ELSE pending + 1
    /\ phase' = IF phase = "One" THEN "Two" ELSE phase
    /\ IF asks THEN TryTransition("Waiting") ELSE UNCHANGED <<status, stream>>
    /\ verified' = FALSE
    /\ pc' = "head"
    /\ UNCHANGED <<registry, turn, gateOn, baseline, strikes, hits, mailVars,
                   since, orphans, endVars>>

\* Mutant: a turn that ran tools is not charged.
ToolsDoneFree(new, asks) ==
    /\ pc = "tools"
    /\ new = {} /\ ~asks
    /\ turn' = turn - 1
    /\ pc' = "head"
    /\ phase' = IF phase = "One" THEN "Two" ELSE phase
    /\ verified' = FALSE
    /\ UNCHANGED <<lvars, gateOn, baseline, strikes, hits, mailVars, kidVars,
                   endVars>>

\* Mutant: the Task starts to wait for an answer without a heartbeat.
ToolsDoneSilent(new, asks) ==
    /\ pc = "tools"
    /\ new = {} /\ asks
    /\ status' = "Waiting"
    /\ pc' = "head"
    /\ phase' = IF phase = "One" THEN "Two" ELSE phase
    /\ verified' = FALSE
    /\ UNCHANGED <<stream, registry, turn, gateOn, baseline, strikes, hits,
                   mailVars, kidVars, endVars>>

\* The batch has run.  It queued requests for the sub-tasks in `new`, and asked
\* for a clarification when `asks`.  Phase One lasts one batch.
ToolsDone(new, asks) ==
    /\ pc = "tools"
    /\ new \subseteq {k \in Kids : kid[k] = "unused"}
    /\ kid' = [k \in Kids |-> IF k \in new THEN "requested" ELSE kid[k]]
    /\ pending' = pending + Cardinality(new)
    /\ phase' = IF phase = "One" THEN "Two" ELSE phase
    /\ IF asks THEN TryTransition("Waiting") ELSE UNCHANGED <<status, stream>>
    /\ verified' = FALSE
    /\ pc' = "head"
    /\ UNCHANGED <<registry, turn, gateOn, baseline, strikes, hits, mailVars,
                   since, orphans, endVars>>

\* Mutant: a Task that is in Phase Three already, since it waited for its
\* sub-tasks there, is not verified again.
ReplyTextTrusts ==
    /\ pc = "call"
    /\ StartExecuting
    /\ phase' = "Three"
    /\ pc' = IF phase = "Three" THEN "finish" ELSE "gate"
    /\ UNCHANGED <<registry, turn, gateVars, mailVars, kidVars, endVars>>

\* A reply without tool calls claims completion.
ReplyText ==
    /\ pc = "call"
    /\ StartExecuting
    /\ phase' = "Three"
    /\ pc' = "gate"
    /\ UNCHANGED <<registry, turn, gateVars, mailVars, kidVars, endVars>>

\* EvidenceGate::verify finds nothing that the baseline does not have.
GateProceeds ==
    /\ pc = "gate"
    /\ verified' = gateOn
    /\ pc' = "finish"
    /\ UNCHANGED <<lvars, turn, phase, gateOn, baseline, strikes, hits,
                   mailVars, kidVars, endVars>>

\* A report is all the errors of the commands, the baseline's among them; it
\* fails when one of them is new.
FailingReports ==
    {r \in [Issues -> 0..MaxRepeat] : \E i \in Issues \ baseline : r[i] > 0}

\* record_evidence_failure counts every occurrence, not every failure.
Struck(report) == [i \in Issues |-> strikes[i] + report[i]]
\* Mutant: a fourth strike is needed.
StruckOutLate(report) ==
    \E i \in Issues : report[i] > 0 /\ Struck(report)[i] > StrikeLimit

StruckOut(report) ==
    \E i \in Issues : report[i] > 0 /\ Struck(report)[i] >= StrikeLimit
Counted(report) ==
    /\ strikes' = Struck(report)
    /\ hits' = [i \in Issues |-> IF report[i] > 0 THEN hits[i] + 1 ELSE hits[i]]
    /\ UNCHANGED <<gateOn, baseline, verified>>

GateRetries(report) ==
    /\ pc = "gate" /\ gateOn
    /\ Counted(report)
    /\ ~StruckOut(report)
    /\ phase' = "Two"
    /\ pc' = "head"
    /\ UNCHANGED <<lvars, turn, mailVars, kidVars, endVars>>

GateSticks(report) ==
    /\ pc = "gate" /\ gateOn
    /\ Counted(report)
    /\ StruckOut(report)
    /\ TryTransition("Stuck")
    /\ announced' = "Stuck"
    /\ Return("Strikes")
    /\ UNCHANGED <<registry, phase, kidVars>>

\* The Task has nothing left to do but its sub-tasks have.
WaitForKids ==
    /\ pc = "finish" /\ pending > 0
    /\ TryTransition("Waiting")
    /\ since' = "ticking"
    /\ pc' = "head"
    /\ UNCHANGED <<registry, turn, phase, gateVars, mailVars, pending, kid,
                   orphans, endVars>>

Complete ==
    /\ pc = "finish" /\ pending = 0
    /\ TryTransition("Delivered")
    /\ announced' = "Delivered"
    /\ Return("Completed")
    /\ UNCHANGED <<registry, phase, gateVars, kidVars>>

TaskStep ==
    \/ Wake \/ Ponder \/ CaptureBaseline
    \/ LoopHead \/ TurnsExceeded
    \/ SteerInject \/ SteerFocus \/ SteerCancel \/ SteerDone
    \/ BeginTurn \/ KeepWaiting \/ GiveUpWaiting
    \/ ProviderFails
    \/ \E assessed \in BOOLEAN : ReplyWithTools(assessed)
    \/ \E new \in SUBSET Kids, asks \in BOOLEAN : ToolsDone(new, asks)
    \/ ReplyText
    \/ GateProceeds
    \/ \E report \in FailingReports : GateRetries(report) \/ GateSticks(report)
    \/ WaitForKids \/ Complete

-----------------------------------------------------------------------------
(* The Task's surroundings *)

\* cancel_task, inject_message and update_focus; a send to a Task that has
\* returned is refused.
Send(letter) ==
    /\ pc # "done" /\ sends < MaxSends
    /\ steering' = Append(steering, letter)
    /\ sends' = sends + 1
    /\ UNCHANGED <<lvars, loopVars, gateVars, kidVars, endVars>>

\* drain_heartbeats
DrainHeartbeats ==
    /\ Drain
    /\ UNCHANGED <<loopVars, gateVars, mailVars, kidVars, endVars>>

\* drain_subtask_requests: whether the dispatch succeeds or not, the parent
\* gets a message; only a dispatched sub-task can ever be reported back.
DispatchKid(k) ==
    /\ pc # "done" /\ kid[k] = "requested"
    /\ \E fate \in {"running", "settled"} : kid' = [kid EXCEPT ![k] = fate]
    /\ steering' = Append(steering, "inject")
    /\ UNCHANGED <<lvars, loopVars, gateVars, sends, pending, since, orphans,
                   endVars>>

\* check_subtask_completions: the sub-tasks in `ended` are found in a terminal
\* state.  A full notification queue drops what does not fit; the parent is
\* also sent a message when the registry says that it waits.
ReportKids(ended, kept) ==
    /\ pc # "done"
    /\ ended # {} /\ \A k \in ended : kid[k] = "running"
    /\ kept \subseteq ended
    /\ \/ kept = ended /\ Cardinality(Noted) + Cardinality(ended) <= NoteCap
       \/ kept # ended /\ Cardinality(Noted) + Cardinality(kept) = NoteCap
    /\ kid' = [k \in Kids |-> IF k \in kept THEN "noted"
                              ELSE IF k \in ended THEN "settled" ELSE kid[k]]
    /\ steering' = IF registry = "Waiting"
                   THEN steering \o [n \in 1..Cardinality(ended) |-> "inject"]
                   ELSE steering
    /\ UNCHANGED <<lvars, loopVars, gateVars, sends, pending, since, orphans,
                   endVars>>

\* SUBTASK_WAIT_TIMEOUT_SECS go by.
WaitExpires ==
    /\ pc # "done" /\ since = "ticking"
    /\ since' = "over"
    /\ UNCHANGED <<lvars, loopVars, gateVars, mailVars, pending, kid, orphans,
                   endVars>>

\* The Task has returned and every heartbeat is drained.
Stopped ==
    /\ pc = "done" /\ stream = <<>>
    /\ UNCHANGED vars

Next ==
    \/ TaskStep
    \/ \E letter \in Letter : Send(letter)
    \/ DrainHeartbeats
    \/ \E k \in Kids : DispatchKid(k)
    \/ \E ended \in SUBSET Kids : \E kept \in SUBSET ended :
          ReportKids(ended, kept)
    \/ WaitExpires
    \/ Stopped

\* tokio keeps polling a ready task, providers answer or fail, the CLI's poll
\* loop drains heartbeats every 100 ms, and time passes.  Nothing makes the
\* user write or a sub-task end.
Fairness ==
    /\ WF_vars(TaskStep)
    /\ WF_vars(DrainHeartbeats)
    /\ WF_vars(WaitExpires)

Spec == Init /\ [][Next]_vars
FairSpec == Spec /\ Fairness

-----------------------------------------------------------------------------
(* Properties *)

TypeOK ==
    /\ status \in Status /\ registry \in Status /\ stream \in Seq(Status)
    /\ pc \in PC /\ turn \in 0..MaxTurns + 1 /\ phase \in Phase
    /\ gateOn \in BOOLEAN /\ baseline \subseteq Issues
    /\ strikes \in [Issues -> Nat] /\ hits \in [Issues -> Nat]
    /\ verified \in BOOLEAN
    /\ steering \in Seq(Letter) /\ sends \in 0..MaxSends
    /\ pending \in Nat /\ since \in {"unset", "ticking", "over"}
    /\ kid \in [Kids -> KidState] /\ orphans \subseteq Kids
    /\ outcome \in Outcome /\ announced \in {"none", "Delivered", "Stuck"}

\* A registry entry that no longer counts as active belongs to a Task whose
\* loop has returned.  has_conflict_with and list_completed_tasks read the
\* registry only, and free the entry's files or offer its result on that basis.
InactiveMeansReturned == ~IsActive(registry) => pc = "done"

\* The 3-strike rule does stop a Task: while the loop runs, no issue has been
\* reported by StrikeLimit failed verifications (record_evidence_failure and
\* the resume branch of process_steering, which clears the counters).
ThreeStrikesStop == pc # "done" => \A i \in Issues : hits[i] < StrikeLimit

\* With an evidence gate, run() reports completion only for a workspace that
\* passed it and that no tool touched since, however many waits, answers and
\* sub-task results came between.
CompletedIsVerified == outcome = "Completed" /\ gateOn => verified

\* Unless it gave up waiting, a Task never reports completion while a sub-task
\* whose dispatch was counted may still answer (pending_subtask_count).
CompletedAfterKids == outcome = "Completed" /\ orphans = {} => Live = {}

\* A Task without sub-tasks returns within its turn budget, whatever the user
\* and the provider do.
Returns == <>(pc = "done")

CancelQueued == \E n \in DOMAIN steering : steering[n] = "cancel"

\* A Cancel in the steering channel ends the Task, also one that waits for
\* sub-tasks that never answer.
CancelStops == CancelQueued ~> (pc = "done")

\* Once the Task has returned, the registry comes to hold its last status.
RegistrySettles == (pc = "done") ~> (registry = status)
=============================================================================
