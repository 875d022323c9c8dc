---------------------------- MODULE Orchestrator ----------------------------
(***************************************************************************)
(* Several Tasks under one Orchestrator: dispatch with conflict prediction *)
(* and the registry (crates/opca-core/src/orchestrator), and the poll loop *)
(* and the user's commands of the command line (crates/opca-cli/src/       *)
(* real.rs).  A Task is what TaskRun shows it to be: a life of legal tran- *)
(* sitions (Lifecycle) that may end, with run() returning, in most states. *)
(* Continuation chains and sub-tasks, which the same loop serves, are in   *)
(* Continuation and TaskRun.                                               *)
(***************************************************************************)
EXTENDS Naturals, Sequences

CONSTANTS
    Task,       \* ids; each is dispatched at most once
    File,       \* files a dispatch may claim
    MaxAsks,    \* bound: clarifications asked, over all Tasks
    MaxMail,    \* bound: messages that wait for a Task when another expires
    MaxSends    \* bound: commands the user gives to running Tasks

ASSUME OrchestratorAssumption == {MaxAsks, MaxMail, MaxSends} \subseteq Nat

VARIABLES
    \* The Tasks.
    status,     \* LifecycleTracker.current
    returned,   \* the Tasks whose run() has returned: nobody reads their mail
    mail,       \* steering channels
    asks,       \* counter for the bound
    \* Orchestrator.
    entry,      \* "none", "queued" (dispatched: false) or "dispatched"
    claims,     \* TaskEntry.estimated_files
    stream,     \* heartbeats on their way up
    registry,   \* TaskEntry.status, the latest heartbeat's
    \* TrackedTasks, of the command line.
    last,       \* last_status
    asked,      \* clarification_sent
    since,      \* waiting_since: "unset", "young" or, past the timeout, "old"
    marks,      \* accepted, rejected
    due,        \* timed_out of check_clarification_timeouts
    pc,         \* where poll_loop is: "collect", "scan" or "inject"
    sends,      \* counter for the bound
    announced   \* history: Completed notifications, counted up to 2

lifeVars  == <<status, stream, registry>>
taskVars  == <<status, returned, mail, asks, stream>>
watchVars == <<last, asked, since, due, pc, announced>>
userVars  == <<marks, sends>>
vars == <<status, returned, mail, asks, entry, claims, stream, registry, last,
          asked, since, marks, due, pc, sends, announced>>

Entry  == {"none", "queued", "dispatched"}
Letter == {"inject", "cancel"}
Mark   == {"accepted", "rejected"}

\* The longest life in heartbeats: four to the end, and two for each question.
MaxLife == 5 + 2 * MaxAsks

Life(t) == INSTANCE Lifecycle WITH
    status <- status[t], stream <- stream[t], registry <- registry[t]
Table == INSTANCE Lifecycle

Init ==
    /\ status = [t \in Task |-> "Sleeping"]
    /\ returned = {} /\ mail = [t \in Task |-> <<>>] /\ asks = 0
    /\ entry = [t \in Task |-> "none"]
    /\ claims = [t \in Task |-> {}]
    /\ stream = [t \in Task |-> <<>>]
    /\ registry = [t \in Task |-> "Sleeping"]
    /\ last = [t \in Task |-> "Sleeping"]
    /\ asked = {} /\ since = [t \in Task |-> "unset"]
    /\ marks = [t \in Task |-> {}]
    /\ due = {} /\ pc = "collect" /\ sends = 0
    /\ announced = [t \in Task |-> 0]

-----------------------------------------------------------------------------
(* Dispatch *)

\* TaskEntry::is_active.
Active(t) == entry[t] = "dispatched" /\ Table!IsActive(registry[t])

\* Mutant: a Task that waits is not taken for active.
HasConflictAwake(files) ==
    \E t \in Task : Active(t) /\ registry[t] # "Waiting" /\ claims[t] \cap files # {}

HasConflict(files) == \E t \in Task : Active(t) /\ claims[t] \cap files # {}

\* dispatch_task, and the entry in the list of tracked tasks, under one lock.
\* A Task whose files another one claims is entered and not started.
Dispatch(t, files) ==
    /\ entry[t] = "none"
    /\ claims' = [claims EXCEPT ![t] = files]
    /\ entry' = [entry EXCEPT ![t] =
                    IF HasConflict(files) THEN "queued" ELSE "dispatched"]
    /\ UNCHANGED <<taskVars, registry, watchVars, userVars>>

-----------------------------------------------------------------------------
(* The Tasks *)

Runs(t) == entry[t] = "dispatched" /\ t \notin returned

\* LifecycleTracker::transition and its heartbeat.
Moves(t, to) ==
    /\ Table!IsValidTransition(status[t], to)
    /\ status' = [status EXCEPT ![t] = to]
    /\ stream' = [stream EXCEPT ![t] = Append(@, to)]

RestOfTask == UNCHANGED <<entry, claims, registry, watchVars, userVars>>

Starts(t) ==
    /\ Runs(t)
    /\ \/ status[t] = "Sleeping" /\ Moves(t, "Waking")
       \/ status[t] = "Waking" /\ Moves(t, "Pondering")
       \/ status[t] = "Pondering" /\ Moves(t, "OnIt")
    /\ RestOfTask /\ UNCHANGED <<returned, mail, asks>>

\* request_clarification.
Asks(t) ==
    /\ Runs(t) /\ status[t] = "OnIt" /\ asks < MaxAsks
    /\ Moves(t, "Waiting")
    /\ asks' = asks + 1
    /\ RestOfTask /\ UNCHANGED <<returned, mail>>

\* Mutant: the Task goes on without a heartbeat.
ReadsSilently(t) ==
    /\ Runs(t) /\ mail[t] # <<>> /\ Head(mail[t]) = "inject"
    /\ mail' = [mail EXCEPT ![t] = Tail(@)]
    /\ status' = [status EXCEPT ![t] = IF @ = "Waiting" THEN "OnIt" ELSE @]
    /\ RestOfTask /\ UNCHANGED <<returned, asks, stream>>

\* process_steering, once the Task has begun.
Reads(t) ==
    /\ Runs(t) /\ status[t] \notin {"Sleeping", "Waking"}
    /\ mail[t] # <<>> /\ Head(mail[t]) = "inject"
    /\ mail' = [mail EXCEPT ![t] = Tail(@)]
    /\ IF status[t] = "Waiting" THEN Moves(t, "OnIt")
                                ELSE UNCHANGED <<status, stream>>
    /\ RestOfTask /\ UNCHANGED <<returned, asks>>

\* run() returns: the mail goes with it.
Leaves(t) ==
    /\ returned' = returned \cup {t}
    /\ mail' = [mail EXCEPT ![t] = <<>>]
    /\ RestOfTask /\ UNCHANGED asks

Cancelled(t) ==
    /\ Runs(t) /\ status[t] \notin {"Sleeping", "Waking"}
    /\ mail[t] # <<>> /\ Head(mail[t]) = "cancel"
    /\ Moves(t, "Axed")
    /\ Leaves(t)

Ends(t) ==
    /\ Runs(t)
    /\ Moves(t, "Delivered") \/ Moves(t, "Stuck")
    /\ Leaves(t)

\* Out of turns, a failure before the first reply, or a reply without tools
\* while it waits: the status stays what it is.
EndsUntold(t) ==
    /\ Runs(t) /\ status[t] \in {"Pondering", "OnIt", "Waiting"}
    /\ UNCHANGED <<status, stream>>
    /\ Leaves(t)

-----------------------------------------------------------------------------
(* The poll loop *)

\* Mutant: a question that was notified is pending until it times out.
DiffersUnasked(t, now) ==
    entry[t] # "none" /\ now[t] # last[t] /\ now[t] # "Waiting" /\ t \notin asked

\* collect_changes looks at every tracked Task once, `now` being the registry
\* after the drain.  A question is notified when the Task is found waiting and
\* has none pending; any other change of the status is notified and forgets
\* the question, so that a question is notified a second time.
NewQuestion(t, now) == entry[t] # "none" /\ now[t] = "Waiting" /\ t \notin asked
Differs(t, now)     == entry[t] # "none" /\ ~NewQuestion(t, now) /\ now[t] # last[t]

Announce(t, now) ==
    IF Differs(t, now) /\ now[t] = "Delivered" /\ announced[t] < 2
    THEN announced[t] + 1 ELSE announced[t]

\* Mutant: the last status is not kept for a Task that is over.
RememberActive(now) ==
    [t \in Task |-> IF Differs(t, now) /\ Table!IsActive(now[t]) THEN now[t] ELSE last[t]]

Remember(now) == [t \in Task |-> IF Differs(t, now) THEN now[t] ELSE last[t]]

\* Mutant: the timer is cleared, and the question stays pending.
CompareUntimed(now) ==
    /\ last' = Remember(now)
    /\ asked' = asked \cup {t \in Task : NewQuestion(t, now)}
    /\ since' = [t \in Task |-> CASE NewQuestion(t, now) -> "young"
                                  [] Differs(t, now) -> "unset"
                                  [] OTHER -> since[t]]
    /\ announced' = [t \in Task |-> Announce(t, now)]

Compare(now) ==
    /\ last' = Remember(now)
    /\ asked' = (asked \cup {t \in Task : NewQuestion(t, now)})
                \ {t \in Task : Differs(t, now)}
    /\ since' = [t \in Task |-> CASE NewQuestion(t, now) -> "young"
                                  [] Differs(t, now) -> "unset"
                                  [] OTHER -> since[t]]
    /\ announced' = [t \in Task |-> Announce(t, now)]

\* How many heartbeats of each Task the relays have forwarded.
Forwarded ==
    {n \in [Task -> 0..MaxLife] : \A t \in Task : n[t] <= Len(stream[t])}

\* What drain_heartbeats records last.
Recorded(t, n) == IF n = 0 THEN registry[t] ELSE stream[t][n]

\* The tick: drain and compare, under both locks.
Collect ==
    /\ pc = "collect"
    /\ \E n \in Forwarded :
          /\ registry' = [t \in Task |-> Recorded(t, n[t])]
          /\ stream' = [t \in Task |-> SubSeq(stream[t], n[t] + 1, Len(stream[t]))]
    /\ Compare(registry')
    /\ pc' = "scan"
    /\ UNCHANGED <<status, returned, mail, asks, entry, claims, due, userVars>>

\* check_clarification_timeouts: whom to tell is decided under the locks,
Scan ==
    /\ pc = "scan"
    /\ due' = {t \in Task : since[t] = "old" /\ registry[t] = "Waiting"}
    /\ pc' = "inject"
    /\ UNCHANGED <<taskVars, entry, claims, registry, last, asked, since,
                   announced, userVars>>

Post(t, letter) ==
    mail' = IF Runs(t) THEN [mail EXCEPT ![t] = Append(@, letter)] ELSE mail

\* and each is told, by a message like a user's, under locks of its own.
TimeOut(t) ==
    /\ pc = "inject" /\ t \in due
    /\ Post(t, "inject")
    /\ asked' = asked \ {t}
    /\ since' = [since EXCEPT ![t] = "unset"]
    /\ due' = due \ {t}
    /\ UNCHANGED <<status, returned, asks, stream, entry, claims, registry, last, pc,
                   announced, userVars>>

Rest ==
    /\ pc = "inject" /\ due = {}
    /\ pc' = "collect"
    /\ UNCHANGED <<taskVars, entry, claims, registry, last, asked, since, due,
                   announced, userVars>>

\* CLARIFICATION_TIMEOUT_SECS have passed; not while MaxMail messages wait.
Expire(t) ==
    /\ since[t] = "young" /\ Len(mail[t]) < MaxMail
    /\ since' = [since EXCEPT ![t] = "old"]
    /\ UNCHANGED <<taskVars, entry, claims, registry, last, asked, due, pc,
                   announced, userVars>>

-----------------------------------------------------------------------------
(* The user *)

Command(t) ==
    /\ entry[t] = "dispatched" /\ sends < MaxSends
    /\ sends' = sends + 1
    /\ UNCHANGED <<status, returned, asks, stream, entry, claims, registry, watchVars>>

\* Any message or cancellation through the Orchestrator's interface.
Steer(t, letter) ==
    /\ Command(t) /\ Runs(t)
    /\ Post(t, letter)
    /\ UNCHANGED marks

\* answer_task goes by the registry, not by the Task.
Answer(t) ==
    /\ registry[t] = "Waiting"
    /\ Steer(t, "inject")

Accept(t) ==
    /\ Command(t) /\ registry[t] = "Delivered"
    /\ marks' = [marks EXCEPT ![t] = @ \cup {"accepted"}]
    /\ UNCHANGED mail

\* Feedback is sent to the Task if it still listens.
Reject(t, feedback) ==
    /\ Command(t) /\ registry[t] = "Delivered"
    /\ IF feedback THEN Post(t, "inject") ELSE UNCHANGED mail
    /\ marks' = [marks EXCEPT ![t] = @ \cup {"rejected"}]

-----------------------------------------------------------------------------
TaskStep(t) ==
    \/ Starts(t) \/ Asks(t) \/ Reads(t) \/ Cancelled(t)
    \/ Ends(t) \/ EndsUntold(t)

Poll == Collect \/ Scan \/ (\E t \in Task : TimeOut(t)) \/ Rest

UserStep(t) ==
    \/ \E files \in SUBSET File : Dispatch(t, files)
    \/ \E letter \in Letter : Steer(t, letter)
    \/ Answer(t) \/ Accept(t)
    \/ \E feedback \in BOOLEAN : Reject(t, feedback)

Next == Poll \/ \E t \in Task : TaskStep(t) \/ UserStep(t) \/ Expire(t)

\* A tick that finds some of the heartbeats that are on their way.
Delivers(t) == Collect /\ Len(stream'[t]) < Len(stream[t])

\* The ticker ticks, time passes, a Task that runs goes on and takes its mail
\* from the queue, and the relays are tokio tasks that get their turn: no
\* heartbeat is on its way for ever.  No user has to do anything.
Fairness ==
    /\ WF_vars(Poll)
    /\ \A t \in Task : WF_vars(Expire(t)) /\ WF_vars(Starts(t))
                       /\ WF_vars(Reads(t) \/ Cancelled(t))
                       /\ SF_vars(Delivers(t))

Spec == Init /\ [][Next]_vars /\ Fairness

-----------------------------------------------------------------------------
(* Properties *)

\* The state is well-formed, and a question is timed while it is pending.
TypeOK ==
    /\ status \in [Task -> Table!Status] /\ registry \in [Task -> Table!Status]
    /\ last \in [Task -> Table!Status]
    /\ \A t \in Task : \A n \in 1..Len(stream[t]) : stream[t][n] \in Table!Status
    /\ \A t \in Task : \A n \in 1..Len(mail[t]) : mail[t][n] \in Letter
    /\ returned \subseteq Task /\ asked \subseteq Task /\ due \subseteq Task
    /\ entry \in [Task -> Entry] /\ claims \in [Task -> SUBSET File]
    /\ since \in [Task -> {"unset", "young", "old"}]
    /\ asked = {t \in Task : since[t] # "unset"}
    /\ marks \in [Task -> SUBSET Mark]
    /\ pc \in {"collect", "scan", "inject"}
    /\ asks \in 0..MaxAsks /\ sends \in 0..MaxSends
    /\ announced \in [Task -> 0..2]

\* Two Tasks that run never claim the same file, although the conflict is
\* predicted from a registry that lags behind the Tasks (dispatch_task).
NoSharedFiles ==
    \A t, u \in Task : t # u /\ Runs(t) /\ Runs(u) => claims[t] \cap claims[u] = {}

\* The user is told of a completion once, of a Task that is delivered, however
\* its heartbeats and the ticks fall (collect_changes).
CompletedOnce ==
    \A t \in Task : announced[t] > 0 => announced[t] = 1 /\ status[t] = "Delivered"

\* What a Task came to is found out by the poll loop, and a delivery is told
\* (collect_changes): the loop never stops looking at a Task too early.  One
\* that ended in the middle of a question is known by the question.
EveryEndIsTold ==
    \A t \in Task : t \in returned ~>
        /\ last[t] = status[t] \/ (status[t] = "Waiting" /\ t \in asked)
        /\ status[t] = "Delivered" => announced[t] = 1

\* A Task that asked does not wait for ever for a user who never answers: the
\* time-out reaches it (check_clarification_timeouts).
WaitEnds ==
    \A t \in Task : status[t] = "Waiting" ~> status[t] # "Waiting" \/ t \in returned

\* Each Task, its heartbeats and its entry live the life of Lifecycle.
TaskLives ==
    /\ \A t \in Task : Life(t)!LInit
    /\ [][\A t \in Task : Life(t)!LNext
              \/ UNCHANGED <<status[t], stream[t], registry[t]>>]_lifeVars
=============================================================================
