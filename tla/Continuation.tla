---------------------------- MODULE Continuation ----------------------------
(***************************************************************************)
(* Continuation chains (continuation/) and the poll loop of the CLI that   *)
(* drives them (check_continuations, opca-cli/src/real.rs): the Task of an *)
(* active chain is delivered, audited and evaluated, and the chain ends or *)
(* gets another Task.  The poll loop gives the Orchestrator's lock back    *)
(* between the steps; the user starts and stops chains in between.         *)
(***************************************************************************)
EXTENDS Naturals, Sequences, FiniteSets

CONSTANTS
    Chains,            \* chains the user may start (bound)
    Limits,            \* values of --max-iterations
    Findings,          \* what an audit may find: pairs of file and category
    NoProgressRounds,  \* DEFAULT_MAX_NO_PROGRESS_ROUNDS
    SubAgents          \* the feature `sub-agents`

ASSUME ContinuationAssumption ==
    /\ Limits \subseteq Nat
    /\ NoProgressRounds \in Nat
    /\ SubAgents \in BOOLEAN

VARIABLES
    chain,      \* ContinuationCoordinator.chains, with their detectors
    task,       \* what the registry says of each Task, in order of dispatch
    starting,   \* the root Task whose chain start_continuation has yet to make
    todo,       \* check_continuations: the delivered Tasks not looked at yet
    poll,       \* where check_continuations stands
    subject,    \* the Task it looks at
    audit       \* the audit of that Task

pollVars == <<todo, poll, subject, audit>>
vars == <<chain, task, starting, pollVars>>

Verdict == {"Confirmed", "FalsePositive", "NeedsFix", "NeedsHumanReview"}
Dimension == {"Iterations", "Cost", "Duration"}
Reason == {"ConfirmedComplete", "NoProgress", "UserCancelled",
           "NeedsHumanReview"} \cup Dimension

\* The report of an audit; `sure` when its confidence reaches the threshold.
Audit == [verdict : Verdict, sure : BOOLEAN, findings : SUBSET Findings]

\* What check_continuations takes for the report when the audit fails.
NoReport == [verdict |-> "Confirmed", sure |-> TRUE, findings |-> {}]

\* Of a Task: running, delivered, delivered while sub-tasks are pending, or
\* over in any other way.
TaskState == {"running", "delivered", "held", "failed"}

\* ContinuationChain with its budget.  No caller ever reports a cost or a
\* diff, so the cost limit is reached exactly when it is 0 (`poor`) and the
\* diff heuristic of the detector never counts.
Unborn == [reason |-> "unborn", current |-> 0, limit |-> 0, poor |-> FALSE,
           expired |-> FALSE, iteration |-> 0, stale |-> 0, history |-> <<>>]

NewChain(root, limit, poor) ==
    [reason |-> "active", current |-> root, limit |-> limit, poor |-> poor,
     expired |-> FALSE, iteration |-> 0, stale |-> 0, history |-> <<>>]

Active(c) == chain[c].reason = "active"

Init ==
    /\ chain = [c \in Chains |-> Unborn]
    /\ task = <<>>
    /\ starting = 0
    /\ todo = {} /\ poll = "idle" /\ subject = 0
    /\ audit = NoReport

-----------------------------------------------------------------------------
(* The coordinator: pure functions of a chain *)

\* The n-th audit cites what the two before it cited as well.
RepeatsAt(history, n) ==
    n > 2 /\ history[n].findings \cap history[n - 1].findings
             \cap history[n - 2].findings # {}

\* The evaluation enters the history and feeds the detector.
Recorded(ch, t, findings) ==
    LET history == Append(ch.history, [task |-> t, number |-> ch.iteration + 1,
                                       findings |-> findings])
    IN  [ch EXCEPT !.current = t,
                   !.history = history,
                   !.stale = IF RepeatsAt(history, Len(history))
                             THEN @ + 1 ELSE @]

\* Mutant: the iteration limit is exceeded by one.
ExhaustedLate(ch) ==
    IF ch.iteration > ch.limit THEN "Iterations"
    ELSE IF ch.poor THEN "Cost"
    ELSE IF ch.expired THEN "Duration"
    ELSE IF ch.stale >= NoProgressRounds THEN "NoProgress"
    ELSE "none"

\* Mutant: the no-progress rounds are not looked at.
ExhaustedBlind(ch) ==
    IF ch.iteration >= ch.limit THEN "Iterations"
    ELSE IF ch.poor THEN "Cost"
    ELSE IF ch.expired THEN "Duration"
    ELSE "none"

\* exhausted_dimension: the dimensions in the order of the code.
Exhausted(ch) ==
    IF ch.iteration >= ch.limit THEN "Iterations"
    ELSE IF ch.poor THEN "Cost"
    ELSE IF ch.expired THEN "Duration"
    ELSE IF ch.stale >= NoProgressRounds THEN "NoProgress"
    ELSE "none"

\* DefaultContinuationPolicy::decide, once the budget allows another round.
Judged(a) ==
    IF a.verdict = "Confirmed" THEN "ConfirmedComplete"
    ELSE IF \/ a.verdict = "NeedsHumanReview"
            \/ a.verdict = "NeedsFix" /\ ~a.sure
         THEN "NeedsHumanReview"
    ELSE "continue"

Decision(ch, a) == IF Exhausted(ch) # "none" THEN Exhausted(ch) ELSE Judged(a)

-----------------------------------------------------------------------------
(* check_continuations *)

\* Mutant: a Task that has been looked at is not looked at again.
DeliveredOnce ==
    {t \in DOMAIN task \ {subject} :
        task[t] = "delivered" /\ \E c \in Chains : Active(c) /\ chain[c].current = t}

Delivered ==
    {t \in DOMAIN task :
        task[t] = "delivered" /\ \E c \in Chains : Active(c) /\ chain[c].current = t}

\* First lock: the delivered Tasks of the active chains.
CollectDelivered ==
    /\ poll = "idle" /\ Delivered # {}
    /\ todo' = Delivered
    /\ poll' = "audit"
    /\ UNCHANGED <<chain, task, starting, subject, audit>>

\* Second lock, held until the provider has answered.  The Tasks are taken in
\* the order of a HashMap.
AuditTask ==
    /\ poll = "audit"
    /\ \E t \in todo : subject' = t /\ todo' = todo \ {t}
    /\ audit' \in Audit \cup {NoReport}
    /\ poll' = "evaluate"
    /\ UNCHANGED <<chain, task, starting>>

Found(c) == Active(c) /\ chain[c].current = subject

NextTask == poll' = IF todo = {} THEN "idle" ELSE "audit"

\* Third lock: the chain was stopped since the Task was collected.
EvaluateNothing ==
    /\ poll = "evaluate" /\ ~ \E c \in Chains : Found(c)
    /\ NextTask
    /\ UNCHANGED <<chain, task, starting, todo, subject, audit>>

EvaluateEnds(c) ==
    /\ poll = "evaluate" /\ Found(c)
    /\ LET ch == Recorded(chain[c], subject, audit.findings)
       IN  /\ Decision(ch, audit) # "continue"
           /\ chain' = [chain EXCEPT ![c] =
                           [ch EXCEPT !.reason = Decision(ch, audit)]]
    /\ NextTask
    /\ UNCHANGED <<task, starting, todo, subject, audit>>

\* The iteration is charged, then its Task dispatched.  A dispatch that fails
\* leaves the chain with the Task it had.
EvaluateContinues(c) ==
    /\ poll = "evaluate" /\ Found(c)
    /\ LET ch == [Recorded(chain[c], subject, audit.findings)
                     EXCEPT !.iteration = @ + 1]
       IN  /\ Decision(Recorded(chain[c], subject, audit.findings), audit)
                 = "continue"
           /\ \/ /\ task' = Append(task, "running")
                 /\ chain' = [chain EXCEPT ![c] =
                                 [ch EXCEPT !.current = Len(task) + 1]]
              \/ task' = task /\ chain' = [chain EXCEPT ![c] = ch]
    /\ NextTask
    /\ UNCHANGED <<starting, todo, subject, audit>>

Poll ==
    \/ CollectDelivered \/ AuditTask \/ EvaluateNothing
    \/ \E c \in Chains : EvaluateEnds(c) \/ EvaluateContinues(c)

-----------------------------------------------------------------------------
(* The user, one command at a time *)

\* start_continuation dispatches the root Task under one lock and makes the
\* chain under a later one.
DispatchRoot ==
    /\ starting = 0 /\ \E c \in Chains : chain[c].reason = "unborn"
    /\ task' = Append(task, "running")
    /\ starting' = Len(task) + 1
    /\ UNCHANGED <<chain, pollVars>>

\* Mutant: the chain is rooted at the Task dispatched last.
StartChainOnLast(c, limit, poor) ==
    /\ starting # 0 /\ chain[c].reason = "unborn"
    /\ chain' = [chain EXCEPT ![c] = NewChain(Len(task), limit, poor)]
    /\ starting' = 0
    /\ UNCHANGED <<task, pollVars>>

StartChain(c, limit, poor) ==
    /\ starting # 0 /\ chain[c].reason = "unborn"
    /\ chain' = [chain EXCEPT ![c] = NewChain(starting, limit, poor)]
    /\ starting' = 0
    /\ UNCHANGED <<task, pollVars>>

\* Mutant: the chain need not be active.
StopAnyway(c) ==
    /\ starting = 0 /\ chain[c].reason # "unborn"
    /\ chain' = [chain EXCEPT ![c].reason = "UserCancelled"]
    /\ UNCHANGED <<task, starting, pollVars>>

StopOne(c) ==
    /\ starting = 0 /\ Active(c)
    /\ chain' = [chain EXCEPT ![c].reason = "UserCancelled"]
    /\ UNCHANGED <<task, starting, pollVars>>

StopAll ==
    /\ starting = 0 /\ \E c \in Chains : Active(c)
    /\ chain' = [c \in Chains |->
                    IF Active(c) THEN [chain[c] EXCEPT !.reason = "UserCancelled"]
                                 ELSE chain[c]]
    /\ UNCHANGED <<task, starting, pollVars>>

-----------------------------------------------------------------------------
(* Tasks and time *)

\* A Task ends (see TaskRun): it is delivered, or it is not.
Deliver(t) ==
    /\ task[t] = "running"
    /\ task' = [task EXCEPT ![t] = "delivered"]
    /\ UNCHANGED <<chain, starting, pollVars>>

\* Delivered while a sub-task it gave up on is still pending, and the end of
\* that sub-task.
DeliverEarly(t) ==
    /\ SubAgents /\ task[t] = "running"
    /\ task' = [task EXCEPT ![t] = "held"]
    /\ UNCHANGED <<chain, starting, pollVars>>

Release(t) ==
    /\ task[t] = "held"
    /\ task' = [task EXCEPT ![t] = "delivered"]
    /\ UNCHANGED <<chain, starting, pollVars>>

Fail(t) ==
    /\ task[t] = "running"
    /\ task' = [task EXCEPT ![t] = "failed"]
    /\ UNCHANGED <<chain, starting, pollVars>>

\* max_total_duration goes by.
Expire(c) ==
    /\ Active(c) /\ ~chain[c].expired
    /\ chain' = [chain EXCEPT ![c].expired = TRUE]
    /\ UNCHANGED <<task, starting, pollVars>>

End(t) == Deliver(t) \/ DeliverEarly(t) \/ Fail(t)

\* Nothing is left to do: every chain has ended, or waits for a Task that will
\* never be delivered.
Quiet ==
    /\ poll = "idle" /\ starting = 0
    /\ \A c \in Chains :
          chain[c].reason # "unborn"
          /\ (Active(c) => task[chain[c].current] = "failed" /\ chain[c].expired)
    /\ UNCHANGED vars

Next ==
    \/ Poll
    \/ DispatchRoot \/ StopAll
    \/ \E c \in Chains : StopOne(c) \/ Expire(c)
    \/ \E c \in Chains, limit \in Limits, poor \in BOOLEAN :
          StartChain(c, limit, poor)
    \/ \E t \in DOMAIN task : End(t) \/ Release(t)
    \/ Quiet

\* The poll loop runs every 100 ms, Tasks end (TaskRun!Returns) and time passes.
\* A provider that answers the audit is assumed; the user need not do anything.
Fairness ==
    /\ WF_vars(Poll)
    /\ \A c \in Chains : WF_vars(Expire(c))
    /\ WF_vars(\E t \in DOMAIN task : End(t))

Spec == Init /\ [][Next]_vars
FairSpec == Spec /\ Fairness

-----------------------------------------------------------------------------
(* Properties *)

Record == [task : Nat, number : Nat, findings : SUBSET Findings]
Chain == [reason : {"unborn", "active"} \cup Reason, current : Nat, limit : Nat,
          poor : BOOLEAN, expired : BOOLEAN, iteration : Nat, stale : Nat,
          history : Seq(Record)]

TypeOK ==
    /\ chain \in [Chains -> Chain]
    /\ task \in Seq(TaskState)
    /\ starting \in 0..Len(task)
    /\ todo \subseteq 1..Len(task) /\ subject \in 0..Len(task)
    /\ poll \in {"idle", "audit", "evaluate"}
    /\ audit \in Audit
    /\ \A c \in Chains : chain[c].current \in 0..Len(task)

\* The evaluations of a chain are numbered 1, 2, 3, ... without a gap, and an
\* active chain has been charged for each: a failed dispatch, a stop between
\* audit and evaluation and a second look at the same Task do not upset the
\* count that the budget and the prompt are built from.
IterationsAccounted ==
    \A c \in Chains :
        /\ \A n \in DOMAIN chain[c].history : chain[c].history[n].number = n
        /\ Active(c) => chain[c].iteration = Len(chain[c].history)

TasksOf(c) ==
    {chain[c].current} \cup {chain[c].history[n].task : n \in DOMAIN chain[c].history}

\* A chain owns its root and at most `limit` further Tasks, whatever the
\* audits say.
TasksWithinBudget ==
    \A c \in Chains : Cardinality(TasksOf(c)) <= chain[c].limit + 1

\* An active chain has seen fewer than NoProgressRounds repetitions in all its
\* audits, so a doom loop is broken although each round looks new to the policy.  A
\* repetition takes three audits, two of them four, next to each other or not:
\* nothing sets the count back (coordinator.rs 127; reset_no_progress has no caller).
DoomLoopStops ==
    \A c \in Chains :
        Active(c) /\ NoProgressRounds > 0 =>
            Cardinality({n \in DOMAIN chain[c].history :
                            RepeatsAt(chain[c].history, n)}) < NoProgressRounds

\* Two chains never share a Task, so evaluate finds the chain that the Task
\* belongs to.
NoSharedTask ==
    \A c, d \in Chains : c # d => TasksOf(c) \cap TasksOf(d) \subseteq {0}

\* A chain that has ended is left alone: its reason stays, and no evaluation
\* under way when the user stopped it gives it another Task.
EndedForGood ==
    [][\A c \in Chains : chain[c].reason \in Reason => chain'[c] = chain[c]]_vars

\* Every active chain ends, or waits for a Task that was not delivered.
ChainEnds ==
    \A c \in Chains :
        Active(c) ~> (~Active(c) \/ task[chain[c].current] \in {"failed", "held"})

Abstract == INSTANCE Chains WITH
    state <- [c \in Chains |-> IF Active(c) THEN "rolling" ELSE chain[c].reason],
    left  <- [c \in Chains |-> chain[c].limit - chain[c].iteration]

\* The abstract specification, for the configurations.
ChainsSpec == Abstract!CSpec
=============================================================================
