------------------------- MODULE ContinuationProofs -------------------------
(***************************************************************************)
(* What holds of continuation chains for any number of chains, any limits, *)
(* any findings and any number of no-progress rounds.                      *)
(***************************************************************************)
EXTENDS Continuation, FiniteSetTheorems, TLAPS

\* Every reason is a reason: the coordinator decides for one or goes on.
LEMMA DecisionIsReason ==
    ASSUME NEW ch, NEW a
    PROVE  Decision(ch, a) \in Reason \cup {"continue"}
BY DEF Decision, Exhausted, Judged, Reason, Dimension

LEMMA DecisionContinues ==
    ASSUME NEW ch \in Chain, NEW a, Decision(ch, a) = "continue"
    PROVE  ch.iteration < ch.limit
<1>1. Exhausted(ch) = "none"
  BY DEF Decision, Exhausted
<1> QED
  BY <1>1 DEF Exhausted, Chain

\* What the evaluation of a chain adds to it.
LEMMA RecordedAdds ==
    ASSUME NEW ch \in Chain, NEW t \in Nat, NEW f \in SUBSET Findings
    PROVE  LET r == Recorded(ch, t, f)
           IN  /\ r \in Chain
               /\ r.reason = ch.reason /\ r.limit = ch.limit
               /\ r.iteration = ch.iteration /\ r.current = t
               /\ r.history = Append(ch.history,
                                     [task |-> t, number |-> ch.iteration + 1,
                                      findings |-> f])
<1> DEFINE rec == [task |-> t, number |-> ch.iteration + 1, findings |-> f]
           h == Append(ch.history, rec)
           s == IF RepeatsAt(h, Len(h)) THEN ch.stale + 1 ELSE ch.stale
<1>1. rec \in Record
  BY DEF Record, Chain
<1>2. h \in Seq(Record) /\ s \in Nat
  BY <1>1 DEF Chain
<1>3. Recorded(ch, t, f) = [ch EXCEPT !.current = t, !.history = h, !.stale = s]
  BY DEF Recorded
<1> HIDE DEF h, s
<1>4. [ch EXCEPT !.current = t, !.history = h, !.stale = s] \in Chain
  BY <1>2 DEF Chain
<1>5. ch \in Chain /\ ch = [reason |-> ch.reason, current |-> ch.current,
        limit |-> ch.limit, poor |-> ch.poor, expired |-> ch.expired,
        iteration |-> ch.iteration, stale |-> ch.stale, history |-> ch.history]
  BY DEF Chain
<1> QED
  BY <1>3, <1>4, <1>5 DEF h, Chain

-----------------------------------------------------------------------------
(* Types *)

LEMMA InitType == Init => TypeOK
<1> SUFFICES ASSUME Init PROVE TypeOK
  OBVIOUS
<1>1. Unborn \in Chain
  BY DEF Unborn, Chain
<1>2. chain \in [Chains -> Chain] /\ \A c \in Chains : chain[c].current = 0
  BY <1>1 DEF Init, Unborn
<1>3. task \in Seq(TaskState) /\ Len(task) = 0
  BY DEF Init
<1>4. NoReport \in Audit
  BY DEF NoReport, Audit, Verdict
<1>5. /\ starting \in 0..Len(task) /\ subject \in 0..Len(task)
      /\ todo \subseteq 1..Len(task)
      /\ \A c \in Chains : chain[c].current \in 0..Len(task)
  BY <1>2, <1>3 DEF Init
<1>6. poll = "idle" /\ audit = NoReport
  BY DEF Init
<1> QED
  BY <1>2, <1>3, <1>4, <1>5, <1>6 DEF TypeOK

\* One chain changes, to a chain whose Task has been dispatched.
LEMMA OneChainType ==
    ASSUME TypeOK, NEW c \in Chains, NEW ch \in Chain,
           chain' = [chain EXCEPT ![c] = ch], ch.current \in 0..Len(task'),
           task' \in Seq(TaskState), Len(task) <= Len(task')
    PROVE  /\ chain' \in [Chains -> Chain]
           /\ \A d \in Chains : chain'[d].current \in 0..Len(task')
BY DEF TypeOK

\* The audited chain and what becomes of it.
LEMMA FoundRecorded ==
    ASSUME TypeOK, NEW c \in Chains, Found(c)
    PROVE  LET r == Recorded(chain[c], subject, audit.findings)
           IN  /\ r \in Chain
               /\ r.reason = "active" /\ r.limit = chain[c].limit
               /\ r.iteration = chain[c].iteration
               /\ r.current = chain[c].current
               /\ r.history = Append(chain[c].history,
                                     [task |-> chain[c].current,
                                      number |-> chain[c].iteration + 1,
                                      findings |-> audit.findings])
<1>1. /\ chain[c] \in Chain /\ subject \in Nat /\ audit.findings \in SUBSET Findings
      /\ chain[c].reason = "active" /\ chain[c].current = subject
  BY DEF TypeOK, Audit, Found, Active
<1> DEFINE r == Recorded(chain[c], subject, audit.findings)
<1>2. /\ r \in Chain
      /\ r.reason = chain[c].reason /\ r.limit = chain[c].limit
      /\ r.iteration = chain[c].iteration /\ r.current = subject
      /\ r.history = Append(chain[c].history,
                            [task |-> subject, number |-> chain[c].iteration + 1,
                             findings |-> audit.findings])
  BY <1>1, RecordedAdds
<1> HIDE DEF r
<1>3. /\ r \in Chain
      /\ r.reason = "active" /\ r.limit = chain[c].limit
      /\ r.iteration = chain[c].iteration /\ r.current = chain[c].current
      /\ r.history = Append(chain[c].history,
                            [task |-> chain[c].current, number |-> chain[c].iteration + 1,
                             findings |-> audit.findings])
  BY <1>1, <1>2
<1> QED
  BY <1>3 DEF r

LEMMA StepType == TypeOK /\ [Next]_vars => TypeOK'
<1> SUFFICES ASSUME TypeOK, [Next]_vars PROVE TypeOK'
  OBVIOUS
<1> USE ContinuationAssumption
<1>t. task \in Seq(TaskState) /\ Len(task) \in Nat
  BY DEF TypeOK
<1>a. /\ Append(task, "running") \in Seq(TaskState)
      /\ Len(Append(task, "running")) = Len(task) + 1
  BY <1>t DEF TaskState
<1>u. ASSUME NEW t \in DOMAIN task, NEW s \in TaskState,
             task' = [task EXCEPT ![t] = s], UNCHANGED <<chain, starting, pollVars>>
      PROVE  TypeOK'
  <2>1. task' \in Seq(TaskState) /\ Len(task') = Len(task)
    BY <1>t, <1>u
  <2> QED
    BY <2>1, <1>u DEF TypeOK, pollVars
<1>1. CASE UNCHANGED vars
  BY <1>1 DEF vars, pollVars, TypeOK
<1>2. CASE CollectDelivered
  BY <1>2 DEF CollectDelivered, Delivered, TypeOK
<1>3. CASE AuditTask
  <2>1. NoReport \in Audit
    BY DEF NoReport, Audit, Verdict
  <2>2. audit' \in Audit
    BY <1>3, <2>1 DEF AuditTask
  <2>3. /\ subject' \in 0..Len(task) /\ todo' \subseteq 1..Len(task)
        /\ poll' = "evaluate" /\ UNCHANGED <<chain, task, starting>>
    BY <1>3, <1>t DEF AuditTask, TypeOK
  <2> QED
    BY <2>2, <2>3 DEF TypeOK
<1>4. CASE EvaluateNothing
  BY <1>4 DEF EvaluateNothing, NextTask, TypeOK
<1>5. ASSUME NEW c \in Chains, EvaluateEnds(c) PROVE TypeOK'
  <2> DEFINE r == Recorded(chain[c], subject, audit.findings)
  <2>1. r \in Chain /\ r.current = chain[c].current
    BY <1>5, FoundRecorded DEF EvaluateEnds
  <2>2. Decision(r, audit) \in Reason
    BY <1>5, DecisionIsReason DEF EvaluateEnds
  <2>3. chain' = [chain EXCEPT ![c] = [r EXCEPT !.reason = Decision(r, audit)]]
    BY <1>5 DEF EvaluateEnds
  <2> HIDE DEF r
  <2>4. /\ [r EXCEPT !.reason = Decision(r, audit)] \in Chain
        /\ [r EXCEPT !.reason = Decision(r, audit)].current = chain[c].current
    BY <2>1, <2>2 DEF Chain
  <2>5. /\ chain' \in [Chains -> Chain]
        /\ \A d \in Chains : chain'[d].current \in 0..Len(task')
    BY <1>5, <1>t, <2>3, <2>4, OneChainType DEF EvaluateEnds, TypeOK
  <2> QED
    BY <1>5, <2>5 DEF EvaluateEnds, NextTask, TypeOK
<1>6. ASSUME NEW c \in Chains, EvaluateContinues(c) PROVE TypeOK'
  <2> DEFINE r == Recorded(chain[c], subject, audit.findings)
             ch == [r EXCEPT !.iteration = @ + 1]
  <2>1. r \in Chain /\ r.current = chain[c].current
    BY <1>6, FoundRecorded DEF EvaluateContinues
  <2>2. \/ /\ task' = Append(task, "running")
           /\ chain' = [chain EXCEPT ![c] = [ch EXCEPT !.current = Len(task) + 1]]
        \/ task' = task /\ chain' = [chain EXCEPT ![c] = ch]
    BY <1>6 DEF EvaluateContinues
  <2> HIDE DEF r
  <2>3. ch \in Chain /\ ch.current = chain[c].current
    BY <2>1 DEF Chain
  <2> HIDE DEF ch
  <2>4. /\ [ch EXCEPT !.current = Len(task) + 1] \in Chain
        /\ [ch EXCEPT !.current = Len(task) + 1].current = Len(task) + 1
    BY <2>3, <1>t DEF Chain
  <2>5. task' \in Seq(TaskState) /\ Len(task) <= Len(task')
    BY <2>2, <1>a, <1>t
  <2>6. /\ chain' \in [Chains -> Chain]
        /\ \A d \in Chains : chain'[d].current \in 0..Len(task')
    <3>1. CASE task' = task /\ chain' = [chain EXCEPT ![c] = ch]
      <4>1. ch.current \in 0..Len(task')
        BY <3>1, <1>6, <2>3 DEF TypeOK
      <4> QED
        BY <3>1, <4>1, <2>3, <2>5, OneChainType
    <3>2. CASE /\ task' = Append(task, "running")
               /\ chain' = [chain EXCEPT ![c] = [ch EXCEPT !.current = Len(task) + 1]]
      <4>1. [ch EXCEPT !.current = Len(task) + 1].current \in 0..Len(task')
        BY <3>2, <1>a, <1>t, <2>4
      <4> QED
        BY <3>2, <4>1, <2>4, <2>5, OneChainType
    <3> QED
      BY <2>2, <3>1, <3>2
  <2> QED
    BY <1>6, <2>5, <2>6 DEF EvaluateContinues, NextTask, TypeOK
<1>7. CASE DispatchRoot
  BY <1>7, <1>a DEF DispatchRoot, pollVars, TypeOK
<1>8. CASE StopAll
  <2> DEFINE Stopped(c) == [chain[c] EXCEPT !.reason = "UserCancelled"]
  <2>1. \A c \in Chains : /\ Stopped(c) \in Chain
                          /\ Stopped(c).current = chain[c].current
    BY DEF TypeOK, Chain, Reason
  <2>2. \A c \in Chains : chain'[c] = IF Active(c) THEN Stopped(c) ELSE chain[c]
    BY <1>8 DEF StopAll
  <2>3. chain' = [c \in Chains |-> IF Active(c) THEN Stopped(c) ELSE chain[c]]
    BY <1>8 DEF StopAll
  <2> HIDE DEF Stopped
  <2> QED
    BY <1>8, <2>1, <2>2, <2>3 DEF StopAll, pollVars, TypeOK
<1>9. ASSUME NEW c \in Chains, StopOne(c) PROVE TypeOK'
  <2>1. /\ [chain[c] EXCEPT !.reason = "UserCancelled"] \in Chain
        /\ [chain[c] EXCEPT !.reason = "UserCancelled"].current = chain[c].current
    BY DEF TypeOK, Chain, Reason
  <2>2. chain' = [chain EXCEPT ![c] = [chain[c] EXCEPT !.reason = "UserCancelled"]]
    BY <1>9 DEF StopOne
  <2> QED
    BY <1>9, <1>t, <2>1, <2>2, OneChainType DEF StopOne, pollVars, TypeOK
<1>10. ASSUME NEW c \in Chains, Expire(c) PROVE TypeOK'
  <2>1. /\ [chain[c] EXCEPT !.expired = TRUE] \in Chain
        /\ [chain[c] EXCEPT !.expired = TRUE].current = chain[c].current
    BY DEF TypeOK, Chain
  <2>2. chain' = [chain EXCEPT ![c] = [chain[c] EXCEPT !.expired = TRUE]]
    BY <1>10 DEF Expire
  <2> QED
    BY <1>10, <1>t, <2>1, <2>2, OneChainType DEF Expire, pollVars, TypeOK
<1>11. ASSUME NEW c \in Chains, NEW limit \in Limits, NEW poor \in BOOLEAN,
              StartChain(c, limit, poor)
       PROVE  TypeOK'
  <2>1. starting \in Nat /\ limit \in Nat
    BY <1>t DEF TypeOK
  <2>2. /\ NewChain(starting, limit, poor) \in Chain
        /\ NewChain(starting, limit, poor).current = starting
    BY <2>1 DEF NewChain, Chain
  <2>3. /\ chain' = [chain EXCEPT ![c] = NewChain(starting, limit, poor)]
        /\ task' = task /\ starting' = 0
        /\ UNCHANGED pollVars
    BY <1>11 DEF StartChain
  <2>4. /\ chain' \in [Chains -> Chain]
        /\ \A d \in Chains : chain'[d].current \in 0..Len(task')
    BY <1>t, <2>2, <2>3, OneChainType DEF TypeOK
  <2> QED
    BY <1>t, <2>3, <2>4 DEF pollVars, TypeOK
<1>12. ASSUME NEW t \in DOMAIN task, End(t) \/ Release(t) PROVE TypeOK'
  BY <1>12, <1>u DEF End, Deliver, DeliverEarly, Fail, Release, TaskState
<1> QED
  BY <1>1, <1>2, <1>3, <1>4, <1>5, <1>6, <1>7, <1>8, <1>9, <1>10, <1>11, <1>12
     DEF Next, Poll, Quiet

\* Types, for every value of the constants.
THEOREM TypeCorrect == Spec => []TypeOK
  BY InitType, StepType, PTL DEF Spec

-----------------------------------------------------------------------------
(* What a step does to one chain *)

Starts(c) ==
    /\ chain[c].reason = "unborn" /\ starting # 0 /\ task' = task
    /\ \E limit \in Limits, poor \in BOOLEAN :
          chain'[c] = NewChain(starting, limit, poor)

Stops(c) ==
    Active(c) /\ chain'[c] = [chain[c] EXCEPT !.reason = "UserCancelled"]

Ages(c) == Active(c) /\ chain'[c] = [chain[c] EXCEPT !.expired = TRUE]

Evaluation(c) == Recorded(chain[c], subject, audit.findings)

Ends(c) ==
    /\ Found(c) /\ Decision(Evaluation(c), audit) # "continue"
    /\ chain'[c] = [Evaluation(c) EXCEPT !.reason = Decision(Evaluation(c), audit)]

Continues(c) ==
    /\ Found(c) /\ Decision(Evaluation(c), audit) = "continue"
    /\ LET ch == [Evaluation(c) EXCEPT !.iteration = @ + 1]
       IN  \/ chain'[c] = ch
           \/ /\ chain'[c] = [ch EXCEPT !.current = Len(task) + 1]
              /\ task' = Append(task, "running")

LEMMA ChainStep ==
    ASSUME TypeOK, [Next]_vars, NEW c \in Chains
    PROVE  \/ chain'[c] = chain[c]
           \/ Starts(c) \/ Stops(c) \/ Ages(c) \/ Ends(c) \/ Continues(c)
<1>t. chain \in [Chains -> Chain]
  BY DEF TypeOK
<1>1. CASE UNCHANGED chain
  BY <1>1
<1>2. ASSUME NEW d \in Chains, EvaluateEnds(d)
      PROVE  chain'[c] = chain[c] \/ Ends(c)
  BY <1>2, <1>t DEF EvaluateEnds, Ends, Evaluation
<1>3. ASSUME NEW d \in Chains, EvaluateContinues(d)
      PROVE  chain'[c] = chain[c] \/ Continues(c)
  BY <1>3, <1>t DEF EvaluateContinues, Continues, Evaluation
<1>4. CASE StopAll
  BY <1>4 DEF StopAll, Stops
<1>5. ASSUME NEW d \in Chains, StopOne(d)
      PROVE  chain'[c] = chain[c] \/ Stops(c)
  BY <1>5, <1>t DEF StopOne, Stops
<1>6. ASSUME NEW d \in Chains, Expire(d)
      PROVE  chain'[c] = chain[c] \/ Ages(c)
  BY <1>6, <1>t DEF Expire, Ages
<1>7. ASSUME NEW d \in Chains, NEW limit \in Limits, NEW poor \in BOOLEAN,
             StartChain(d, limit, poor)
      PROVE  chain'[c] = chain[c] \/ Starts(c)
  BY <1>7, <1>t DEF StartChain, Starts
<1> QED
  BY <1>1, <1>2, <1>3, <1>4, <1>5, <1>6, <1>7
     DEF Next, Poll, Quiet, vars, CollectDelivered, AuditTask, EvaluateNothing,
         DispatchRoot, End, Deliver, DeliverEarly, Fail, Release

-----------------------------------------------------------------------------
(* Iterations and budget *)

\* The strengthening: the charge of an active chain is within its limit, and
\* an evaluation that ends the chain is not charged.
Account(ch) ==
    /\ \A n \in DOMAIN ch.history : ch.history[n].number = n
    /\ ch.reason = "active" => ch.iteration = Len(ch.history)
    /\ ch.iteration <= ch.limit
    /\ Len(ch.history) > ch.limit =>
          /\ Len(ch.history) = ch.limit + 1
          /\ ch.history[ch.limit + 1].task = ch.current

Accounted == \A c \in Chains : Account(chain[c])

LEMMA NewChainFields ==
    ASSUME NEW root, NEW limit, NEW poor
    PROVE  LET ch == NewChain(root, limit, poor)
           IN  /\ ch.reason = "active" /\ ch.limit = limit
               /\ ch.history = <<>> /\ ch.iteration = 0 /\ ch.current = root
BY DEF NewChain

LEMMA AppendAccount ==
    ASSUME NEW h \in Seq(Record), NEW r \in Record, r.number = Len(h) + 1,
           \A n \in DOMAIN h : h[n].number = n
    PROVE  /\ Len(Append(h, r)) = Len(h) + 1
           /\ \A n \in DOMAIN Append(h, r) : Append(h, r)[n].number = n
OBVIOUS

LEMMA StepAccount ==
    TypeOK /\ Accounted /\ [Next]_vars => Accounted'
<1> SUFFICES ASSUME TypeOK, Accounted, [Next]_vars, NEW c \in Chains
             PROVE  Account(chain'[c])
  BY DEF Accounted
<1> USE ContinuationAssumption
<1>t. chain[c] \in Chain /\ Account(chain[c])
  BY DEF TypeOK, Accounted
<1>1. CASE chain'[c] = chain[c]
  BY <1>1, <1>t
<1>2. CASE Starts(c)
  <2>1. PICK limit \in Limits, poor \in BOOLEAN :
           chain'[c] = NewChain(starting, limit, poor)
    BY <1>2 DEF Starts
  <2>2. /\ chain'[c].history = <<>> /\ chain'[c].iteration = 0
        /\ chain'[c].limit \in Nat /\ Len(chain'[c].history) = 0
    BY <2>1, NewChainFields
  <2> QED
    BY <2>2 DEF Account
<1>3. CASE Stops(c) \/ Ages(c)
  <2>1. /\ chain'[c].history = chain[c].history
        /\ chain'[c].iteration = chain[c].iteration
        /\ chain'[c].limit = chain[c].limit
        /\ chain'[c].current = chain[c].current
        /\ Active(c)
    BY <1>3, <1>t DEF Stops, Ages, Chain
  <2> QED
    BY <2>1, <1>t DEF Account, Active
<1>f. ASSUME Found(c)
      PROVE  /\ Evaluation(c) \in Chain
             /\ Evaluation(c).limit = chain[c].limit
             /\ Evaluation(c).iteration = chain[c].iteration
             /\ chain[c].iteration = Len(chain[c].history)
             /\ Len(Evaluation(c).history) = Len(chain[c].history) + 1
             /\ Evaluation(c).history[Len(chain[c].history) + 1].task
                  = Evaluation(c).current
             /\ \A n \in DOMAIN Evaluation(c).history :
                   Evaluation(c).history[n].number = n
  <2> DEFINE r == [task |-> chain[c].current, number |-> chain[c].iteration + 1,
                   findings |-> audit.findings]
  <2>1. chain[c].iteration = Len(chain[c].history)
    BY <1>f, <1>t DEF Found, Active, Account
  <2>2. r \in Record /\ r.number = Len(chain[c].history) + 1
    BY <2>1, <1>t DEF TypeOK, Record, Chain, Audit
  <2>3. Evaluation(c).history = Append(chain[c].history, r)
    BY <1>f, FoundRecorded DEF Evaluation
  <2> HIDE DEF r
  <2>4. /\ Len(Append(chain[c].history, r)) = Len(chain[c].history) + 1
        /\ \A n \in DOMAIN Append(chain[c].history, r) :
              Append(chain[c].history, r)[n].number = n
        /\ Append(chain[c].history, r)[Len(chain[c].history) + 1] = r
    BY <2>2, <1>t, AppendAccount DEF Account, Chain
  <2>5. r.task = Evaluation(c).current
    BY <1>f, FoundRecorded DEF Evaluation, r
  <2> QED
    BY <1>f, <2>1, <2>3, <2>4, <2>5, FoundRecorded DEF Evaluation
<1>4. CASE Ends(c)
  <2>1. /\ chain'[c].history = Evaluation(c).history
        /\ chain'[c].iteration = chain[c].iteration
        /\ chain'[c].limit = chain[c].limit
        /\ chain'[c].current = Evaluation(c).current
        /\ chain'[c].reason \in Reason
    BY <1>4, <1>f, DecisionIsReason DEF Ends, Chain
  <2>2. chain'[c].reason # "active"
    BY <2>1 DEF Reason, Dimension
  <2>3. Len(chain[c].history) <= chain[c].limit
    BY <1>4, <1>f, <1>t DEF Ends, Account
  <2> QED
    BY <1>4, <1>f, <1>t, <2>1, <2>2, <2>3 DEF Account, Ends, Chain
<1>5. CASE Continues(c)
  <2>1. chain[c].iteration < chain[c].limit
    BY <1>5, <1>f, DecisionContinues DEF Continues
  <2>2. /\ chain'[c].history = Evaluation(c).history
        /\ chain'[c].iteration = chain[c].iteration + 1
        /\ chain'[c].limit = chain[c].limit
    <3> DEFINE e == Evaluation(c)
    <3>1. e \in Chain /\ e.iteration = chain[c].iteration /\ e.limit = chain[c].limit
      BY <1>5, <1>f DEF Continues
    <3>2. \/ chain'[c] = [e EXCEPT !.iteration = @ + 1]
          \/ chain'[c] = [[e EXCEPT !.iteration = @ + 1]
                             EXCEPT !.current = Len(task) + 1]
      BY <1>5 DEF Continues
    <3> HIDE DEF e
    <3>3. /\ chain'[c].history = e.history
          /\ chain'[c].iteration = e.iteration + 1
          /\ chain'[c].limit = e.limit
      BY <3>1, <3>2 DEF Chain
    <3> QED
      BY <3>1, <3>3 DEF e
  <2> QED
    BY <1>5, <1>f, <1>t, <2>1, <2>2 DEF Account, Continues, Chain
<1> QED
  BY <1>1, <1>2, <1>3, <1>4, <1>5, ChainStep

LEMMA AlwaysAccounted == Spec => []Accounted
<1>1. Init => Accounted
  BY DEF Init, Accounted, Account, Unborn
<1> QED
  BY <1>1, StepAccount, TypeCorrect, PTL DEF Spec

\* Evaluations are numbered without a gap, and an active chain is charged for
\* each of them: for every number of chains, limit and pattern of dispatch
\* failures, stops and findings.
THEOREM IterationsHold == Spec => []IterationsAccounted
<1>1. Accounted => IterationsAccounted
  BY DEF Accounted, Account, IterationsAccounted, Active
<1> QED
  BY <1>1, AlwaysAccounted, PTL

\* A chain owns its root and at most `limit` more Tasks: its slots 1..limit + 1
\* are mapped onto them.
THEOREM BudgetHolds == Spec => []TasksWithinBudget
<1>1. TypeOK /\ Accounted => TasksWithinBudget
  <2> SUFFICES ASSUME TypeOK, Accounted, NEW c \in Chains
               PROVE  Cardinality(TasksOf(c)) <= chain[c].limit + 1
    BY DEF TasksWithinBudget
  <2> DEFINE h == chain[c].history
             slots == 1..chain[c].limit + 1
             f == [n \in slots |-> IF n \in DOMAIN h THEN h[n].task
                                                    ELSE chain[c].current]
  <2>1. /\ h \in Seq(Record) /\ chain[c].limit \in Nat
        /\ Len(h) > chain[c].limit =>
              Len(h) = chain[c].limit + 1
              /\ h[chain[c].limit + 1].task = chain[c].current
    BY DEF TypeOK, Accounted, Account, Chain
  <2>2. DOMAIN h \subseteq slots /\ chain[c].limit + 1 \in slots
    BY <2>1
  <2>3. f[chain[c].limit + 1] = chain[c].current
    BY <2>1, <2>2
  <2>4. \A n \in DOMAIN h : f[n] = h[n].task
    BY <2>2
  <2>5. f \in [slots -> TasksOf(c)]
    BY <2>2 DEF TasksOf
  <2>6. \A t \in TasksOf(c) : \E n \in slots : f[n] = t
    BY <2>2, <2>3, <2>4 DEF TasksOf
  <2>7. ExistsSurjection(slots, TasksOf(c))
    BY <2>5, <2>6 DEF ExistsSurjection, Surjection
  <2> QED
    BY <2>1, <2>7, FS_SurjCardinalityBound
<1> QED
  BY <1>1, AlwaysAccounted, TypeCorrect, PTL

-----------------------------------------------------------------------------
(* Ended chains *)

\* No command, expiry or late evaluation changes a chain that has ended.
THEOREM EndedStays == Spec => EndedForGood
<1>1. TypeOK /\ [Next]_vars
         => [\A c \in Chains : chain[c].reason \in Reason => chain'[c] = chain[c]]_vars
  BY ChainStep DEF Starts, Stops, Ages, Ends, Continues, Found, Active, Reason, Dimension
<1> QED
  BY <1>1, TypeCorrect, PTL DEF Spec, EndedForGood

-----------------------------------------------------------------------------
(* Refinement *)

LEMMA AbstractInit == Init => Abstract!CInit
  BY DEF Init, Unborn, Active, Abstract!CInit

\* What the step of one chain is to the abstract specification.
LEMMA AbstractStep ==
    TypeOK /\ Accounted /\ [Next]_vars
       => [Abstract!CNext]_(Abstract!cvars)
<1> SUFFICES ASSUME TypeOK, Accounted, [Next]_vars
             PROVE  Abstract!CNext \/ UNCHANGED Abstract!cvars
  OBVIOUS
<1> USE ContinuationAssumption
<1> DEFINE State(c) == IF Active(c) THEN "rolling" ELSE chain[c].reason
           Left(c) == chain[c].limit - chain[c].iteration
           Same(c) == State(c)' = State(c) /\ Left(c)' = Left(c)
           Rests(c) == /\ Left(c)' = Left(c)
                       /\ State(c)' # State(c)
                             => State(c) = "rolling" /\ State(c)' \in Reason
<1>t. \A c \in Chains : chain[c] \in Chain /\ Account(chain[c])
  BY DEF TypeOK, Accounted
<1>0. ASSUME NEW c \in Chains, chain'[c] = chain[c] PROVE Same(c) /\ Rests(c)
  BY <1>0 DEF Active
<1>r. ASSUME \A c \in Chains : Rests(c) PROVE Abstract!CNext
  <2>1. Abstract!Rest
    BY <1>r DEF Abstract!Rest
  <2> QED
    BY <2>1 DEF Abstract!CNext
<1>o. ASSUME NEW c \in Chains,
             \A d \in Chains \ {c} : chain'[d] = chain[d]
      PROVE  Abstract!Others(c)
  BY <1>o DEF Abstract!Others, Active
<1>1. CASE UNCHANGED chain
  BY <1>1, <1>0, <1>r
<1>2. ASSUME NEW c \in Chains, Stops(c) \/ Ages(c) PROVE Rests(c)
  <2>1. /\ chain'[c].limit = chain[c].limit
        /\ chain'[c].iteration = chain[c].iteration
        /\ chain'[c].reason \in {"active", "UserCancelled"}
        /\ Active(c)
    BY <1>2, <1>t DEF Stops, Ages, Chain, Active
  <2> QED
    BY <2>1 DEF Active, Reason
<1>3. ASSUME NEW c \in Chains, Ends(c) PROVE Rests(c)
  <2> DEFINE e == Evaluation(c)
  <2>1. /\ e \in Chain /\ e.limit = chain[c].limit
        /\ e.iteration = chain[c].iteration
    BY <1>3, FoundRecorded DEF Ends, Evaluation
  <2>2. Decision(e, audit) \in Reason /\ Active(c)
    BY <1>3, DecisionIsReason DEF Ends, Found
  <2>3. chain'[c] = [e EXCEPT !.reason = Decision(e, audit)]
    BY <1>3 DEF Ends
  <2> HIDE DEF e
  <2>4. /\ chain'[c].limit = chain[c].limit
        /\ chain'[c].iteration = chain[c].iteration
        /\ chain'[c].reason \in Reason
    BY <2>1, <2>2, <2>3 DEF Chain
  <2> QED
    BY <2>2, <2>4 DEF Active, Reason, Dimension
<1>4. ASSUME NEW c \in Chains, Continues(c),
             \A d \in Chains \ {c} : chain'[d] = chain[d]
      PROVE  Abstract!CNext
  <2> DEFINE e == Evaluation(c)
  <2>1. /\ e \in Chain /\ e.limit = chain[c].limit /\ e.reason = "active"
        /\ e.iteration = chain[c].iteration /\ Active(c)
    BY <1>4, FoundRecorded DEF Continues, Evaluation, Found
  <2>2. chain[c].iteration < chain[c].limit
    BY <1>4, <2>1, DecisionContinues DEF Continues
  <2>3. \/ chain'[c] = [e EXCEPT !.iteration = @ + 1]
        \/ chain'[c] = [[e EXCEPT !.iteration = @ + 1] EXCEPT !.current = Len(task) + 1]
    BY <1>4 DEF Continues
  <2> HIDE DEF e
  <2>4. /\ chain'[c].limit = chain[c].limit
        /\ chain'[c].iteration = chain[c].iteration + 1
        /\ chain'[c].reason = "active"
    BY <2>1, <2>3 DEF Chain
  <2>5. /\ State(c) = "rolling" /\ State(c)' = "rolling"
        /\ Left(c) > 0 /\ Left(c)' = Left(c) - 1
    BY <1>t, <2>1, <2>2, <2>4 DEF Active, Chain
  <2>6. Abstract!Push(c)
    BY <1>4, <1>o, <2>5 DEF Abstract!Push
  <2> QED
    BY <2>6 DEF Abstract!CNext
<1>5. ASSUME NEW c \in Chains, Starts(c),
             \A d \in Chains \ {c} : chain'[d] = chain[d]
      PROVE  Abstract!CNext
  <2>1. PICK limit \in Limits, poor \in BOOLEAN :
           chain'[c] = NewChain(starting, limit, poor)
    BY <1>5 DEF Starts
  <2>2. /\ chain'[c].reason = "active" /\ chain'[c].limit \in Nat
        /\ chain'[c].iteration = 0
    BY <2>1, NewChainFields
  <2>3. State(c) = "unborn" /\ State(c)' = "rolling" /\ Left(c)' \in Nat
    BY <1>5, <2>2 DEF Starts, Active
  <2>4. Abstract!Begin(c)
    BY <1>5, <1>o, <2>3 DEF Abstract!Begin
  <2> QED
    BY <2>4 DEF Abstract!CNext
<1>a. chain \in [Chains -> Chain]
  BY DEF TypeOK
<1>6. ASSUME NEW c \in Chains, EvaluateEnds(c) \/ StopOne(c) \/ Expire(c)
      PROVE  Abstract!CNext
  <2>1. /\ Ends(c) \/ Stops(c) \/ Ages(c)
        /\ \A d \in Chains \ {c} : chain'[d] = chain[d]
    BY <1>6, <1>a DEF EvaluateEnds, StopOne, Expire, Ends, Stops, Ages, Evaluation
  <2> QED
    BY <2>1, <1>0, <1>2, <1>3, <1>r
<1>7. ASSUME NEW c \in Chains, EvaluateContinues(c) PROVE Abstract!CNext
  <2>1. Continues(c) /\ \A d \in Chains \ {c} : chain'[d] = chain[d]
    BY <1>7, <1>a DEF EvaluateContinues, Continues, Evaluation
  <2> QED
    BY <2>1, <1>4
<1>8. ASSUME NEW c \in Chains, NEW limit \in Limits, NEW poor \in BOOLEAN,
             StartChain(c, limit, poor)
      PROVE  Abstract!CNext
  <2>1. Starts(c) /\ \A d \in Chains \ {c} : chain'[d] = chain[d]
    BY <1>8, <1>a DEF StartChain, Starts
  <2> QED
    BY <2>1, <1>5
<1>9. CASE StopAll
  <2>1. \A c \in Chains : chain'[c] = chain[c] \/ Stops(c)
    BY <1>9 DEF StopAll, Stops
  <2> QED
    BY <2>1, <1>0, <1>2, <1>r
<1> QED
  BY <1>1, <1>6, <1>7, <1>8, <1>9
     DEF Next, Poll, Quiet, vars, CollectDelivered, AuditTask, EvaluateNothing,
         DispatchRoot, End, Deliver, DeliverEarly, Fail, Release

\* The poll loop, the coordinator and the user's commands, interleaved in any
\* way, keep the promise of Chains.
THEOREM ImplementsChains == Spec => ChainsSpec
  BY AbstractInit, AbstractStep, TypeCorrect, AlwaysAccounted, PTL
     DEF Spec, ChainsSpec, Abstract!CSpec

-----------------------------------------------------------------------------
(* Tasks belong to one chain *)

\* The strengthening: a root Task without a chain is in no chain yet.
Owned ==
    /\ \A c \in Chains : TasksOf(c) \subseteq 0..Len(task)
    /\ \A c \in Chains : starting \in TasksOf(c) => starting = 0
    /\ NoSharedTask

\* The Tasks of a chain after a step: those it had, and perhaps one it was
\* given.
LEMMA TasksAfter ==
    ASSUME TypeOK, [Next]_vars, NEW c \in Chains
    PROVE  \/ TasksOf(c)' \subseteq TasksOf(c)
           \/ Starts(c) /\ TasksOf(c)' = {starting}
           \/ /\ Continues(c) /\ task' = Append(task, "running")
              /\ TasksOf(c)' \subseteq TasksOf(c) \cup {Len(task) + 1}
<1> USE ContinuationAssumption
<1>t. chain[c] \in Chain /\ chain[c].history \in Seq(Record)
  BY DEF TypeOK, Chain
<1>1. CASE chain'[c] = chain[c]
  BY <1>1 DEF TasksOf
<1>2. CASE Starts(c)
  <2>1. PICK limit \in Limits, poor \in BOOLEAN :
           chain'[c] = NewChain(starting, limit, poor)
    BY <1>2 DEF Starts
  <2>2. chain'[c].history = <<>> /\ chain'[c].current = starting
    BY <2>1, NewChainFields
  <2> QED
    BY <1>2, <2>2 DEF TasksOf
<1>3. CASE Stops(c) \/ Ages(c)
  <2>1. /\ chain'[c].history = chain[c].history
        /\ chain'[c].current = chain[c].current
    BY <1>3, <1>t DEF Stops, Ages, Chain
  <2> QED
    BY <2>1 DEF TasksOf
<1>f. ASSUME Found(c)
      PROVE  /\ Evaluation(c) \in Chain
             /\ Evaluation(c).current = chain[c].current
             /\ \A n \in DOMAIN Evaluation(c).history :
                   Evaluation(c).history[n].task \in TasksOf(c)
  <2> DEFINE r == [task |-> chain[c].current, number |-> chain[c].iteration + 1,
                   findings |-> audit.findings]
  <2>1. /\ Evaluation(c).history = Append(chain[c].history, r)
        /\ Evaluation(c) \in Chain
        /\ Evaluation(c).current = chain[c].current
    BY <1>f, FoundRecorded DEF Evaluation
  <2>2. r.task = chain[c].current
    OBVIOUS
  <2> HIDE DEF r
  <2>3. \A n \in DOMAIN Append(chain[c].history, r) :
           \/ n \in DOMAIN chain[c].history
              /\ Append(chain[c].history, r)[n] = chain[c].history[n]
           \/ Append(chain[c].history, r)[n] = r
    BY <1>t
  <2> QED
    BY <2>1, <2>2, <2>3 DEF TasksOf
<1>4. CASE Ends(c)
  <2>1. /\ chain'[c].history = Evaluation(c).history
        /\ chain'[c].current = Evaluation(c).current
    BY <1>4, <1>f DEF Ends, Chain
  <2> QED
    BY <1>4, <1>f, <2>1 DEF TasksOf, Ends
<1>5. CASE Continues(c)
  <2> DEFINE e == Evaluation(c)
  <2>1. e \in Chain
    BY <1>5, <1>f DEF Continues
  <2>2. \/ chain'[c] = [e EXCEPT !.iteration = @ + 1]
        \/ /\ chain'[c] = [[e EXCEPT !.iteration = @ + 1]
                              EXCEPT !.current = Len(task) + 1]
           /\ task' = Append(task, "running")
    BY <1>5 DEF Continues
  <2> HIDE DEF e
  <2>3. /\ chain'[c].history = e.history
        /\ \/ chain'[c].current = e.current
           \/ chain'[c].current = Len(task) + 1 /\ task' = Append(task, "running")
    BY <2>1, <2>2 DEF Chain
  <2>4. \A n \in DOMAIN chain'[c].history : chain'[c].history[n].task \in TasksOf(c)
    BY <1>5, <1>f, <2>3 DEF Continues, e
  <2>5. CASE chain'[c].current = e.current
    BY <1>5, <1>f, <2>4, <2>5 DEF Continues, TasksOf, e
  <2>6. CASE chain'[c].current = Len(task) + 1 /\ task' = Append(task, "running")
    BY <1>5, <2>4, <2>6 DEF TasksOf
  <2> QED
    BY <2>3, <2>5, <2>6
<1> QED
  BY <1>1, <1>2, <1>3, <1>4, <1>5, ChainStep

LEMMA StepOwned == TypeOK /\ Owned /\ [Next]_vars => Owned'
<1> SUFFICES ASSUME TypeOK, Owned, [Next]_vars PROVE Owned'
  OBVIOUS
<1>t. /\ task \in Seq(TaskState) /\ Len(task) \in Nat
      /\ chain \in [Chains -> Chain] /\ starting \in 0..Len(task)
  BY DEF TypeOK
<1>a. /\ Append(task, "running") \in Seq(TaskState)
      /\ Len(Append(task, "running")) = Len(task) + 1
  BY <1>t DEF TaskState
<1>l. Len(task') \in Nat /\ Len(task) <= Len(task')
  <2>1. task' = task \/ task' = Append(task, "running")
        \/ \E t \in DOMAIN task, s \in TaskState : task' = [task EXCEPT ![t] = s]
    BY DEF Next, Poll, Quiet, vars, CollectDelivered, AuditTask, EvaluateNothing,
           EvaluateEnds, EvaluateContinues, DispatchRoot, StopAll, StopOne, Expire,
           StartChain, End, Deliver, DeliverEarly, Fail, Release, TaskState
  <2> QED
    BY <2>1, <1>a, <1>t
<1>b. \A c \in Chains : starting # 0 /\ TasksOf(c)' = {starting} => TasksOf(c)' \subseteq 0..Len(task')
  BY <1>t, <1>l
\* At most one chain changes its Tasks, and never while another one starts.
<1>1. \A c, d \in Chains : c # d /\ ~(TasksOf(c)' \subseteq TasksOf(c))
                             => TasksOf(d)' \subseteq TasksOf(d)
  <2> SUFFICES ASSUME NEW c \in Chains, NEW d \in Chains, c # d,
                      ~(TasksOf(c)' \subseteq TasksOf(c)),
                      ~(TasksOf(d)' \subseteq TasksOf(d))
               PROVE  FALSE
    OBVIOUS
  <2>1. (Starts(c) \/ Continues(c)) /\ (Starts(d) \/ Continues(d))
    BY TasksAfter
  <2>2. chain'[c] # chain[c] /\ chain'[d] # chain[d]
    BY DEF TasksOf
  <2>3. ~ \E e \in Chains : chain' = [chain EXCEPT ![e] = chain'[e]]
    BY <2>2, <1>t
  <2>4. StopAll
    BY <2>2, <2>3, <1>t
       DEF Next, Poll, Quiet, vars, CollectDelivered, AuditTask, EvaluateNothing,
           EvaluateEnds, EvaluateContinues, DispatchRoot, StopOne, Expire,
           StartChain, End, Deliver, DeliverEarly, Fail, Release
  <2>5. chain'[c] = chain[c] \/ Stops(c)
    BY <2>4 DEF StopAll, Stops
  <2>6. chain[c] \in Chain
    BY <1>t
  <2>7. TasksOf(c)' = TasksOf(c)
    BY <2>5, <2>6 DEF Stops, TasksOf, Chain
  <2> QED
    BY <2>7
<1>2. \A c \in Chains : TasksOf(c)' \subseteq 0..Len(task')
  <2> SUFFICES ASSUME NEW c \in Chains PROVE TasksOf(c)' \subseteq 0..Len(task')
    OBVIOUS
  <2>1. TasksOf(c) \subseteq 0..Len(task')
    BY <1>l, <1>t DEF Owned
  <2>2. CASE TasksOf(c)' \subseteq TasksOf(c)
    BY <2>1, <2>2
  <2>3. CASE Starts(c) /\ TasksOf(c)' = {starting}
    BY <2>3, <1>b DEF Starts
  <2>4. CASE /\ task' = Append(task, "running")
             /\ TasksOf(c)' \subseteq TasksOf(c) \cup {Len(task) + 1}
    <3>1. Len(task) + 1 \in 0..Len(task')
      BY <2>4, <1>a, <1>t
    <3> QED
      BY <2>1, <2>4, <3>1
  <2> QED
    BY <2>2, <2>3, <2>4, TasksAfter
\* A step that makes a chain takes its root away from `starting`.
<1>s. ASSUME NEW c \in Chains, Starts(c), chain'[c] # chain[c]
      PROVE  starting' = 0
  <2>1. chain[c].reason = "unborn"
    BY <1>s DEF Starts
  <2> QED
    BY <2>1, <1>s, <1>t
       DEF Next, Poll, Quiet, vars, CollectDelivered, AuditTask, EvaluateNothing,
           EvaluateEnds, EvaluateContinues, DispatchRoot, StopAll, StopOne, Expire,
           StartChain, End, Deliver, DeliverEarly, Fail, Release, Found, Active
<1>d. \/ starting' = starting \/ starting' = 0
      \/ starting' = Len(task) + 1 /\ UNCHANGED chain
  BY DEF Next, Poll, Quiet, vars, pollVars, CollectDelivered, AuditTask,
         EvaluateNothing, EvaluateEnds, EvaluateContinues, DispatchRoot, StopAll,
         StopOne, Expire, StartChain, End, Deliver, DeliverEarly, Fail, Release
<1>c. ASSUME NEW c \in Chains, task' = Append(task, "running"),
             ~(TasksOf(c)' \subseteq TasksOf(c))
      PROVE  starting' = starting
  <2>1. chain' # chain
    BY <1>c DEF TasksOf
  <2>2. task' # task
    BY <1>c, <1>a, <1>t
  <2> QED
    BY <1>c, <2>1, <2>2
       DEF Next, Poll, Quiet, vars, pollVars, CollectDelivered, AuditTask,
           EvaluateNothing, EvaluateEnds, EvaluateContinues, DispatchRoot, StopAll,
           StopOne, Expire, StartChain, End, Deliver, DeliverEarly, Fail, Release
<1>3. \A c \in Chains : starting' \in TasksOf(c)' => starting' = 0
  <2> SUFFICES ASSUME NEW c \in Chains, starting' \in TasksOf(c)', starting' # 0
               PROVE  FALSE
    OBVIOUS
  <2>0. /\ TasksOf(c) \subseteq 0..Len(task)
        /\ starting \in TasksOf(c) => starting = 0
    BY DEF Owned
  <2>1. CASE starting' = Len(task) + 1 /\ UNCHANGED chain
    <3>1. TasksOf(c)' = TasksOf(c)
      BY <2>1 DEF TasksOf
    <3> QED
      BY <2>0, <2>1, <3>1, <1>t
  <2>2. CASE starting' = starting
    <3>1. CASE TasksOf(c)' \subseteq TasksOf(c)
      BY <2>0, <2>2, <3>1
    <3>2. CASE Starts(c) /\ ~(TasksOf(c)' \subseteq TasksOf(c))
      <4>1. chain'[c] # chain[c]
        BY <3>2 DEF TasksOf
      <4> QED
        BY <3>2, <4>1, <1>s
    <3>3. CASE TasksOf(c)' \subseteq TasksOf(c) \cup {Len(task) + 1}
      BY <2>0, <2>2, <3>3, <1>t
    <3> QED
      BY <3>1, <3>2, <3>3, TasksAfter
  <2> QED
    BY <2>1, <2>2, <1>d
<1>o. ASSUME NEW c \in Chains, NEW d \in Chains, c # d,
             TasksOf(d)' \subseteq TasksOf(d),
             NEW e \in TasksOf(c)' \cap TasksOf(d)'
      PROVE  e = 0
  <2>0. /\ TasksOf(d) \subseteq 0..Len(task)
        /\ starting \in TasksOf(d) => starting = 0
        /\ TasksOf(c) \cap TasksOf(d) \subseteq {0}
        /\ e \in TasksOf(d)
    BY <1>o DEF Owned, NoSharedTask
  <2>1. CASE TasksOf(c)' \subseteq TasksOf(c)
    BY <2>0, <2>1
  <2>2. CASE TasksOf(c)' = {starting}
    BY <2>0, <2>2
  <2>3. CASE TasksOf(c)' \subseteq TasksOf(c) \cup {Len(task) + 1}
    BY <2>0, <2>3, <1>t
  <2> QED
    BY <2>1, <2>2, <2>3, TasksAfter
<1>4. NoSharedTask'
  <2> SUFFICES ASSUME NEW c \in Chains, NEW d \in Chains, c # d,
                      NEW e \in TasksOf(c)' \cap TasksOf(d)'
               PROVE  e = 0
    BY DEF NoSharedTask
  <2>1. TasksOf(c)' \subseteq TasksOf(c) \/ TasksOf(d)' \subseteq TasksOf(d)
    BY <1>1
  <2> QED
    BY <2>1, <1>o
<1> QED
  BY <1>2, <1>3, <1>4 DEF Owned

\* However commands, evaluations and dispatches interleave, no Task is the
\* Task of two chains: evaluate, which takes the first chain it finds, finds
\* the right one.
THEOREM TasksNotShared == Spec => []NoSharedTask
<1>1. Init => Owned
  <2> SUFFICES ASSUME Init PROVE Owned
    OBVIOUS
  <2>1. \A c \in Chains : TasksOf(c) = {0}
    BY DEF Init, Unborn, TasksOf
  <2>2. Len(task) = 0 /\ starting = 0
    BY DEF Init
  <2> QED
    BY <2>1, <2>2 DEF Owned, NoSharedTask
<1>2. Owned => NoSharedTask
  BY DEF Owned
<1> QED
  BY <1>1, <1>2, StepOwned, TypeCorrect, PTL DEF Spec

-----------------------------------------------------------------------------
(* Doom loops *)

\* The audits that cited again what the two before them cited.
Repetitions(history) == {n \in DOMAIN history : RepeatsAt(history, n)}

\* The strengthening: the detector's counter is the number of repetitions in
\* the history, and only a chain below the threshold is left active.
Progress(ch) ==
    /\ ch.stale = Cardinality(Repetitions(ch.history))
    /\ ch.reason = "active" /\ NoProgressRounds > 0 => ch.stale < NoProgressRounds

Progressing == \A c \in Chains : Progress(chain[c])

\* An evaluation adds at most itself to the repetitions.
LEMMA RepetitionsGrow ==
    ASSUME NEW h \in Seq(Record), NEW r \in Record
    PROVE  /\ IsFiniteSet(Repetitions(h))
           /\ Cardinality(Repetitions(Append(h, r))) =
                Cardinality(Repetitions(h))
                + IF RepeatsAt(Append(h, r), Len(h) + 1) THEN 1 ELSE 0
<1> DEFINE g == Append(h, r)
           n == Len(h) + 1
<1>1. /\ Len(h) \in Nat /\ DOMAIN h = 1..Len(h) /\ DOMAIN g = 1..n
      /\ Len(g) = n
      /\ \A i \in 1..Len(h) : g[i] = h[i]
  OBVIOUS
<1>2. IsFiniteSet(Repetitions(h))
  <2>1. IsFiniteSet(1..Len(h)) /\ Repetitions(h) \in SUBSET (1..Len(h))
    BY <1>1, FS_Interval DEF Repetitions
  <2> QED
    BY <2>1, FS_Subset
<1> HIDE DEF g
<1>3. \A i \in 1..Len(h) : RepeatsAt(g, i) <=> RepeatsAt(h, i)
  <2> SUFFICES ASSUME NEW i \in 1..Len(h), i > 2
               PROVE  g[i] = h[i] /\ g[i - 1] = h[i - 1] /\ g[i - 2] = h[i - 2]
    BY <1>1 DEF RepeatsAt
  <2> QED
    BY <1>1
<1>4. \A i \in 1..n : i \in 1..Len(h) \/ i = n
  BY <1>1
<1>5. Repetitions(g) = Repetitions(h) \cup (IF RepeatsAt(g, n) THEN {n} ELSE {})
  BY <1>1, <1>3, <1>4 DEF Repetitions
<1>6. n \notin Repetitions(h)
  BY <1>1 DEF Repetitions
<1>7. CASE RepeatsAt(g, n)
  <2>1. Cardinality(Repetitions(h) \cup {n}) = Cardinality(Repetitions(h)) + 1
    BY <1>2, <1>6, FS_AddElement
  <2> QED
    BY <1>2, <1>5, <1>7, <2>1 DEF g
<1>8. CASE ~RepeatsAt(g, n)
  <2>1. Cardinality(Repetitions(h)) \in Nat
    BY <1>2, FS_CardinalityType
  <2> QED
    BY <1>2, <1>5, <1>8, <2>1 DEF g
<1> QED
  BY <1>7, <1>8

\* The detector counts with the history.
LEMMA RecordedStale ==
    ASSUME TypeOK, NEW c \in Chains, Found(c), Progress(chain[c])
    PROVE  Evaluation(c).stale = Cardinality(Repetitions(Evaluation(c).history))
<1> DEFINE r == [task |-> chain[c].current, number |-> chain[c].iteration + 1,
                 findings |-> audit.findings]
           h == chain[c].history
<1>1. chain[c] \in Chain /\ h \in Seq(Record) /\ r \in Record
  <2>1. chain[c] \in Chain /\ audit.findings \in SUBSET Findings
    BY DEF TypeOK, Audit
  <2>2. h \in Seq(Record) /\ chain[c].current \in Nat /\ chain[c].iteration \in Nat
    BY <2>1 DEF Chain
  <2> QED
    BY <2>1, <2>2 DEF Record
<1>2. Evaluation(c).history = Append(h, r)
  BY FoundRecorded DEF Evaluation
<1>3. chain[c].current = subject
  BY DEF Found
<1>4. Evaluation(c).stale = IF RepeatsAt(Append(h, r), Len(Append(h, r)))
                            THEN chain[c].stale + 1 ELSE chain[c].stale
  BY <1>1, <1>3 DEF Evaluation, Recorded, Chain
<1> HIDE DEF r, h
<1>5. Len(Append(h, r)) = Len(h) + 1
  BY <1>1
<1>6. chain[c].stale = Cardinality(Repetitions(h)) /\ chain[c].stale \in Nat
  BY <1>1 DEF Progress, Chain, h
<1> QED
  BY <1>1, <1>2, <1>4, <1>5, <1>6, RepetitionsGrow

LEMMA StepProgress ==
    TypeOK /\ Progressing /\ [Next]_vars => Progressing'
<1> SUFFICES ASSUME TypeOK, Progressing, [Next]_vars, NEW c \in Chains
             PROVE  Progress(chain'[c])
  BY DEF Progressing
<1> USE ContinuationAssumption
<1>t. chain[c] \in Chain /\ Progress(chain[c])
  BY DEF TypeOK, Progressing
<1>1. CASE chain'[c] = chain[c]
  BY <1>1, <1>t
<1>2. CASE Starts(c)
  <2>1. chain'[c].history = <<>> /\ chain'[c].stale = 0
    BY <1>2 DEF Starts, NewChain
  <2>2. Repetitions(chain'[c].history) = {}
    BY <2>1 DEF Repetitions
  <2> QED
    BY <2>1, <2>2, FS_EmptySet DEF Progress
<1>3. CASE Stops(c) \/ Ages(c)
  <2>1. /\ chain'[c].history = chain[c].history
        /\ chain'[c].stale = chain[c].stale
        /\ Active(c)
    BY <1>3, <1>t DEF Stops, Ages, Chain
  <2> QED
    BY <2>1, <1>t DEF Progress, Active
<1>4. CASE Ends(c)
  <2>0. Evaluation(c) \in Chain
    BY <1>4, FoundRecorded DEF Ends, Evaluation
  <2>1. /\ chain'[c].history = Evaluation(c).history
        /\ chain'[c].stale = Evaluation(c).stale
        /\ chain'[c].reason \in Reason
    BY <1>4, <2>0, DecisionIsReason DEF Ends, Chain
  <2>2. chain'[c].reason # "active"
    BY <2>1 DEF Reason, Dimension
  <2> QED
    BY <1>4, <1>t, <2>1, <2>2, RecordedStale DEF Progress, Ends
<1>5. CASE Continues(c)
  <2> DEFINE e == Evaluation(c)
  <2>1. e \in Chain
    BY <1>5, FoundRecorded DEF Continues, Evaluation
  <2>2. e.stale < NoProgressRounds
    <3>1. Exhausted(e) = "none"
      BY <1>5 DEF Continues, Decision, Exhausted
    <3> QED
      BY <2>1, <3>1 DEF Exhausted, Chain
  <2>3. \/ chain'[c] = [e EXCEPT !.iteration = @ + 1]
        \/ chain'[c] = [[e EXCEPT !.iteration = @ + 1]
                           EXCEPT !.current = Len(task) + 1]
    BY <1>5 DEF Continues
  <2>4. e.stale = Cardinality(Repetitions(e.history))
    BY <1>5, <1>t, RecordedStale DEF Continues
  <2> HIDE DEF e
  <2>5. chain'[c].history = e.history /\ chain'[c].stale = e.stale
    BY <2>1, <2>3 DEF Chain
  <2> QED
    BY <2>2, <2>4, <2>5 DEF Progress
<1> QED
  BY <1>1, <1>2, <1>3, <1>4, <1>5, ChainStep

\* No chain is active once NoProgressRounds of its audits repeated what the two
\* before cited, whatever their verdicts and however the dispatches fail.
THEOREM DoomLoopsStop == Spec => []DoomLoopStops
<1>1. Init => Progressing
  <2> SUFFICES ASSUME Init, NEW c \in Chains PROVE Progress(chain[c])
    BY DEF Progressing
  <2>1. chain[c].reason = "unborn" /\ chain[c].stale = 0 /\ chain[c].history = <<>>
    BY DEF Init, Unborn
  <2>2. Repetitions(chain[c].history) = {}
    BY <2>1 DEF Repetitions
  <2> QED
    BY <2>1, <2>2, FS_EmptySet DEF Progress
<1>2. Progressing => DoomLoopStops
  BY DEF Progressing, Progress, DoomLoopStops, Repetitions, Active
<1> QED
  BY <1>1, <1>2, StepProgress, TypeCorrect, PTL DEF Spec

=============================================================================
