--------------------------- MODULE TaskRunProofs ---------------------------
(***************************************************************************)
(* What TLC checks of TaskRun on small instances, for every turn budget,   *)
(* strike limit, set of issues and finite set of sub-tasks.                *)
(***************************************************************************)
EXTENDS TaskRun, SequenceTheorems, FiniteSetTheorems, TLAPS

-----------------------------------------------------------------------------
(* The lifecycle tracker *)

\* Trying a transition keeps the types of the tracker.
LEMMA TryTransitionType ==
    ASSUME status \in Status, stream \in Seq(Status), NEW to \in Status,
           TryTransition(to)
    PROVE  status' \in Status /\ stream' \in Seq(Status)
  BY DEF TryTransition

\* So does draining heartbeats.
LEMMA DrainType ==
    ASSUME status \in Status, stream \in Seq(Status), Drain
    PROVE  status' \in Status /\ stream' \in Seq(Status)
           /\ registry' \in Status
  <1>1. PICK n \in 1..Len(stream) :
            /\ registry' = stream[n]
            /\ stream' = SubSeq(stream, n + 1, Len(stream))
            /\ status' = status
    BY DEF Drain
  <1>2. registry' \in Status
    BY <1>1
  <1>3. stream' \in Seq(Status)
    BY <1>1, SubSeqProperties
  <1> QED
    BY <1>1, <1>2, <1>3

\* The count of sub-task results waiting to be read is a number, and reading
\* them leaves a number of sub-tasks to wait for.
LEMMA PendingIsNat ==
    ASSUME TypeOK
    PROVE  Cardinality(Noted) \in Nat /\ PendingAfterNotes \in Nat
  <1>1. IsFiniteSet(Noted)
    BY TaskRunAssumption, FS_Subset DEF Noted
  <1>2. Cardinality(Noted) \in Nat
    BY <1>1, FS_CardinalityType
  <1> QED
    BY <1>2 DEF PendingAfterNotes, TypeOK

-----------------------------------------------------------------------------
(* Type correctness *)

\* The turn counter never falls below zero although the wait loop takes turns
\* back: a loop that has passed its head has paid for the turn it is in.
Paid == {"steer", "queues", "call", "tools", "gate", "finish"}
TurnsPaid ==
    /\ pc \in Paid => turn \in 1..MaxTurns
    /\ pc \in PC \ (Paid \cup {"done"}) => turn \in 0..MaxTurns

TypeInv == TypeOK /\ TurnsPaid

LEMMA InitTypeInv == Init => TypeInv
  <1> SUFFICES ASSUME Init PROVE TypeInv
    OBVIOUS
  <1>1. /\ status \in Status /\ registry \in Status /\ stream \in Seq(Status)
        /\ steering \in Seq(Letter)
    BY DEF Init, LInit, Status
  <1>2. /\ pc = "spawned" /\ turn = 0 /\ phase \in Phase
        /\ sends \in 0..MaxSends /\ pending \in Nat
        /\ since \in {"unset", "ticking", "over"}
        /\ turn \in 0..MaxTurns + 1 /\ turn \in 0..MaxTurns
    BY TaskRunAssumption DEF Init, Phase
  <1>3. /\ gateOn \in BOOLEAN /\ baseline \subseteq Issues
        /\ verified \in BOOLEAN /\ orphans \subseteq Kids
    BY DEF Init
  <1>4. /\ strikes \in [Issues -> Nat] /\ hits \in [Issues -> Nat]
    BY DEF Init, NoStrikes
  <1>5. kid \in [Kids -> KidState]
    BY DEF Init, KidState
  <1>6. /\ outcome \in Outcome /\ announced \in {"none", "Delivered", "Stuck"}
    BY DEF Init, Outcome
  <1> QED
    BY <1>1, <1>2, <1>3, <1>4, <1>5, <1>6
    DEF TypeInv, TypeOK, TurnsPaid, PC, Paid

\* One step keeps the types: an action at a time, and for each the variables it
\* changes.
LEMMA NextTypeInv == TypeInv /\ [Next]_vars => TypeInv'
  <1> SUFFICES ASSUME TypeInv, [Next]_vars PROVE TypeInv'
    OBVIOUS
  <1> USE DEF TypeInv, TypeOK, TurnsPaid, PC, Paid
  <1>1. CASE Wake
    <2>1. status' \in Status /\ stream' \in Seq(Status)
      BY <1>1, TryTransitionType DEF Wake, Status
    <2> QED
      BY <1>1, <2>1 DEF Wake, gateVars, mailVars, kidVars, endVars
  <1>2. CASE Ponder
    <2>1. status' \in Status /\ stream' \in Seq(Status)
      BY <1>2, TryTransitionType DEF Ponder, Status
    <2> QED
      BY <1>2, <2>1 DEF Ponder, gateVars, mailVars, kidVars, endVars
  <1>3. CASE CaptureBaseline
    BY <1>3 DEF CaptureBaseline, lvars, mailVars, kidVars, endVars
  <1>4. CASE LoopHead
    BY <1>4, TaskRunAssumption
    DEF LoopHead, lvars, gateVars, mailVars, kidVars, endVars
  <1>5. CASE TurnsExceeded
    BY <1>5, TaskRunAssumption
    DEF TurnsExceeded, lvars, gateVars, kidVars, Outcome, ErrorReason
  <1>6. CASE SteerInject
    <2>1. steering' \in Seq(Letter)
      BY <1>6, HeadTailProperties DEF SteerInject
    <2>2. strikes' \in [Issues -> Nat]
      BY <1>6 DEF SteerInject, NoStrikes
    <2>3. status' \in Status /\ stream' \in Seq(Status)
      BY <1>6, TryTransitionType DEF SteerInject, Status
    <2> QED
      BY <1>6, <2>1, <2>2, <2>3
      DEF SteerInject, loopVars, kidVars, endVars
  <1>7. CASE SteerFocus
    <2>1. steering' \in Seq(Letter)
      BY <1>7, HeadTailProperties DEF SteerFocus
    <2> QED
      BY <1>7, <2>1
      DEF SteerFocus, lvars, loopVars, gateVars, kidVars, endVars
  <1>8. CASE SteerCancel
    <2>1. status' \in Status /\ stream' \in Seq(Status)
      BY <1>8, TryTransitionType DEF SteerCancel, Status
    <2> QED
      BY <1>8, <2>1 DEF SteerCancel, Return, gateVars, kidVars, Outcome
  <1>9. CASE SteerDone
    BY <1>9 DEF SteerDone, lvars, gateVars, mailVars, kidVars, endVars
  <1>10. Settle \in [Kids -> KidState] /\ PendingAfterNotes \in Nat
    BY PendingIsNat DEF Settle, KidState
  <1>11. CASE BeginTurn
    BY <1>10, <1>11 DEF BeginTurn, lvars, gateVars, mailVars, endVars
  <1>12. CASE KeepWaiting
    BY <1>10, <1>12, TaskRunAssumption
    DEF KeepWaiting, lvars, gateVars, mailVars, endVars
  <1>13. CASE GiveUpWaiting
    <2>1. status' \in Status /\ stream' \in Seq(Status)
      BY <1>13, TryTransitionType DEF GiveUpWaiting, Status
    <2>2. orphans' \subseteq Kids
      BY <1>13 DEF GiveUpWaiting, Live
    <2> QED
      BY <1>10, <1>13, <2>1, <2>2, TaskRunAssumption
      DEF GiveUpWaiting, gateVars, mailVars, endVars
  <1>14. CASE ProviderFails
    <2>1. status' \in Status /\ stream' \in Seq(Status)
      BY <1>14, TryTransitionType DEF ProviderFails, Status
    <2> QED
      BY <1>14, <2>1
      DEF ProviderFails, Return, gateVars, kidVars, Outcome, ErrorReason
  <1>15. ASSUME StartExecuting
         PROVE  status' \in Status /\ stream' \in Seq(Status)
    BY <1>15, TryTransitionType DEF StartExecuting, Status
  <1>16. ASSUME NEW assessed \in BOOLEAN, ReplyWithTools(assessed)
         PROVE  TypeInv'
    <2>1. phase' \in Phase
      BY <1>16 DEF ReplyWithTools, Phase
    <2> QED
      BY <1>15, <1>16, <2>1
      DEF ReplyWithTools, gateVars, mailVars, kidVars, endVars
  <1>17. ASSUME NEW new \in SUBSET Kids, NEW asks \in BOOLEAN,
                ToolsDone(new, asks)
         PROVE  TypeInv'
    <2>1. status' \in Status /\ stream' \in Seq(Status)
      BY <1>17, TryTransitionType DEF ToolsDone, Status
    <2>2. kid' \in [Kids -> KidState]
      BY <1>17 DEF ToolsDone, KidState
    <2>3. Cardinality(new) \in Nat
      BY TaskRunAssumption, FS_Subset, FS_CardinalityType
    <2>4. phase' \in Phase
      BY <1>17 DEF ToolsDone, Phase
    <2>5. pending' \in Nat
      BY <1>17, <2>3 DEF ToolsDone
    <2>6. /\ UNCHANGED <<registry, turn, gateOn, baseline, strikes, hits,
                         steering, sends, since, orphans, outcome, announced>>
          /\ pc = "tools" /\ pc' = "head" /\ verified' \in BOOLEAN
      BY <1>17 DEF ToolsDone, mailVars, endVars
    <2>7. TypeOK'
      BY <2>1, <2>2, <2>4, <2>5, <2>6
    <2>8. TurnsPaid'
      BY <2>6, TaskRunAssumption
    <2> QED
      BY <2>7, <2>8
  <1>18. CASE ReplyText
    <2>1. phase' \in Phase
      BY <1>18 DEF ReplyText, Phase
    <2> QED
      BY <1>15, <1>18, <2>1 DEF ReplyText, gateVars, mailVars, kidVars, endVars
  <1>19. CASE GateProceeds
    BY <1>19 DEF GateProceeds, lvars, mailVars, kidVars, endVars
  <1>20. ASSUME NEW report \in FailingReports, Counted(report)
         PROVE  /\ strikes' \in [Issues -> Nat] /\ hits' \in [Issues -> Nat]
                /\ UNCHANGED <<gateOn, baseline, verified>>
    <2>1. report \in [Issues -> Nat]
      BY <1>20, TaskRunAssumption DEF FailingReports
    <2> QED
      BY <1>20, <2>1 DEF Counted, Struck
  <1>21. ASSUME NEW report \in FailingReports, GateRetries(report)
         PROVE  TypeInv'
    <2>1. phase' \in Phase
      BY <1>21 DEF GateRetries, Phase
    <2>2. /\ strikes' \in [Issues -> Nat] /\ hits' \in [Issues -> Nat]
          /\ UNCHANGED <<gateOn, baseline, verified>>
      BY <1>20, <1>21 DEF GateRetries
    <2> QED
      BY <1>21, <2>1, <2>2 DEF GateRetries, lvars, mailVars, kidVars, endVars
  <1>22. ASSUME NEW report \in FailingReports, GateSticks(report)
         PROVE  TypeInv'
    <2>1. status' \in Status /\ stream' \in Seq(Status)
      BY <1>22, TryTransitionType DEF GateSticks, Status
    <2>2. /\ strikes' \in [Issues -> Nat] /\ hits' \in [Issues -> Nat]
          /\ UNCHANGED <<gateOn, baseline, verified>>
      BY <1>20, <1>22 DEF GateSticks
    <2> QED
      BY <1>22, <2>1, <2>2
      DEF GateSticks, Return, kidVars, Outcome, ErrorReason
  <1>23. CASE WaitForKids
    <2>1. status' \in Status /\ stream' \in Seq(Status)
      BY <1>23, TryTransitionType DEF WaitForKids, Status
    <2> QED
      BY <1>23, <2>1 DEF WaitForKids, gateVars, mailVars, endVars
  <1>24. CASE Complete
    <2>1. status' \in Status /\ stream' \in Seq(Status)
      BY <1>24, TryTransitionType DEF Complete, Status
    <2> QED
      BY <1>24, <2>1 DEF Complete, Return, gateVars, kidVars, Outcome
  <1>25. ASSUME NEW letter \in Letter, Send(letter)
         PROVE  TypeInv'
    BY <1>25, TaskRunAssumption, AppendProperties
    DEF Send, lvars, loopVars, gateVars, kidVars, endVars
  <1>26. CASE DrainHeartbeats
    BY <1>26, DrainType
    DEF DrainHeartbeats, loopVars, gateVars, mailVars, kidVars, endVars
  <1>27. ASSUME NEW k \in Kids, DispatchKid(k)
         PROVE  TypeInv'
    <2>1. kid' \in [Kids -> KidState]
      BY <1>27 DEF DispatchKid, KidState
    <2>2. steering' \in Seq(Letter)
      BY <1>27, AppendProperties DEF DispatchKid, Letter
    <2> QED
      BY <1>27, <2>1, <2>2
      DEF DispatchKid, lvars, loopVars, gateVars, endVars
  <1>28. ASSUME NEW ended \in SUBSET Kids, NEW kept \in SUBSET ended,
                ReportKids(ended, kept)
         PROVE  TypeInv'
    <2>1. kid' \in [Kids -> KidState]
      BY <1>28 DEF ReportKids, KidState
    <2>2. Cardinality(ended) \in Nat
      BY TaskRunAssumption, FS_Subset, FS_CardinalityType
    <2>3. [n \in 1..Cardinality(ended) |-> "inject"] \in Seq(Letter)
      BY <2>2 DEF Letter
    <2>4. steering' \in Seq(Letter)
      BY <1>28, <2>3, ConcatProperties DEF ReportKids
    <2> QED
      BY <1>28, <2>1, <2>4
      DEF ReportKids, lvars, loopVars, gateVars, endVars
  <1>29. CASE WaitExpires
    BY <1>29 DEF WaitExpires, lvars, loopVars, gateVars, mailVars, endVars
  <1>30. CASE UNCHANGED vars
    BY <1>30 DEF vars, lvars, loopVars, gateVars, mailVars, kidVars, endVars
  <1> QED
    BY <1>1, <1>2, <1>3, <1>4, <1>5, <1>6, <1>7, <1>8, <1>9, <1>11, <1>12,
       <1>13, <1>14, <1>16, <1>17, <1>18, <1>19, <1>21, <1>22, <1>23, <1>24,
       <1>25, <1>26, <1>27, <1>28, <1>29, <1>30
    DEF Next, TaskStep, Stopped

\* Every reachable state of the run loop has its type, and its turn counter is
\* in range although the wait loop gives turns back.
THEOREM TypeCorrect == Spec => []TypeOK
  <1>1. TypeInv => TypeOK
    BY DEF TypeInv
  <1> QED
    BY <1>1, InitTypeInv, NextTypeInv, PTL DEF Spec

-----------------------------------------------------------------------------
(* The run loop implements the lifecycle *)

\* Everything the run loop does to its status is a legal transition that is
\* reported, one at a time, or nothing.
LEMMA StepImplements == TypeInv /\ [Next]_vars => [LNext]_lvars
  <1> SUFFICES ASSUME TypeInv, [Next]_vars PROVE [LNext]_lvars
    OBVIOUS
  <1> USE DEF lvars
  <1>1. ASSUME NEW to \in Status, TryTransition(to), registry' = registry
        PROVE  LNext
    BY <1>1 DEF LNext, Change
  <1>2. ASSUME StartExecuting, registry' = registry
        PROVE  [LNext]_lvars
    BY <1>1, <1>2 DEF StartExecuting, Status
  <1>3. CASE Wake \/ Ponder \/ SteerCancel \/ GiveUpWaiting \/ ProviderFails
             \/ WaitForKids \/ Complete
    BY <1>1, <1>3 DEF Wake, Ponder, SteerCancel, GiveUpWaiting, ProviderFails,
                      WaitForKids, Complete, Status
  <1>4. CASE CaptureBaseline \/ LoopHead \/ TurnsExceeded \/ SteerFocus
             \/ SteerDone \/ BeginTurn \/ KeepWaiting \/ GateProceeds
             \/ WaitExpires \/ UNCHANGED vars
    BY <1>4 DEF CaptureBaseline, LoopHead, TurnsExceeded, SteerFocus, SteerDone,
                BeginTurn, KeepWaiting, GateProceeds, WaitExpires, vars
  <1>5. CASE SteerInject
    BY <1>1, <1>5 DEF SteerInject, Status
  <1>6. ASSUME NEW assessed \in BOOLEAN, ReplyWithTools(assessed)
        PROVE  [LNext]_lvars
    BY <1>2, <1>6 DEF ReplyWithTools
  <1>7. ASSUME NEW new \in SUBSET Kids, NEW asks \in BOOLEAN,
               ToolsDone(new, asks)
        PROVE  [LNext]_lvars
    BY <1>1, <1>7 DEF ToolsDone, Status
  <1>8. CASE ReplyText
    BY <1>2, <1>8 DEF ReplyText
  <1>9. ASSUME NEW report \in FailingReports,
               GateRetries(report) \/ GateSticks(report)
        PROVE  [LNext]_lvars
    BY <1>1, <1>9 DEF GateRetries, GateSticks, Status
  <1>10. ASSUME NEW letter \in Letter, Send(letter)
         PROVE  [LNext]_lvars
    BY <1>10 DEF Send
  <1>11. CASE DrainHeartbeats
    BY <1>11 DEF DrainHeartbeats, LNext
  <1>12. ASSUME NEW k \in Kids, DispatchKid(k)
         PROVE  [LNext]_lvars
    BY <1>12 DEF DispatchKid
  <1>13. ASSUME NEW ended \in SUBSET Kids, NEW kept \in SUBSET ended,
                ReportKids(ended, kept)
         PROVE  [LNext]_lvars
    BY <1>13 DEF ReportKids
  <1> QED
    BY <1>3, <1>4, <1>5, <1>6, <1>7, <1>8, <1>9, <1>10, <1>11, <1>12, <1>13
    DEF Next, TaskStep, Stopped

\* The run loop implements the abstract lifecycle: whatever the user, the
\* provider and the sub-tasks do, its status moves along the table of
\* lifecycle/status.rs and every move is reported.
THEOREM ImplementsLifecycle == Spec => LSpec
  <1>1. Init => LInit
    BY DEF Init
  <1>2. Spec => []TypeInv
    BY InitTypeInv, NextTypeInv, PTL DEF Spec
  <1> QED
    BY <1>1, <1>2, StepImplements, PTL DEF Spec, LSpec

-----------------------------------------------------------------------------
(* Heartbeats *)

LType == status \in Status /\ registry \in Status /\ stream \in Seq(Status)

\* A move that is tried extends the path of reports by a legal step, or does
\* nothing.
LEMMA TryTransitionReports ==
    ASSUME LType, ReportsAreLegal, NEW to \in Status, TryTransition(to),
           registry' = registry
    PROVE  ReportsAreLegal'
  <1>1. CASE ~IsValidTransition(status, to)
    BY <1>1 DEF TryTransition, ReportsAreLegal, Before
  <1>2. CASE IsValidTransition(status, to)
    <2>1. status' = to /\ stream' = Append(stream, to)
      BY <1>2 DEF TryTransition
    <2>2. /\ Len(stream') = Len(stream) + 1 /\ stream' # <<>>
          /\ stream'[Len(stream')] = to
          /\ \A n \in 1..Len(stream) : stream'[n] = stream[n]
      BY <2>1, AppendProperties DEF LType
    <2>3. ASSUME NEW n \in 1..Len(stream')
          PROVE  IsValidTransition(Before(n)', stream'[n])
      <3>1. CASE n \in 1..Len(stream)
        <4>1. Before(n)' = Before(n)
          BY <2>2, <3>1 DEF Before, LType
        <4> QED
          BY <2>2, <3>1, <4>1 DEF ReportsAreLegal
      <3>2. CASE n = Len(stream) + 1
        <4>1. Before(n)' = status
          BY <2>2, <3>2 DEF Before, ReportsAreLegal, LType
        <4> QED
          BY <1>2, <2>2, <3>2, <4>1
      <3> QED
        BY <2>2, <2>3, <3>1, <3>2 DEF LType
    <2> QED
      BY <2>1, <2>2, <2>3 DEF ReportsAreLegal
  <1> QED
    BY <1>1, <1>2

\* Draining moves a prefix of the path into the registry.
LEMMA DrainReports ==
    ASSUME LType, ReportsAreLegal, Drain
    PROVE  ReportsAreLegal'
  <1>1. PICK n \in 1..Len(stream) :
            /\ registry' = stream[n]
            /\ stream' = SubSeq(stream, n + 1, Len(stream))
            /\ status' = status
    BY DEF Drain
  <1>2. /\ Len(stream) \in Nat /\ Len(stream') = Len(stream) - n
        /\ \A m \in 1..Len(stream) - n : stream'[m] = stream[n + m]
    BY <1>1, SubSeqProperties DEF LType
  <1>3. ASSUME NEW m \in 1..Len(stream')
        PROVE  IsValidTransition(Before(m)', stream'[m])
    <2>1. Before(m)' = Before(n + m) /\ stream'[m] = stream[n + m]
      BY <1>1, <1>2, <1>3 DEF Before
    <2>2. n + m \in 1..Len(stream)
      BY <1>2, <1>3
    <2> QED
      BY <2>1, <2>2 DEF ReportsAreLegal
  <1>4. status' = IF stream' = <<>> THEN registry' ELSE stream'[Len(stream')]
    <2>1. status = stream[Len(stream)] /\ stream' \in Seq(Status)
      BY <1>1, SubSeqProperties DEF ReportsAreLegal, LType
    <2>2. CASE n = Len(stream)
      BY <1>1, <1>2, <2>1, <2>2, EmptySeq
    <2>3. CASE n # Len(stream)
      <3>1. /\ Len(stream') \in 1..Len(stream) - n
            /\ n + Len(stream') = Len(stream)
        BY <1>2, <2>3
      <3>2. stream' # <<>>
        BY <3>1, EmptySeq
      <3>3. stream'[Len(stream')] = stream[Len(stream)]
        BY <1>2, <3>1
      <3> QED
        BY <1>1, <2>1, <3>2, <3>3
    <2> QED
      BY <2>2, <2>3
  <1> QED
    BY <1>3, <1>4 DEF ReportsAreLegal

\* What the registry has recorded and what is in flight is a path of legal
\* transitions to the tracker's status.
THEOREM LifecycleReports == LSpec => []ReportsAreLegal
  <1>1. LInit => LType /\ ReportsAreLegal
    BY DEF LInit, LType, ReportsAreLegal, Status
  <1>2. LType /\ ReportsAreLegal /\ [LNext]_lvars
            => LType' /\ ReportsAreLegal'
    <2> SUFFICES ASSUME LType, ReportsAreLegal, [LNext]_lvars
                 PROVE  LType' /\ ReportsAreLegal'
      OBVIOUS
    <2>1. CASE Change
      <3>1. PICK to \in Status : TryTransition(to) /\ registry' = registry
        BY <2>1 DEF Change
      <3> QED
        BY <3>1, TryTransitionType, TryTransitionReports DEF LType
    <2>2. CASE Drain
      BY <2>2, DrainType, DrainReports DEF LType
    <2>3. CASE UNCHANGED lvars
      BY <2>3 DEF lvars, LType, ReportsAreLegal, Before
    <2> QED
      BY <2>1, <2>2, <2>3 DEF LNext
  <1> QED
    BY <1>1, <1>2, PTL DEF LSpec

\* The same of the run loop, through the lifecycle it implements.
THEOREM TaskReports == Spec => []ReportsAreLegal
  BY ImplementsLifecycle, LifecycleReports, PTL

-----------------------------------------------------------------------------
(* A Task that looks finished has returned *)

\* The inductive form: as long as the loop runs, the tracker, the registry and
\* every heartbeat between them carry an active status.
AllActive ==
    /\ IsActive(status) /\ IsActive(registry)
    /\ \A n \in 1..Len(stream) : IsActive(stream[n])
ActiveInv == pc # "done" => AllActive

LEMMA TryTransitionActive ==
    ASSUME LType, AllActive, NEW to \in Status, IsActive(to),
           TryTransition(to), registry' = registry
    PROVE  AllActive'
  <1>1. CASE UNCHANGED <<status, stream>>
    BY <1>1 DEF AllActive
  <1>2. CASE status' = to /\ stream' = Append(stream, to)
    <2>1. ASSUME NEW n \in 1..Len(stream')
          PROVE  IsActive(stream'[n])
      BY <1>2, <2>1, AppendProperties DEF LType, AllActive
    <2> QED
      BY <1>2, <2>1 DEF AllActive
  <1> QED
    BY <1>1, <1>2 DEF TryTransition

LEMMA DrainActive ==
    ASSUME LType, AllActive, Drain
    PROVE  AllActive'
  <1>1. PICK n \in 1..Len(stream) :
            /\ registry' = stream[n]
            /\ stream' = SubSeq(stream, n + 1, Len(stream))
            /\ status' = status
    BY DEF Drain
  <1>2. /\ Len(stream) \in Nat /\ Len(stream') = Len(stream) - n
        /\ \A m \in 1..Len(stream) - n : stream'[m] = stream[n + m]
    BY <1>1, SubSeqProperties DEF LType
  <1>3. ASSUME NEW m \in 1..Len(stream')
        PROVE  IsActive(stream'[m])
    <2>1. n + m \in 1..Len(stream) /\ stream'[m] = stream[n + m]
      BY <1>2, <1>3
    <2> QED
      BY <2>1 DEF AllActive
  <1> QED
    BY <1>1, <1>3 DEF AllActive

LEMMA NextActive == TypeInv /\ ActiveInv /\ [Next]_vars => ActiveInv'
  <1> SUFFICES ASSUME TypeInv, ActiveInv, [Next]_vars, pc' # "done"
               PROVE  AllActive'
    BY DEF ActiveInv
  <1>1. LType
    BY DEF TypeInv, TypeOK, LType
  <1>2. ASSUME pc # "done", UNCHANGED lvars
        PROVE  AllActive'
    BY <1>2 DEF ActiveInv, AllActive, lvars
  <1>3. ASSUME pc # "done", UNCHANGED registry, NEW to \in Status, IsActive(to),
               TryTransition(to) \/ UNCHANGED <<status, stream>>
        PROVE  AllActive'
    BY <1>1, <1>2, <1>3, TryTransitionActive DEF ActiveInv, lvars
  <1>4. /\ {"Waking", "Pondering", "OnIt", "Waiting"} \subseteq Status
        /\ \A to \in {"Waking", "Pondering", "OnIt", "Waiting"} : IsActive(to)
    BY DEF Status, IsActive
  <1>5. ASSUME pc # "done", UNCHANGED registry, StartExecuting
        PROVE  AllActive'
    BY <1>3, <1>4, <1>5 DEF StartExecuting
  <1>6. CASE Wake
    BY <1>3, <1>4, <1>6 DEF Wake
  <1>7. CASE Ponder
    BY <1>3, <1>4, <1>7 DEF Ponder
  <1>8. CASE CaptureBaseline \/ LoopHead \/ SteerFocus \/ SteerDone
             \/ BeginTurn \/ KeepWaiting \/ GateProceeds \/ WaitExpires
    BY <1>2, <1>8 DEF CaptureBaseline, LoopHead, SteerFocus, SteerDone,
                      BeginTurn, KeepWaiting, GateProceeds, WaitExpires
  <1>9. CASE SteerInject
    BY <1>3, <1>4, <1>9 DEF SteerInject
  <1>10. CASE GiveUpWaiting
    BY <1>3, <1>4, <1>10 DEF GiveUpWaiting
  <1>11. ASSUME NEW assessed \in BOOLEAN, ReplyWithTools(assessed)
         PROVE  AllActive'
    BY <1>5, <1>11 DEF ReplyWithTools
  <1>12. ASSUME NEW new \in SUBSET Kids, NEW asks \in BOOLEAN,
                ToolsDone(new, asks)
         PROVE  AllActive'
    BY <1>3, <1>4, <1>12 DEF ToolsDone
  <1>13. CASE ReplyText
    BY <1>5, <1>13 DEF ReplyText
  <1>14. ASSUME NEW report \in FailingReports, GateRetries(report)
         PROVE  AllActive'
    BY <1>2, <1>14 DEF GateRetries
  <1>15. CASE WaitForKids
    BY <1>3, <1>4, <1>15 DEF WaitForKids
  <1>16. ASSUME NEW letter \in Letter, Send(letter)
         PROVE  AllActive'
    BY <1>2, <1>16 DEF Send
  <1>17. CASE DrainHeartbeats
    BY <1>1, <1>17, DrainActive DEF DrainHeartbeats, ActiveInv, loopVars
  <1>18. ASSUME NEW k \in Kids, DispatchKid(k)
         PROVE  AllActive'
    BY <1>2, <1>18 DEF DispatchKid
  <1>19. ASSUME NEW ended \in SUBSET Kids, NEW kept \in SUBSET ended,
                ReportKids(ended, kept)
         PROVE  AllActive'
    BY <1>2, <1>19 DEF ReportKids
  <1>20. CASE UNCHANGED vars
    BY <1>2, <1>20 DEF vars, loopVars, lvars
  <1>21. ASSUME NEW report \in FailingReports,
                TurnsExceeded \/ SteerCancel \/ ProviderFails
                  \/ GateSticks(report) \/ Complete
         PROVE  FALSE
    BY <1>21 DEF TurnsExceeded, SteerCancel, ProviderFails, GateSticks, Complete,
                 Return
  <1>22. ~(TurnsExceeded \/ SteerCancel \/ ProviderFails \/ Complete)
    BY DEF TurnsExceeded, SteerCancel, ProviderFails, Complete, Return
  <1> QED
    BY <1>6, <1>7, <1>8, <1>9, <1>10, <1>11, <1>12, <1>13, <1>14, <1>15, <1>16,
       <1>17, <1>18, <1>19, <1>20, <1>21, <1>22
    DEF Next, TaskStep, Stopped

\* A registry entry that is no longer active belongs to a Task that returned.
THEOREM FinishedHasReturned == Spec => []InactiveMeansReturned
  <1>1. Init => ActiveInv
    BY DEF Init, LInit, ActiveInv, AllActive, IsActive
  <1>2. ActiveInv => InactiveMeansReturned
    BY DEF ActiveInv, AllActive, InactiveMeansReturned
  <1> QED
    BY <1>1, <1>2, InitTypeInv, NextTypeInv, NextActive, PTL DEF Spec

-----------------------------------------------------------------------------
(* The 3-strike rule *)

\* The counters run ahead of the failures they count, and below the limit.
\* That process_steering clears them for a Stuck Task does no harm, because
\* (ActiveInv) no Task is Stuck while its loop runs.
StrikeInv ==
    pc # "done" => \A i \in Issues : hits[i] <= strikes[i]
                                     /\ strikes[i] < StrikeLimit

LEMMA NextStrikes ==
    TypeInv /\ ActiveInv /\ StrikeInv /\ [Next]_vars => StrikeInv'
  <1> SUFFICES ASSUME TypeInv, ActiveInv, StrikeInv, [Next]_vars,
                      pc' # "done", NEW i \in Issues
               PROVE  hits'[i] <= strikes'[i] /\ strikes'[i] < StrikeLimit
    BY DEF StrikeInv
  <1>1. strikes \in [Issues -> Nat] /\ hits \in [Issues -> Nat]
    BY DEF TypeInv, TypeOK
  <1>2. ASSUME pc # "done", UNCHANGED <<strikes, hits>>
        PROVE  hits'[i] <= strikes'[i] /\ strikes'[i] < StrikeLimit
    BY <1>2 DEF StrikeInv
  <1>3. CASE SteerInject
    <2>1. status # "Stuck" /\ pc # "done"
      BY <1>3 DEF SteerInject, ActiveInv, AllActive, IsActive
    <2> QED
      BY <1>2, <1>3, <2>1 DEF SteerInject
  <1>4. ASSUME NEW report \in FailingReports, GateRetries(report)
        PROVE  hits'[i] <= strikes'[i] /\ strikes'[i] < StrikeLimit
    <2>1. report[i] \in Nat
      BY TaskRunAssumption DEF FailingReports
    <2>2. /\ strikes'[i] = strikes[i] + report[i]
          /\ hits'[i] = IF report[i] > 0 THEN hits[i] + 1 ELSE hits[i]
          /\ report[i] > 0 => strikes'[i] < StrikeLimit
      BY <1>1, <1>4, <2>1, TaskRunAssumption
      DEF GateRetries, Counted, StruckOut, Struck
    <2>3. hits[i] <= strikes[i] /\ strikes[i] < StrikeLimit
      BY <1>4 DEF GateRetries, StrikeInv
    <2> QED
      BY <1>1, <2>1, <2>2, <2>3, TaskRunAssumption
  <1>5. CASE Wake \/ Ponder \/ CaptureBaseline \/ LoopHead \/ SteerFocus
             \/ SteerDone \/ BeginTurn \/ KeepWaiting \/ GiveUpWaiting
             \/ ReplyText \/ GateProceeds \/ WaitForKids \/ WaitExpires
    BY <1>2, <1>5 DEF Wake, Ponder, CaptureBaseline, LoopHead, SteerFocus,
       SteerDone, BeginTurn, KeepWaiting, GiveUpWaiting, ReplyText,
       GateProceeds, WaitForKids, WaitExpires, gateVars
  <1>6. ASSUME NEW assessed \in BOOLEAN, ReplyWithTools(assessed)
        PROVE  hits'[i] <= strikes'[i] /\ strikes'[i] < StrikeLimit
    BY <1>2, <1>6 DEF ReplyWithTools, gateVars
  <1>7. ASSUME NEW new \in SUBSET Kids, NEW asks \in BOOLEAN,
               ToolsDone(new, asks)
        PROVE  hits'[i] <= strikes'[i] /\ strikes'[i] < StrikeLimit
    BY <1>2, <1>7 DEF ToolsDone
  <1>8. ASSUME NEW letter \in Letter, Send(letter)
        PROVE  hits'[i] <= strikes'[i] /\ strikes'[i] < StrikeLimit
    BY <1>2, <1>8 DEF Send, gateVars
  <1>9. CASE DrainHeartbeats
    BY <1>2, <1>9 DEF DrainHeartbeats, gateVars, loopVars
  <1>10. ASSUME NEW k \in Kids, DispatchKid(k)
         PROVE  hits'[i] <= strikes'[i] /\ strikes'[i] < StrikeLimit
    BY <1>2, <1>10 DEF DispatchKid, gateVars
  <1>11. ASSUME NEW ended \in SUBSET Kids, NEW kept \in SUBSET ended,
                ReportKids(ended, kept)
         PROVE  hits'[i] <= strikes'[i] /\ strikes'[i] < StrikeLimit
    BY <1>2, <1>11 DEF ReportKids, gateVars
  <1>12. CASE UNCHANGED vars
    BY <1>2, <1>12 DEF vars, loopVars, gateVars
  <1>13. ~(TurnsExceeded \/ SteerCancel \/ ProviderFails \/ Complete)
    BY DEF TurnsExceeded, SteerCancel, ProviderFails, Complete, Return
  <1>14. ASSUME NEW report \in FailingReports, GateSticks(report)
         PROVE  FALSE
    BY <1>14 DEF GateSticks, Return
  <1> QED
    BY <1>3, <1>4, <1>5, <1>6, <1>7, <1>8, <1>9, <1>10, <1>11, <1>12, <1>13,
       <1>14
    DEF Next, TaskStep, Stopped

\* However errors are reported, repeated and mixed with those of the baseline,
\* no issue survives StrikeLimit failed verifications in a running Task.
THEOREM ThreeStrikesHold == Spec => []ThreeStrikesStop
  <1>1. Init => ActiveInv /\ StrikeInv
    BY TaskRunAssumption
    DEF Init, LInit, ActiveInv, AllActive, IsActive, StrikeInv, NoStrikes
  <1>2. TypeInv /\ StrikeInv => ThreeStrikesStop
    BY TaskRunAssumption DEF TypeInv, TypeOK, StrikeInv, ThreeStrikesStop
  <1> QED
    BY <1>1, <1>2, InitTypeInv, NextTypeInv, NextActive, NextStrikes, PTL
    DEF Spec

-----------------------------------------------------------------------------
(* Completion *)

\* What the loop knows when it is about to complete, and that it still holds
\* afterwards, when nothing but the surroundings moves.
CompletionInv ==
    /\ outcome # "none" => pc = "done"
    /\ (pc = "finish" \/ outcome = "Completed") /\ gateOn => verified

LEMMA NextCompletion ==
    TypeInv /\ CompletionInv /\ [Next]_vars => CompletionInv'
  <1> SUFFICES ASSUME TypeInv, CompletionInv, [Next]_vars PROVE CompletionInv'
    OBVIOUS
  <1> USE DEF CompletionInv
  <1>1. CASE Wake \/ Ponder \/ CaptureBaseline \/ LoopHead \/ TurnsExceeded
    BY <1>1 DEF Wake, Ponder, CaptureBaseline, LoopHead, TurnsExceeded,
                gateVars, endVars
  <1>2. CASE SteerInject \/ SteerFocus \/ SteerCancel \/ SteerDone
    BY <1>2 DEF SteerInject, SteerFocus, SteerCancel, SteerDone, Return,
                loopVars, gateVars, endVars
  <1>3. CASE BeginTurn \/ KeepWaiting \/ GiveUpWaiting \/ ProviderFails
    BY <1>3 DEF BeginTurn, KeepWaiting, GiveUpWaiting, ProviderFails, Return,
                gateVars, endVars
  <1>4. CASE ReplyText \/ GateProceeds \/ WaitForKids \/ Complete
    BY <1>4 DEF ReplyText, GateProceeds, WaitForKids, Complete, Return,
                gateVars, endVars
  <1>5. ASSUME NEW assessed \in BOOLEAN, ReplyWithTools(assessed)
        PROVE  CompletionInv'
    BY <1>5 DEF ReplyWithTools, gateVars, endVars
  <1>6. ASSUME NEW new \in SUBSET Kids, NEW asks \in BOOLEAN,
               ToolsDone(new, asks)
        PROVE  CompletionInv'
    BY <1>6 DEF ToolsDone, endVars
  <1>7. ASSUME NEW report \in FailingReports,
               GateRetries(report) \/ GateSticks(report)
        PROVE  CompletionInv'
    BY <1>7 DEF GateRetries, GateSticks, Return, endVars
  <1>8. ASSUME UNCHANGED <<pc, gateOn, verified, outcome>>
        PROVE  CompletionInv'
    BY <1>8
  <1>9. ASSUME NEW letter \in Letter, Send(letter)
        PROVE  CompletionInv'
    BY <1>8, <1>9 DEF Send, loopVars, gateVars, endVars
  <1>10. CASE DrainHeartbeats \/ WaitExpires \/ UNCHANGED vars
    BY <1>8, <1>10
    DEF DrainHeartbeats, WaitExpires, vars, loopVars, gateVars, endVars
  <1>11. ASSUME NEW k \in Kids, DispatchKid(k)
         PROVE  CompletionInv'
    BY <1>8, <1>11 DEF DispatchKid, loopVars, gateVars, endVars
  <1>12. ASSUME NEW ended \in SUBSET Kids, NEW kept \in SUBSET ended,
                ReportKids(ended, kept)
         PROVE  CompletionInv'
    BY <1>8, <1>12 DEF ReportKids, loopVars, gateVars, endVars
  <1> QED
    BY <1>1, <1>2, <1>3, <1>4, <1>5, <1>6, <1>7, <1>9, <1>10, <1>11, <1>12
    DEF Next, TaskStep, Stopped

\* A completed Task with an evidence gate passed it, and ran no tool since.
THEOREM CompletionVerified == Spec => []CompletedIsVerified
  <1>1. Init => CompletionInv
    BY DEF Init, CompletionInv
  <1>2. CompletionInv => CompletedIsVerified
    BY DEF CompletionInv, CompletedIsVerified
  <1> QED
    BY <1>1, <1>2, InitTypeInv, NextTypeInv, NextCompletion, PTL DEF Spec

-----------------------------------------------------------------------------
(* Waiting for sub-tasks *)

\* pending_subtask_count covers the live sub-tasks as long as the Task gave up
\* on none.
KidInv ==
    /\ orphans = {} => Cardinality(Live) <= pending
    /\ outcome = "Completed" => pending = 0

LEMMA LiveFinite ==
    /\ IsFiniteSet(Live) /\ Cardinality(Live) \in Nat
    /\ IsFiniteSet(Noted) /\ Cardinality(Noted) \in Nat
    /\ Noted \subseteq Live
  <1>1. Live \subseteq Kids /\ Noted \subseteq Kids /\ Noted \subseteq Live
    BY DEF Live, Noted
  <1> QED
    BY <1>1, TaskRunAssumption, FS_Subset, FS_CardinalityType

\* Reading the notifications takes the sub-tasks they are about out of Live.
LEMMA SettleLive ==
    ASSUME TypeOK, kid' = Settle
    PROVE  Live' = Live \ Noted
           /\ Cardinality(Live') = Cardinality(Live) - Cardinality(Noted)
  <1>1. Live' = Live \ Noted
    BY DEF TypeOK, Live, Noted, Settle, KidState
  <1>2. Live \cap Noted = Noted
    BY LiveFinite
  <1>3. Cardinality(Live \ Noted)
          = Cardinality(Live) - Cardinality(Live \cap Noted)
    BY ONLY LiveFinite, FS_Difference
  <1> QED
    BY <1>1, <1>2, <1>3

\* When fewer sub-tasks are live the count still covers them.
LEMMA FewerLive ==
    ASSUME Live' \subseteq Live
    PROVE  Cardinality(Live') <= Cardinality(Live) /\ Cardinality(Live') \in Nat
  <1>1. IsFiniteSet(Live') /\ Cardinality(Live') <= Cardinality(Live)
    BY LiveFinite, FS_Subset
  <1> QED
    BY <1>1, FS_CardinalityType

LEMMA NextKids ==
    TypeInv /\ CompletionInv /\ KidInv /\ [Next]_vars => KidInv'
  <1> SUFFICES ASSUME TypeInv, CompletionInv, KidInv, [Next]_vars
               PROVE  KidInv'
    OBVIOUS
  <1>1. TypeOK /\ pending \in Nat
    BY DEF TypeInv, TypeOK
  <1>2. outcome = "Completed" => pc = "done"
    BY DEF CompletionInv
  <1>3. ASSUME UNCHANGED <<kid, pending, orphans>>,
               outcome' = "Completed" => outcome = "Completed" \/ pending = 0
        PROVE  KidInv'
    BY <1>3 DEF KidInv, Live
  <1>4. ASSUME kid' = Settle, pending' = PendingAfterNotes, orphans' = orphans,
               outcome' = outcome, outcome # "Completed"
        PROVE  KidInv'
    BY <1>1, <1>4, SettleLive, LiveFinite DEF KidInv, PendingAfterNotes
  <1>5. ASSUME Live' \subseteq Live, pc # "done",
               UNCHANGED <<pending, orphans, outcome>>
        PROVE  KidInv'
    BY <1>1, <1>2, <1>5, FewerLive, LiveFinite DEF KidInv
  <1>6. CASE BeginTurn \/ KeepWaiting
    BY <1>2, <1>4, <1>6 DEF BeginTurn, KeepWaiting, endVars
  <1>7. CASE GiveUpWaiting
    <2>1. orphans' = {} => Live' = {}
      BY <1>1, <1>7, SettleLive DEF GiveUpWaiting
    <2>2. orphans' = {} => Cardinality(Live') = 0
      BY <2>1, FS_EmptySet
    <2> QED
      BY <1>2, <1>7, <2>2 DEF GiveUpWaiting, endVars, KidInv
  <1>8. ASSUME NEW new \in SUBSET Kids, NEW asks \in BOOLEAN,
               ToolsDone(new, asks)
        PROVE  KidInv'
    <2>1. Live' = Live \cup new /\ Live \cap new = {}
      BY <1>1, <1>8 DEF TypeOK, ToolsDone, Live, KidState
    <2>2. IsFiniteSet(new) /\ Cardinality(new) \in Nat
      BY TaskRunAssumption, FS_Subset, FS_CardinalityType
    <2>3. Cardinality(Live') = Cardinality(Live) + Cardinality(new)
      <3>1. Cardinality(Live \cup new) = Cardinality(Live)
              + Cardinality(new) - Cardinality(Live \cap new)
        BY ONLY <2>2, LiveFinite, FS_Union
      <3>2. Cardinality(Live \cap new) = 0
        BY <2>1, FS_EmptySet
      <3> QED
        BY <2>1, <2>2, <3>1, <3>2, LiveFinite
    <2>4. /\ pending' = pending + Cardinality(new) /\ orphans' = orphans
          /\ outcome' = outcome /\ outcome # "Completed"
      BY <1>2, <1>8 DEF ToolsDone, endVars
    <2> QED
      BY <1>1, <2>2, <2>3, <2>4, LiveFinite DEF KidInv
  <1>9. ASSUME NEW k \in Kids, DispatchKid(k)
        PROVE  KidInv'
    <2>1. Live' \subseteq Live
      BY <1>1, <1>9 DEF TypeOK, DispatchKid, Live
    <2> QED
      BY <1>5, <1>9, <2>1 DEF DispatchKid, endVars
  <1>10. ASSUME NEW ended \in SUBSET Kids, NEW kept \in SUBSET ended,
                ReportKids(ended, kept)
         PROVE  KidInv'
    <2>1. Live' \subseteq Live
      BY <1>10 DEF ReportKids, Live
    <2> QED
      BY <1>5, <1>10, <2>1 DEF ReportKids, endVars
  <1>11. CASE Wake \/ Ponder \/ CaptureBaseline \/ LoopHead \/ TurnsExceeded
              \/ SteerInject \/ SteerFocus \/ SteerCancel \/ SteerDone
    BY <1>3, <1>11 DEF Wake, Ponder, CaptureBaseline, LoopHead, TurnsExceeded,
       SteerInject, SteerFocus, SteerCancel, SteerDone, Return, kidVars, endVars
  <1>12. CASE ProviderFails \/ ReplyText \/ GateProceeds \/ WaitForKids
              \/ Complete \/ WaitExpires \/ DrainHeartbeats \/ UNCHANGED vars
    BY <1>3, <1>12 DEF ProviderFails, ReplyText, GateProceeds, WaitForKids,
       Complete, WaitExpires, DrainHeartbeats, Return, vars, kidVars, endVars
  <1>13. ASSUME NEW assessed \in BOOLEAN, ReplyWithTools(assessed)
         PROVE  KidInv'
    BY <1>3, <1>13 DEF ReplyWithTools, kidVars, endVars
  <1>14. ASSUME NEW report \in FailingReports,
                GateRetries(report) \/ GateSticks(report)
         PROVE  KidInv'
    BY <1>3, <1>14 DEF GateRetries, GateSticks, Return, kidVars, endVars
  <1>15. ASSUME NEW letter \in Letter, Send(letter)
         PROVE  KidInv'
    BY <1>3, <1>15 DEF Send, kidVars, endVars
  <1> QED
    BY <1>6, <1>7, <1>8, <1>9, <1>10, <1>11, <1>12, <1>13, <1>14, <1>15
    DEF Next, TaskStep, Stopped

\* A Task that never gave up waiting completes after all its sub-tasks, however
\* many it dispatched and in whatever order they failed, ended or were read.
THEOREM CompletionAfterKids == Spec => []CompletedAfterKids
  <1>1. Init => CompletionInv /\ KidInv
    <2> SUFFICES ASSUME Init PROVE CompletionInv /\ KidInv
      OBVIOUS
    <2>1. Live = {}
      BY DEF Init, Live
    <2> QED
      BY <2>1, FS_EmptySet DEF Init, CompletionInv, KidInv
  <1>2. KidInv => CompletedAfterKids
    <2> SUFFICES ASSUME KidInv, outcome = "Completed", orphans = {}
                 PROVE  Live = {}
      BY DEF CompletedAfterKids
    <2>1. Cardinality(Live) = 0
      BY LiveFinite DEF KidInv
    <2> QED
      BY <2>1, LiveFinite, FS_EmptySet
  <1> QED
    BY <1>1, <1>2, InitTypeInv, NextTypeInv, NextCompletion, NextKids, PTL
    DEF Spec

=============================================================================
