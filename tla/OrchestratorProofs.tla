------------------------- MODULE OrchestratorProofs -------------------------
(***************************************************************************)
(* What TLC checks of Orchestrator for two Tasks and one file, for every   *)
(* set of Tasks, of files and every bound: types, disjoint claims, one     *)
(* announcement, and that every Task lives the life of Lifecycle.          *)
(***************************************************************************)
EXTENDS Orchestrator, SequenceTheorems, TLAPS

-----------------------------------------------------------------------------
(* Type correctness.  TypeOK speaks of what is in the channels; that they  *)
(* are sequences is said here.                                             *)

TaskTypes ==
    /\ status \in [Task -> Table!Status]
    /\ stream \in [Task -> Seq(Table!Status)]
    /\ mail \in [Task -> Seq(Letter)]
    /\ returned \subseteq Task
    /\ asks \in 0..MaxAsks

EntryTypes ==
    /\ entry \in [Task -> Entry] /\ claims \in [Task -> SUBSET File]
    /\ registry \in [Task -> Table!Status]

WatchTypes ==
    /\ last \in [Task -> Table!Status]
    /\ asked \subseteq Task /\ due \subseteq Task
    /\ since \in [Task -> {"unset", "young", "old"}]
    /\ asked = {t \in Task : since[t] # "unset"}
    /\ pc \in {"collect", "scan", "inject"}
    /\ announced \in [Task -> 0..2]

UserTypes ==
    /\ marks \in [Task -> SUBSET Mark]
    /\ sends \in 0..MaxSends

TypeInv == TaskTypes /\ EntryTypes /\ WatchTypes /\ UserTypes

LEMMA TypeInvImplies == TypeInv => TypeOK
  <1> SUFFICES ASSUME TypeInv PROVE TypeOK
    OBVIOUS
  <1>1. /\ \A t \in Task : \A n \in 1..Len(stream[t]) : stream[t][n] \in Table!Status
        /\ \A t \in Task : \A n \in 1..Len(mail[t]) : mail[t][n] \in Letter
    BY DEF TypeInv, TaskTypes
  <1> QED
    BY <1>1 DEF TypeInv, TaskTypes, EntryTypes, WatchTypes, UserTypes, TypeOK

LEMMA InitTypeInv == Init => TypeInv
  <1> SUFFICES ASSUME Init PROVE TypeInv
    OBVIOUS
  <1>1. TaskTypes
    BY OrchestratorAssumption DEF Init, TaskTypes, Table!Status
  <1>2. EntryTypes
    BY DEF Init, EntryTypes, Entry, Table!Status
  <1>3. WatchTypes
    BY DEF Init, WatchTypes, Table!Status
  <1>4. UserTypes
    BY OrchestratorAssumption DEF Init, UserTypes
  <1> QED
    BY <1>1, <1>2, <1>3, <1>4 DEF TypeInv

\* What a step leaves alone keeps its type.
LEMMA Untouched ==
    /\ TaskTypes /\ UNCHANGED taskVars => TaskTypes'
    /\ EntryTypes /\ UNCHANGED <<entry, claims, registry>> => EntryTypes'
    /\ WatchTypes /\ UNCHANGED watchVars => WatchTypes'
    /\ UserTypes /\ UNCHANGED userVars => UserTypes'
  BY DEF taskVars, watchVars, userVars, TaskTypes, EntryTypes, WatchTypes, UserTypes

\* A transition keeps the types of a Task's life.
LEMMA MovesType ==
    ASSUME TaskTypes, NEW t \in Task, NEW to \in Table!Status, Moves(t, to)
    PROVE  /\ status' \in [Task -> Table!Status]
           /\ stream' \in [Task -> Seq(Table!Status)]
  BY DEF TaskTypes, Moves

\* So does a message.
LEMMA PostType ==
    ASSUME TaskTypes, NEW t \in Task, NEW letter \in Letter, Post(t, letter)
    PROVE  mail' \in [Task -> Seq(Letter)]
  BY DEF TaskTypes, Post

LEMMA TaskStepType ==
    ASSUME TypeInv, NEW t \in Task, TaskStep(t)
    PROVE  TypeInv'
  <1> USE DEF TypeInv
  <1>1. CASE RestOfTask /\ TaskTypes'
    BY <1>1, Untouched DEF RestOfTask
  <1> SUFFICES RestOfTask /\ TaskTypes'
    BY <1>1
  <1>2. CASE Starts(t)
    <2>1. PICK to \in {"Waking", "Pondering", "OnIt"} : Moves(t, to)
      BY <1>2 DEF Starts
    <2> QED
      BY <1>2, <2>1, MovesType DEF Starts, TaskTypes, Table!Status
  <1>3. CASE Asks(t)
    <2>1. asks' \in 0..MaxAsks
      BY <1>3, OrchestratorAssumption DEF Asks, TaskTypes
    <2> QED
      BY <1>3, <2>1, MovesType DEF Asks, TaskTypes, Table!Status
  <1>4. CASE Reads(t)
    <2>1. mail' \in [Task -> Seq(Letter)]
      BY <1>4 DEF Reads, TaskTypes
    <2>2. /\ status' \in [Task -> Table!Status]
          /\ stream' \in [Task -> Seq(Table!Status)]
      BY <1>4, MovesType DEF Reads, TaskTypes, Table!Status
    <2> QED
      BY <1>4, <2>1, <2>2 DEF Reads, TaskTypes
  <1>5. ASSUME Leaves(t),
               /\ status' \in [Task -> Table!Status]
               /\ stream' \in [Task -> Seq(Table!Status)]
        PROVE  RestOfTask /\ TaskTypes'
    BY <1>5 DEF Leaves, TaskTypes
  <1>6. CASE Cancelled(t)
    BY <1>5, <1>6, MovesType DEF Cancelled, Table!Status
  <1>7. CASE Ends(t)
    BY <1>5, <1>7, MovesType DEF Ends, Table!Status
  <1>8. CASE EndsUntold(t)
    BY <1>5, <1>8 DEF EndsUntold, TaskTypes
  <1> QED
    BY <1>2, <1>3, <1>4, <1>6, <1>7, <1>8 DEF TaskStep

\* The comparison leaves a question pending exactly as long as it is timed.
LEMMA CompareType ==
    ASSUME TypeInv, EntryTypes', Compare(registry'),
           pc' \in {"collect", "scan", "inject"}, UNCHANGED due
    PROVE  WatchTypes'
  <1> DEFINE now == registry'
  <1>1. last' \in [Task -> Table!Status]
    BY DEF TypeInv, EntryTypes, WatchTypes, Compare, Remember
  <1>2. since' \in [Task -> {"unset", "young", "old"}]
    BY DEF TypeInv, WatchTypes, Compare
  <1>3. asked' = {t \in Task : since'[t] # "unset"}
    <2>1. ASSUME NEW t \in Task
          PROVE  t \in asked' <=> since'[t] # "unset"
      BY DEF TypeInv, WatchTypes, Compare, NewQuestion, Differs
    <2> QED
      BY <2>1 DEF TypeInv, WatchTypes, Compare
  <1>4. announced' \in [Task -> 0..2]
    BY DEF TypeInv, WatchTypes, Compare, Announce
  <1> QED
    BY <1>1, <1>2, <1>3, <1>4 DEF TypeInv, WatchTypes

LEMMA CollectType ==
    ASSUME TypeInv, Collect
    PROVE  TypeInv'
  <1>1. PICK n \in Forwarded :
          /\ registry' = [t \in Task |-> Recorded(t, n[t])]
          /\ stream' = [t \in Task |-> SubSeq(stream[t], n[t] + 1, Len(stream[t]))]
    BY DEF Collect
  <1>2. ASSUME NEW t \in Task
        PROVE  /\ n[t] \in Nat /\ n[t] <= Len(stream[t])
               /\ Recorded(t, n[t]) \in Table!Status
               /\ SubSeq(stream[t], n[t] + 1, Len(stream[t])) \in Seq(Table!Status)
    <2>1. n[t] \in Nat /\ n[t] <= Len(stream[t]) /\ stream[t] \in Seq(Table!Status)
      BY <1>2 DEF Forwarded, TypeInv, TaskTypes
    <2>2. SubSeq(stream[t], n[t] + 1, Len(stream[t])) \in Seq(Table!Status)
      BY <2>1
    <2>3. Recorded(t, n[t]) \in Table!Status
      BY <1>2, <2>1 DEF Recorded, TypeInv, EntryTypes
    <2> QED
      BY <2>1, <2>2, <2>3
  <1>3. EntryTypes'
    BY <1>1, <1>2 DEF Collect, TypeInv, EntryTypes
  <1>4. TaskTypes'
    BY <1>1, <1>2 DEF Collect, TypeInv, TaskTypes
  <1>5. WatchTypes'
    BY <1>3, CompareType DEF Collect
  <1> QED
    BY <1>3, <1>4, <1>5, Untouched DEF Collect, TypeInv

LEMMA PollType ==
    ASSUME TypeInv, Poll
    PROVE  TypeInv'
  <1>1. CASE Scan
    BY <1>1, Untouched DEF Scan, TypeInv, WatchTypes, EntryTypes, taskVars
  <1>2. ASSUME NEW t \in Task, TimeOut(t) PROVE TypeInv'
    <2>1. TaskTypes'
      <3>1. mail' \in [Task -> Seq(Letter)]
        BY <1>2, PostType DEF TimeOut, TypeInv, Letter
      <3> QED
        BY <1>2, <3>1 DEF TimeOut, TypeInv, TaskTypes
    <2>2. WatchTypes'
      BY <1>2 DEF TimeOut, TypeInv, WatchTypes
    <2> QED
      BY <1>2, <2>1, <2>2, Untouched DEF TimeOut, TypeInv
  <1>3. CASE Rest
    BY <1>3, Untouched DEF Rest, TypeInv, WatchTypes
  <1> QED
    BY <1>1, <1>2, <1>3, CollectType DEF Poll

LEMMA UserStepType ==
    ASSUME TypeInv, NEW t \in Task, UserStep(t) \/ Expire(t)
    PROVE  TypeInv'
  <1>1. ASSUME NEW files \in SUBSET File, Dispatch(t, files) PROVE TypeInv'
    <2>1. EntryTypes'
      BY <1>1 DEF Dispatch, TypeInv, EntryTypes, Entry
    <2> QED
      BY <1>1, <2>1, Untouched DEF Dispatch, TypeInv
  <1>2. ASSUME Command(t), mail' \in [Task -> Seq(Letter)],
               marks' \in [Task -> SUBSET Mark]
        PROVE  TypeInv'
    <2>1. TaskTypes'
      BY <1>2 DEF Command, TypeInv, TaskTypes
    <2>2. UserTypes'
      BY <1>2, OrchestratorAssumption DEF Command, TypeInv, UserTypes
    <2> QED
      BY <1>2, <2>1, <2>2, Untouched DEF Command, TypeInv
  <1>3. ASSUME NEW letter \in Letter, Steer(t, letter) PROVE TypeInv'
    BY <1>2, <1>3, PostType DEF Steer, TypeInv, UserTypes
  <1>4. CASE Answer(t)
    BY <1>3, <1>4 DEF Answer, Letter
  <1>5. CASE Accept(t)
    BY <1>2, <1>5 DEF Accept, TypeInv, UserTypes, TaskTypes, Mark
  <1>6. ASSUME NEW feedback \in BOOLEAN, Reject(t, feedback) PROVE TypeInv'
    <2>1. mail' \in [Task -> Seq(Letter)]
      BY <1>6, PostType DEF Reject, TypeInv, TaskTypes, Letter
    <2>2. marks' \in [Task -> SUBSET Mark]
      BY <1>6 DEF Reject, TypeInv, UserTypes, Mark
    <2> QED
      BY <1>2, <1>6, <2>1, <2>2 DEF Reject
  <1>7. CASE Expire(t)
    <2>1. WatchTypes'
      BY <1>7 DEF Expire, TypeInv, WatchTypes
    <2> QED
      BY <1>7, <2>1, Untouched DEF Expire, TypeInv
  <1> QED
    BY <1>1, <1>3, <1>4, <1>5, <1>6, <1>7 DEF UserStep

LEMMA NextTypeInv == TypeInv /\ [Next]_vars => TypeInv'
  <1>1. ASSUME TypeInv, UNCHANGED vars PROVE TypeInv'
    BY <1>1, Untouched DEF vars, TypeInv, taskVars, watchVars, userVars
  <1> QED
    BY <1>1, TaskStepType, PollType, UserStepType DEF Next

LEMMA AlwaysTypeInv == Spec => []TypeInv
  BY InitTypeInv, NextTypeInv, PTL DEF Spec

\* The state is well-formed, and a question is timed as long as it is pending,
\* whatever the number of Tasks.
THEOREM TypeCorrect == Spec => []TypeOK
  BY AlwaysTypeInv, TypeInvImplies, PTL

-----------------------------------------------------------------------------
(* The life of one Task.  Every step of the system either leaves a Task's  *)
(* status, its heartbeats and its entry alone, or is a transition of it    *)
(* while run() has not returned, or forwards some of its heartbeats.       *)

Still(t) == UNCHANGED <<status[t], stream[t], registry[t]>>

Turn(t) ==
    \E to \in Table!Status :
        /\ t \notin returned
        /\ Table!IsValidTransition(status[t], to)
        /\ Table!IsActive(to) \/ t \in returned'
        /\ status'[t] = to /\ stream'[t] = Append(stream[t], to)
        /\ registry'[t] = registry[t]

Forward(t) ==
    \E n \in 0..Len(stream[t]) :
        /\ registry'[t] = Recorded(t, n)
        /\ stream'[t] = SubSeq(stream[t], n + 1, Len(stream[t]))
        /\ status'[t] = status[t] /\ returned' = returned

\* A transition is a step of one Task; the others stand still.
LEMMA MovesLife ==
    ASSUME TypeInv, NEW u \in Task, NEW to \in Table!Status, Moves(u, to),
           u \notin returned, Table!IsActive(to) \/ u \in returned',
           UNCHANGED registry, NEW t \in Task
    PROVE  Still(t) \/ Turn(t)
  BY DEF TypeInv, TaskTypes, EntryTypes, Moves, Still, Turn

LEMMA TaskStepLife ==
    ASSUME TypeInv, NEW u \in Task, TaskStep(u), NEW t \in Task
    PROVE  (Still(t) \/ Turn(t)) /\ returned \subseteq returned'
  <1>1. UNCHANGED registry
    BY DEF TaskStep, Starts, Asks, Reads, Cancelled, Ends, EndsUntold, Leaves, RestOfTask
  <1>2. CASE Starts(u)
    <2>1. PICK to \in {"Waking", "Pondering", "OnIt"} : Moves(u, to)
      BY <1>2 DEF Starts
    <2>2. to \in Table!Status /\ Table!IsActive(to)
      BY DEF Table!Status, Table!IsActive
    <2> QED
      BY <1>1, <1>2, <2>1, <2>2, MovesLife DEF Starts, Runs
  <1>3. CASE Asks(u)
    <2>1. "Waiting" \in Table!Status /\ Table!IsActive("Waiting")
      BY DEF Table!Status, Table!IsActive
    <2> QED
      BY <1>1, <1>3, <2>1, MovesLife DEF Asks, Runs
  <1>4. CASE Reads(u)
    <2>1. "OnIt" \in Table!Status /\ Table!IsActive("OnIt")
      BY DEF Table!Status, Table!IsActive
    <2>2. CASE Moves(u, "OnIt")
      BY <1>1, <1>4, <2>1, <2>2, MovesLife DEF Reads, Runs
    <2>3. CASE UNCHANGED <<status, stream>>
      BY <1>1, <1>4, <2>3 DEF Reads, Still
    <2> QED
      BY <1>4, <2>2, <2>3 DEF Reads
  <1>5. ASSUME Runs(u), Leaves(u), NEW to \in {"Axed", "Delivered", "Stuck"}, Moves(u, to)
        PROVE  (Still(t) \/ Turn(t)) /\ returned \subseteq returned'
    <2>1. to \in Table!Status
      BY DEF Table!Status
    <2> QED
      BY <1>1, <1>5, <2>1, MovesLife DEF Leaves, Runs
  <1>6. CASE Cancelled(u)
    BY <1>5, <1>6 DEF Cancelled
  <1>7. CASE Ends(u)
    BY <1>5, <1>7 DEF Ends
  <1>8. CASE EndsUntold(u)
    BY <1>1, <1>8 DEF EndsUntold, Leaves, Still
  <1> QED
    BY <1>2, <1>3, <1>4, <1>6, <1>7, <1>8 DEF TaskStep

LEMMA CollectLife ==
    ASSUME TypeInv, Collect, NEW t \in Task
    PROVE  Forward(t)
  <1>1. PICK n \in Forwarded :
          /\ registry' = [u \in Task |-> Recorded(u, n[u])]
          /\ stream' = [u \in Task |-> SubSeq(stream[u], n[u] + 1, Len(stream[u]))]
    BY DEF Collect
  <1>2. n[t] \in 0..Len(stream[t])
    BY DEF Forwarded, TypeInv, TaskTypes
  <1> QED
    BY <1>1, <1>2 DEF Collect, Forward

\* The other steps of the poll loop and those of the user touch no life.
LEMMA OtherLife ==
    ASSUME TypeInv, NEW t \in Task,
           \/ Scan \/ (\E u \in Task : TimeOut(u)) \/ Rest
           \/ \E u \in Task : UserStep(u) \/ Expire(u)
           \/ UNCHANGED vars
    PROVE  Still(t) /\ returned' = returned
  BY DEF Scan, TimeOut, Rest, UserStep, Dispatch, Steer, Answer, Accept, Reject,
         Command, Expire, vars, taskVars, Still

LEMMA NextLife ==
    ASSUME TypeInv, [Next]_vars, NEW t \in Task
    PROVE  /\ Still(t) \/ Turn(t) \/ Forward(t)
           /\ returned \subseteq returned'
  <1>1. CASE \E u \in Task : TaskStep(u)
    BY <1>1, TaskStepLife
  <1>2. CASE Collect
    BY <1>2, CollectLife DEF Collect
  <1>3. CASE Scan \/ (\E u \in Task : TimeOut(u)) \/ Rest
    BY <1>3, OtherLife
  <1>4. CASE (\E u \in Task : UserStep(u) \/ Expire(u)) \/ UNCHANGED vars
    BY <1>4, OtherLife
  <1> QED
    BY <1>1, <1>2, <1>3, <1>4 DEF Next, Poll
-----------------------------------------------------------------------------
(* Disjoint claims.  The registry lags, but never so that a Task that runs *)
(* looks as if it were over: all it still has to hear of such a Task keeps *)
(* it active.                                                              *)

Lagging(t) ==
    t \notin returned =>
        /\ Table!IsActive(status[t]) /\ Table!IsActive(registry[t])
        /\ \A n \in 1..Len(stream[t]) : Table!IsActive(stream[t][n])

Lag == \A t \in Task : Lagging(t)

LEMMA InitLag == Init => Lag
  BY DEF Init, Lag, Lagging, Table!IsActive

\* The statuses after the first n, and with one appended.
LEMMA TailContents ==
    ASSUME NEW S, NEW s \in Seq(S), NEW n \in 0..Len(s)
    PROVE  /\ Len(SubSeq(s, n + 1, Len(s))) = Len(s) - n
           /\ \A k \in 1..(Len(s) - n) : SubSeq(s, n + 1, Len(s))[k] = s[n + k]
  OBVIOUS

LEMMA NextLag == TypeInv /\ Lag /\ [Next]_vars => Lag'
  <1> SUFFICES ASSUME TypeInv, Lag, [Next]_vars, NEW t \in Task
               PROVE  Lagging(t)'
    BY DEF Lag
  <1>1. stream[t] \in Seq(Table!Status)
    BY DEF TypeInv, TaskTypes
  <1>2. returned \subseteq returned' /\ Lagging(t)
    BY NextLife DEF Lag
  <1>3. CASE Still(t)
    BY <1>2, <1>3 DEF Still, Lagging
  <1>4. CASE Turn(t)
    BY <1>1, <1>2, <1>4 DEF Turn, Lagging
  <1>5. CASE Forward(t)
    <2>1. PICK n \in 0..Len(stream[t]) :
            /\ registry'[t] = Recorded(t, n)
            /\ stream'[t] = SubSeq(stream[t], n + 1, Len(stream[t]))
            /\ status'[t] = status[t] /\ returned' = returned
      BY <1>5 DEF Forward
    <2> SUFFICES ASSUME t \notin returned
                 PROVE  /\ Table!IsActive(status'[t]) /\ Table!IsActive(registry'[t])
                        /\ \A k \in 1..Len(stream'[t]) : Table!IsActive(stream'[t][k])
      BY <2>1 DEF Lagging
    <2>2. Table!IsActive(registry'[t])
      BY <1>1, <1>2, <2>1 DEF Lagging, Recorded
    <2>3. ASSUME NEW k \in 1..Len(stream'[t])
          PROVE  Table!IsActive(stream'[t][k])
      <3>1. k \in 1..(Len(stream[t]) - n) /\ stream'[t][k] = stream[t][n + k]
        BY <1>1, <2>1, <2>3, TailContents
      <3>2. n + k \in 1..Len(stream[t])
        BY <1>1, <3>1
      <3> QED
        BY <1>2, <3>1, <3>2 DEF Lagging
    <2> QED
      BY <1>2, <2>1, <2>2, <2>3 DEF Lagging
  <1> QED
    BY <1>3, <1>4, <1>5, NextLife

LEMMA InitNoSharedFiles == Init => NoSharedFiles
  BY DEF Init, NoSharedFiles, Runs

\* Only a dispatch adds a claim, and it starts the Task only if no active one,
\* and so none that runs, claims any of the files.
LEMMA NextNoSharedFiles ==
    TypeInv /\ Lag /\ NoSharedFiles /\ [Next]_vars => NoSharedFiles'
  <1> SUFFICES ASSUME TypeInv, Lag, NoSharedFiles, [Next]_vars
               PROVE  NoSharedFiles'
    OBVIOUS
  <1>1. ASSUME UNCHANGED <<entry, claims>>, returned \subseteq returned'
        PROVE  NoSharedFiles'
    BY <1>1 DEF NoSharedFiles, Runs
  <1>2. ASSUME NEW t \in Task, NEW files \in SUBSET File, Dispatch(t, files)
        PROVE  NoSharedFiles'
    <2>1. ASSUME NEW u \in Task, u # t, ~HasConflict(files), Runs(u)
          PROVE  claims[u] \cap files = {}
      BY <2>1 DEF Lag, Lagging, Runs, HasConflict, Active
    <2>2. ASSUME NEW u \in Task, u # t
          PROVE  (Runs(u)' <=> Runs(u)) /\ claims'[u] = claims[u]
      BY <1>2, <2>2 DEF Dispatch, Runs, taskVars, TypeInv, EntryTypes
    <2>3. Runs(t)' => ~HasConflict(files)
      BY <1>2 DEF Dispatch, Runs, taskVars, TypeInv, EntryTypes
    <2>4. claims'[t] = files
      BY <1>2 DEF Dispatch, TypeInv, EntryTypes
    <2> QED
      BY <2>1, <2>2, <2>3, <2>4 DEF NoSharedFiles
  <1>3. ASSUME ~\E t \in Task : \E files \in SUBSET File : Dispatch(t, files)
        PROVE  UNCHANGED <<entry, claims>>
    BY <1>3 DEF Next, Poll, Collect, Scan, TimeOut, Rest, TaskStep, Starts, Asks, Reads,
       Cancelled, Ends, EndsUntold, Leaves, RestOfTask, UserStep, Steer, Answer,
       Accept, Reject, Command, Expire, vars
  <1>4. returned \subseteq returned'
    <2>1. CASE Task = {}
      BY <2>1 DEF TypeInv, TaskTypes
    <2> QED
      BY <2>1, NextLife
  <1> QED
    BY <1>1, <1>2, <1>3, <1>4

\* Two Tasks that run never claim the same file, although the conflict is
\* predicted from a registry that lags behind the Tasks (dispatch_task).
THEOREM DisjointClaims == Spec => []NoSharedFiles
  <1>1. Init => Lag /\ NoSharedFiles
    BY InitLag, InitNoSharedFiles
  <1>2. TypeInv /\ Lag /\ NoSharedFiles /\ [Next]_vars => Lag' /\ NoSharedFiles'
    BY NextLag, NextNoSharedFiles
  <1> QED
    BY <1>1, <1>2, AlwaysTypeInv, PTL DEF Spec
-----------------------------------------------------------------------------
(* One announcement.  "Delivered" is the last heartbeat of a Task; once it *)
(* is recorded nothing follows it, so the poll loop never again sees the   *)
(* status differ from the last one it knows.                               *)

Final(t) ==
    /\ \A n \in 1..Len(stream[t]) :
          stream[t][n] = "Delivered" => n = Len(stream[t]) /\ status[t] = "Delivered"
    /\ registry[t] = "Delivered" => stream[t] = <<>> /\ status[t] = "Delivered"

Told(t) ==
    /\ last[t] = "Delivered" => registry[t] = "Delivered"
    /\ announced[t] > 0 => announced[t] = 1 /\ last[t] = "Delivered"

Once == \A t \in Task : Final(t) /\ Told(t)

LEMMA InitOnce == Init => Once
  <1> SUFFICES ASSUME Init, NEW t \in Task PROVE Final(t) /\ Told(t)
    BY DEF Once
  <1>1. /\ stream[t] = <<>> /\ registry[t] = "Sleeping" /\ last[t] = "Sleeping"
        /\ announced[t] = 0
    BY DEF Init
  <1>2. 1..Len(stream[t]) = {}
    BY <1>1
  <1> QED
    BY <1>1, <1>2 DEF Final, Told

LEMMA NextFinal ==
    ASSUME TypeInv, Lag, Once, [Next]_vars, NEW t \in Task
    PROVE  Final(t)'
  <1>1. stream[t] \in Seq(Table!Status) /\ Lagging(t) /\ Final(t)
    BY DEF TypeInv, TaskTypes, Lag, Once
  <1>2. CASE Still(t)
    BY <1>1, <1>2 DEF Still, Final
  <1>3. CASE Turn(t)
    <2>1. PICK to \in Table!Status :
            /\ t \notin returned
            /\ status'[t] = to /\ stream'[t] = Append(stream[t], to)
            /\ registry'[t] = registry[t]
      BY <1>3 DEF Turn
    <2>2. /\ registry[t] # "Delivered"
          /\ \A n \in 1..Len(stream[t]) : stream[t][n] # "Delivered"
      BY <1>1, <2>1 DEF Lagging, Table!IsActive
    <2>3. /\ Len(stream'[t]) = Len(stream[t]) + 1 /\ stream'[t][Len(stream[t]) + 1] = to
          /\ \A n \in 1..Len(stream[t]) : stream'[t][n] = stream[t][n]
      BY <1>1, <2>1
    <2> QED
      BY <1>1, <2>1, <2>2, <2>3 DEF Final
  <1>4. CASE Forward(t)
    <2>1. PICK n \in 0..Len(stream[t]) :
            /\ registry'[t] = Recorded(t, n)
            /\ stream'[t] = SubSeq(stream[t], n + 1, Len(stream[t]))
            /\ status'[t] = status[t]
      BY <1>4 DEF Forward
    <2>2. /\ Len(stream'[t]) = Len(stream[t]) - n
          /\ \A k \in 1..(Len(stream[t]) - n) : stream'[t][k] = stream[t][n + k]
      BY <1>1, <2>1, TailContents
    <2>3. registry'[t] = "Delivered" => Len(stream'[t]) = 0 /\ status'[t] = "Delivered"
      <3>1. CASE n = 0
        BY <1>1, <2>1, <2>2, <3>1 DEF Recorded, Final
      <3>2. CASE n # 0
        <4>1. n \in 1..Len(stream[t]) /\ registry'[t] = stream[t][n]
          BY <2>1, <3>2 DEF Recorded
        <4>2. registry'[t] = "Delivered" => n = Len(stream[t]) /\ status[t] = "Delivered"
          BY <1>1, <4>1 DEF Final
        <4> QED
          BY <1>1, <2>1, <2>2, <4>2
      <3> QED
        BY <3>1, <3>2
    <2>4. stream'[t] \in Seq(Table!Status)
      BY <1>1, <2>1
    <2>5. registry'[t] = "Delivered" => stream'[t] = <<>> /\ status'[t] = "Delivered"
      BY <2>3, <2>4, EmptySeq
    <2>6. ASSUME NEW k \in 1..Len(stream'[t]), stream'[t][k] = "Delivered"
          PROVE  k = Len(stream'[t]) /\ status'[t] = "Delivered"
      BY <1>1, <2>1, <2>2, <2>6 DEF Final
    <2> QED
      BY <2>5, <2>6 DEF Final
  <1> QED
    BY <1>2, <1>3, <1>4, NextLife

\* A delivery that was recorded stays.
LEMMA DeliveredStays ==
    ASSUME TypeInv, Lag, Once, [Next]_vars, NEW t \in Task, registry[t] = "Delivered"
    PROVE  registry'[t] = "Delivered"
  <1>1. t \in returned /\ stream[t] = <<>>
    BY DEF Lag, Lagging, Once, Final, Table!IsActive
  <1>2. CASE Forward(t)
    BY <1>1, <1>2 DEF Forward, Recorded
  <1> QED
    BY <1>1, <1>2, NextLife DEF Still, Turn

LEMMA NextTold ==
    ASSUME TypeInv, Lag, Once, [Next]_vars, NEW t \in Task
    PROVE  Told(t)'
  <1>1. last[t] = "Delivered" => registry'[t] = "Delivered"
    BY DeliveredStays DEF Once, Told
  <1>2. CASE Collect
    <2>1. last'[t] = IF Differs(t, registry') THEN registry'[t] ELSE last[t]
      BY <1>2 DEF Collect, Compare, Remember
    <2>2. announced'[t] = Announce(t, registry')
      BY <1>2 DEF Collect, Compare
    <2>3. announced[t] \in 0..2
      BY DEF TypeInv, WatchTypes
    <2>4. Differs(t, registry') => registry'[t] # last[t]
      BY DEF Differs
    <2> QED
      BY <1>1, <2>1, <2>2, <2>3, <2>4 DEF Announce, Once, Told
  <1>3. CASE ~Collect
    <2>1. UNCHANGED <<last, announced>>
      BY <1>3 DEF Next, Poll, Scan, TimeOut, Rest, TaskStep, Starts, Asks, Reads,
         Cancelled, Ends, EndsUntold, Leaves, RestOfTask, UserStep, Dispatch, Steer,
         Answer, Accept, Reject, Command, Expire, vars, watchVars
    <2> QED
      BY <1>1, <2>1 DEF Once, Told
  <1> QED
    BY <1>2, <1>3

\* The user is told of a completion once, of a Task that is delivered, however
\* its heartbeats and the ticks fall (collect_changes).
THEOREM OneAnnouncement == Spec => []CompletedOnce
  <1>1. Init => Lag /\ Once
    BY InitLag, InitOnce
  <1>2. TypeInv /\ Lag /\ Once /\ [Next]_vars => Lag' /\ Once'
    <2> SUFFICES ASSUME TypeInv, Lag, Once, [Next]_vars PROVE Lag' /\ Once'
      OBVIOUS
    <2>1. \A t \in Task : Final(t)' /\ Told(t)'
      BY NextFinal, NextTold
    <2> QED
      BY <2>1, NextLag DEF Once
  <1>3. Once => CompletedOnce
    BY DEF Once, Final, Told, CompletedOnce
  <1> QED
    BY <1>1, <1>2, <1>3, AlwaysTypeInv, PTL DEF Spec

-----------------------------------------------------------------------------
(* Refinement *)

LEMMA InitLife == ASSUME Init, NEW t \in Task PROVE Life(t)!LInit
  BY DEF Init, Life!LInit

LEMMA NextLives ==
    ASSUME TypeInv, [Next]_vars, NEW t \in Task
    PROVE  Life(t)!LNext \/ Still(t)
  <1>1. CASE Still(t)
    BY <1>1
  <1>2. CASE Turn(t)
    BY <1>2 DEF Turn, Life!LNext, Life!Change, Life!TryTransition, Life!Status,
       Life!IsValidTransition, Table!Status, Table!IsValidTransition
  <1>3. CASE Forward(t)
    <2>1. PICK n \in 0..Len(stream[t]) :
            /\ registry'[t] = Recorded(t, n)
            /\ stream'[t] = SubSeq(stream[t], n + 1, Len(stream[t]))
            /\ status'[t] = status[t]
      BY <1>3 DEF Forward
    <2>2. stream[t] \in Seq(Table!Status)
      BY DEF TypeInv, TaskTypes
    <2>3. CASE n = 0
      BY <2>1, <2>2, <2>3 DEF Recorded, Still
    <2>4. CASE n # 0
      <3>1. n \in 1..Len(stream[t])
        BY <2>1, <2>4
      <3> QED
        BY <2>1, <2>4, <3>1 DEF Recorded, Life!LNext, Life!Drain
    <2> QED
      BY <2>3, <2>4
  <1> QED
    BY <1>1, <1>2, <1>3, NextLife

\* Each Task, its heartbeats and its entry live the life of Lifecycle, whatever
\* the other Tasks, the poll loop and the user do.
THEOREM EveryTaskLives == Spec => TaskLives
  <1>1. Init => \A t \in Task : Life(t)!LInit
    BY InitLife
  <1>2. TypeInv /\ [Next]_vars =>
          [\A t \in Task : Life(t)!LNext
               \/ UNCHANGED <<status[t], stream[t], registry[t]>>]_lifeVars
    BY NextLives DEF Still
  <1> QED
    BY <1>1, <1>2, AlwaysTypeInv, PTL DEF Spec, TaskLives
=============================================================================
