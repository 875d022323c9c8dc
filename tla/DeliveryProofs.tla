--------------------------- MODULE DeliveryProofs ---------------------------
(***************************************************************************)
(* What TLC checks of Delivery for two Tasks and two files, for every set  *)
(* of Tasks, of files and all thresholds: types, no work is cleaned up     *)
(* before its time, successors wait, source code is audited, and no merge  *)
(* loses what the user wrote or leaves out what the Task did.              *)
(***************************************************************************)
EXTENDS Delivery, TLAPS

-----------------------------------------------------------------------------
(* Type correctness *)

ProjectTypes ==
    /\ isGit \in BOOLEAN
    /\ head \in Files /\ tree \in Files
    /\ merging \in Task \cup {"none"} /\ inHead \subseteq Task

SpaceTypes ==
    /\ kind \in [Task -> Kind]
    /\ work \in [Task -> Files] /\ base \in [Task -> Files]
    /\ origin \in [Task -> Files]
    /\ disk \subseteq Task /\ leftover \subseteq Task

StageTypes ==
    /\ stage \in [Task -> Stage]
    /\ verdict \in [Task -> Verdict \cup {"none"}]

AfterTypes ==
    /\ kept \subseteq Task /\ scheduled \subseteq kept
    /\ edges \subseteq Task \X Task /\ ready \subseteq Task

LEMMA TypeParts ==
    TypeOK <=> /\ ProjectTypes /\ SpaceTypes /\ StageTypes /\ AfterTypes
               /\ edits \in 0..MaxEdits
  BY Zenon DEF TypeOK, ProjectTypes, SpaceTypes, StageTypes, AfterTypes

\* What a step leaves alone keeps its type.
LEMMA Untouched ==
    /\ ProjectTypes /\ UNCHANGED projectVars => ProjectTypes'
    /\ SpaceTypes /\ UNCHANGED spaceVars => SpaceTypes'
    /\ AfterTypes /\ UNCHANGED afterVars => AfterTypes'
  BY DEF ProjectTypes, SpaceTypes, AfterTypes, projectVars, spaceVars, afterVars

LEMMA InitTypeOK == Init => TypeOK
  <1> SUFFICES ASSUME Init PROVE TypeOK
    OBVIOUS
  <1>1. /\ tree \in Files /\ Nothing \in Files
    BY DEF Init, Files, Content, Nothing
  <1>2. head \in Files
    BY <1>1 DEF Init
  <1>3. isGit \in BOOLEAN
    BY DEF Init
  <1>4. ProjectTypes
    BY <1>1, <1>2, <1>3 DEF Init, ProjectTypes
  <1>5. SpaceTypes
    BY <1>1 DEF Init, SpaceTypes, Kind
  <1>6. StageTypes /\ AfterTypes
    BY DEF Init, StageTypes, AfterTypes, Stage
  <1>7. edits \in 0..MaxEdits
    BY DeliveryAssumption DEF Init
  <1> QED
    BY <1>4, <1>5, <1>6, <1>7, TypeParts

\* What a Task is given to begin with, whatever the kind of its workspace.
LEMMA CreatedType ==
    ASSUME TypeOK, NEW t \in Task, NEW k \in Kind, NEW files \in Files,
           Created(t, k, files), UNCHANGED leftover,
           disk' \subseteq disk \cup {t},
           \E given \in {Nothing, files} : work' = [work EXCEPT ![t] = given]
    PROVE  TypeOK'
  <1> USE DEF TypeOK
  <1>1. Nothing \in Files
    BY DEF Nothing, Files, Content
  <1>2. PICK given \in {Nothing, files} : work' = [work EXCEPT ![t] = given]
    OBVIOUS
  <1>3. given \in Files
    BY <1>1
  <1>4. SpaceTypes'
    BY <1>2, <1>3 DEF Created, SpaceTypes
  <1>5. StageTypes'
    BY DEF Created, StageTypes, Stage
  <1>6. ProjectTypes' /\ AfterTypes' /\ (edits \in 0..MaxEdits)'
    BY TypeParts, Untouched DEF Created
  <1> QED
    BY <1>4, <1>5, <1>6 DEF ProjectTypes, SpaceTypes, StageTypes, AfterTypes

LEMMA TaskStepType ==
    ASSUME TypeOK, NEW t \in Task, TaskStep(t)
    PROVE  TypeOK'
  <1> USE DEF TypeOK
  <1>1. CASE CreateGit(t)
    <2>1. head \in Files
      OBVIOUS
    <2> QED
      BY <1>1, <2>1, CreatedType DEF CreateGit, AddWorktree, Kind
  <1>2. CASE CreateMirror(t)
    <2>1. tree \in Files
      OBVIOUS
    <2> QED
      BY <1>2, <2>1, CreatedType DEF CreateMirror, AddWorktree, Imported, Kind
  <1>3. CASE CreateCopy(t)
    <2>1. tree \in Files
      OBVIOUS
    <2> QED
      BY <1>3, <2>1, CreatedType DEF CreateCopy, Kind
  <1>4. ASSUME NEW files \in [File -> {"absent", "old", "user"} \cup Task],
               Deliver(t, files)
        PROVE  TypeOK'
    <2>1. files \in Files
      BY DEF Files, Content
    <2>2. SpaceTypes' /\ StageTypes'
      BY <1>4, <2>1 DEF Deliver, SpaceTypes, StageTypes, Stage
    <2>3. ProjectTypes' /\ AfterTypes' /\ (edits \in 0..MaxEdits)'
      BY <1>4, TypeParts, Untouched DEF Deliver
    <2> QED
      BY <2>2, <2>3 DEF ProjectTypes, SpaceTypes, StageTypes, AfterTypes
  <1>5. CASE Drop(t)
    <2>1. Nothing \in Files
      BY DEF Nothing, Files, Content
    <2>2. SpaceTypes'
      BY <1>5, <2>1 DEF Drop, Removes, SpaceTypes, Kind
    <2>3. StageTypes'
      BY <1>5 DEF Drop, StageTypes, Stage, Outcome
    <2>4. ProjectTypes' /\ AfterTypes' /\ (edits \in 0..MaxEdits)'
      BY <1>5, TypeParts, Untouched DEF Drop
    <2> QED
      BY <2>2, <2>3, <2>4 DEF ProjectTypes, SpaceTypes, StageTypes, AfterTypes
  <1>6. CASE Freeze(t)
    <2>1. Baseline(t) \in Files
      BY DEF Baseline
    <2>2. SpaceTypes'
      BY <1>6, <2>1 DEF Freeze, SpaceTypes
    <2>3. StageTypes'
      BY <1>6 DEF Freeze, Moves, StageTypes, Stage, InRun
    <2>4. ProjectTypes' /\ AfterTypes' /\ (edits \in 0..MaxEdits)'
      BY <1>6, TypeParts, Untouched DEF Freeze, Moves
    <2> QED
      BY <2>2, <2>3, <2>4 DEF ProjectTypes, SpaceTypes, StageTypes, AfterTypes
  <1>7. CASE FreezeFails(t)
    <2>1. StageTypes'
      BY <1>7 DEF FreezeFails, Moves, StageTypes, Stage, Outcome, Retriable
    <2>2. ProjectTypes' /\ SpaceTypes' /\ AfterTypes' /\ (edits \in 0..MaxEdits)'
      BY <1>7, TypeParts, Untouched DEF FreezeFails, Moves
    <2> QED
      BY <2>1, <2>2 DEF ProjectTypes, SpaceTypes, StageTypes, AfterTypes
  <1>8. CASE RunDue(t)
    BY <1>8 DEF RunDue, Removes, projectVars
  <1> QED
    BY <1>1, <1>2, <1>3, <1>4, <1>5, <1>6, <1>7, <1>8 DEF TaskStep

\* A step of the pipeline moves the Task and leaves its workspace alone.
LEMMA MovesType ==
    ASSUME TypeOK, NEW t \in Task, NEW to \in Stage, Moves(t, to),
           UNCHANGED spaceVars, ProjectTypes', AfterTypes',
           verdict' \in [Task -> Verdict \cup {"none"}]
    PROVE  TypeOK'
  <1>1. StageTypes'
    BY DEF TypeOK, Moves, StageTypes
  <1>2. SpaceTypes' /\ (edits \in 0..MaxEdits)'
    BY TypeParts, Untouched DEF Moves
  <1> QED
    BY <1>1, <1>2 DEF TypeOK, ProjectTypes, SpaceTypes, StageTypes, AfterTypes

\* What a merge writes are contents.
LEMMA MergeType ==
    ASSUME TypeOK, NEW t \in Task
    PROVE  /\ Result(t) \in Files /\ MergedTree(t) \in Files
           /\ \A files : Applied(t, files) \in Files
  BY DEF TypeOK, Files, Result, MergedTree, Applied

LEMMA PipelineStepType ==
    ASSUME TypeOK, NEW t \in Task, PipelineStep(t)
    PROVE  TypeOK'
  <1> USE DEF Stage, InRun, Outcome, Retriable
  <1>0. /\ verdict \in [Task -> Verdict \cup {"none"}]
        /\ ProjectTypes /\ AfterTypes
    BY TypeParts DEF TypeOK
  <1>1. CASE Review(t)
    <2>1. PICK to \in {"merge", "audit"} : Moves(t, to)
      BY <1>1 DEF Review
    <2>2. verdict' \in [Task -> Verdict \cup {"none"}]
      BY <1>0, <1>1 DEF Review
    <2> QED
      BY <1>0, <1>1, <2>1, <2>2, Untouched, MovesType DEF Review
  <1>2. ASSUME NEW v \in Verdict, Audit(t, v)
        PROVE  TypeOK'
    <2>1. AfterReview(t, v) \in Stage /\ Moves(t, AfterReview(t, v))
      BY <1>2 DEF Audit, AfterReview
    <2>2. verdict' \in [Task -> Verdict \cup {"none"}]
      BY <1>0, <1>2 DEF Audit
    <2> QED
      BY <1>0, <1>2, <2>1, <2>2, Untouched, MovesType DEF Audit
  <1>3. ASSUME GitMerges(t), NEW to \in {"archive", "Rejected", "Failed"},
               Moves(t, to), (head \in Files)', (tree \in Files)',
               (merging \in Task \cup {"none"})', (inHead \subseteq Task)'
        PROVE  TypeOK'
    <2>1. ProjectTypes'
      BY <1>0, <1>3 DEF GitMerges, ProjectTypes
    <2>2. verdict' \in [Task -> Verdict \cup {"none"}]
      BY <1>0, <1>3 DEF GitMerges
    <2>3. AfterTypes' /\ UNCHANGED spaceVars
      BY <1>0, <1>3, Untouched DEF GitMerges
    <2> QED
      BY <1>3, <2>1, <2>2, <2>3, MovesType
  <1>4. CASE GitMergeClean(t)
    BY <1>0, <1>3, <1>4, MergeType DEF GitMergeClean, ProjectTypes
  <1>5. CASE GitMergeUncommitted(t)
    BY <1>0, <1>3, <1>5, MergeType DEF GitMergeUncommitted, ProjectTypes
  <1>6. CASE GitMergeConflict(t)
    BY <1>0, <1>3, <1>6 DEF GitMergeConflict, ProjectTypes
  <1>7. CASE GitMergeRefused(t)
    BY <1>0, <1>3, <1>7 DEF GitMergeRefused, ProjectTypes
  <1>8. ASSUME CopyMerges(t), NEW to \in {"archive", "Rejected", "Failed"},
               Moves(t, to), NEW files, tree' = Applied(t, files)
        PROVE  TypeOK'
    <2>1. ProjectTypes'
      BY <1>0, <1>8, MergeType DEF CopyMerges, ProjectTypes
    <2>2. verdict' \in [Task -> Verdict \cup {"none"}]
      BY <1>0, <1>8 DEF CopyMerges
    <2>3. AfterTypes' /\ UNCHANGED spaceVars
      BY <1>0, <1>8, Untouched DEF CopyMerges
    <2> QED
      BY <1>8, <2>1, <2>2, <2>3, MovesType
  <1>9. CASE CopyMerge(t)
    <2>1. PICK to \in {"archive", "Rejected"} : Moves(t, to)
      BY <1>9 DEF CopyMerge
    <2> QED
      BY <1>8, <1>9, <2>1 DEF CopyMerge
  <1>10. ASSUME NEW done \in SUBSET File, CopyMergeBreaks(t, done)
         PROVE  TypeOK'
    BY <1>8, <1>10 DEF CopyMergeBreaks
  <1>11. CASE Archive(t)
    <2>1. AfterTypes'
      BY <1>0, <1>11 DEF Archive, AfterTypes
    <2>2. verdict' \in [Task -> Verdict \cup {"none"}]
      BY <1>0, <1>11 DEF Archive
    <2> QED
      BY <1>0, <1>11, <2>1, <2>2, Untouched, MovesType DEF Archive
  <1>12. CASE ArchiveFails(t)
    <2>1. verdict' \in [Task -> Verdict \cup {"none"}]
      BY <1>0, <1>12 DEF ArchiveFails
    <2> QED
      BY <1>0, <1>12, <2>1, Untouched, MovesType DEF ArchiveFails
  <1> QED
    BY <1>1, <1>2, <1>4, <1>5, <1>6, <1>7, <1>9, <1>10, <1>11, <1>12
    DEF PipelineStep

LEMMA OtherStepType == TypeOK /\ OtherStep => TypeOK'
  <1> SUFFICES ASSUME TypeOK, OtherStep PROVE TypeOK'
    OBVIOUS
  <1> USE DEF TypeOK
  <1>1. ASSUME NEW p \in Task, NEW s \in Task, AddDependency(p, s)
        PROVE  TypeOK'
    BY <1>1 DEF AddDependency, projectVars, spaceVars
  <1>2. ASSUME NEW f \in File, NEW c \in {"user", "absent"}, UserEdit(f, c)
        PROVE  TypeOK'
    <2>1. tree' \in Files
      BY <1>2 DEF UserEdit, Files, Content
    <2>2. edits' \in 0..MaxEdits
      BY <1>2, DeliveryAssumption DEF UserEdit
    <2> QED
      BY <1>2, <2>1, <2>2 DEF UserEdit, spaceVars, afterVars
  <1>3. CASE UserCommit
    BY <1>3 DEF UserCommit, spaceVars, afterVars
  <1> QED
    BY <1>1, <1>2, <1>3 DEF OtherStep

LEMMA TypeStep == TypeOK /\ [Next]_vars => TypeOK'
  <1> SUFFICES ASSUME TypeOK, [Next]_vars PROVE TypeOK'
    OBVIOUS
  <1>1. CASE UNCHANGED vars
    BY <1>1, Untouched, TypeParts
    DEF vars, TypeOK, ProjectTypes, SpaceTypes, StageTypes, AfterTypes
  <1> QED
    BY <1>1, TaskStepType, PipelineStepType, OtherStepType DEF Next

\* The state stays what the program can hold: files have contents, Tasks have
\* stages, and a cleanup is scheduled only of what the memory holds.
THEOREM TypeCorrect == Spec => []TypeOK
  BY InitTypeOK, TypeStep, PTL DEF Spec

-----------------------------------------------------------------------------
(* The inductive invariant *)

\* The Tasks that still need the directory of their workspace.
Held == {"working", "delivered"} \cup InRun \cup Retriable


\* A directory is missing only where a killed process left a worktree entry.
HeldOnDisk(t) == stage[t] \in Held => t \in disk \cup leftover

\* Only of merged work there is a cleanup to come.
CleanupAfterMerge(t) == t \in scheduled => stage[t] = "Merged"

\* A copy compares with what it was created from, whatever happens to it.
CopyKeepsBase(t) == kind[t] = "copy" => base[t] = origin[t]

\* A mirror in the pipeline compares with itself.
MirrorForgetsBase(t) ==
    stage[t] \in InRun /\ kind[t] = "mirror" => base[t] = work[t]

\* SourceIsAudited from the moment the review lets a copy through.
AuditedBefore(t) ==
    /\ stage[t] \in {"merge", "archive", "Merged"}
    /\ kind[t] = "copy" /\ Did(t) \cap Source # {}
    => verdict[t] = "Confirmed"

Sound(t) == /\ HeldOnDisk(t) /\ CleanupAfterMerge(t)
            /\ CopyKeepsBase(t) /\ MirrorForgetsBase(t) /\ AuditedBefore(t)

\* No Task waits for itself.
EdgesApart == \A e \in edges : e[1] # e[2]

IInv == /\ TypeOK
        /\ \A t \in Task : Sound(t)
        /\ EdgesApart /\ SuccessorsFollow

LEMMA InitIInv == Init => IInv
  <1> SUFFICES ASSUME Init PROVE IInv
    OBVIOUS
  <1>1. ASSUME NEW t \in Task PROVE Sound(t)
    BY DEF Init, Sound, HeldOnDisk, Held, InRun, Retriable, CleanupAfterMerge,
           CopyKeepsBase, MirrorForgetsBase, AuditedBefore
  <1>2. EdgesApart /\ SuccessorsFollow
    BY DEF Init, EdgesApart, SuccessorsFollow
  <1> QED
    BY <1>1, <1>2, InitTypeOK DEF IInv

\* What Sound says of a Task is said of these parts of the state alone.
LEMMA SoundFrame ==
    ASSUME NEW u \in Task, Sound(u),
           stage'[u] = stage[u], kind'[u] = kind[u], work'[u] = work[u],
           base'[u] = base[u], origin'[u] = origin[u], verdict'[u] = verdict[u],
           leftover' = leftover, u \in disk => u \in disk',
           u \in scheduled' => u \in scheduled
    PROVE  Sound(u)'
  BY DEF Sound, HeldOnDisk, CleanupAfterMerge, CopyKeepsBase, MirrorForgetsBase,
         AuditedBefore, Did, Changed

\* A step of one Task leaves the others alone.
LEMMA TaskStepFrame ==
    ASSUME TypeOK, NEW t \in Task, TaskStep(t),
           NEW u \in Task \ {t}, Sound(u)
    PROVE  Sound(u)'
  <1> USE SoundFrame DEF TypeOK, Removes
  <1>1. CASE CreateGit(t) \/ CreateMirror(t)
    BY <1>1 DEF CreateGit, CreateMirror, Created, AddWorktree, afterVars
  <1>2. CASE CreateCopy(t)
    BY <1>2 DEF CreateCopy, Created, afterVars
  <1>3. ASSUME NEW files \in [File -> {"absent", "old", "user"} \cup Task],
               Deliver(t, files)
        PROVE  Sound(u)'
    BY <1>3 DEF Deliver, afterVars
  <1>4. CASE Drop(t)
    BY <1>4 DEF Drop, afterVars
  <1>5. CASE Freeze(t)
    BY <1>5 DEF Freeze, Moves, afterVars
  <1>6. CASE FreezeFails(t)
    BY <1>6 DEF FreezeFails, Moves, spaceVars, afterVars
  <1>7. CASE RunDue(t)
    BY <1>7 DEF RunDue
  <1> QED
    BY <1>1, <1>2, <1>3, <1>4, <1>5, <1>6, <1>7 DEF TaskStep

LEMMA PipelineStepFrame ==
    ASSUME TypeOK, NEW t \in Task, PipelineStep(t),
           NEW u \in Task \ {t}, Sound(u)
    PROVE  Sound(u)'
  <1>1. UNCHANGED spaceVars
    BY Zenon DEF PipelineStep, Review, Audit, GitMergeClean, GitMergeUncommitted,
           GitMergeConflict, GitMergeRefused, GitMerges, CopyMerge,
           CopyMergeBreaks, CopyMerges, Archive, ArchiveFails
  <1>2. \E to : Moves(t, to)
    BY Zenon DEF PipelineStep, Review, Audit, GitMergeClean, GitMergeUncommitted,
           GitMergeConflict, GitMergeRefused, CopyMerge, CopyMergeBreaks,
           Archive, ArchiveFails
  <1>3. stage'[u] = stage[u]
    BY <1>2 DEF Moves, TypeOK
  <1>4. verdict'[u] = verdict[u]
    <2>1. \/ verdict' = verdict
          \/ \E v : verdict' = [verdict EXCEPT ![t] = v]
      BY Zenon DEF PipelineStep, Review, Audit, GitMergeClean, GitMergeUncommitted,
             GitMergeConflict, GitMergeRefused, GitMerges, CopyMerge,
             CopyMergeBreaks, CopyMerges, Archive, ArchiveFails
    <2> QED
      BY <2>1 DEF TypeOK
  <1>5. scheduled' \subseteq scheduled \cup {t}
    <2>1. scheduled' = scheduled \/ scheduled' = scheduled \cup {t}
      BY Zenon DEF PipelineStep, Review, Audit, GitMergeClean, GitMergeUncommitted,
             GitMergeConflict, GitMergeRefused, GitMerges, CopyMerge,
             CopyMergeBreaks, CopyMerges, Archive, ArchiveFails, afterVars
    <2> QED
      BY <2>1
  <1> QED
    BY <1>1, <1>3, <1>4, <1>5, SoundFrame DEF spaceVars

\* A change to source code is not of low risk.
LEMMA RiskLow ==
    ASSUME NEW files, Risk(files) = "Low"
    PROVE  files \cap Source = {}
  <1> SUFFICES ASSUME files \cap Source # {} PROVE FALSE
    OBVIOUS
  <1>1. files # {} /\ ~(files \subseteq Markdown)
    BY DeliveryAssumption
  <1> QED
    BY <1>1 DEF Risk

\* What a Task does itself.
LEMMA TaskStepSound ==
    ASSUME IInv, NEW t \in Task, TaskStep(t)
    PROVE  Sound(t)'
  <1> USE DEF IInv, Sound, HeldOnDisk, Held, InRun, Retriable, CleanupAfterMerge,
              CopyKeepsBase, MirrorForgetsBase, AuditedBefore
  <1>0. /\ stage \in [Task -> Stage] /\ kind \in [Task -> Kind]
        /\ work \in [Task -> Files] /\ base \in [Task -> Files]
        /\ origin \in [Task -> Files]
        /\ verdict \in [Task -> Verdict \cup {"none"}]
    BY Zenon DEF TypeOK
  <1>1. ASSUME NEW k, NEW files, Created(t, k, files), UNCHANGED leftover,
               t \in disk' \cup leftover
        PROVE  Sound(t)'
    BY <1>0, <1>1 DEF Created, afterVars
  <1>2. CASE CreateGit(t)
    BY <1>1, <1>2 DEF CreateGit, AddWorktree
  <1>3. CASE CreateMirror(t)
    BY <1>1, <1>3 DEF CreateMirror, AddWorktree
  <1>4. CASE CreateCopy(t)
    BY <1>1, <1>4 DEF CreateCopy
  <1>5. ASSUME NEW files \in [File -> {"absent", "old", "user"} \cup Task],
               Deliver(t, files)
        PROVE  Sound(t)'
    BY <1>0, <1>5 DEF Deliver, afterVars
  <1>6. CASE Drop(t)
    BY <1>0, <1>6 DEF Drop, Outcome, Removes, afterVars
  <1>7. CASE Freeze(t)
    BY <1>0, <1>7 DEF Freeze, Submits, Baseline, Moves, afterVars
  <1>8. CASE FreezeFails(t)
    BY <1>0, <1>8 DEF FreezeFails, Submits, Moves, spaceVars, afterVars
  <1>9. CASE RunDue(t)
    <2>1. stage[t] = "Merged" /\ stage' = stage
      BY <1>9 DEF RunDue
    <2>2. HeldOnDisk(t)' /\ CleanupAfterMerge(t)'
      BY <2>1
    <2>3. CopyKeepsBase(t)' /\ MirrorForgetsBase(t)' /\ AuditedBefore(t)'
      BY <1>9 DEF RunDue, Did, Changed
    <2> QED
      BY <2>2, <2>3
  <1> QED
    BY <1>2, <1>3, <1>4, <1>5, <1>6, <1>7, <1>8, <1>9 DEF TaskStep

\* A step of the pipeline keeps all of Sound but the audit, which is looked at
\* where it is decided.
LEMMA PipelineSound ==
    ASSUME IInv, NEW t \in Task, stage[t] \in InRun,
           NEW to \in InRun \cup Outcome, Moves(t, to), UNCHANGED spaceVars,
           scheduled' = scheduled \/ to = "Merged",
           AuditedBefore(t)'
    PROVE  Sound(t)'
  <1>1. stage'[t] = to /\ Sound(t)
    BY DEF IInv, TypeOK, Moves
  <1>2. HeldOnDisk(t)'
    BY <1>1 DEF Sound, HeldOnDisk, Held, spaceVars
  <1>3. CleanupAfterMerge(t)'
    BY <1>1 DEF Sound, CleanupAfterMerge, InRun
  <1>4. CopyKeepsBase(t)' /\ MirrorForgetsBase(t)'
    BY <1>1 DEF Sound, CopyKeepsBase, MirrorForgetsBase, spaceVars
  <1> QED
    BY <1>2, <1>3, <1>4 DEF Sound

LEMMA PipelineStepSound ==
    ASSUME IInv, NEW t \in Task, PipelineStep(t)
    PROVE  Sound(t)'
  <1> USE DEF InRun, Outcome, Retriable
  <1>0. /\ stage \in [Task -> Stage]
        /\ verdict \in [Task -> Verdict \cup {"none"}]
        /\ CopyKeepsBase(t) /\ AuditedBefore(t)
    BY Zenon DEF IInv, TypeOK, Sound
  <1>1. CASE Review(t)
    <2>1. PICK to \in {"merge", "audit"} : Moves(t, to)
      BY <1>1 DEF Review
    <2>2. ASSUME stage'[t] = "merge", kind[t] = "copy"
          PROVE  Did(t) \cap Source = {}
      <3>1. Diff(t) = Did(t)
        BY <1>0, <2>2 DEF CopyKeepsBase, Diff, Did
      <3>2. Risk(Diff(t)) = "Low"
        BY <1>0, <1>1, <2>2 DEF Review, Moves
      <3> QED
        BY <3>1, <3>2, RiskLow
    <2>3. AuditedBefore(t)'
      BY <1>0, <1>1, <2>1, <2>2 DEF Review, AuditedBefore, Moves, Did, Changed, spaceVars
    <2> QED
      BY <1>1, <2>1, <2>3, PipelineSound DEF Review, afterVars
  <1>2. ASSUME NEW v \in Verdict, Audit(t, v)
        PROVE  Sound(t)'
    <2>1. PICK to \in {"merge", "Rejected", "PendingReview"} :
             /\ Moves(t, to)
             /\ to = "merge" => v = "Confirmed"
      BY <1>2 DEF Audit, AfterReview
    <2>2. AuditedBefore(t)'
      BY <1>0, <1>2, <2>1 DEF Audit, AuditedBefore, Moves
    <2> QED
      BY <1>2, <2>1, <2>2, PipelineSound DEF Audit, afterVars
  <1>3. ASSUME stage[t] \in {"merge", "archive"}, UNCHANGED spaceVars,
               UNCHANGED verdict, NEW to \in {"archive"} \cup Outcome, Moves(t, to),
               scheduled' = scheduled \/ to = "Merged"
        PROVE  Sound(t)'
    <2>1. AuditedBefore(t)'
      BY <1>0, <1>3 DEF AuditedBefore, Moves, Did, Changed, spaceVars
    <2> QED
      BY <1>3, <2>1, PipelineSound
  <1>4. CASE GitMergeClean(t)
    BY <1>3, <1>4 DEF GitMergeClean, GitMerges, afterVars
  <1>5. CASE GitMergeUncommitted(t)
    BY <1>3, <1>5 DEF GitMergeUncommitted, GitMerges, afterVars
  <1>6. CASE GitMergeConflict(t)
    BY <1>3, <1>6 DEF GitMergeConflict, GitMerges, afterVars
  <1>7. CASE GitMergeRefused(t)
    BY <1>3, <1>7 DEF GitMergeRefused, GitMerges, afterVars
  <1>8. CASE CopyMerge(t)
    <2>1. PICK to \in {"archive", "Rejected"} : Moves(t, to)
      BY <1>8 DEF CopyMerge
    <2> QED
      BY <1>3, <1>8, <2>1 DEF CopyMerge, CopyMerges, afterVars
  <1>9. ASSUME NEW done \in SUBSET File, CopyMergeBreaks(t, done)
        PROVE  Sound(t)'
    BY <1>3, <1>9 DEF CopyMergeBreaks, CopyMerges, afterVars
  <1>10. CASE Archive(t)
    BY <1>3, <1>10 DEF Archive
  <1>11. CASE ArchiveFails(t)
    BY <1>3, <1>11 DEF ArchiveFails, afterVars
  <1> QED
    BY <1>1, <1>2, <1>4, <1>5, <1>6, <1>7, <1>8, <1>9, <1>10, <1>11 DEF PipelineStep

\* The user touches no workspace.
LEMMA OtherStepSound ==
    ASSUME OtherStep, NEW u \in Task, Sound(u)
    PROVE  Sound(u)'
  <1>1. UNCHANGED <<spaceVars, stage, verdict, scheduled>>
    BY Zenon DEF OtherStep, AddDependency, UserEdit, UserCommit, afterVars
  <1> QED
    BY <1>1, SoundFrame DEF spaceVars

\* Merged is the end, and the memory forgets no Task.
LEMMA MergedStays ==
    ASSUME IInv, [Next]_vars, NEW p \in kept, stage[p] = "Merged"
    PROVE  p \in kept' /\ stage'[p] = "Merged"
  <1> USE DEF IInv, TypeOK
  <1>1. p \in kept'
    <2>1. kept \subseteq kept'
      BY DEF Next, vars, TaskStep, PipelineStep, OtherStep, CreateGit, CreateMirror,
             CreateCopy, Created, Deliver, Drop, Freeze, FreezeFails, RunDue,
             Review, Audit, GitMergeClean, GitMergeUncommitted, GitMergeConflict,
             GitMergeRefused, GitMerges, CopyMerge, CopyMergeBreaks, CopyMerges,
             Archive, ArchiveFails, AddDependency, UserEdit, UserCommit, afterVars
    <2> QED
      BY <2>1
  <1>2. ASSUME NEW t \in Task, TaskStep(t)
        PROVE  stage'[p] = "Merged"
    BY <1>2 DEF TaskStep, CreateGit, CreateMirror, CreateCopy, Created, Deliver,
                Drop, Freeze, FreezeFails, Submits, Retriable, Moves, RunDue
  <1>3. ASSUME NEW t \in Task, PipelineStep(t)
        PROVE  stage'[p] = "Merged"
    <2>1. (\E to : Moves(t, to)) /\ stage[t] # "Merged"
      BY <1>3 DEF PipelineStep, Review, Audit, GitMergeClean, GitMergeUncommitted,
             GitMergeConflict, GitMergeRefused, GitMerges, CopyMerge,
             CopyMergeBreaks, CopyMerges, Archive, ArchiveFails
    <2> QED
      BY <2>1 DEF Moves
  <1>4. CASE OtherStep \/ UNCHANGED vars
    <2>1. UNCHANGED stage
      BY <1>4, Zenon DEF OtherStep, AddDependency, UserEdit, UserCommit, vars
    <2> QED
      BY <1>1, <2>1
  <1> QED
    BY <1>1, <1>2, <1>3, <1>4 DEF Next

LEMMA FollowStep == IInv /\ [Next]_vars => EdgesApart' /\ SuccessorsFollow'
  <1> SUFFICES ASSUME IInv, [Next]_vars PROVE EdgesApart' /\ SuccessorsFollow'
    OBVIOUS
  <1>1. ASSUME UNCHANGED ready
        PROVE  SuccessorsFollow'
    BY <1>1, MergedStays DEF IInv, SuccessorsFollow
  <1>2. ASSUME NEW t \in Task, Archive(t)
        PROVE  EdgesApart' /\ SuccessorsFollow'
    <2>1. EdgesApart'
      BY <1>2 DEF IInv, Archive, EdgesApart
    <2>2. t \in kept' /\ stage'[t] = "Merged"
      BY <1>2 DEF IInv, TypeOK, Archive, Moves
    <2>3. ASSUME NEW s \in ready'
          PROVE  \E p \in kept' : p # s /\ stage'[p] = "Merged"
      <3>1. CASE s \in ready
        BY <3>1, MergedStays DEF IInv, SuccessorsFollow
      <3>2. CASE <<t, s>> \in edges
        BY <3>2, <2>2 DEF IInv, EdgesApart
      <3> QED
        BY <1>2, <3>1, <3>2 DEF Archive
    <2> QED
      BY <2>1, <2>3 DEF SuccessorsFollow
  <1>3. ASSUME NEW p \in Task, NEW s \in Task, AddDependency(p, s)
        PROVE  EdgesApart' /\ SuccessorsFollow'
    BY <1>1, <1>3 DEF IInv, AddDependency, EdgesApart
  <1>4. CASE UNCHANGED <<edges, ready>>
    BY <1>1, <1>4 DEF IInv, EdgesApart
  <1>5. \/ UNCHANGED <<edges, ready>>
        \/ \E t \in Task : Archive(t)
        \/ \E p, s \in Task : AddDependency(p, s)
    BY Zenon DEF Next, vars, TaskStep, PipelineStep, OtherStep, CreateGit,
             CreateMirror, CreateCopy, Created, Deliver, Drop, Freeze,
             FreezeFails, RunDue, Review, Audit, GitMergeClean,
             GitMergeUncommitted, GitMergeConflict, GitMergeRefused, GitMerges,
             CopyMerge, CopyMergeBreaks, CopyMerges, ArchiveFails, UserEdit,
             UserCommit, afterVars
  <1> QED
    BY <1>2, <1>3, <1>4, <1>5

LEMMA StepIInv == IInv /\ [Next]_vars => IInv'
  <1> SUFFICES ASSUME IInv, [Next]_vars PROVE IInv'
    OBVIOUS
  <1>1. TypeOK' /\ EdgesApart' /\ SuccessorsFollow'
    BY TypeStep, FollowStep DEF IInv
  <1>2. ASSUME NEW u \in Task
        PROVE  Sound(u)'
    <2>1. TypeOK /\ Sound(u)
      BY DEF IInv
    <2>2. ASSUME NEW t \in Task, TaskStep(t) \/ PipelineStep(t)
          PROVE  Sound(u)'
      <3>1. CASE u = t
        BY <2>2, <3>1, TaskStepSound, PipelineStepSound
      <3>2. CASE u \in Task \ {t}
        BY <2>1, <2>2, <3>2, TaskStepFrame, PipelineStepFrame
      <3> QED
        BY <3>1, <3>2
    <2>3. CASE OtherStep
      BY <2>1, <2>3, OtherStepSound
    <2>4. CASE UNCHANGED vars
      BY <2>1, <2>4, SoundFrame DEF vars, spaceVars, afterVars
    <2> QED
      BY <2>2, <2>3, <2>4 DEF Next
  <1> QED
    BY <1>1, <1>2 DEF IInv

LEMMA Invariant == Spec => []IInv
  BY InitIInv, StepIInv, PTL DEF Spec

-----------------------------------------------------------------------------
(* The invariants *)

\* No cleanup, whenever its delay expires, takes the directory of work that is
\* in the pipeline or may be submitted again (CleanupSchedule::run_due).
THEOREM WorkKept == Spec => []WorkIsKept
  <1>1. IInv => WorkIsKept
    BY DEF IInv, Sound, HeldOnDisk, Held, WorkIsKept
  <1> QED
    BY <1>1, Invariant, PTL

\* A successor is released by merged and remembered work only, whichever step
\* of the pipeline failed before (CompletionPipeline::archive).
THEOREM SuccessorsWait == Spec => []SuccessorsFollow
  <1>1. IInv => SuccessorsFollow
    BY DEF IInv
  <1> QED
    BY <1>1, Invariant, PTL

\* No copy that changes source code is merged without the confirmation of an
\* audit of the same run, whatever the thresholds of the risk are.
THEOREM SourceAudited == Spec => []SourceIsAudited
  <1>1. IInv => SourceIsAudited
    BY DEF IInv, Sound, AuditedBefore, SourceIsAudited, Given
  <1> QED
    BY <1>1, Invariant, PTL

-----------------------------------------------------------------------------
(* The action properties.  They speak of the steps that merge, and of what  *)
(* these know of the Task from the invariant.                               *)

\* The workspace t is merged from, at the moment its merge ends.
LEMMA MergeSteps ==
    ASSUME IInv, Next, NEW t \in Task, Merges(t)
    PROVE  \/ GitMergeClean(t) \/ GitMergeUncommitted(t)
           \/ GitMergeConflict(t) \/ GitMergeRefused(t)
           \/ CopyMerge(t) \/ \E done \in SUBSET File : CopyMergeBreaks(t, done)
  <1>0. stage \in [Task -> Stage]
    BY DEF IInv, TypeOK
  <1>1. ASSUME NEW u \in Task, TaskStep(u)
        PROVE  stage[t] = "merge" => stage'[t] = "merge"
    BY <1>0, <1>1 DEF TaskStep, CreateGit, CreateMirror, CreateCopy, Created,
         Deliver, Drop, Outcome, Freeze, FreezeFails, Submits, Retriable, Moves,
         RunDue
  <1>2. OtherStep => stage' = stage
    BY Zenon DEF OtherStep, AddDependency, UserEdit, UserCommit
  <1>3. PICK u \in Task : PipelineStep(u)
    BY <1>1, <1>2 DEF Next, Merges
  <1>4. \E to : Moves(u, to)
    BY <1>3, Zenon DEF PipelineStep, Review, Audit, GitMergeClean,
         GitMergeUncommitted, GitMergeConflict, GitMergeRefused, CopyMerge,
         CopyMergeBreaks, Archive, ArchiveFails
  <1>5. u = t
    BY <1>0, <1>4 DEF Moves, Merges
  <1>6. ~Review(t) /\ (\A v \in Verdict : ~Audit(t, v)) /\ ~Archive(t) /\ ~ArchiveFails(t)
    BY DEF Merges, Review, Audit, Archive, ArchiveFails
  <1> QED
    BY <1>3, <1>5, <1>6 DEF PipelineStep

\* git writes a file only where both the last commit and the directory have
\* what the Task began with.
LEMMA GitLosesNothing ==
    ASSUME IInv, NEW t \in Task, NEW f \in File,
           ~Refused(t), Clash(t) = {}, tree' = MergedTree(t), tree'[f] # tree[f]
    PROVE  tree[f] = origin[t][f]
  <1>1. f \in Rewritten(t) /\ tree[f] = head[f]
    BY DEF MergedTree, Refused, Rewritten, Changed
  <1>2. f \in Theirs(t) /\ head[f] # work[t][f]
    BY <1>1 DEF Rewritten, Changed, Result
  <1>3. head[f] = Ancestor(t)[f]
    BY <1>2 DEF Clash
  <1>4. t \notin inHead
    BY <1>2 DEF Theirs, Changed, Ancestor
  <1> QED
    BY <1>1, <1>3, <1>4 DEF Ancestor

\* Neither does a copy, of the files that are there on both sides.
LEMMA CopyLosesNothing ==
    ASSUME IInv, NEW t \in Task, NEW f \in File, CopyMerges(t),
           NEW files, files \subseteq Diff(t) \ CopyConflicts(t),
           tree' = Applied(t, files), tree'[f] # tree[f],
           "absent" \notin {origin[t][f], work[t][f], tree[f]}
    PROVE  tree[f] = origin[t][f]
  <1>1. f \in files /\ tree[f] # work[t][f]
    BY DEF Applied
  <1>2. base[t][f] # work[t][f]
    BY <1>1 DEF Diff, Changed
  <1>3. kind[t] = "copy"
    BY <1>2 DEF IInv, Sound, MirrorForgetsBase, CopyMerges, InRun
  <1>4. base[t] = origin[t]
    BY <1>3 DEF IInv, Sound, CopyKeepsBase
  <1>5. f \in Modified(base[t], work[t])
    BY <1>2, <1>4 DEF Modified, Added, Deleted, Changed
  <1> QED
    BY <1>1, <1>4, <1>5 DEF CopyConflicts

\* No merge, clean or broken off, into a tree that the user edited and
\* committed at any time, changes a file that is not as the Task found it.
THEOREM NothingLost == Spec => NoLostUpdate
  <1>1. ASSUME IInv, Next, NEW t \in Task, Merges(t), NEW f \in File,
               tree'[f] # tree[f],
               kind[t] = "git" \/ "absent" \notin {origin[t][f], work[t][f], tree[f]}
        PROVE  tree[f] = origin[t][f]
    <2>1. CASE GitMergeClean(t) \/ GitMergeUncommitted(t)
      BY <1>1, <2>1, GitLosesNothing DEF GitMergeClean, GitMergeUncommitted
    <2>2. CASE GitMergeConflict(t) \/ GitMergeRefused(t)
      BY <1>1, <2>2 DEF GitMergeConflict, GitMergeRefused
    <2>3. CASE CopyMerge(t)
      BY <1>1, <2>3, CopyLosesNothing DEF CopyMerge, CopyMerges
    <2>4. ASSUME NEW done \in SUBSET File, CopyMergeBreaks(t, done)
          PROVE  tree[f] = origin[t][f]
      BY <1>1, <2>4, CopyLosesNothing DEF CopyMergeBreaks, CopyMerges
    <2> QED
      BY <1>1, <2>1, <2>2, <2>3, <2>4, MergeSteps
  <1>2. ASSUME IInv, [Next]_vars
        PROVE
        [\A t \in Task : Merges(t) =>
          \A f \in File :
              /\ tree'[f] # tree[f]
              /\ kind[t] = "git" \/ "absent" \notin {origin[t][f], work[t][f], tree[f]}
              => tree[f] = origin[t][f]]_vars
    BY <1>1, <1>2
  <1> QED
    BY <1>2, Invariant, PTL DEF Spec, NoLostUpdate

\* Every merge the pipeline takes for a clean one has put all that the Task
\* did into the project, or the project had it.
THEOREM CleanIsComplete == Spec => CleanAppliesAll
  <1>1. ASSUME IInv, Next, NEW t \in Task, Clean(t), kind[t] \in {"git", "copy"},
               NEW f \in Did(t)
        PROVE  tree'[f] = work[t][f] \/ work[t][f] = head[f] \/ t \in inHead
    <2>0. f \in File /\ origin[t][f] # work[t][f] /\ stage'[t] = "archive"
      BY <1>1 DEF Did, Changed, Clean
    <2>1. CASE GitMergeClean(t) \/ GitMergeUncommitted(t)
      <3>1. SUFFICES ASSUME t \notin inHead, work[t][f] # head[f]
                     PROVE  tree'[f] = work[t][f]
        OBVIOUS
      <3>2. f \in Theirs(t)
        BY <2>0, <3>1 DEF Theirs, Ancestor, Changed
      <3>3. f \in Rewritten(t)
        BY <2>0, <3>1, <3>2 DEF Rewritten, Result, Changed
      <3> QED
        BY <2>0, <2>1, <3>3 DEF GitMergeClean, GitMergeUncommitted, MergedTree
    <2>2. CASE CopyMerge(t)
      <3>1. CopyConflicts(t) = {}
        BY <1>1, <2>0, <2>2 DEF CopyMerge, Moves, IInv, TypeOK
      <3>2. kind[t] = "copy" /\ base[t] = origin[t]
        BY <1>1, <2>2 DEF CopyMerge, CopyMerges, IInv, Sound, CopyKeepsBase
      <3>3. f \in Diff(t)
        BY <2>0, <3>2 DEF Diff, Changed
      <3> QED
        BY <2>0, <2>2, <3>1, <3>3 DEF CopyMerge, Applied
    <2>3. ~GitMergeConflict(t) /\ ~GitMergeRefused(t)
          /\ \A done \in SUBSET File : ~CopyMergeBreaks(t, done)
      BY <1>1, <2>0 DEF GitMergeConflict, GitMergeRefused, CopyMergeBreaks, Moves,
                        IInv, TypeOK
    <2> QED
      BY <1>1, <2>1, <2>2, <2>3, MergeSteps DEF Clean
  <1>2. ASSUME IInv, [Next]_vars
        PROVE  [\A t \in Task : Clean(t) /\ kind[t] \in {"git", "copy"} =>
                  \A f \in Did(t) : tree'[f] = work[t][f] \/ work[t][f] = head[f]
                                    \/ t \in inHead]_vars
    BY <1>1, <1>2
  <1> QED
    BY <1>2, Invariant, PTL DEF Spec, CleanAppliesAll
=============================================================================
