------------------------------ MODULE Delivery ------------------------------
(***************************************************************************)
(* What becomes of a delivered Task's work: the three kinds of workspace   *)
(* (crates/opca-core/src/workspace) under the completion pipeline          *)
(* (crates/opca-core/src/completion), next to a user who edits and commits *)
(* the same project, and after a process that may have been killed in it.  *)
(*                                                                         *)
(* A file's content is "absent", "old" (what the project began with),      *)
(* "user" (what the user wrote) or the Task that wrote it.  CompletionPipe-*)
(* line::run borrows the pipeline mutably, so one Task is in it at a time; *)
(* between its await points the user and the other Tasks go on.            *)
(***************************************************************************)
EXTENDS Naturals, FiniteSets

CONSTANTS
    Task,           \* ids of Tasks; a restarted process uses the same ids
    File,           \* paths in the project
    Markdown,       \* those that end in .md
    Source,         \* those that end in .rs or .toml
    Present,        \* those the project begins with
    LowFiles,       \* LOW_DIFF_LINE_THRESHOLD, 20 in the code
    HighFiles,      \* HIGH_DIFF_LINE_THRESHOLD, 100 in the code
    MaxEdits        \* bound: what the user writes

ASSUME DeliveryAssumption ==
    /\ Markdown \subseteq File
    /\ Source \subseteq File \ Markdown
    /\ Present \subseteq File
    /\ {LowFiles, HighFiles, MaxEdits} \subseteq Nat /\ LowFiles <= HighFiles

VARIABLES
    \* The project.
    isGit,          \* whether it is a git repository
    head,           \* the files of its last commit
    tree,           \* the files in its directory
    merging,        \* the Task whose merge git holds uncommitted, or "none"
    inHead,         \* the Tasks whose branch is merged in the last commit
    \* The workspaces.
    kind,           \* which kind of Workspace the Task holds
    work,           \* the files in its directory
    base,           \* the baseline the Workspace compares with
    origin,         \* history: the baseline it was created from
    disk,           \* the Tasks whose workspace directory exists
    leftover,       \* the ids git has a worktree entry for since before
    \* The pipeline.
    stage,          \* where the Task is
    verdict,        \* what the audit said in the latest run
    kept,           \* the Tasks that are in the Orchestrator's memory
    scheduled,      \* CleanupSchedule.pending
    edges,          \* DependencyGraph.edges, <<predecessor, successor>>
    ready,          \* pending_successors, which nobody drains
    edits           \* counter for the bound

projectVars == <<isGit, head, tree, merging, inHead>>
spaceVars   == <<kind, work, base, origin, disk, leftover>>
afterVars   == <<kept, scheduled, edges, ready>>
vars == <<projectVars, spaceVars, stage, verdict, afterVars, edits>>

Content   == {"absent", "old", "user"} \cup Task
\* A snapshot of a directory.
Files     == [File -> Content]
Kind      == {"none", "git", "mirror", "copy"}
\* AuditVerdict; the three that do not confirm are treated alike.
Verdict   == {"Confirmed", "Unconfirmed"}
InRun     == {"frozen", "audit", "merge", "archive"}
Retriable == {"PendingReview", "Rejected", "Failed", "Error"}
Outcome   == Retriable \cup {"Merged"}
Stage     == {"unborn", "working", "delivered", "dropped"} \cup InRun \cup Outcome

Nothing == [f \in File |-> "absent"]

\* Workspace::diff between two states of the files.
Changed(from, to)  == {f \in File : from[f] # to[f]}
Added(from, to)    == {f \in Changed(from, to) : from[f] = "absent"}
Deleted(from, to)  == {f \in Changed(from, to) : to[f] = "absent"}
Modified(from, to) == Changed(from, to) \ (Added(from, to) \cup Deleted(from, to))
Diff(t) == Changed(base[t], work[t])

\* Mutant: a small change is of low risk, whatever it changes.
RiskBySize(files) ==
    CASE Cardinality(files) < LowFiles -> "Low"
      [] Cardinality(files) > HighFiles -> "High"
      [] OTHER -> "Medium"

Risk(files) ==
    CASE files = {} -> "Low"
      [] Cardinality(files) > HighFiles \/ files \cap Source # {} -> "High"
      [] Cardinality(files) < LowFiles /\ files \subseteq Markdown -> "Low"
      [] OTHER -> "Medium"

NotificationLevel(risk, v) ==
    IF risk = "High" \/ (risk = "Medium" /\ v = "Unconfirmed")
    THEN "PendingReview" ELSE "Silent"

\* A process that was killed before has left branches and worktree entries of
\* Tasks whose ids are given out again.
Init ==
    /\ isGit \in BOOLEAN
    /\ tree = [f \in File |-> IF f \in Present THEN "old" ELSE "absent"]
    /\ head = IF isGit THEN tree ELSE Nothing
    /\ merging = "none" /\ inHead = {}
    /\ kind = [t \in Task |-> "none"]
    /\ work = [t \in Task |-> Nothing]
    /\ base = [t \in Task |-> Nothing]
    /\ origin = [t \in Task |-> Nothing]
    /\ disk = {} /\ leftover \in SUBSET Task
    /\ stage = [t \in Task |-> "unborn"]
    /\ verdict = [t \in Task |-> "none"]
    /\ kept = {} /\ scheduled = {} /\ edges = {} /\ ready = {}
    /\ edits = 0

-----------------------------------------------------------------------------
(* A Task and its workspace *)

\* WorkspaceManager::create hands out a workspace of kind k whose baseline is
\* `files`.
Created(t, k, files) ==
    /\ stage[t] = "unborn"
    /\ kind' = [kind EXCEPT ![t] = k]
    /\ base' = [base EXCEPT ![t] = files]
    /\ origin' = [origin EXCEPT ![t] = files]
    /\ stage' = [stage EXCEPT ![t] = "working"]
    /\ verdict' = [verdict EXCEPT ![t] = "none"]
    /\ UNCHANGED <<projectVars, afterVars, edits>>

\* git branch and git worktree add; their exit codes are not looked at.  A
\* directory that is left over is removed first, but git refuses to add a
\* worktree it still has on its list: the workspace then has no directory.
AddWorktree(t, files) ==
    /\ disk' = disk \cup ({t} \ leftover)
    /\ work' = [work EXCEPT ![t] = IF t \in leftover THEN Nothing ELSE files]
    /\ UNCHANGED leftover

CreateGit(t) ==
    /\ isGit
    /\ Created(t, "git", head)
    /\ AddWorktree(t, head)

\* The mirror is synchronised with the project before the worktree is added:
\* all it held goes and the project's files come in.
Imported == tree

CreateMirror(t) ==
    /\ ~isGit
    /\ Created(t, "mirror", Imported)
    /\ AddWorktree(t, Imported)

\* The fallback when the mirror cannot be made.
CreateCopy(t) ==
    /\ ~isGit
    /\ Created(t, "copy", tree)
    /\ disk' = disk \cup {t}
    /\ work' = [work EXCEPT ![t] = tree]
    /\ UNCHANGED leftover

\* The Task has run and is Delivered; its tools left `files` in the workspace,
\* which nobody else sees before.  Without a directory every tool failed.
Deliver(t, files) ==
    /\ stage[t] = "working"
    /\ \A f \in File : files[f] \in {work[t][f]} \cup IF t \in disk THEN {"absent", t} ELSE {}
    /\ work' = [work EXCEPT ![t] = files]
    /\ stage' = [stage EXCEPT ![t] = "delivered"]
    /\ UNCHANGED <<projectVars, kind, base, origin, disk, leftover, verdict,
                   afterVars, edits>>

\* cleanup and Drop of a workspace: whatever git says, the directory goes.
Removes(t) == disk' = disk \ {t}

\* The Workspace value goes out of scope, in the command line as soon as
\* Task::run returns: its directory and its branch are removed.
Drop(t) ==
    /\ kind[t] # "none" /\ stage[t] \in Outcome \cup {"delivered"}
    /\ kind' = [kind EXCEPT ![t] = "none"]
    /\ Removes(t)
    /\ work' = [work EXCEPT ![t] = Nothing]
    /\ base' = [base EXCEPT ![t] = Nothing]
    /\ origin' = [origin EXCEPT ![t] = Nothing]
    /\ stage' = [stage EXCEPT ![t] = IF @ = "Merged" THEN @ ELSE "dropped"]
    /\ verdict' = [verdict EXCEPT ![t] = "none"]
    /\ UNCHANGED <<projectVars, leftover, afterVars, edits>>

-----------------------------------------------------------------------------
(* The pipeline *)

Busy == \E t \in Task : stage[t] \in InRun

\* run() may be called on a delivered Task, and again on one it did not merge.
Submits(t) ==
    /\ ~Busy /\ kind[t] # "none"
    /\ stage[t] \in Retriable \cup {"delivered"}

Moves(t, to) ==
    /\ stage' = [stage EXCEPT ![t] = to]
    /\ UNCHANGED edits

\* A git or mirror workspace commits what it holds and takes that commit for
\* its baseline; a copy keeps the baseline it has.
Baseline(t) == IF kind[t] = "copy" THEN base[t] ELSE work[t]

\* A summary there is in any case, whatever the provider says.
Freeze(t) ==
    /\ Submits(t)
    /\ kind[t] = "copy" \/ t \in disk
    /\ base' = [base EXCEPT ![t] = Baseline(t)]
    /\ Moves(t, "frozen")
    /\ UNCHANGED <<projectVars, kind, work, origin, disk, leftover, verdict,
                   afterVars>>

\* git cannot be started in a directory that is not there.
FreezeFails(t) ==
    /\ Submits(t)
    /\ kind[t] # "copy" /\ t \notin disk
    /\ Moves(t, "Failed")
    /\ UNCHANGED <<projectVars, spaceVars, verdict, afterVars>>

\* The changes decide who looks at them.
Review(t) ==
    /\ stage[t] = "frozen"
    /\ verdict' = [verdict EXCEPT ![t] = "none"]
    /\ Moves(t, IF Risk(Diff(t)) = "Low" THEN "merge" ELSE "audit")
    /\ UNCHANGED <<projectVars, spaceVars, afterVars>>

AfterReview(t, v) ==
    CASE v = "Confirmed" -> "merge"
      [] v # "Confirmed" /\ NotificationLevel(Risk(Diff(t)), v) = "Silent" -> "Rejected"
      [] OTHER -> "PendingReview"

\* The audit agent answers; one that fails does not confirm.
Audit(t, v) ==
    /\ stage[t] = "audit"
    /\ verdict' = [verdict EXCEPT ![t] = v]
    /\ Moves(t, AfterReview(t, v))
    /\ UNCHANGED <<projectVars, spaceVars, afterVars>>

\* git merge of the Task's branch, by files: what either side changed since the
\* branch was made, and a conflict where both did and differ.
Ancestor(t) == IF t \in inHead THEN work[t] ELSE origin[t]
Theirs(t)   == Changed(Ancestor(t), work[t])
Clash(t)    == {f \in Theirs(t) : head[f] \notin {Ancestor(t)[f], work[t][f]}}
Result(t)   == [f \in File |-> IF f \in Theirs(t) THEN work[t][f] ELSE head[f]]
Rewritten(t) == Changed(head, Result(t))

\* Mutant: the project's uncommitted changes are not looked at.
RefusedMidMerge(t) == merging # "none"

\* git refuses to touch files with uncommitted changes, and to merge at all
\* while an earlier merge is not committed.
Refused(t) ==
    \/ merging # "none"
    \/ \E f \in Rewritten(t) : tree[f] # head[f]

MergedTree(t) == [f \in File |-> IF f \in Rewritten(t) THEN work[t][f] ELSE tree[f]]

\* What a merge has in common: its result decides where the Task goes.
GitMerges(t) ==
    /\ stage[t] = "merge" /\ kind[t] = "git"
    /\ UNCHANGED <<isGit, spaceVars, verdict, afterVars>>

\* The merge is done with --no-commit and committed by a second command.
GitMergeClean(t) ==
    /\ GitMerges(t)
    /\ ~Refused(t) /\ Clash(t) = {}
    /\ head' = Result(t)
    /\ tree' = MergedTree(t)
    /\ inHead' = inHead \cup {t}
    /\ Moves(t, "archive")
    /\ UNCHANGED merging

\* The exit code of that second command is not looked at.
GitMergeUncommitted(t) ==
    /\ GitMerges(t)
    /\ ~Refused(t) /\ Clash(t) = {} /\ Rewritten(t) # {}
    /\ tree' = MergedTree(t)
    /\ merging' = t
    /\ Moves(t, "archive")
    /\ UNCHANGED <<head, inHead>>

GitMergeConflict(t) ==
    /\ GitMerges(t)
    /\ ~Refused(t) /\ Clash(t) # {}
    /\ Moves(t, "Rejected")
    /\ UNCHANGED <<head, tree, merging, inHead>>

GitMergeRefused(t) ==
    /\ GitMerges(t)
    /\ Refused(t)
    /\ Moves(t, "Failed")
    /\ UNCHANGED <<head, tree, merging, inHead>>

\* Copy and mirror workspaces copy file by file.  Only a modified file is
\* compared with the project's, and the others go in whether it conflicts or
\* not.
CopyConflicts(t) ==
    {f \in Modified(base[t], work[t]) :
        tree[f] \notin {"absent", base[t][f], work[t][f]}}
Applied(t, files) ==
    [f \in File |-> IF f \in files THEN work[t][f] ELSE tree[f]]

CopyMerges(t) ==
    /\ stage[t] = "merge" /\ kind[t] \in {"copy", "mirror"}
    /\ UNCHANGED <<isGit, head, merging, inHead, spaceVars, verdict, afterVars>>

\* Mutant: conflicts are skipped and forgotten.
CopyMergeAnyway(t) ==
    /\ CopyMerges(t)
    /\ tree' = Applied(t, Diff(t) \ CopyConflicts(t))
    /\ Moves(t, "archive")

CopyMerge(t) ==
    /\ CopyMerges(t)
    /\ tree' = Applied(t, Diff(t) \ CopyConflicts(t))
    /\ Moves(t, IF CopyConflicts(t) = {} THEN "archive" ELSE "Rejected")

\* An I/O error stops the copying: added files come first, deletions last.
CopyMergeBreaks(t, done) ==
    /\ CopyMerges(t)
    /\ LET due == Diff(t) \ CopyConflicts(t)
           first == Added(base[t], work[t])
           last == Deleted(base[t], work[t])
       IN  /\ done \subseteq due /\ done # due
           /\ done \subseteq first \/ first \subseteq done
           /\ done \cap last = {} \/ due \ last \subseteq done
    /\ tree' = Applied(t, done)
    /\ Moves(t, "Failed")

\* Memorialize, schedule the cleanup, release the successors.
Archive(t) ==
    /\ stage[t] = "archive"
    /\ kept' = kept \cup {t}
    /\ scheduled' = scheduled \cup {t}
    /\ ready' = ready \cup {s \in Task : <<t, s>> \in edges}
    /\ edges' = {e \in edges : e[1] # t}
    /\ Moves(t, "Merged")
    /\ UNCHANGED <<projectVars, spaceVars, verdict>>

\* Mutant: the memory is written last.
ArchiveFailsLast(t) ==
    /\ stage[t] = "archive"
    /\ scheduled' = scheduled \cup {t}
    /\ ready' = ready \cup {s \in Task : <<t, s>> \in edges}
    /\ edges' = {e \in edges : e[1] # t}
    /\ Moves(t, "Error")
    /\ UNCHANGED <<projectVars, spaceVars, verdict, kept>>

\* The memory refuses: run() ends with the error, the merge stays.
ArchiveFails(t) ==
    /\ stage[t] = "archive"
    /\ Moves(t, "Error")
    /\ UNCHANGED <<projectVars, spaceVars, verdict, afterVars>>

-----------------------------------------------------------------------------
(* The pipeline's owner, the user and the machine *)

\* `s` is to be dispatched once `p`, which runs or is merged already, is merged.
AddDependency(p, s) ==
    /\ p # s /\ stage[s] = "unborn" /\ stage[p] \in {"working", "Merged"}
    /\ edges' = edges \cup {<<p, s>>}
    /\ UNCHANGED <<projectVars, spaceVars, stage, verdict, kept, scheduled,
                   ready, edits>>

\* The delay of a scheduled cleanup has expired: the directory goes.
RunDue(t) ==
    /\ t \in scheduled
    /\ scheduled' = scheduled \ {t}
    /\ Removes(t)
    /\ UNCHANGED <<projectVars, kind, work, base, origin, leftover, stage,
                   verdict, kept, edges, ready, edits>>

UserEdit(f, c) ==
    /\ edits < MaxEdits
    /\ tree[f] # c
    /\ tree' = [tree EXCEPT ![f] = c]
    /\ edits' = edits + 1
    /\ UNCHANGED <<isGit, head, merging, inHead, spaceVars, stage, verdict,
                   afterVars>>

\* git commit -a; it concludes a merge that was left open.
UserCommit ==
    /\ isGit /\ head # tree
    /\ head' = tree
    /\ inHead' = inHead \cup ({merging} \cap Task)
    /\ merging' = "none"
    /\ UNCHANGED <<isGit, tree, spaceVars, stage, verdict, afterVars, edits>>

PipelineStep(t) ==
    \/ Review(t)
    \/ \E v \in Verdict : Audit(t, v)
    \/ GitMergeClean(t) \/ GitMergeUncommitted(t)
    \/ GitMergeConflict(t) \/ GitMergeRefused(t)
    \/ CopyMerge(t) \/ \E done \in SUBSET File : CopyMergeBreaks(t, done)
    \/ Archive(t) \/ ArchiveFails(t)

TaskStep(t) ==
    \/ CreateGit(t) \/ CreateMirror(t) \/ CreateCopy(t)
    \/ \E files \in [File -> {"absent", "old", "user"} \cup Task] : Deliver(t, files)
    \/ Drop(t)
    \/ Freeze(t) \/ FreezeFails(t)
    \/ RunDue(t)

OtherStep ==
    \/ \E p, s \in Task : AddDependency(p, s)
    \/ \E f \in File, c \in {"user", "absent"} : UserEdit(f, c)
    \/ UserCommit

Next == (\E t \in Task : TaskStep(t) \/ PipelineStep(t)) \/ OtherStep

Spec == Init /\ [][Next]_vars

-----------------------------------------------------------------------------
(* Properties *)

\* The types; and a cleanup is scheduled only of what the memory holds.
TypeOK ==
    /\ isGit \in BOOLEAN
    /\ head \in Files /\ tree \in Files
    /\ merging \in Task \cup {"none"} /\ inHead \subseteq Task
    /\ kind \in [Task -> Kind]
    /\ work \in [Task -> Files] /\ base \in [Task -> Files]
    /\ origin \in [Task -> Files]
    /\ disk \subseteq Task /\ leftover \subseteq Task
    /\ stage \in [Task -> Stage]
    /\ verdict \in [Task -> Verdict \cup {"none"}]
    /\ kept \subseteq Task /\ scheduled \subseteq kept
    /\ edges \subseteq Task \X Task /\ ready \subseteq Task
    /\ edits \in 0..MaxEdits

\* The step in which t's workspace is merged into the project, or is not.
Merges(t) == stage[t] = "merge" /\ stage'[t] # "merge"
Clean(t)  == Merges(t) /\ stage'[t] = "archive"
\* What the Task did, by the files it started from.
Did(t)    == Changed(origin[t], work[t])
Given(t)  == stage[t] \in {"archive", "Merged"} /\ kind[t] # "none"

\* No merge loses what the user wrote since the Task began, whether committed
\* or not: a file it changes still is what the Task started from.  A copy
\* promises that only of files that are there on both sides (copy.rs, the
\* conflict heuristic of merge_into).
NoLostUpdate ==
    [][\A t \in Task : Merges(t) =>
          \A f \in File :
              /\ tree'[f] # tree[f]
              /\ kind[t] = "git" \/ "absent" \notin {origin[t][f], work[t][f], tree[f]}
              => tree[f] = origin[t][f]]_vars

\* A merge that is reported as clean left none of the Task's changes out: the
\* file is in the project as the Task wrote it, or the project had the Task's
\* version committed before.
CleanAppliesAll ==
    [][\A t \in Task : Clean(t) /\ kind[t] \in {"git", "copy"} =>
          \A f \in Did(t) : tree'[f] = work[t][f] \/ work[t][f] = head[f]
                            \/ t \in inHead]_vars

\* The work of a copy that changes source code is merged only when an audit of
\* the latest run confirmed it, however often it was rejected and tried again.
SourceIsAudited ==
    \A t \in Task : Given(t) /\ kind[t] = "copy" /\ Did(t) \cap Source # {}
                    => verdict[t] = "Confirmed"

\* A successor is released by a predecessor whose work is merged and that the
\* Orchestrator's memory holds; no failure on the way releases it.
SuccessorsFollow ==
    \A s \in ready : \E p \in kept : p # s /\ stage[p] = "Merged"

\* No cleanup takes the directory of work that is in the pipeline or that may
\* be submitted again: rejected, failed or waiting for a reviewer.
WorkIsKept ==
    \A t \in Task : stage[t] \in {"delivered"} \cup InRun \cup Retriable
                    => t \in disk \cup leftover

\* As the end-to-end test of the mirror has it, what the Task wrote "should be
\* merged back into the non-git project".
MirrorMergesBack ==
    [][\A t \in Task : Clean(t) /\ kind[t] = "mirror" =>
          \A f \in Did(t) : tree'[f] = work[t][f]]_vars
=============================================================================
