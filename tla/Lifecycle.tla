----------------------------- MODULE Lifecycle -----------------------------
(***************************************************************************)
(* The life of one Task as three readers see it: the Task itself (the      *)
(* LifecycleTracker of lifecycle/heartbeat.rs), the heartbeats on their    *)
(* way up (the Task's channel, its relay and the Orchestrator's channel,   *)
(* one FIFO), and the Orchestrator's registry.                             *)
(*                                                                         *)
(* This is also the abstract specification of a Task: TaskRun, the run     *)
(* loop, is shown to implement LSpec.                                      *)
(***************************************************************************)
EXTENDS Naturals, Sequences

VARIABLES
    status,    \* LifecycleTracker.current
    stream,    \* status changes sent but not yet drained, oldest first
    registry   \* TaskEntry.status

lvars == <<status, stream, registry>>

Status == {"Sleeping", "Waking", "Pondering", "OnIt", "Waiting",
           "Reviewing", "Delivered", "Stuck", "Axed", "Archived"}

\* The table of lifecycle/status.rs.
IsValidTransition(from, to) ==
    \/ from = "Sleeping" /\ to \in {"Waking", "Axed"}
    \/ from \in {"Waking", "OnIt"} /\ to = "Pondering"
    \/ from \in {"Waking", "Pondering", "OnIt", "Waiting", "Delivered",
                 "Reviewing", "Stuck"} /\ to = "Axed"
    \/ from \in {"Pondering", "Waiting", "Reviewing", "Stuck"} /\ to = "OnIt"
    \/ from = "OnIt" /\ to \in {"Waiting", "Delivered", "Stuck"}
    \/ from = "Delivered" /\ to \in {"Reviewing", "Archived"}
    \/ from \in {"Reviewing", "Axed"} /\ to = "Archived"

\* TaskEntry::is_active of a dispatched entry, for a status in the registry.
IsActive(s) == s \notin {"Delivered", "Stuck", "Axed", "Archived"}

-----------------------------------------------------------------------------

\* LifecycleTracker::transition as every caller in the run loop uses it, with
\* `let _ =`: a legal move is taken and its heartbeat sent, an illegal one is
\* an error nobody looks at.  push_heartbeat needs no action: it repeats the
\* current status, which the registry has or will have from the last change.
TryTransition(to) ==
    IF IsValidTransition(status, to)
    THEN status' = to /\ stream' = Append(stream, to)
    ELSE UNCHANGED <<status, stream>>

\* Mutant: heartbeats behind the one recorded are thrown away.
DrainLossy ==
    \E n \in 1..Len(stream) :
        registry' = stream[n] /\ stream' = <<>> /\ UNCHANGED status

\* drain_heartbeats: under the Orchestrator's lock it records, in order, what
\* the relay has forwarded so far, so a reader of the registry sees only the
\* last one.
Drain ==
    \E n \in 1..Len(stream) :
        /\ registry' = stream[n]
        /\ stream' = SubSeq(stream, n + 1, Len(stream))
        /\ UNCHANGED status

Change == \E to \in Status : TryTransition(to) /\ UNCHANGED registry

LInit ==
    /\ status = "Sleeping"
    /\ stream = <<>>
    /\ registry = "Sleeping"

LNext == Change \/ Drain

LSpec == LInit /\ [][LNext]_lvars

-----------------------------------------------------------------------------
\* The status the n-th heartbeat in flight was sent from.
Before(n) == IF n = 1 THEN registry ELSE stream[n - 1]

\* Heartbeats are neither lost, repeated nor reordered on their way up: the
\* registry, followed by what is in flight, is a path of legal transitions
\* that ends in the Task's own status (status.rs and the FIFO relay of
\* spawn_relay_channels).
ReportsAreLegal ==
    /\ \A n \in 1..Len(stream) : IsValidTransition(Before(n), stream[n])
    /\ status = IF stream = <<>> THEN registry ELSE stream[Len(stream)]

=============================================================================
