------------------------------- MODULE Memory -------------------------------
(***************************************************************************)
(* Memory<T> (memory/memory.rs): the active region, which is the context   *)
(* window, over an archive (memory/store.rs); with the two strategies that *)
(* move items from one to the other (memory/compact.rs), the memorialize   *)
(* stage, which writes to the archive directly (completion/memorialize.rs), *)
(* and recall by every index.  The archive inserts an item, its keywords   *)
(* and its tags one after the other, and each insert may fail.             *)
(***************************************************************************)
EXTENDS Naturals, Sequences, FiniteSets, SequencesExt

CONSTANTS
    Task,         \* ids of Tasks
    Events,       \* what may come, by strategy: records [kind, task, size]
    Recent,       \* in-progress highlights that stay: 3
    MaxTokens,    \* max_active_tokens
    CompactAt,    \* compact_at_percent
    Target,       \* target_percent
    SummarySize,  \* tokens of "[n items compacted to archive]": 5
    MaxEvents,    \* bound: items pushed or remembered
    MaxFaults     \* bound: inserts that fail

VARIABLES
    strategy,     \* the CompactionStrategy this Memory is compacted with
    active,       \* Memory.active
    rows,         \* the archive's table of memories, without its duplicates
    completed,    \* Tasks that the registry says are Delivered or Archived
    log,          \* history: what was pushed, oldest first
    kept,         \* history: items memorialize stored and reported stored
    used, faults  \* counters for the bounds

vars == <<strategy, active, rows, completed, log, kept, used, faults>>

\* A highlight is closed if its Task was completed when it was drained.
Kind == {"heartbeat", "open", "closed", "other"}
Strategy == {"threshold", "orchestrator"}

\* An item; covers is the set of pushed events its text tells of.
Item(n, e) == [n |-> n, kind |-> e.kind, task |-> e.task, size |-> e.size, covers |-> {n}]
Notice(split) ==
    [n |-> 0, kind |-> "other", task |-> "__summary__", size |-> SummarySize, covers |-> {}]

Init ==
    /\ strategy \in Strategy
    /\ active = <<>> /\ rows = {} /\ completed = {} /\ log = <<>> /\ kept = {}
    /\ used = 0 /\ faults = 0

-----------------------------------------------------------------------------
(* The archive *)

\* The indices a strategy gives its items: ThresholdCompaction stores neither
\* task id nor tags; OrchestratorCompaction and remember store both.
Indexed == IF strategy = "threshold" THEN {"keyword"} ELSE {"task", "keyword", "tag"}

\* A row of the table, and by which indices it can be found.
Row(i, by) == [item |-> i, by |-> by]
Torn(i) == {Row(i, Indexed \ lost) : lost \in {{"keyword", "tag"}, {"tag"} \cap Indexed} \ {{}}}

\* Mutant: the tags of an item are not inserted.
StoredUntagged(list, k) == rows \cup {Row(list[j], Indexed \ {"tag"}) : j \in 1..k}

\* Store::store, for the first k items of the list.
Stored(list, k) == rows \cup {Row(list[j], Indexed) : j \in 1..k}

\* Storing a list either succeeds, or stops at an item, with part of that
\* item's inserts done.
StoresAll(list) == rows' = Stored(list, Len(list)) /\ UNCHANGED faults
StoresPart(list) ==
    /\ faults < MaxFaults
    /\ faults' = faults + 1
    /\ \E k \in 0..(Len(list) - 1) :
      \E torn \in {{}} \cup {{r} : r \in Torn(list[k + 1])} :
        rows' = Stored(list, k) \cup torn

\* Store::recall.  The keywords and the tag of an item stand for its kind: the
\* text and the tags are taken from it.
Hits(index) == {r.item : r \in {x \in rows : index \in x.by}}
RecallTask(t) == {i \in Hits("task") : i.task = t}
RecallKeyword(kind) == {i \in Hits("keyword") : i.kind = kind}
RecallTag(kind) == {i \in Hits("tag") : i.kind = kind}
All == {r.item : r \in rows}

\* Recall finds the item by every index its strategy gives it.
Found(i) ==
    /\ i \in RecallKeyword(i.kind)
    /\ strategy = "orchestrator" => i \in RecallTask(i.task) \cap RecallTag(i.kind)

-----------------------------------------------------------------------------
(* Items come *)

\* record_heartbeat: the registry takes the status over.
Records(e) ==
    IF e.kind = "heartbeat" THEN completed' \in {completed \cup {e.task}, completed \ {e.task}}
                            ELSE UNCHANGED completed

\* on_user_message, drain_heartbeats, drain_highlights; what a highlight says of
\* its Task stands for good.
Push(e) ==
    /\ e.kind = "open" => e.task \notin completed
    /\ e.kind = "closed" => e.task \in completed
    /\ Records(e)
    /\ used < MaxEvents
    /\ used' = used + 1
    /\ LET i == Item(used', e) IN
       /\ active' = Append(active, i)
       /\ log' = Append(log, i)
    /\ UNCHANGED <<strategy, rows, kept, faults>>

\* memorialize: the summary, the context, one highlight, each by remember; the
\* first that fails ends it.
Memorialize(e) ==
    /\ e.kind = "closed"
    /\ used + 3 <= MaxEvents
    /\ used' = used + 3
    /\ LET list == <<Item(used + 1, e), Item(used + 2, [e EXCEPT !.kind = "other"]),
                     Item(used + 3, e)>>
       IN  \/ StoresAll(list) /\ kept' = kept \cup ToSet(list)
           \/ StoresPart(list) /\ UNCHANGED kept
    /\ UNCHANGED <<strategy, active, completed, log>>

-----------------------------------------------------------------------------
(* ThresholdCompaction *)

Tokens(s) == FoldLeft(LAMBDA n, i : n + i.size, 0, s)
From(k) == SubSeq(active, k + 1, Len(active))      \* active[k..]
Percent(p) == (MaxTokens * p) \div 100

\* The longest suffix within the target, or the last item.
Affordable == {k \in 0..(Len(active) - 1) :
               k = Len(active) - 1 \/ Tokens(From(k)) <= Percent(Target)}
KeepFrom == CHOOSE k \in Affordable : \A j \in Affordable : k <= j

\* pick_split, when the threshold is reached.
Splits ==
    {s \in 1..Len(active) : /\ s >= KeepFrom
                            /\ \/ s + 1 >= Len(active)
                               \/ Tokens(From(s)) + SummarySize <= Percent(Target)}
Split == CHOOSE s \in Splits : \A r \in Splits : s <= r

\* Every active item is archived, those that stay too.
CompactThreshold ==
    /\ strategy = "threshold" /\ active # <<>>
    /\ Tokens(active) >= Percent(CompactAt)
    /\ \/ StoresAll(active) /\ active' = <<Notice(Split)>> \o From(Split)
       \/ StoresPart(active) /\ UNCHANGED active
    /\ UNCHANGED <<strategy, completed, log, kept, used>>

-----------------------------------------------------------------------------
(* OrchestratorCompaction *)

Indices(kind, task) == {k \in DOMAIN active : active[k].kind = kind /\ active[k].task = task}
After(k, S) == {j \in S : j > k}

\* Mutant: of a Task's heartbeats the oldest stays.
OldHeartbeatsWrong ==
    UNION {{k \in Indices("heartbeat", t) : \E j \in Indices("heartbeat", t) : j < k} : t \in Task}

OldHeartbeats ==
    UNION {{k \in Indices("heartbeat", t) : After(k, Indices("heartbeat", t)) # {}} : t \in Task}
OldHighlights ==
    UNION {{k \in Indices("open", t) :
              Cardinality(After(k, Indices("open", t))) >= Recent} : t \in Task}
Closed == UNION {Indices("closed", t) : t \in Task}
Archived == OldHeartbeats \cup OldHighlights \cup Closed

\* The items of these indices, in their order: the j-th of S has j below or at it.
Nth(S, j) == CHOOSE k \in S : Cardinality({i \in S : i <= k}) = j
Pick(S) == [j \in 1..Cardinality(S) |-> active[Nth(S, j)]]

\* Mutant: the summary tells of the last highlight only.
SummaryOfLast(t) ==
    LET last == CHOOSE k \in Indices("closed", t) : After(k, Indices("closed", t)) = {}
    IN  [n |-> 0, kind |-> "closed", task |-> t, size |-> SummarySize,
         covers |-> active[last].covers]

\* summarize: one completed highlight, which tells of all of its Task's.
Summary(t) ==
    [n |-> 0, kind |-> "closed", task |-> t, size |-> SummarySize,
     covers |-> UNION {active[k].covers : k \in Indices("closed", t)}]

\* The buckets are a hash map: the summaries come in any order.
Summaries ==
    LET S == {t \in Task : Indices("closed", t) # {}}
    IN  {[j \in DOMAIN order |-> Summary(order[j])] : order \in SetToSeqs(S)}

CompactOrchestrator ==
    /\ strategy = "orchestrator"
    /\ \/ /\ StoresAll(Pick(Archived))
          /\ \E last \in Summaries :
               active' = Pick(DOMAIN active \ Archived) \o last
       \/ StoresPart(Pick(Archived)) /\ UNCHANGED active
    /\ UNCHANGED <<strategy, completed, log, kept, used>>

-----------------------------------------------------------------------------

Next ==
    \/ \E e \in Events[strategy] : Push(e) \/ Memorialize(e)
    \/ CompactThreshold \/ CompactOrchestrator

-----------------------------------------------------------------------------
(* Properties *)

\* Hazard: a compaction, or the archive, fails half way.  Whatever was pushed is
\* still in the context or found in the archive, by every index its strategy
\* gives; and so is all that memorialize said it stored ("every item removed from
\* active must already be persisted", memory.rs 199-203).
NothingForgotten ==
    /\ \A i \in ToSet(log) : i \in ToSet(active) \/ Found(i)
    /\ \A i \in kept : Found(i)

\* Of the kind and Task of an item, what came behind it.
Later(s, i) == {j \in ToSet(s) : j.kind = i.kind /\ j.task = i.task /\ j.n > i.n}

\* Hazard: a summary of summaries loses what the first one told, or a highlight
\* goes without one.  Of every highlight: one drained when its Task had completed
\* is in the context or told of by a completed highlight of that Task there,
\* however often it was compacted (compact.rs 326-341); one drained while the Task
\* ran is in the context, or the last Recent ones behind it have displaced it, and
\* then it is found in the archive and told of nowhere, completed Task or not.
Told(i) == \E h \in ToSet(active) : h.kind = "closed" /\ h.task = i.task /\ i.n \in h.covers
Displaced(i) == Found(i) /\ Cardinality(Later(log, i)) >= Recent
HighlightsTold ==
    strategy = "orchestrator" =>
      \A i \in ToSet(log) :
        /\ i.kind = "closed" => Told(i)
        /\ i.kind = "open" => i \in ToSet(active) \/ Displaced(i)

\* Hazard: what a Task said last is compacted away.  The latest heartbeat of
\* each Task that ever was pushed, and its latest highlights, are in the
\* context, and what Tasks said is there in their order
\* (compact.rs 284-323; specs/memory-system).
Latest(s, kind, t, k) ==
    {i \in ToSet(s) : i.kind = kind /\ i.task = t /\ Cardinality(Later(s, i)) < k}
Running(i) == i.kind \in {"heartbeat", "open"}
LatestStay ==
    strategy = "orchestrator" =>
      /\ \A t \in Task :
            /\ Latest(active, "heartbeat", t, 1) = Latest(log, "heartbeat", t, 1)
            /\ Latest(active, "open", t, Recent) = Latest(log, "open", t, Recent)
      /\ \A j, k \in DOMAIN active :
            j < k /\ Running(active[j]) /\ Running(active[k]) => active[j].n < active[k].n
=============================================================================
