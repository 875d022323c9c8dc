---------------------------- MODULE EvidenceGate ----------------------------
(***************************************************************************)
(* The evidence gate (crates/opca-core/src/task/evidence_gate.rs): the     *)
(* commands' output in the untouched workspace, and the judgement of what  *)
(* they print later.  TaskRun uses the gate by what a report may say.      *)
(*                                                                         *)
(* A line of output is a sequence of words; a word is a text and the       *)
(* numbers behind it, as in src/a.rs:4:13.  Standard error follows         *)
(* standard output.  Hashes are taken not to collide, and home directories *)
(* are left out.                                                           *)
(***************************************************************************)
EXTENDS Naturals, SequencesExt

CONSTANTS
    Output,      \* what a command may print: sequences of lines
    Path,        \* the texts that look like a source file
    Commands,    \* how many commands there are
    MaxVerified  \* bound: verifications

VARIABLES
    baseline,    \* EvidenceGate.baseline
    current,     \* history: what the commands have printed last
    verdict,     \* what verify returned last
    verified     \* counter for the bound

vars == <<baseline, current, verdict, verified>>

\* One result for each command; its exit code goes by its own rules.
Result  == [lines : Output, success : BOOLEAN]
Results == [1..Commands -> Result]
Pass    == [ok |-> TRUE, errors |-> {}, command |-> 0]

Init == baseline = <<>> /\ current = <<>> /\ verdict = Pass /\ verified = 0

-----------------------------------------------------------------------------
(* Reading the output *)

Has(line, text) == \E i \in DOMAIN line : line[i].text = text
Recognised(line) == \E text \in {"error:", "FAILED", "warning:"} : Has(line, text)

KindOf(line) ==
    CASE Has(line, "error:") -> "CompileError"
      [] ~Has(line, "error:") /\ Has(line, "FAILED") -> "TestFailure"
      [] OTHER -> "LintWarning"

\* extract_location: the first word that is a path with a colon behind it.
Located(line) == {i \in DOMAIN line : line[i].text \in Path /\ line[i].numbers # <<>>}
FileOf(line)  == IF Located(line) = {} THEN "none" ELSE line[Min(Located(line))].text

\* strip_line_numbers: of the numbers behind a colon, each two and the last
\* one become a mark; any other number in the line stays.
\* Mutant: numbers are compared.
KeepNumbers(line) == line
Normalized(line) ==
    [i \in DOMAIN line |-> [text |-> line[i].text, numbers |-> (Len(line[i].numbers) + 1) \div 2]]

Entry(line) == [kind |-> KindOf(line), file |-> FileOf(line), message |-> line]
ErrorsMatch(a, b) ==
    a.kind = b.kind /\ a.file = b.file /\ Normalized(a.message) = Normalized(b.message)

\* Nothing depends on the order of the lines, nor on how often one is there.
Lines(results) == UNION {ToSet(results[i].lines) : i \in DOMAIN results}
CollectAllErrors(results) == {Entry(line) : line \in {l \in Lines(results) : Recognised(l)}}

-----------------------------------------------------------------------------
(* EvidenceGate *)

\* If the shell cannot be started the Task runs without a gate (TaskRun).
CaptureBaseline(results) ==
    /\ current = <<>>
    /\ current' = results /\ baseline' = results
    /\ UNCHANGED <<verdict, verified>>

FirstFailed(results) ==
    LET failed == {i \in DOMAIN results : ~results[i].success}
    IN  IF failed = {} THEN 0 ELSE Min(failed)

\* The exit codes only name a command.  One new error, and all are reported.
Judged(results) ==
    LET before == CollectAllErrors(baseline)
        now    == CollectAllErrors(results)
    IN  IF \A e \in now : \E b \in before : ErrorsMatch(b, e)
        THEN Pass
        ELSE [ok |-> FALSE, errors |-> now, command |-> FirstFailed(results)]

Verify(results) ==
    /\ current # <<>> /\ verified < MaxVerified
    /\ verified' = verified + 1
    /\ current' = results
    /\ verdict' = Judged(results)
    /\ UNCHANGED baseline

\* The shell cannot be started: an error of its own kind, always new.
Unrunnable ==
    /\ current # <<>> /\ verified < MaxVerified
    /\ verified' = verified + 1
    /\ verdict' = [ok |-> FALSE, command |-> 0,
                   errors |-> {[kind |-> "Other", file |-> "none", message |-> <<>>]}]
    /\ UNCHANGED <<baseline, current>>

Next ==
    \/ \E results \in Results : CaptureBaseline(results) \/ Verify(results)
    \/ Unrunnable

-----------------------------------------------------------------------------
(* Properties *)

\* Two lines that differ at most in the numbers behind a colon, and there not
\* by more than a column: src/a.rs:4 and src/a.rs:7:13.
SameButForPlaces(a, b) ==
    /\ Len(a) = Len(b)
    /\ \A i \in DOMAIN a :
         /\ a[i].text = b[i].text
         /\ (a[i].numbers = <<>>) = (b[i].numbers = <<>>)

\* Hazard: old failures must not block a Task and new ones must, although
\* lines move, failures move from one command to another, and the output is
\* only text.  What passes prints no recognisable line that was not in the
\* baseline but for its place; what fails says all there is and has a line that
\* was not (openspec/specs/task-lifecycle/spec.md, evidence_gate.rs verify).
GateTolerates ==
    LET Old(line) == \E l \in Lines(baseline) : SameButForPlaces(l, line)
        new == {line \in Lines(current) : Recognised(line) /\ ~Old(line)}
    IN  verified > 0 =>
          \/ verdict.ok /\ new = {}
          \/ /\ ~verdict.ok /\ new # {}
             /\ {e.message : e \in verdict.errors} =
                   {line \in Lines(current) : Recognised(line)}
          \/ ~verdict.ok /\ \E e \in verdict.errors : e.kind = "Other"
=============================================================================
