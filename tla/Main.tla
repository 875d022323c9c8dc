-------------------------------- MODULE Main --------------------------------
(***************************************************************************)
(* The program's two front ends (crates/opca-cli/src/main.rs): the         *)
(* terminal interface (FrontEnd) over the real Orchestrator, or with       *)
(* --mock the line-oriented one (Repl) over the mock.                      *)
(***************************************************************************)
EXTENDS FrontEnd

CONSTANTS Line, TaskIds, ChainIds, Driven, MaxDriven

ASSUME MainAssumption ==
    /\ {MaxTyped, MaxPieces, MaxTrouble, MaxDriven} \subseteq Nat
    /\ TaskIds \in Seq(ToSet(TaskIds)) /\ ChainIds \in Seq(ToSet(ChainIds))
    /\ IsInjective(TaskIds) /\ IsInjective(ChainIds)
    /\ MaxTyped <= Len(TaskIds) /\ MaxTyped <= Len(ChainIds)

VARIABLES
    mock,        \* the argument --mock
    reader, input, looping, exited, notices, tasks, chains, entered, driven,
    delivered, settled, stopped

replVars == <<reader, input, looping, exited, notices, tasks, chains, entered, driven,
              delivered, settled, stopped>>

Repl == INSTANCE Repl

\* The argument chooses one front end; the other is never started.
MainInit == mock \in BOOLEAN /\ Init /\ Repl!Init /\ (mock \/ reader = "absent")

MainNext ==
    /\ UNCHANGED mock
    /\ \/ mock /\ Repl!Next /\ UNCHANGED vars
       \/ ~mock /\ Next /\ UNCHANGED replVars

MainSpec ==
    /\ MainInit /\ [][MainNext]_<<mock, vars, replVars>>
    /\ Fairness /\ Repl!Fairness

-----------------------------------------------------------------------------
\* A delivery is accepted or rejected once.
SettledOnce == Repl!SettledOnce
\* With --mock, /quit and the end of the input end the program.
QuitEnds == Repl!QuitEnds
\* With --mock, Control-C ends the program.
CtrlCExits == Repl!CtrlCExits
=============================================================================
