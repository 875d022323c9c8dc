------------------------------- MODULE Chains -------------------------------
(***************************************************************************)
(* What the user is promised of continuation chains: a chain rolls, at     *)
(* most as often as its iteration limit says, until it comes to rest, and  *)
(* then it rests for good with the reason it came to rest for.             *)
(*                                                                         *)
(* This is the abstract specification of Continuation.                     *)
(***************************************************************************)
EXTENDS Naturals

CONSTANTS Chains, Reason

VARIABLES
    state,   \* "unborn", "rolling" or the reason it rests for
    left     \* iterations the chain may still ask for

cvars == <<state, left>>

CInit ==
    /\ state = [c \in Chains |-> "unborn"]
    /\ left = [c \in Chains |-> 0]

Others(c) == \A d \in Chains \ {c} : state'[d] = state[d] /\ left'[d] = left[d]

Begin(c) ==
    /\ state[c] = "unborn" /\ state'[c] = "rolling"
    /\ left'[c] \in Nat
    /\ Others(c)

Push(c) ==
    /\ state[c] = "rolling" /\ state'[c] = "rolling"
    /\ left[c] > 0 /\ left'[c] = left[c] - 1
    /\ Others(c)

\* One command may stop several chains.
Rest ==
    /\ left' = left
    /\ \A c \in Chains :
          state'[c] # state[c] => state[c] = "rolling" /\ state'[c] \in Reason

CNext == Rest \/ \E c \in Chains : Begin(c) \/ Push(c)

CSpec == CInit /\ [][CNext]_cvars

=============================================================================
