----------------------------- MODULE StepLadder -----------------------------
(***************************************************************************)
(* What the handoffs of a sharded workflow promise: the steps form a       *)
(* ladder.  A session works on a step only when the step below has been    *)
(* handed over, by whomever, and what has been handed over never grows by  *)
(* more than one rung.  Sessions may repeat steps; none may skip one.      *)
(***************************************************************************)
EXTENDS Naturals

CONSTANTS Sessions, Last

VARIABLES reached,   \* highest step handed over, 0 at first
          climbing   \* [Sessions -> 0..Last]: the step under way, 0 for none

Init == reached = 0 /\ climbing = [s \in Sessions |-> 0]

(* Start or go on at any step whose predecessor has been handed over.      *)
Begin(s) ==
  \E k \in 1..Last :
    /\ k <= reached + 1
    /\ climbing' = [climbing EXCEPT ![s] = k]
    /\ UNCHANGED reached

HandOver(s) ==
  /\ climbing[s] # 0
  /\ reached' = IF climbing[s] > reached THEN climbing[s] ELSE reached
  /\ \/ UNCHANGED climbing
     \/ climbing' = [climbing EXCEPT ![s] = 0]

Leave(s) == climbing' = [climbing EXCEPT ![s] = 0] /\ UNCHANGED reached

Next == \E s \in Sessions : Begin(s) \/ HandOver(s) \/ Leave(s)

Spec == Init /\ [][Next]_<<reached, climbing>>
=============================================================================
