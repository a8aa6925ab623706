----------------------------- MODULE BoundedRun -----------------------------
(***************************************************************************)
(* What GoldenBoy.run promises whatever it routes to and whatever the      *)
(* providers answer: each provider call follows a governance decision of   *)
(* its own, there are never more than "limit" of them, and the run ends.   *)
(***************************************************************************)
EXTENDS Naturals

CONSTANT Limits          \* the values max_attempts may have

VARIABLES limit, stage, tries

vars == <<limit, stage, tries>>

Init == limit \in Limits /\ stage = "deciding" /\ tries = 0

Permit == /\ stage = "deciding" /\ tries < limit
          /\ stage' = "permitted"
          /\ UNCHANGED <<limit, tries>>

Try == /\ stage = "permitted"
       /\ stage' = "judging"
       /\ tries' = tries + 1
       /\ UNCHANGED limit

Again == /\ stage = "judging" /\ tries < limit
         /\ stage' = "deciding"
         /\ UNCHANGED <<limit, tries>>

End == /\ stage # "ended"
       /\ stage' = "ended"
       /\ UNCHANGED <<limit, tries>>

Next == Permit \/ Try \/ Again \/ End

Safety == Init /\ [][Next]_vars

Spec == Safety /\ WF_vars(Next)
=============================================================================
