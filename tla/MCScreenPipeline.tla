-------------------------- MODULE MCScreenPipeline --------------------------
(* Instances of ScreenPipeline for TLC: each session under an id of its    *)
(* own, which is what the dashboard does, or two viewers opening the same  *)
(* one.                                                                    *)
EXTENDS ScreenPipeline, Naturals, TLC

OwnIds == [s \in Sessions |-> s]
SharedIds == CHOOSE f \in [Sessions -> Ids] :
               /\ \E s, t \in Sessions : s # t /\ f[s] = f[t]
               /\ \E s, t \in Sessions : f[s] # f[t]

=============================================================================
