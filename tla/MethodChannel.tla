---------------------------- MODULE MethodChannel ----------------------------
(***************************************************************************)
(* What the NV2A push buffer promises a driver: the methods it submits     *)
(* reach PGRAPH exactly once and in the order of submission.               *)
(***************************************************************************)
EXTENDS Naturals, Sequences

CONSTANT Method

VARIABLES
  sent,       \* the methods submitted, oldest first
  delivered   \* the methods that have reached PGRAPH

vars == <<sent, delivered>>

Init == sent = <<>> /\ delivered = <<>>

(* List t goes on from list s. *)
Continues(s, t) == Len(s) <= Len(t) /\ SubSeq(t, 1, Len(s)) = s

(* The driver adds methods. *)
Submit ==
  /\ Continues(sent, sent') /\ sent' # sent
  /\ delivered' = delivered

(* PGRAPH consumes the next methods. *)
Deliver ==
  /\ Continues(delivered, delivered') /\ delivered' # delivered
  /\ Continues(delivered', sent)
  /\ sent' = sent

Next == Submit \/ Deliver

Spec == Init /\ [][Next]_vars
=============================================================================
