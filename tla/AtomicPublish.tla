---------------------------- MODULE AtomicPublish ----------------------------
(***************************************************************************)
(* What TransactionalOutput (src/src/io.rs) promises its callers: each     *)
(* output is either published at its destination in one step, whole, or    *)
(* not at all. There are no temporary files, sequence numbers or buffers   *)
(* here.                                                                   *)
(***************************************************************************)
EXTENDS Naturals

CONSTANTS
    Output, Destination, Stdio, DestinationOf,
    Original, Missing

VARIABLES
    outcome,   \* outcome[o]
    shown,     \* shown[d]: what a reader of d finds
    mayShow,   \* mayShow[d]: what a reader may find after a power loss
    sent       \* sent[o]: how much of o stdout received

vars == <<outcome, shown, mayShow, sent>>

Outcome == {"working", "sending", "published", "ok", "err", "killed"}
Ended == {"ok", "err", "killed"}

Init ==
    /\ outcome = [o \in Output |-> "working"]
    /\ shown \in [Destination -> {Original, Missing}]
    /\ mayShow = [d \in Destination |-> {shown[d]}]
    /\ sent = [o \in Output |-> "nothing"]

Become(o, result) == outcome' = [outcome EXCEPT ![o] = result]

Publish(o) ==
    /\ outcome[o] = "working"
    /\ DestinationOf[o] # Stdio
    /\ shown' = [shown EXCEPT ![DestinationOf[o]] = o]
    /\ mayShow' = [mayShow EXCEPT ![DestinationOf[o]] = @ \cup {o}]
    /\ Become(o, "published")
    /\ UNCHANGED sent

\* What stdout has of o can only grow, from nothing to part to whole, and may
\* stop anywhere.
Send(o) ==
    /\ outcome[o] \in {"working", "sending"}
    /\ DestinationOf[o] = Stdio
    /\ \E amount \in {"nothing", "part", "whole"} :
          /\ sent[o] = "whole" => amount = "whole"
          /\ sent[o] = "part" => amount # "nothing"
          /\ sent' = [sent EXCEPT ![o] = amount]
    /\ Become(o, "sending")
    /\ UNCHANGED <<shown, mayShow>>

SendEnds(o) ==
    /\ outcome[o] = "sending"
    /\ sent[o] = "whole"
    /\ Become(o, "published")
    /\ UNCHANGED <<shown, mayShow, sent>>

Succeed(o) ==
    /\ outcome[o] = "published"
    /\ Become(o, "ok")
    /\ UNCHANGED <<shown, mayShow, sent>>

Fail(o) ==
    /\ outcome[o] \in {"working", "sending"}
    /\ Become(o, "err")
    /\ UNCHANGED <<shown, mayShow, sent>>

Die(victims) ==
    outcome' = [o \in Output |-> IF o \in victims /\ outcome[o] \notin Ended
                                   THEN "killed" ELSE outcome[o]]

Kill == (\E victims \in SUBSET Output : Die(victims)) /\ UNCHANGED <<shown, mayShow, sent>>

PowerLoss ==
    /\ \E victims \in SUBSET Output : Die(victims)
    /\ shown' \in [Destination -> Output \cup {Original, Missing}]
    /\ \A d \in Destination : shown'[d] \in mayShow[d]
    /\ mayShow' = [d \in Destination |-> {shown'[d]}]
    /\ UNCHANGED sent

Next ==
    \/ \E o \in Output : Publish(o) \/ Send(o) \/ SendEnds(o) \/ Succeed(o) \/ Fail(o)
    \/ Kill
    \/ PowerLoss

Spec == Init /\ [][Next]_vars
=============================================================================
