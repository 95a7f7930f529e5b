--------------------------- MODULE WebhookDelivery ---------------------------
(***************************************************************************)
(* What outbound webhooks promise of one endpoint: each event is queued    *)
(* for it at most once, and the notification so queued ends at most once:  *)
(* delivered, or failed when its automatic budget is spent. A failed one   *)
(* may still be delivered by a resend; retention, or the deletion of the   *)
(* endpoint, may forget it.                                                *)
(***************************************************************************)
CONSTANT Notifications

VARIABLE outcome

Outcomes == {"unqueued", "open", "delivered", "failed", "forgotten"}

Init == outcome = [n \in Notifications |-> "unqueued"]

\* What one notification may become.
Follows(was, becomes) ==
  \/ was = "unqueued" /\ becomes = "open"
  \/ was = "open" /\ becomes \in {"delivered", "failed", "forgotten"}
  \/ was = "failed" /\ becomes \in {"delivered", "forgotten"}
  \/ was = "delivered" /\ becomes = "forgotten"

\* A step of the outbox moves one notification, or the retention sweep and a
\* deletion of the endpoint forget several.
Next ==
  \/ \E n \in Notifications, new \in Outcomes :
       /\ Follows(outcome[n], new)
       /\ outcome' = [outcome EXCEPT ![n] = new]
  \/ \E gone \in SUBSET {n \in Notifications : outcome[n] # "unqueued"} :
       outcome' = [n \in Notifications |-> IF n \in gone THEN "forgotten" ELSE outcome[n]]

Spec == Init /\ [][Next]_outcome
=============================================================================
