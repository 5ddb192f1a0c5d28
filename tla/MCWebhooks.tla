----------------------------- MODULE MCWebhooks -----------------------------
(***************************************************************************)
(* What must eventually happen to a webhook, out and in: a small instance  *)
(* of WebhookDelivery and one of WebhookLink, side by side.  A behaviour   *)
(* belongs to one of them; the other rests in an initial state.            *)
(***************************************************************************)
EXTENDS WebhookDelivery, TLC

CONSTANTS r1, k1

VARIABLES part,
          link, rec, cmd, mirrored, dl, receipts, rejected, handler, budget

Handlers ==
    {"A" :> "plain" @@ "B" :> "plain", "A" :> "plain" @@ "B" :> "cascade",
     "A" :> "none" @@ "B" :> "cascade"}

\* Two instances, one write, two pairings, a rotation, a fault.
Link == INSTANCE WebhookLink WITH
    A <- "A", B <- "B", Inbound <- {"A", "B"}, MaxWrites <- 1, MaxPairs <- 2,
    MaxRotations <- 1, MaxFaults <- 1, MaxDeliveries <- 3, MaxAttempts <- 2,
    RejectLimit <- 1, ep <- link

linkVars == <<link, rec, cmd, mirrored, dl, receipts, rejected, handler, budget>>

AllInit ==
    /\ Init /\ Link!Init
    /\ \/ part = "delivery" /\ handler["A"] = handler["B"]
       \/ part = "link"

AllNext ==
    /\ UNCHANGED part
    /\ \/ part = "delivery" /\ Next /\ UNCHANGED linkVars
       \/ part = "link" /\ Link!Next /\ UNCHANGED vars

\* In its initial state neither part has an action that fairness would demand.
AllSpec == AllInit /\ [][AllNext]_<<part, vars, linkVars>> /\ Fairness /\ Link!Fairness

\* WebhookLink: an accepted receipt whose task was enqueued settles.
ReceiptSettles == Link!ReceiptSettles
=============================================================================
