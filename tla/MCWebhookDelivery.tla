------------------------ MODULE MCWebhookDelivery ------------------------
(* A small instance of WebhookDelivery. *)
EXTENDS WebhookDelivery

CONSTANTS r1, k1
=============================================================================
