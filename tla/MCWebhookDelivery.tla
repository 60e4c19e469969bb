------------------------- MODULE MCWebhookDelivery --------------------------
(***************************************************************************)
(* WebhookDelivery on one or two subscriptions, the worker and a request.  *)
(***************************************************************************)
EXTENDS WebhookDelivery

CONSTANTS hook, hook2, w, d, e, o
=============================================================================
