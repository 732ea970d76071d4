-------------------------- MODULE MCWebhookDelivery -------------------------
(***************************************************************************)
(* Instance of WebhookDelivery for TLC.                                    *)
(***************************************************************************)
EXTENDS WebhookDelivery
=============================================================================
