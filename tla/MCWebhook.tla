------------------------------ MODULE MCWebhook ------------------------------
(* Finite instances of Webhook for TLC. *)
EXTENDS Webhook
=============================================================================
