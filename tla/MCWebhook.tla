------------------------------ MODULE MCWebhook -----------------------------
(* Model-checking instance of Webhook: two deprecated fields, two names.   *)
EXTENDS Webhook

CONSTANTS f1, f2

MCFields == {f1, f2}

MCNames == {"x", "y"}
=============================================================================
