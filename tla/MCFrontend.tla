----------------------------- MODULE MCFrontend -----------------------------
(* The two parts of the frontend, which share nothing, next to each other: *)
(* one moves while the other is where it started.                          *)
EXTENDS Webhook, Catalog

CONSTANTS a1, s1, s2

MCAgentOf == [s \in Session |-> a1]

FrontendInit == WebhookInit /\ CatalogInit

FrontendNext ==
    \/ WebhookNext /\ CatalogInit /\ UNCHANGED catalogVars
    \/ CatalogNext /\ WebhookInit /\ UNCHANGED webhookVars

FrontendSpec ==
    FrontendInit /\ [][FrontendNext]_<<webhookVars, catalogVars>> /\ WebhookFairness

=============================================================================
