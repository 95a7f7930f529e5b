---------------------------- MODULE MCWebhookFeed ----------------------------
EXTENDS WebhookFeed, TLC

CONSTANTS d1, d2

MCDispatchers == {d1, d2}
Symmetry == Permutations(MCDispatchers)
=============================================================================
