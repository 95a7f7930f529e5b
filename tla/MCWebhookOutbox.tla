--------------------------- MODULE MCWebhookOutbox ---------------------------
EXTENDS WebhookOutbox, TLC

CONSTANTS n1, s1, s2

MCNotifications == {n1}
MCSenders == {s1, s2}
=============================================================================
