--------------------------- MODULE MCWebhookWorker ---------------------------
EXTENDS WebhookWorker
=============================================================================
