---- MODULE MCLogging ----
EXTENDS Logging
====
