----------------------------- MODULE MCDaemon -----------------------------
EXTENDS Daemon
============================================================================
