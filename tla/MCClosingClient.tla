-------------------------- MODULE MCClosingClient --------------------------
\* ClosingClient for TLC: its .cfg gives the constants their values.
EXTENDS ClosingClient
============================================================================
