----------------------------- MODULE MCSignalLink -----------------------------
(* An instance of SignalLink for TLC: two breaks, two unread items before a send waits. *)
EXTENDS SignalLink, TLC
===============================================================================
