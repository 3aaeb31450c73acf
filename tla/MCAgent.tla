------------------------------ MODULE MCAgent ------------------------------
(***************************************************************************)
(* Agent for TLC with two workers and two runtime polls: a bound of its own*)
(* on the system polls, which only touch their own part of a snapshot.     *)
(***************************************************************************)
EXTENDS Agent

\* One successful collection of the system metrics, and any number of failed ones.
OneSystemPoll == sysPolls <= 1
=============================================================================
