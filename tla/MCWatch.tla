------------------------------- MODULE MCWatch -------------------------------
(* Instances of Watch for TLC. *)
EXTENDS Watch

\* A command and two of: an edit, a change of access, a signal, a kill, a
\* collection removed or added.
WatchBudget == [command |-> 1, trouble |-> 2]
=============================================================================
