----------------------------- MODULE MCIndexLock -----------------------------
(* Small instances of IndexLock.                                           *)
EXTENDS IndexLock

\* Two processes of one machine and one of another.
TwoHostsOf == [p \in Proc |-> IF p = "p3" THEN "h2" ELSE "h1"]

\* Distinct pids.
OwnPids    == [p \in Proc |-> CASE p = "p1" -> 1 [] p = "p2" -> 2 [] OTHER -> 3]
=============================================================================
