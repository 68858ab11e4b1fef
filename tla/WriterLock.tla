----------------------------- MODULE WriterLock -----------------------------
(***************************************************************************)
(* What the index lock promises to the commands that change an index,      *)
(* whatever is on disk: they come one at a time, a process that has ended   *)
(* never writes again, and nobody ends the writing of another.  Only a      *)
(* forced or badly timed `rqmd unlock` ends the promise.                    *)
(***************************************************************************)

CONSTANT Proc

VARIABLES
  holders,   \* the processes inside an index-mutating command
  ended,     \* the processes that have ended
  broken     \* the lock of a live holder was removed

vars == <<holders, ended, broken>>

Init == holders = {} /\ ended = {} /\ broken = FALSE

\* One at a time.
Acquire(p) ==
  /\ p \notin ended \cup holders
  /\ holders = {} \/ broken
  /\ holders' = holders \cup {p}
  /\ UNCHANGED <<ended, broken>>

Release(p) ==
  /\ p \in holders
  /\ holders' = holders \ {p}
  /\ UNCHANGED <<ended, broken>>

\* A kill or an exit releases whatever was held.
End(p) ==
  /\ p \notin ended
  /\ holders' = holders \ {p}
  /\ ended' = ended \cup {p}
  /\ UNCHANGED broken

Break ==
  /\ holders # {} /\ ~broken
  /\ broken' = TRUE
  /\ UNCHANGED <<holders, ended>>

Next == Break \/ \E p \in Proc : Acquire(p) \/ Release(p) \/ End(p)

Spec == Init /\ [][Next]_vars
=============================================================================
