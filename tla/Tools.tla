------------------------------- MODULE Tools --------------------------------
(***************************************************************************)
(* The read tools: a client that pages through `search` (Paging), reads     *)
(* with `get` and `multi_get` (Reading), or asks for what is near           *)
(* (Neighbours).  The calls share nothing but the index, so a behaviour is  *)
(* that of one client.                                                      *)
(***************************************************************************)
EXTENDS Paging, Reading, Neighbours

toolVars == <<pageVars, readVars, nearVars>>

ToolInit ==
  \/ PageInit /\ NoReading /\ NoSearching
  \/ NoPaging /\ ReadInit /\ NoSearching
  \/ NoPaging /\ NoReading /\ NearInit

ToolNext ==
  \/ PageNext /\ UNCHANGED <<readVars, nearVars>>
  \/ ReadNext /\ UNCHANGED <<pageVars, nearVars>>
  \/ NearNext /\ UNCHANGED <<pageVars, readVars>>

ToolSpec == ToolInit /\ [][ToolNext]_toolVars
=============================================================================
