------------------------------ MODULE Answers -------------------------------
(***************************************************************************)
(* From a document to what is answered from it: its text is cut and given   *)
(* to a model (Passages), and a client uses the read tools (Tools).  The    *)
(* parts share no state that changes, so a behaviour is about one of them.  *)
(***************************************************************************)
EXTENDS Passages, Tools

AnswerInit ==
  \/ Init /\ NoPaging /\ NoReading /\ NoSearching
  \/ NoChunking /\ NoInference /\ ToolInit

AnswerNext ==
  \/ Next /\ UNCHANGED toolVars
  \/ ToolNext /\ UNCHANGED vars

AnswerSpec == AnswerInit /\ [][AnswerNext]_<<vars, toolVars>>
=============================================================================
