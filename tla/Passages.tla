------------------------------ MODULE Passages ------------------------------
(***************************************************************************)
(* From a document to what a model is given: the document is cut into       *)
(* chunks (Chunking), and texts of any length are given to a model within   *)
(* its window (Inference).  What a chunk holds does not matter to a model   *)
(* and a call does not come back to the text, so a behaviour is about one   *)
(* or the other.                                                            *)
(***************************************************************************)
EXTENDS Chunking, Inference

vars == <<chunkVars, inferVars>>

Init ==
  \/ ChunkInit /\ NoInference
  \/ NoChunking /\ InferInit

Next ==
  \/ ChunkNext /\ UNCHANGED inferVars
  \/ InferNext /\ UNCHANGED chunkVars

Spec == Init /\ [][Next]_vars
=============================================================================
