----------------------------- MODULE Inference ------------------------------
(***************************************************************************)
(* The calls of the inference backend: `embed_texts`, `rerank_until` and    *)
(* `generate` of the llama.cpp backend, and the default `rerank_until` of a *)
(* backend that scores a whole batch at once.                               *)
(*                                                                         *)
(* The engine ends the process when it is given more tokens than a batch    *)
(* holds, or tokens at positions that do not follow those its context       *)
(* already holds; no error can be caught.  A text is its length in bytes    *)
(* and in tokens, the first of which is BOS.  Loading and releasing models  *)
(* is in Server.                                                            *)
(***************************************************************************)
EXTENDS Integers, Sequences

CONSTANTS
  EmbedContext, RerankContext, GenerateContext,  \* tokens per context
  TokenMargin,   \* EMBED_TOKEN_MARGIN
  MaxExpansion,  \* MAX_EXPANSION_TOKENS
  BytesPerToken, \* what `generate` assumes before it tokenizes
  MaxBytes, MaxTexts

ASSUME ContextsType == /\ {EmbedContext, RerankContext, GenerateContext} \subseteq Nat
                       /\ TokenMargin \in 0 .. EmbedContext
                       /\ MaxExpansion \in Nat /\ BytesPerToken \in Nat \ {0}
ASSUME InputsType == MaxBytes \in Nat /\ MaxTexts \in Nat

VARIABLES
  calling,  \* the call, and how it ended
  inputs,   \* the texts, as [bytes, tokens]
  done,     \* how many were handled
  answer,   \* what is returned: for each output the input it is about
  kv,       \* positions the current context holds
  aborted,  \* the engine ended the process
  written,  \* tokens generated
  hyde,     \* "no", "open" or "closed": the hyde: line of the text so far
  expired, late  \* the deadline has passed; documents scored since

inferVars == <<calling, inputs, done, answer, kv, aborted, written, hyde, expired, late>>

\* A character may take several tokens, so tokens are bounded by the bytes only.
Texts == {t \in [bytes : 0 .. MaxBytes, tokens : 1 .. MaxBytes + 1] : t.tokens <= t.bytes + 1}

Calls == {"embed", "rerank", "score", "default", "prompt", "sample"}
Ends  == {"idle", "answered", "none", "failed"}

InferInit ==
  /\ calling \in {"embed", "rerank", "default", "prompt"}
  /\ inputs \in UNION {[1 .. n -> Texts] : n \in 0 .. (IF calling = "prompt" THEN 1 ELSE MaxTexts)}
  /\ calling = "prompt" => inputs # <<>>
  /\ done = 0 /\ answer = <<>> /\ kv = 0 /\ aborted = FALSE
  /\ written = 0 /\ hyde = "no"
  /\ expired = FALSE /\ late = 0

NoInference ==
  /\ calling = "idle" /\ inputs = <<>>
  /\ done = 0 /\ answer = <<>> /\ kv = 0 /\ aborted = FALSE
  /\ written = 0 /\ hyde = "no"
  /\ expired = FALSE /\ late = 0

AtMost(n, limit) == IF n < limit THEN n ELSE limit

\* The engine takes n tokens from position `from` into a context of `size`.
Accepts(n, from, size) == n <= size /\ from = kv /\ from + n <= size
Encodes(n, size)       == n <= size

-----------------------------------------------------------------------------
(* embed: an encoder keeps no positions, so one context serves every text. *)

embed_limit == EmbedContext - TokenMargin

Encoded(t) == AtMost(t.tokens, embed_limit)

EmbedNext ==
  /\ calling = "embed" /\ ~aborted
  /\ done < Len(inputs)
  /\ aborted' = ~Encodes(Encoded(inputs[done + 1]), EmbedContext)
  /\ done' = done + 1
  /\ answer' = Append(answer, done + 1)
  /\ UNCHANGED <<calling, inputs, kv, written, hyde, expired, late>>

\* The engine reports an error, or vectors of another dimension.
EngineFails ==
  /\ calling \in {"embed", "score", "prompt", "sample"} /\ ~aborted
  /\ calling' = "failed"
  /\ answer' = <<>>
  /\ UNCHANGED <<inputs, done, kv, aborted, written, hyde, expired, late>>

-----------------------------------------------------------------------------
(* rerank: a decoder, with a fresh context for each pair.                   *)

rerank_limit == IF RerankContext < TokenMargin THEN 0 ELSE RerankContext - TokenMargin

RerankNext ==
  /\ calling = "rerank"
  /\ done < Len(inputs)
  /\ IF expired
     THEN calling' = "none" /\ answer' = <<>>
     ELSE calling' = "score" /\ UNCHANGED answer
  /\ kv' = 0
  /\ UNCHANGED <<inputs, done, aborted, written, hyde, expired, late>>

ScorePair ==
  LET n == AtMost(inputs[done + 1].tokens, rerank_limit) IN
  /\ calling = "score" /\ ~aborted
  /\ aborted' = ~Accepts(n, 0, RerankContext)
  /\ kv' = kv + n
  /\ done' = done + 1
  /\ answer' = Append(answer, done + 1)
  /\ late' = IF expired THEN late + 1 ELSE late
  /\ calling' = "rerank"
  /\ UNCHANGED <<inputs, written, hyde, expired>>

\* The default checks the deadline once, then scores every document.
RerankDefault ==
  /\ calling = "default"
  /\ IF expired
     THEN calling' = "none" /\ UNCHANGED <<done, answer>>
     ELSE /\ calling' = "answered"
          /\ done' = Len(inputs)
          /\ answer' = [i \in 1 .. Len(inputs) |-> i]
  /\ UNCHANGED <<inputs, kv, aborted, written, hyde, expired, late>>

Answered ==
  /\ calling \in {"embed", "rerank"} /\ ~aborted
  /\ done = Len(inputs)
  /\ calling' = "answered"
  /\ UNCHANGED <<inputs, done, answer, kv, aborted, written, hyde, expired, late>>

Expire ==
  /\ calling \in {"rerank", "score", "default"}
  /\ ~expired /\ expired' = TRUE
  /\ UNCHANGED <<calling, inputs, done, answer, kv, aborted, written, hyde, late>>

-----------------------------------------------------------------------------
(* generate: the prompt in one batch, then one token at a time.            *)

TooLong(n) == n + MaxExpansion > GenerateContext

\* Variant: the estimate is trusted.
estimate_only(t) == TooLong(t.bytes \div BytesPerToken)

Refused(t) == TooLong(t.bytes \div BytesPerToken) \/ TooLong(t.tokens)

Prompt ==
  LET t == inputs[1] IN
  /\ calling = "prompt" /\ ~aborted
  /\ IF Refused(t)
     THEN calling' = "failed" /\ UNCHANGED <<kv, aborted>>
     ELSE /\ calling' = "sample"
          /\ aborted' = ~Accepts(t.tokens, 0, GenerateContext)
          /\ kv' = t.tokens
  /\ UNCHANGED <<inputs, done, answer, written, hyde, expired, late>>

Position(t, step) == t.tokens + step

\* What a piece of text does to the hyde: line.
Pieces(h) ==
  CASE h = "no"     -> {"no", "open", "closed"}
    [] h = "open"   -> {"open", "closed"}
    [] h = "closed" -> {"closed"}

EndExpansion(h) == h = "closed"

Sample ==
  /\ calling = "sample" /\ ~aborted
  /\ written < MaxExpansion
  /\ \E h \in Pieces(hyde) :
       /\ hyde' = h
       /\ written' = written + 1
       /\ IF EndExpansion(h)
          THEN calling' = "answered" /\ answer' = <<1>> /\ UNCHANGED <<kv, aborted>>
          ELSE /\ aborted' = ~Accepts(1, Position(inputs[1], written), GenerateContext)
               /\ kv' = kv + 1
               /\ UNCHANGED <<calling, answer>>
  /\ UNCHANGED <<inputs, done, expired, late>>

\* An end-of-generation token, or the cap.
EndOfText ==
  /\ calling = "sample" /\ ~aborted
  /\ calling' = "answered"
  /\ answer' = <<1>>
  /\ UNCHANGED <<inputs, done, kv, aborted, written, hyde, expired, late>>

InferNext ==
  \/ EmbedNext \/ EngineFails
  \/ RerankNext \/ ScorePair \/ RerankDefault \/ Answered \/ Expire
  \/ Prompt \/ Sample \/ EndOfText

-----------------------------------------------------------------------------
(* Properties.                                                             *)

\* The process survives every input: no text is longer than its batch, and no
\* token is decoded at a position that does not follow the last.
EngineIsNeverAborted == ~aborted

\* An answer is whole: one vector or score per input, in the order of the
\* inputs, or none at all.
AnswersAreWhole ==
  /\ calling = "answered" /\ inputs # <<>> /\ done > 0 => answer = [i \in 1 .. Len(inputs) |-> i]
  /\ calling \in {"none", "failed"} => answer = <<>>

\* A deadline that passes while documents are scored costs one more document
\* at most.
DeadlineCostsOneDocument == late <= 1

\* A call to a model never aborts the process, and is answered in full, in
\* order and in time, or not at all.
CallsAreWhole ==
  /\ calling \in Calls \cup Ends
  /\ done \in 0 .. Len(inputs) /\ Len(answer) <= Len(inputs)
  /\ kv \in Nat /\ written \in 0 .. MaxExpansion
  /\ EngineIsNeverAborted /\ AnswersAreWhole /\ DeadlineCostsOneDocument
=============================================================================
