--------------------------- MODULE MCPromptCache ---------------------------
(***************************************************************************)
(* An instance of PromptCache, and a claim of its comments that the code   *)
(* does not keep.                                                          *)
(***************************************************************************)
EXTENDS PromptCache

(* prompts/provider.py, _variables_fingerprint: "cache entries are bound   *)
(* to the exact input payload".  Whatever level answers a request, the     *)
(* prompt was rendered from the request's own variables.                   *)
PromptIsOwn ==
  \A r \in Requests :
    req[r].answer.prompt # NoPrompt =>
      req[r].answer.prompt.payload = req[r].payload
=============================================================================
