---------------------------- MODULE MCLLMGateway ----------------------------
(* A chat and an analysis of the same prompt, a chat that names the        *)
(* fallback as its model, and a stream.                                    *)
EXTENDS LLMGateway, TLC

CONSTANTS r1, r2, r3, r4

MCRequests == {r1, r2, r3, r4}
Chat(caller, user, model) ==
    [caller |-> caller, user |-> user, messages |-> "prompt", model |-> model,
     chat |-> TRUE, cache |-> TRUE, stream |-> FALSE]
MCAsk ==
    r1 :> Chat("brain", "ann", "qwen")
    @@ r2 :> Chat("brain", "ann", "gpt-4o")
    @@ r3 :> [Chat("brain", "ann", "qwen") EXCEPT !.chat = FALSE]
    @@ r4 :> [Chat("brain", "ann", "qwen") EXCEPT !.stream = TRUE, !.cache = FALSE]
MCLimits == "caller" :> 3 @@ "user" :> 2
=============================================================================
