----------------------------- MODULE MCProvider -----------------------------
(* Instances of ProviderChain for TLC: three providers, a model each, tried*)
(* in order; a hard token limit and a hard USD limit on the first one,     *)
(* whose cost rates are not known; the last one's endpoint may be denied.  *)
EXTENDS ProviderSafety, TLC

CONSTANTS anthropic, ollama, lan, claude, llama, qwen, tokens, usd,
          sonnet, coder

CallerSymmetry == Permutations(Callers)

TheProviderOf == claude :> anthropic @@ llama :> ollama @@ qwen :> lan

TheChain == <<claude, llama, qwen>>

TheNameOf == claude :> sonnet @@ llama :> coder @@ qwen :> coder

(* One of a provider, one of a model.                                      *)
TheCovers == tokens :> {anthropic} \X Names @@ usd :> {<<anthropic, sonnet>>}

(* The last candidate is passed over, and the second one is asked for the  *)
(* model of the first; the first one is; a secret, and no hop left after   *)
(* the first candidate.                                                    *)
TheInputs ==
    {[name |-> sonnet, cleared |-> {anthropic, ollama}, secret |-> FALSE,
      maxHops |-> 3],
     [name |-> coder, cleared |-> {ollama, lan}, secret |-> FALSE, maxHops |-> 2],
     [name |-> sonnet, cleared |-> {anthropic, ollama, lan}, secret |-> TRUE,
      maxHops |-> 1]}

(* The last one is called with a key it does not have.                     *)
TheConfig ==
    anthropic :> [protocol |-> "anthropic-messages", credential |-> TRUE, keyed |-> TRUE]
    @@ ollama :> [protocol |-> "local-openai-compatible", credential |-> FALSE, keyed |-> FALSE]
    @@ lan :> [protocol |-> "generic-rest", credential |-> FALSE, keyed |-> TRUE]

Good == [key |-> TRUE, status |-> "ok", json |-> TRUE, choice |-> TRUE,
         text |-> "pong", finish |-> "", usage |-> MaxUsage]

TheReplies ==
    {Good} \cup {[Good EXCEPT !.key = FALSE], [Good EXCEPT !.json = FALSE],
     [Good EXCEPT !.choice = FALSE], [Good EXCEPT !.text = None],
     [Good EXCEPT !.finish = "stop"], [Good EXCEPT !.finish = "max_tokens"]}
    \cup {[Good EXCEPT !.status = s] : s \in {"none", "denied", "rejected", "failed"}}
    \cup {[Good EXCEPT !.usage = u] : u \in 0 .. MaxUsage \cup {None}}

TheLimit == tokens :> 1 @@ usd :> 1
=============================================================================
