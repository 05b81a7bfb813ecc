-------------------------- MODULE ProviderAdapters --------------------------
(***************************************************************************)
(* packages/providers/src/adapters.ts over base.ts and http.ts: what each  *)
(* wire protocol makes of what a provider sends back.  Pure functions.     *)
(***************************************************************************)
EXTENDS Naturals

CONSTANTS
    MaxUsage,           \* what one answer uses at most
    None

(* SERVER stands for every code the router and the probes treat alike:     *)
(* RATE_LIMIT, NETWORK, PROTOCOL_UNSUPPORTED and a throw of anything else; *)
(* VALIDATION stands for CONTEXT_LENGTH too.                               *)
Code ==
    {"EGRESS_DENIED", "CLASSIFICATION_DENIED", "SECRET_IN_REQUEST",
     "BUDGET_EXCEEDED", "AUTH", "VALIDATION", "SERVER"}

OpenAiFamily == {"openai-chat", "nvidia-nim", "local-openai-compatible"}

Protocol == OpenAiFamily \cup {"anthropic-messages", "generic-rest", "unsupported"}

(* A provider: its protocol, whether it has a credential, and whether a    *)
(* generic one is called with it.                                          *)
ProviderConfig == [protocol : Protocol, credential : BOOLEAN, keyed : BOOLEAN]

Finish == {"end_turn", "stop", "max_tokens", "length", "tool_calls", "tool_use",
           "content_filter", ""}

(* What happens to one call: whether the vault gives the key, the status   *)
(* that comes back ("none": not in time, not at all, or beyond the byte    *)
(* cap), and of its body whether it is JSON (and not null), has an object  *)
(* for choices[0], its text (with the probe's word or without), why it     *)
(* ended, and its usage, when both counts are numbers.                     *)
Reply ==
    [key : BOOLEAN, status : {"none", "ok", "denied", "rejected", "failed"},
     json : BOOLEAN, choice : BOOLEAN, text : {"pong", "other", None},
     finish : Finish, usage : 0 .. MaxUsage \cup {None}]

Failure(code) == [code |-> code, usage |-> None, pong |-> FALSE]

(* okResponse: whether it round-trips a probe, and its usage.              *)
OkResponse(reply, finish) ==
    [code |-> None, usage |-> reply.usage,
     pong |-> finish = "stop" /\ reply.text = "pong"]

-----------------------------------------------------------------------------
(* One request: the headers, the transport and the body.                   *)

(* authHeaders: keyless is an error of Anthropic's, and of a generic       *)
(* provider that is called with a key.                                     *)
RequiresKey(config) ==
    \/ config.protocol = "anthropic-messages"
    \/ config.protocol = "generic-rest" /\ config.keyed

UsesKey(config) == config.credential /\ (config.protocol = "generic-rest" => config.keyed)

Unauthorized(config, reply) ==
    \/ RequiresKey(config) /\ ~config.credential
    \/ UsesKey(config) /\ ~reply.key

StatusCode(status) ==
    IF status = "denied" THEN "AUTH"
    ELSE IF status = "rejected" THEN "VALIDATION"
    ELSE "SERVER"

(* json: the code it throws, or none.                                      *)
Fetch(config, reply) ==
    IF config.protocol = "unsupported" THEN "SERVER"
    ELSE IF Unauthorized(config, reply) THEN "AUTH"
    ELSE IF reply.status # "ok" THEN StatusCode(reply.status)
    ELSE IF ~reply.json THEN "SERVER"
    ELSE None

-----------------------------------------------------------------------------
(* The adapters' complete.                                                 *)

(* mapOpenAiFinish: what it does not know is an error, never a stop.       *)
OpenAiFinish(word) ==
    IF word \in {"stop", ""} THEN "stop"
    ELSE IF word \in {"length", "tool_calls"} THEN word
    ELSE "error"

OpenAi(reply) ==
    IF reply.choice THEN OkResponse(reply, OpenAiFinish(reply.finish))
    ELSE Failure("VALIDATION")

AnthropicStop(word) ==
    IF word \in {"end_turn", ""} THEN "stop"
    ELSE IF word = "max_tokens" THEN "length"
    ELSE IF word = "tool_use" THEN "tool_calls"
    ELSE "error"

(* An answer without content is an empty text.                             *)
Anthropic(reply) == OkResponse(reply, AnthropicStop(reply.finish))

(* The generic adapter reads no finish reason.                             *)
GenericRest(reply) ==
    IF reply.text = None THEN Failure("VALIDATION") ELSE OkResponse(reply, "stop")

(* createAdapter, and the call.                                            *)
Complete(config, reply) ==
    IF Fetch(config, reply) # None THEN Failure(Fetch(config, reply))
    ELSE IF config.protocol \in OpenAiFamily THEN OpenAi(reply)
    ELSE IF config.protocol = "anthropic-messages" THEN Anthropic(reply)
    ELSE GenericRest(reply)

=============================================================================
