--------------------------- MODULE ProviderSafety ---------------------------
(* What the provider chain promises.                                       *)
EXTENDS ProviderChain

(* The answers on their way to a budget's ledger.                          *)
InFlight(b) ==
    {c \in Callers : pc[c] \in {"sent", "record"} /\ TargetOf(c) \in Covers[b]}

(* The guard reads the spend before the request and the usage is recorded  *)
(* after the answer, so requests that passed the guard together all count  *)
(* after it.  The overdraft of a hard limit is still bounded: by what one  *)
(* answer uses, times the callers.                                         *)
OverdraftBound ==
    \A b \in HardBlock :
        spend[b] < Limit[b] + MaxUsage * Cardinality(Callers)

(* Nothing is sent to a provider that is not cleared for the context or    *)
(* whose endpoint is denied, and no message that looks like a secret is    *)
(* sent at all, by whichever of the router and the probes and however the  *)
(* health cache or the hops got there.                                     *)
CleanSends ==
    \A c \in Callers : pc[c] = "sent" =>
        /\ Provider(c) \in call[c].cleared \cap Endpoints
        /\ ~call[c].secret

(* A request makes one provider answer.  It makes another answer only when *)
(* recording an answer's usage failed and the answer was thrown away.      *)
PaidOncePerFault == \A c \in Callers : call[c].answers <= 1 + faults

(* A model is verified only if it has answered itself, and listed as       *)
(* available only if its provider has answered: a passed or cached health  *)
(* probe is not enough.  That the provider answered for this very model    *)
(* cannot be said: the router asks every candidate for the model the       *)
(* request names (router.ts:106) and marks the candidate's own row.        *)
AvailableHasAnswered ==
    /\ \A m \in verified : <<ProviderOf[m], NameOf[m]>> \in answered
    /\ \A m \in Models : status[m] = "available" =>
         \E name \in Names : <<ProviderOf[m], name>> \in answered

Cleared(c) == {i \in DOMAIN Chain : ProviderOf[Chain[i]] \in call[c].cleared}

Tried(c) == {i \in Cleared(c) : i < call[c].pos}

(* A request gives up only after it tried every candidate cleared for it,  *)
(* or as many of them as its hop budget allows: candidates it passed over  *)
(* do not count as tried and are not charged to the budget.                *)
GivesUpLast ==
    [][\A c \in Callers :
         pc[c] = "next" /\ pc'[c] = "idle" /\ faults' = faults
         => \/ Cardinality(Tried(c)) = call[c].maxHops
            \/ Tried(c) = Cleared(c)]_vars

(* What a request has left: six steps for a candidate, the failure of the  *)
(* ledger after its answer included, and those of the step it is at.       *)
Stage ==
    [next |-> 8, health |-> 7, probing |-> 6, gate |-> 5, sent |-> 4,
     record |-> 3, reply |-> 2, status |-> 1, idle |-> 0]

Cost(step, request) ==
    IF step = "idle" THEN 0
    ELSE Stage[step]
         + IF request.kind = "route" THEN 6 * (Len(Chain) + 1 - request.pos) ELSE 0

StepsLeft(c) == Cost(pc[c], call[c])

(* Why a request ends, whatever providers, budgets and the health cache do *)
(* meanwhile: every step lowers what it has left, no other caller and no   *)
(* window adds to it, and it starts with no more than the chain allows.    *)
RequestsShrink ==
    [][\A c \in Callers :
         /\ StepsLeft(c)' \in 0 .. 6 * Len(Chain) + 8
         /\ pc[c] # "idle" /\ (pc'[c] # pc[c] \/ call'[c] # call[c])
            => StepsLeft(c)' < StepsLeft(c)]_vars
=============================================================================
