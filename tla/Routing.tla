------------------------------- MODULE Routing -------------------------------
(***************************************************************************)
(* packages/context/src/routing.ts: classifyTask, routeTask, escalate and  *)
(* debateVote.  Pure functions: no state.  Texts are what the patterns     *)
(* find in them; ids and choices are numbers in their lexicographic order. *)
(***************************************************************************)
EXTENDS Ordering, Sequences

CONSTANTS
    MaxCost,        \* bound: the highest price of a model
    Nothing         \* no price, no model, no verdict

ASSUME RoutingAssumption == MaxCost \in Nat /\ Nothing \notin Int

Risk == {"low", "medium", "high"}

Kind == {"code", "security", "ops", "docs"}

ClassRank == [public |-> 0, internal |-> 1, confidential |-> 2, restricted |-> 3]

(* What the patterns find in a text; each kind has one.                    *)
Signals == [kinds : SUBSET Kind, high : BOOLEAN, medium : BOOLEAN, code : BOOLEAN]

(* Anything else a row may say of its model is "retired" here.             *)
Usable == {"active", "available", "known"}

(* The shapes of what is asked: RouteInput before its task is classified,  *)
(* with a registry whose rows have an id each and name their provider.     *)
IsModel(m) ==
    /\ {m.id, m.context} \subseteq Nat
    /\ m.cost \in 0 .. MaxCost \cup {Nothing}
    /\ m.verified \in BOOLEAN /\ m.codeNamed \in BOOLEAN
    /\ m.status \in Usable \cup {"retired"}

IsProvider(p) ==
    p.enabled \in BOOLEAN /\ p.local \in BOOLEAN /\ p.clearance \in DOMAIN ClassRank

IsRegistry(i) ==
    /\ i.classification \in DOMAIN ClassRank
    /\ IsFiniteSet(i.models)
    /\ \A m \in i.models : IsModel(m) /\ IsProvider(i.providers[m.provider])
    /\ \A m, n \in i.models : m.id = n.id => m = n

IsInput(i) ==
    /\ i = [task |-> i.task, classification |-> i.classification,
            models |-> i.models, providers |-> i.providers]
    /\ i.task \in Signals
    /\ IsRegistry(i)

(* An answer of a debate: its fenced verdict, if it has a well-formed one, *)
(* and the choice words in it.                                             *)
Answer == [fenced : BOOLEAN, verdict : Nat \cup {Nothing}, words : SUBSET Nat]

KindOrder == <<"code", "security", "ops", "docs">>

(* classifyTask: of the kinds that are found the first, docs when none is. *)
Classify(s) ==
    LET found == {i \in DOMAIN KindOrder : KindOrder[i] \in s.kinds}
        kind == IF found = {} THEN "docs"
                ELSE KindOrder[CHOOSE i \in found : \A j \in found : i <= j]
    IN [kind |-> kind,
        risk |-> IF s.high THEN "high" ELSE IF s.medium THEN "medium" ELSE "low",
        mutating |-> s.medium \/ s.high,
        codeIntensive |-> s.code \/ kind = "code"]

-----------------------------------------------------------------------------
(* routeTask.  An input has the task's facts, the project's classification *)
(* and the registry: a set of models with different ids, and providers.    *)

(* A model without a price comes after every model with one.               *)
Cost(m) == IF m.cost = Nothing THEN MaxCost + 1 ELSE m.cost

(* The comparators of sort: the keys in turn, smaller first.               *)
Before(a, b) ==
    \E i \in DOMAIN a : a[i] < b[i] /\ \A j \in 1 .. i - 1 : a[j] = b[j]

Sorted(S, key) == InOrder(S, {e \in S \X S : Before(key[e[1]], key[e[2]])})

LargestContext(pool) == [m \in pool |-> <<-m.context, m.id>>]

SmallestAdequate(pool) == [m \in pool |-> <<m.context, Cost(m), m.id>>]

Cheapest(pool) ==
    [m \in pool |-> <<Cost(m), IF m.verified THEN 0 ELSE 1, m.id>>]

(* Mutant: restricted data may leave the machine.                          *)
PoolAnywhere(input) ==
    {m \in input.models :
        /\ m.status \in Usable
        /\ LET p == input.providers[m.provider] IN
            /\ p.enabled
            /\ ClassRank[p.clearance] >= ClassRank[input.classification]}

(* Rules 1 and 2: clearance, and restricted data stays on this machine.    *)
Pool(input) ==
    {m \in input.models :
        /\ m.status \in Usable
        /\ LET p == input.providers[m.provider] IN
            /\ p.enabled
            /\ ClassRank[p.clearance] >= ClassRank[input.classification]
            /\ input.classification = "restricted" => p.local}

(* Rules 3 to 6, and the candidates in their order.                        *)
Ranking(input) ==
    LET pool == Pool(input)
        verified == {m \in pool : m.verified}
        trusted == IF verified # {} THEN verified ELSE pool
        coders == {m \in verified : m.codeNamed}
        largest == {m \in trusted : \A n \in trusted : n.context <= m.context}
    IN  IF pool = {} THEN [rule |-> "unavailable", candidates |-> <<>>]
        ELSE IF input.task.risk = "high"
        THEN [rule |-> "high-risk", candidates |-> Sorted(largest, LargestContext(largest))]
        ELSE IF input.task.kind = "code" /\ coders # {}
        THEN [rule |-> "code", candidates |-> Sorted(coders, LargestContext(coders))]
        ELSE IF input.task.kind = "docs" /\ verified # {}
        THEN [rule |-> "docs", candidates |-> Sorted(verified, SmallestAdequate(verified))]
        ELSE [rule |-> "default", candidates |-> Sorted(trusted, Cheapest(trusted))]

RouteTask(input) ==
    LET r == Ranking(input) IN
    [rule |-> r.rule, candidates |-> r.candidates,
     model |-> IF r.candidates = <<>> THEN Nothing ELSE Head(r.candidates)]

(* escalate: one notch, and nothing above high.                            *)
Escalate(input) ==
    [input EXCEPT !.task.risk = IF input.task.risk = "low" THEN "medium" ELSE "high"]

-----------------------------------------------------------------------------
(* debateVote.  An answer has a fenced verdict, well formed or not, and    *)
(* the choice words the search finds in it.                                *)

(* The words in the order they are searched for: approve, reject, yes, no, *)
(* option-a, option-b.                                                     *)
ChoiceKeywords == <<1, 5, 6, 2, 3, 4>>

(* choiceOf: the fence, and when it says nothing the first word found.     *)
ChoiceOf(answer) ==
    LET found == {i \in DOMAIN ChoiceKeywords : ChoiceKeywords[i] \in answer.words}
    IN IF answer.verdict # Nothing THEN answer.verdict
       ELSE IF found = {} THEN Nothing
       ELSE ChoiceKeywords[CHOOSE i \in found : \A j \in found : i <= j]

Votes(answers, c) == Cardinality({i \in DOMAIN answers : ChoiceOf(answers[i]) = c})

Chosen(answers) == {ChoiceOf(answers[i]) : i \in DOMAIN answers} \ {Nothing}

(* The entries of the tally, most votes first.                             *)
Ranked(answers) ==
    Sorted(Chosen(answers), [c \in Chosen(answers) |-> <<-Votes(answers, c), c>>])

(* Mutant: the first of the ranking wins.                                  *)
TopTieAnyway(answers) == Ranked(answers) = <<>>

TopTie(answers) ==
    LET r == Ranked(answers) IN
    \/ r = <<>>
    \/ Len(r) > 1 /\ Votes(answers, r[1]) = Votes(answers, r[2])

DebateVote(answers) ==
    LET r == Ranked(answers) IN
    IF TopTie(answers)
    THEN [winner |-> "escalate", decidedBy |-> "tie",
          tied |-> SubSeq(r, 1, IF Len(r) > 1 THEN 2 ELSE Len(r))]
    ELSE [winner |-> r[1], tied |-> <<>>,
          decidedBy |-> IF \E i \in DOMAIN answers : ~answers[i].fenced
                        THEN "keyword-consensus" ELSE "fenced-verdict"]

=============================================================================
