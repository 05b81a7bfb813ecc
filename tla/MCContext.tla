------------------------------ MODULE MCContext ------------------------------
(* Instances of ContextCommands for TLC.                                   *)
EXTENDS ContextSafety

(* .env, a.ts, node_modules, node_modules/x.ts, src and src/b.ts.          *)
McPaths == 1 .. 6
McParent == <<0, 0, 0, 3, 0, 5>>
McAbove == <<{}, {}, {}, {3}, {}, {5}>>
McPathScore == <<3, 6, 9, 9, 0, 3>>
McSymbolScore == <<0, 2, 0, 2, 0, 0>>
McSpecs == <<{}, {<<5, 6>>}, {}, {}, {}, {<<4, 2>>}>>
McTokens == <<1, 3, 3, 1, 1, 1>>

McModels ==
    [id : {1, 2}, provider : {"here", "away"}, verified : BOOLEAN, context : {1, 2},
     status : {"active", "retired"}, cost : {0, Nothing}, codeNamed : BOOLEAN]

McProviders ==
    {[here |-> [enabled |-> on, clearance |-> "restricted", local |-> TRUE],
      away |-> [enabled |-> TRUE, clearance |-> c, local |-> FALSE]] :
        on \in BOOLEAN, c \in {"internal", "restricted"}}

McSignals ==
    {[kinds |-> k, high |-> h, medium |-> ~h, code |-> FALSE] :
        k \in {{}, {"code", "docs"}, {"ops"}}, h \in BOOLEAN}

McInputs ==
    {[task |-> s, classification |-> c, models |-> {m, n}, providers |-> p] :
        s \in McSignals, c \in {"internal", "restricted"}, p \in McProviders,
        m \in {x \in McModels : x.id = 1 /\ x.provider = "here"},
        n \in {x \in McModels : x.id = 2 /\ x.status = "active"}}

McAnswers ==
    {[fenced |-> v # Nothing \/ b, verdict |-> v, words |-> w] :
        v \in {1, 2, Nothing}, b \in BOOLEAN, w \in {{}, {1}, {2}, {2, 6}}}

McDebates == UNION {[1 .. n -> McAnswers] : n \in 0 .. 3}
=============================================================================
