------------------------------ MODULE Retrieval ------------------------------
(***************************************************************************)
(* The pure part of packages/context/src/retrieval.ts and repo-index.ts:   *)
(* import edges, scores, and the token budget.  A path is a number, in     *)
(* lexicographic order; what a query finds in a path and in the symbols of *)
(* a file are given scores.                                                *)
(***************************************************************************)
EXTENDS Ordering, Sequences, SequencesExt

CONSTANTS
    Paths,          \* paths below the root
    Specs,          \* per path, its imports: the files each may resolve to
    PathScore,      \* per path, the points of its name and of the hints
    SymbolScore     \* per path, the points of its symbols

ASSUME RetrievalAssumption ==
    /\ Paths \subseteq Nat \ {0}
    /\ \A p \in Paths : \A s \in Specs[p] : s \in Seq(Paths)
    /\ PathScore \in [Paths -> Nat] /\ SymbolScore \in [Paths -> Nat]

(* resolveImport: the first candidate that is in the index.                *)
Resolve(spec, files) == {spec[i] : i \in {j \in DOMAIN spec :
    spec[j] \in files /\ \A k \in 1 .. j - 1 : spec[k] \notin files}}

(* extractFromText: only texts of indexed size have imports and symbols.   *)
Imports(p, texts) == IF p \in texts THEN Specs[p] ELSE {}

Symbols(p, texts) == IF p \in texts THEN SymbolScore[p] ELSE 0

Edges(files, texts) ==
    {e \in files \X files :
        \E spec \in Imports(e[1], texts) : e[2] \in Resolve(spec, files)}

Base(p, texts) == PathScore[p] + Symbols(p, texts)

(* A point for a file beside a strong one, when it has points of its own   *)
(* and is not strong itself.                                               *)
Score(p, files, texts) ==
    LET adjacent == \E e \in Edges(files, texts) :
            /\ p \in {e[1], e[2]}
            /\ Base(e[1], texts) >= 5 \/ Base(e[2], texts) >= 5
    IN IF Base(p, texts) \in 1 .. 4 /\ adjacent THEN Base(p, texts) + 1 ELSE Base(p, texts)

Rank(files, texts) ==
    LET found == {p \in files : Base(p, texts) > 0}
        score == [p \in found |-> Score(p, files, texts)]
    IN InOrder(found, {e \in found \X found :
        \/ score[e[1]] > score[e[2]]
        \/ score[e[1]] = score[e[2]] /\ e[1] < e[2]})

TokensOf(chunks) == FoldLeft(LAMBDA n, c : n + c.tokens, 0, chunks)

(* Mutant: the first chunk that does not fit ends the packing.             *)
FitPrefix(chunks, maxTokens) ==
    FoldLeft(LAMBDA r, c :
        IF r.dropped = <<>> /\ TokensOf(r.kept) + c.tokens <= maxTokens
        THEN [r EXCEPT !.kept = Append(r.kept, c)]
        ELSE [r EXCEPT !.dropped = Append(r.dropped, c)],
        [kept |-> <<>>, dropped |-> <<>>], chunks)

(* fitBudget: each chunk in turn is kept when it still fits.               *)
FitBudget(chunks, maxTokens) ==
    FoldLeft(LAMBDA r, c :
        IF TokensOf(r.kept) + c.tokens <= maxTokens
        THEN [r EXCEPT !.kept = Append(r.kept, c)]
        ELSE [r EXCEPT !.dropped = Append(r.dropped, c)],
        [kept |-> <<>>, dropped |-> <<>>], chunks)

=============================================================================
