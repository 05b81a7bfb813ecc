---------------------------- MODULE ContextSafety ----------------------------
(* What packages/context promises of an index, a pack, a route and a vote. *)
EXTENDS ContextCommands

(* None of the directories above a path has a name that is not walked.     *)
Walked(p) == Above[p] \cap Excluded = {}

(* All the directories above a path can be listed and entered.             *)
Open(p) == \A d \in Above[p] : tree[d] = "dir"

(* Whatever is changed while the workspace is walked: a file that was left *)
(* alone with the directories above it, all of them open to the walk, is   *)
(* indexed, or recorded as skipped when it must not or cannot be read,     *)
(* unless there were more than the cap; and no more than the cap are ever  *)
(* recorded, no key material among the indexed ones.  Nothing is promised  *)
(* of a file below a directory that cannot be listed or entered: it is     *)
(* lost without a record (repo-index.ts:181-194).                          *)
IndexComplete ==
    /\ Cardinality(files \cup skipped) <= MaxIndexFiles
    /\ files \cap Secret = {}
    /\ step \in {"pack", "done"} =>
        \A p \in Paths \ dirty :
            Yields(p) /\ Walked(p) /\ Open(p) =>
                \/ p \in files /\ (tree[p] = "big" => p \in skipped)
                \/ p \in skipped /\ (p \in Secret \/ tree[p] = "unreadable")
                \/ count > MaxIndexFiles

(* The pack stays within its budget and wastes none of it: the chunks are  *)
(* kept or dropped, in the order of their rank, and none that was dropped  *)
(* would still fit.                                                        *)
PackMaximal ==
    LET Ordered(s) == \A i, j \in DOMAIN s : i < j =>
            \E k, l \in DOMAIN chunks : k < l /\ chunks[k] = s[i] /\ chunks[l] = s[j]
    IN step = "done" =>
        /\ Len(pack.kept) + Len(pack.dropped) = Len(chunks)
        /\ Ordered(pack.kept) /\ Ordered(pack.dropped)
        /\ TokensOf(pack.kept) <= MaxTokens
        /\ \A i \in DOMAIN pack.dropped :
            TokensOf(pack.kept) + pack.dropped[i].tokens > MaxTokens

(* A route goes to a model in use, of an enabled provider cleared for the  *)
(* project, on this machine when it is restricted; there is none only when *)
(* no model is eligible; it is unverified only when no eligible one is     *)
(* verified; what reads as high risk, at once or once escalated, gets the  *)
(* largest context of those.                                               *)
RightRoute(a) ==
    LET i == a.input
        Eligible(m) ==
            LET p == i.providers[m.provider] IN
            /\ m.status # "retired" /\ p.enabled
            /\ CASE i.classification = "public" -> TRUE
                 [] i.classification = "internal" -> p.clearance # "public"
                 [] i.classification = "confidential" -> p.clearance \in {"confidential", "restricted"}
                 [] i.classification = "restricted" -> p.clearance = "restricted" /\ p.local
        Outdone(m, n) == Eligible(n) /\ (n.verified \/ ~m.verified) /\ n.context > m.context
        Fits(m) == Eligible(m) /\ (m.verified \/ \A n \in i.models : Eligible(n) => ~n.verified)
        Strong(m) == Fits(m) /\ \A n \in i.models : ~Outdone(m, n)
    IN IF \E m \in i.models : Eligible(m)
       THEN \E m, n \in i.models :
            /\ m = a.route.model /\ Fits(m)
            /\ i.task.high => Strong(m)
            /\ n = a.escalated.model /\ Strong(n) /\ n.context >= m.context
       ELSE a.route.model = Nothing /\ a.escalated.model = Nothing

(* The model `aice route` prints is right for what was asked, and so is    *)
(* the one after two escalations.                                          *)
RouteRight == answer # Nothing /\ "input" \in DOMAIN answer => RightRoute(answer)

(* The winner has more votes than every other choice, and without one no   *)
(* choice has.                                                             *)
FairVote(answers, vote) ==
    LET Wins(c) == \A d \in Chosen(answers) \ {c} : Votes(answers, c) > Votes(answers, d)
    IN IF vote.decidedBy = "tie"
       THEN \A c \in Chosen(answers) : ~Wins(c)
       ELSE vote.winner \in Chosen(answers) /\ Wins(vote.winner)

(* A debate has a winner exactly when one choice has more votes than every *)
(* other, whatever the order of the answers; an even vote is not decided   *)
(* by the alphabet.                                                        *)
DebateFair ==
    answer # Nothing /\ "vote" \in DOMAIN answer => FairVote(answer.answers, answer.vote)

=============================================================================
