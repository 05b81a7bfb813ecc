---------------------------- MODULE MemorySafety -----------------------------
(* What the retention of packages/memory promises, whoever else writes.    *)
EXTENDS MemoryStore

(* A sweep does its work although others write meanwhile: once it is done  *)
(* with a scope, what is still there and has expired or is too old was     *)
(* written since the sweep began, and of the entries nobody wrote since it *)
(* counted there are no more than the budget it read.                      *)
SweepSettles ==
    \A p \in Procs : pc[p] = "trim" /\ call[p].doomed = {} =>
        LET c == call[p] IN
        /\ \A x \in Expired(c.at) : rows[x].updated >= c.at
        /\ c.policy.days > 0 => Aged(Scope(p), c.at - c.policy.days) = {}
        /\ Cardinality({x \in SlotsOf(Scope(p)) :
                Present(x) /\ rows[x].updated < c.saw}) <= c.policy.max

(* The budget takes the oldest: an entry the trim deletes, unless it was   *)
(* refreshed after the count, was written no later than any entry of its   *)
(* scope that the trim leaves.                                             *)
TrimsOldest ==
    [][\A p \in Procs : pc[p] = "trim" /\ SweepTrim(p) =>
         \A x, y \in SlotsOf(Scope(p)) :
            /\ Present(x) /\ rows'[x] = None /\ rows[x].updated < call[p].saw
            /\ Present(y) /\ rows[y].id \notin call[p].doomed
            => rows[x].updated <= rows[y].updated]_vars

(* Every process seeds the default policies when it starts; a policy the   *)
(* operator set is never undone by it.                                     *)
OperatorPolicyStands ==
    \A s \in Scopes : chosen[s] # None => policy[s] = chosen[s]
=============================================================================
