------------------------------ MODULE McpSafety ------------------------------
(* What packages/mcp promises of calls and tokens while commands overlap.  *)
EXTENDS McpServer

(* The kill switch and the gates hold for every call that leaves, not only *)
(* for the decision: unless it was decided before the server was switched  *)
(* off or removed, a call goes out of an enabled server, for a tool its    *)
(* operator listed and did not exclude, to an endpoint he listed, over     *)
(* https to a public host or over http to this machine.                    *)
CallsPermitted ==
    [][\A p \in Procs : At(p, "send") /\ Send(p) =>
         LET c == row.config IN
         /\ (row.present /\ row.enabled) \/ p \in late
         /\ proc[p].tool \in c.allow \ c.deny
         /\ c.transport = "stdio"
            \/ /\ c.listed
               /\ \/ c.url.scheme = "https" /\ c.url.host = "public"
                  \/ c.url.scheme = "http" /\ c.url.host = "loopback"]_vars

(* The refresh token in the vault is one the authorization server accepts, *)
(* however exchanges, renewals and revocations cross: a lost answer or a   *)
(* process that died before it stored the successor, or one that found the *)
(* access token gone, are the only ways to be left with a dead one.        *)
RefreshLives ==
    LET r == secrets["refresh"] IN
    r # None =>
        \/ r \in live \cup burnt
        \/ \E p \in Procs : proc[p].old = r /\ proc[p].refresh \in live

(* A renewal does not bring back what a revoke deleted: it stores only     *)
(* over a token, unless the deletion fell between its last look and its    *)
(* store.                                                                  *)
NoResurrection ==
    [][\A p \in Procs :
         proc[p].lane = "refresh" /\ (RotateAccess(p) \/ RotateRefresh(p)) =>
            \A ref \in Refs : secrets[ref] = None /\ secrets'[ref] # None
                => p \in cut]_vars

(* Once a revoke has ended that no token lane crossed, the vault holds     *)
(* neither token until the operator exchanges a new code.                  *)
RevokeHolds ==
    revoked => secrets["access"] = None /\ secrets["refresh"] = None

=============================================================================
