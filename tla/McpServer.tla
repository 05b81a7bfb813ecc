------------------------------ MODULE McpServer ------------------------------
(***************************************************************************)
(* packages/mcp and the `aice mcp` commands: one server's registry row,    *)
(* the gates in front of a call, and the OAuth lanes whose tokens live in  *)
(* the vault.  Several commands run at once, each of them a sequence of    *)
(* awaits.  A vault operation is one step, as the keyring's is; see        *)
(* CredentialVault for the file.  The authorization server is external:    *)
(* it redeems a code once, against the verifier of the flow that asked for *)
(* it, and may replace a refresh token when it is used.  No command writes *)
(* permission rows, so there are none here.                                *)
(***************************************************************************)
EXTENDS Integers, Sequences, FiniteSets

CONSTANTS
    Procs,          \* processes of the command line
    Tools,          \* tool ids
    Configs,        \* the configurations an operator tries to install
    Endpoints,      \* authorization-server endpoints a discovery may answer
    None,           \* no secret
    MaxFlows,       \* bound: authorize lanes begun
    MaxTokens       \* bound: token answers of the authorization server

Url == [scheme : {"https", "http", "other"}, host : {"public", "loopback", "private"}]

Config ==
    [transport : {"stdio", "http", "sse"}, url : Url, listed : BOOLEAN,
     allow : SUBSET (Tools \cup {"*"}), deny : SUBSET (Tools \cup {"*"}),
     trust : {"low", "medium", "high"}, audited : BOOLEAN, oauth : BOOLEAN]

Lanes == {"authorize", "exchange", "refresh", "revoke", "invoke"}

ASSUME McpAssumption ==
    /\ Configs \subseteq Config
    /\ Endpoints \subseteq Url
    /\ None \notin Int /\ None \notin Configs /\ None \notin Lanes
    /\ MaxFlows \in Nat /\ MaxTokens \in Nat

Flows == 1 .. MaxFlows

Tokens == 1 .. MaxTokens

Refs == {"pkce", "state", "access", "refresh"}

Pc == {"idle", "bearer", "send", "pkce", "state", "check",
       "verifier", "redeem", "access", "refresh", "load", "renew",
       "hasAccess", "hasRefresh", "drop"}

VARIABLES
    row,            \* the mcp_servers row
    secrets,        \* the four vault refs of the server
    shown,          \* flows whose authorize URL the operator was shown
    spent,          \* codes the authorization server has redeemed
    live,           \* refresh tokens it accepts
    issued,         \* token answers it gave
    begun,          \* flows begun
    proc,           \* what each process is doing
    late,           \* history: calls decided before the server was switched off
    cut,            \* history: renewals overtaken by a deletion
    burnt,          \* history: refresh tokens whose successor was lost
    revoked         \* history: a revoke came to its end undisturbed

vars == <<row, secrets, shown, spent, live, issued, begun, proc, late, cut,
          burnt, revoked>>

external == <<shown, spent, live, issued, begun>>

history == <<late, cut, burnt, revoked>>

Idle ==
    [pc |-> "idle", lane |-> None, tool |-> None, flow |-> None, verifier |-> None,
     old |-> None, access |-> None, refresh |-> None, todo |-> <<>>,
     alone |-> TRUE]

Process ==
    [pc : Pc, lane : Lanes \cup {None}, tool : Tools \cup {None},
     flow : Flows \cup {None}, verifier : Flows \cup {None},
     old : Tokens \cup {None}, access : Tokens \cup {None},
     refresh : Tokens \cup {None}, todo : Seq(Refs), alone : BOOLEAN]

TypeOK ==
    /\ row \in [present : BOOLEAN, enabled : BOOLEAN, config : Configs \cup {None}]
    /\ secrets \in [Refs -> Flows \cup Tokens \cup {None}]
    /\ shown \in SUBSET Flows /\ spent \in SUBSET Flows
    /\ live \in SUBSET Tokens
    /\ issued \in 0 .. MaxTokens /\ begun \in 0 .. MaxFlows
    /\ proc \in [Procs -> Process]
    /\ late \in SUBSET Procs /\ cut \in SUBSET Procs
    /\ burnt \in SUBSET Tokens
    /\ revoked \in BOOLEAN

Init ==
    /\ row = [present |-> FALSE, enabled |-> TRUE, config |-> None]
    /\ secrets = [r \in Refs |-> None]
    /\ shown = {} /\ spent = {} /\ live = {}
    /\ issued = 0 /\ begun = 0
    /\ proc = [p \in Procs |-> Idle]
    /\ late = {} /\ cut = {} /\ burnt = {} /\ revoked = FALSE

-----------------------------------------------------------------------------
(* The gates.                                                              *)

(* assertOAuthEndpoint: https, or http to this machine.                    *)
SecureUrl(u) ==
    \/ u.scheme = "https"
    \/ u.scheme = "http" /\ u.host = "loopback"

(* assertMcpEndpointShape asks the same of an http or sse server.          *)
EndpointShape(c) == c.transport = "stdio" \/ SecureUrl(c.url)

(* validateMcpConfig has no error to report.                               *)
ValidConfig(c) ==
    /\ EndpointShape(c)
    /\ "*" \notin c.allow \cup c.deny
    /\ c.trust = "high" => c.audited
    /\ c.oauth => c.transport # "stdio"

(* checkEgress: a listed host that is no address of this machine or its    *)
(* network.                                                                *)
Egress(c) == c.listed /\ c.url.host = "public"

(* mcpEndpointVerdict: over http to this machine the host and port must be *)
(* listed, over https the egress guard decides.                            *)
EndpointOpen(c) ==
    /\ EndpointShape(c)
    /\ c.transport # "stdio" =>
         IF c.url.scheme = "http" THEN c.listed ELSE Egress(c)

(* Mutant: the kill switch is not looked at.                               *)
DecideAnyway(c, enabled, tool) ==
    IF ~ValidConfig(c) THEN "CONFIG_INVALID"
    ELSE IF ~EndpointOpen(c) THEN "ENDPOINT_DENIED"
    ELSE IF tool \in c.deny THEN "TOOL_DENIED"
    ELSE IF tool \notin c.allow THEN "TOOL_NOT_ALLOWED"
    ELSE "allowed"

(* decideMcpCall: the first refusal wins.                                  *)
Decide(c, enabled, tool) ==
    IF ~ValidConfig(c) THEN "CONFIG_INVALID"
    ELSE IF ~enabled THEN "SERVER_DISABLED"
    ELSE IF ~EndpointOpen(c) THEN "ENDPOINT_DENIED"
    ELSE IF tool \in c.deny THEN "TOOL_DENIED"
    ELSE IF tool \notin c.allow THEN "TOOL_NOT_ALLOWED"
    ELSE "allowed"

-----------------------------------------------------------------------------
(* The registry: mcp add, enable, disable, remove.                         *)

Add(c) ==
    /\ row.config = None
    /\ ValidConfig(c)
    /\ row' = [present |-> TRUE, enabled |-> TRUE, config |-> c]
    /\ UNCHANGED <<secrets, external, proc, history>>

Calling == {p \in Procs : proc[p].pc \in {"bearer", "send"}}

SetEnabled(on) ==
    /\ row.present
    /\ row' = [row EXCEPT !.enabled = on]
    /\ late' = IF on THEN late ELSE late \cup Calling
    /\ UNCHANGED <<secrets, external, proc, cut, burnt, revoked>>

(* The row goes, the tokens stay in the vault.                             *)
RemoveServer ==
    /\ row.present
    /\ row' = [row EXCEPT !.present = FALSE]
    /\ late' = late \cup Calling
    /\ UNCHANGED <<secrets, external, proc, cut, burnt, revoked>>

-----------------------------------------------------------------------------
(* Steps of every lane.                                                    *)

At(p, pc) == proc[p].pc = pc

Goto(p, pc) == proc' = [proc EXCEPT ![p].pc = pc]

(* The end of a lane, or an error that ends it: what a renewal replaced at *)
(* the server and did not store is lost.                                   *)
Lose(p) ==
    IF proc[p].lane = "refresh" /\ proc[p].refresh # None
    THEN burnt \cup {proc[p].old} ELSE burnt

End(p) ==
    /\ proc' = [proc EXCEPT ![p] = Idle]
    /\ late' = late \ {p}
    /\ cut' = cut \ {p}

Quit(p) ==
    /\ ~At(p, "idle")
    /\ End(p)
    /\ burnt' = Lose(p)
    /\ UNCHANGED <<row, secrets, external, revoked>>

Enter(lane, pc) == [Idle EXCEPT !.pc = pc, !.lane = lane]

TokenLanes == {"exchange", "refresh"}

(* Every oauth lane reads the row first, and asks for no more than its     *)
(* oauth configuration: a server that is switched off is served too.       *)
Begin(p, start) ==
    /\ At(p, "idle")
    /\ row.present
    /\ row.config.oauth
    /\ proc' = [q \in Procs |->
            IF q = p THEN start
            ELSE [proc[q] EXCEPT !.alone = proc[q].alone
                    /\ ~(proc[q].lane = "revoke" /\ start.lane \in TokenLanes)]]
    /\ UNCHANGED <<row, secrets, external, history>>

(* discoverAuthorizationServer, of the configured issuer or the one the    *)
(* server's own metadata names: an insecure endpoint ends the lane.  It    *)
(* touches nothing shared, and is part of the step before it.              *)
Discovers(endpoint) == SecureUrl(endpoint)

Hold(ref, value) == secrets' = [secrets EXCEPT ![ref] = value]

(* vault.delete never stops a lane, and may have deleted nothing.          *)
Drop(p, ok) ==
    /\ At(p, "drop")
    /\ proc[p].todo # <<>>
    /\ LET ref == Head(proc[p].todo) IN
        /\ IF ok THEN Hold(ref, None) ELSE secrets' = secrets
        /\ cut' = cut \cup {q \in Procs : At(q, ref) /\ ref \in {"access", "refresh"}}
    /\ proc' = [proc EXCEPT ![p].todo = Tail(proc[p].todo),
                            ![p].alone = proc[p].alone /\ (ok \/ proc[p].lane # "revoke")]
    /\ UNCHANGED <<row, external, late, burnt, revoked>>

Dropped(p) ==
    /\ At(p, "drop")
    /\ proc[p].todo = <<>>
    /\ End(p)
    /\ revoked' = (revoked \/ (proc[p].lane = "revoke" /\ proc[p].alone))
    /\ UNCHANGED <<row, secrets, external, burnt>>

-----------------------------------------------------------------------------
(* mcp oauth authorize: the verifier and then the state of a new flow.     *)

Authorize(p, endpoint) ==
    /\ Discovers(endpoint)
    /\ Begin(p, Enter("authorize", "pkce"))

StorePkce(p) ==
    /\ At(p, "pkce")
    /\ begun < MaxFlows
    /\ begun' = begun + 1
    /\ Hold("pkce", begun + 1)
    /\ proc' = [proc EXCEPT ![p].pc = "state", ![p].flow = begun + 1]
    /\ UNCHANGED <<row, shown, spent, live, issued, history>>

StoreState(p) ==
    /\ At(p, "state")
    /\ Hold("state", proc[p].flow)
    /\ shown' = shown \cup {proc[p].flow}
    /\ End(p)
    /\ UNCHANGED <<row, spent, live, issued, begun, burnt, revoked>>

-----------------------------------------------------------------------------
(* mcp oauth exchange: the operator pastes the code and the state of a     *)
(* flow.                                                                   *)

Exchange(p, f) ==
    /\ f \in shown
    /\ Begin(p, [Enter("exchange", "check") EXCEPT !.flow = f])

(* Another state than the stored one, or none, ends the lane.              *)
CheckState(p) ==
    /\ At(p, "check")
    /\ IF secrets["state"] = proc[p].flow THEN Goto(p, "verifier") /\ UNCHANGED <<late, cut>>
       ELSE End(p)
    /\ UNCHANGED <<row, secrets, external, burnt, revoked>>

LoadVerifier(p, endpoint) ==
    /\ At(p, "verifier")
    /\ Discovers(endpoint)
    /\ IF secrets["pkce"] = None THEN End(p)
       ELSE /\ proc' = [proc EXCEPT ![p].verifier = secrets["pkce"], ![p].pc = "redeem"]
            /\ UNCHANGED <<late, cut>>
    /\ UNCHANGED <<row, secrets, external, burnt, revoked>>

(* jsonCall and parseToken: the answer arrives, or an error, a timeout or  *)
(* a body that is no token set ends the lane.                              *)
Receive(p, arrives, answer) ==
    IF arrives
    THEN proc' = [proc EXCEPT ![p] = answer] /\ UNCHANGED <<late, cut>>
    ELSE End(p)

(* The token endpoint redeems the code, with a refresh token or without.   *)
Redeem(p, withRefresh, arrives) ==
    /\ At(p, "redeem")
    /\ proc[p].verifier = proc[p].flow
    /\ proc[p].flow \notin spent
    /\ issued < MaxTokens
    /\ LET n == issued + 1 IN
        /\ issued' = n
        /\ spent' = spent \cup {proc[p].flow}
        /\ live' = IF withRefresh THEN live \cup {n} ELSE live
        /\ Receive(p, arrives, [proc[p] EXCEPT !.pc = "access", !.access = n,
                !.refresh = IF withRefresh THEN n ELSE None])
    /\ UNCHANGED <<row, secrets, shown, begun, burnt, revoked>>

OneTime == <<"pkce", "state">>

StoreAccess(p) ==
    /\ At(p, "access")
    /\ proc[p].lane = "exchange"
    /\ Hold("access", proc[p].access)
    /\ proc' = [proc EXCEPT ![p].todo = OneTime,
            ![p].pc = IF proc[p].refresh # None THEN "refresh" ELSE "drop"]
    /\ revoked' = FALSE
    /\ UNCHANGED <<row, external, late, cut, burnt>>

StoreRefresh(p) ==
    /\ At(p, "refresh")
    /\ proc[p].lane = "exchange"
    /\ Hold("refresh", proc[p].refresh)
    /\ Goto(p, "drop")
    /\ UNCHANGED <<row, external, history>>

-----------------------------------------------------------------------------
(* mcp oauth refresh.                                                      *)

Refresh(p) == Begin(p, Enter("refresh", "load"))

LoadRefresh(p, endpoint) ==
    /\ At(p, "load")
    /\ Discovers(endpoint)
    /\ IF secrets["refresh"] = None THEN End(p)
       ELSE /\ proc' = [proc EXCEPT ![p].old = secrets["refresh"], ![p].pc = "renew"]
            /\ UNCHANGED <<late, cut>>
    /\ UNCHANGED <<row, secrets, external, burnt, revoked>>

(* The token endpoint renews a refresh token it accepts, and may replace   *)
(* it.                                                                     *)
Renew(p, replaced, arrives) ==
    /\ At(p, "renew")
    /\ proc[p].old \in live
    /\ issued < MaxTokens
    /\ LET n == issued + 1 IN
        /\ issued' = n
        /\ live' = IF replaced THEN (live \ {proc[p].old}) \cup {n} ELSE live
        /\ burnt' = IF replaced /\ ~arrives THEN burnt \cup {proc[p].old} ELSE burnt
        /\ Receive(p, arrives, [proc[p] EXCEPT !.pc = "hasAccess", !.access = n,
                !.refresh = IF replaced THEN n ELSE None])
    /\ UNCHANGED <<row, secrets, shown, spent, begun, revoked>>

(* Mutant: rotate stores without asking.                                   *)
HasAnyway(p, ref, pc) ==
    /\ At(p, pc)
    /\ Goto(p, ref)
    /\ UNCHANGED <<row, secrets, external, history>>

(* vault.rotate: a ref that holds nothing ends the lane, and loses what    *)
(* the server has replaced.                                                *)
Has(p, ref, pc) ==
    /\ At(p, pc)
    /\ IF secrets[ref] # None
       THEN Goto(p, ref) /\ UNCHANGED <<late, cut, burnt>>
       ELSE End(p) /\ burnt' = Lose(p)
    /\ UNCHANGED <<row, secrets, external, revoked>>

RotateAccess(p) ==
    /\ At(p, "access")
    /\ proc[p].lane = "refresh"
    /\ Hold("access", proc[p].access)
    /\ IF proc[p].refresh # None THEN Goto(p, "hasRefresh") /\ cut' = cut \ {p} /\ late' = late
       ELSE End(p)
    /\ UNCHANGED <<row, external, burnt, revoked>>

(* Mutant: the refresh token the server handed out is not kept.            *)
RotateNothing(p) ==
    /\ At(p, "refresh")
    /\ proc[p].lane = "refresh"
    /\ End(p)
    /\ UNCHANGED <<row, secrets, external, burnt, revoked>>

RotateRefresh(p) ==
    /\ At(p, "refresh")
    /\ proc[p].lane = "refresh"
    /\ Hold("refresh", proc[p].refresh)
    /\ End(p)
    /\ UNCHANGED <<row, external, burnt, revoked>>

-----------------------------------------------------------------------------
(* mcp oauth revoke: local, the authorization server is not told.          *)

(* Mutant: the refresh token is forgotten.                                 *)
AllButRefresh == <<"pkce", "state", "access">>

AllRefs == <<"pkce", "state", "access", "refresh">>

Revoke(p) ==
    Begin(p, [Enter("revoke", "drop") EXCEPT
        !.todo = AllRefs,
        !.alone = \A q \in Procs : proc[q].lane \notin TokenLanes])

-----------------------------------------------------------------------------
(* mcp invoke: row, decision, token, call.                                 *)

Invoke(p, tool) ==
    /\ At(p, "idle")
    /\ row.present
    /\ Decide(row.config, row.enabled, tool) = "allowed"
    /\ proc' = [proc EXCEPT ![p] = [Enter("invoke", "send") EXCEPT
            !.tool = tool, !.pc = IF row.config.oauth THEN "bearer" ELSE "send"]]
    /\ UNCHANGED <<row, secrets, external, history>>

(* The token is read for this one call; without one there is none.         *)
LoadBearer(p) ==
    /\ At(p, "bearer")
    /\ IF secrets["access"] = None THEN End(p)
       ELSE Goto(p, "send") /\ UNCHANGED <<late, cut>>
    /\ UNCHANGED <<row, secrets, external, burnt, revoked>>

(* McpClient.call looks at the endpoint once more; whatever is answered,   *)
(* the command ends.                                                       *)
Send(p) ==
    /\ At(p, "send")
    /\ EndpointOpen(row.config)
    /\ End(p)
    /\ UNCHANGED <<row, secrets, external, burnt, revoked>>

-----------------------------------------------------------------------------
Registry ==
    \/ \E c \in Configs : Add(c)
    \/ \E on \in BOOLEAN : SetEnabled(on)
    \/ RemoveServer

OAuth(p) ==
    \/ \E e \in Endpoints : Authorize(p, e) \/ LoadVerifier(p, e) \/ LoadRefresh(p, e)
    \/ StorePkce(p)
    \/ StoreState(p)
    \/ \E f \in Flows : Exchange(p, f)
    \/ CheckState(p)
    \/ \E withRefresh, arrives \in BOOLEAN : Redeem(p, withRefresh, arrives)
    \/ StoreAccess(p)
    \/ StoreRefresh(p)
    \/ Refresh(p)
    \/ \E replaced, arrives \in BOOLEAN : Renew(p, replaced, arrives)
    \/ Has(p, "access", "hasAccess")
    \/ RotateAccess(p)
    \/ Has(p, "refresh", "hasRefresh")
    \/ RotateRefresh(p)
    \/ Revoke(p)
    \/ \E ok \in BOOLEAN : Drop(p, ok)
    \/ Dropped(p)

Call(p) ==
    \/ \E t \in Tools : Invoke(p, t)
    \/ LoadBearer(p)
    \/ Send(p)

Step(p) == OAuth(p) \/ Call(p) \/ Quit(p)

Next == Registry \/ \E p \in Procs : Step(p)

Spec == Init /\ [][Next]_vars

=============================================================================
