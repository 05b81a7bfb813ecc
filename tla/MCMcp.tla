-------------------------------- MODULE MCMcp --------------------------------
(* Instances of McpServer for TLC.                                         *)
EXTENDS McpSafety, TLC

Remote == [scheme |-> "https", host |-> "public"]
Local == [scheme |-> "http", host |-> "loopback"]
Plain == [scheme |-> "http", host |-> "public"]
Inside == [scheme |-> "https", host |-> "private"]

OAuthServer ==
    [transport |-> "http", url |-> Remote, listed |-> TRUE, allow |-> {"read"},
     deny |-> {}, trust |-> "low", audited |-> FALSE, oauth |-> TRUE]

(* What an operator tries to install, most of it not to be called.         *)
McpConfigs ==
    {OAuthServer,
     [OAuthServer EXCEPT !.oauth = FALSE, !.url = Local, !.allow = {"read", "write"},
        !.deny = {"write"}],
     [OAuthServer EXCEPT !.oauth = FALSE, !.url = Plain],
     [OAuthServer EXCEPT !.oauth = FALSE, !.url = Inside],
     [OAuthServer EXCEPT !.oauth = FALSE, !.listed = FALSE],
     [OAuthServer EXCEPT !.oauth = FALSE, !.allow = {"*"}],
     [OAuthServer EXCEPT !.transport = "stdio", !.oauth = FALSE, !.trust = "high"],
     [OAuthServer EXCEPT !.transport = "stdio", !.oauth = FALSE, !.audited = TRUE]}

McpEndpoints == {Remote, Plain}

McpSymmetry == Permutations(Procs)
=============================================================================
