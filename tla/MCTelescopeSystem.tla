-------------------------- MODULE MCTelescopeSystem -------------------------
(* Instances of TelescopeSystem for TLC: one thread per server, two        *)
(* clients, and the two endpoints that need different scopes.              *)
EXTENDS TelescopeSystem, TLC

CONSTANTS k1, WrongSecret

Wire == INSTANCE Protocol

MCClients == {"tracker-read", "tracker-full"}
MCSecret == [c \in MCClients |-> c]
MCScopes == [c \in MCClients |->
    IF c = "tracker-read" THEN {"telescope:read"}
                          ELSE {"telescope:read", "telescope:slew"}]

TokenRequest(id, pw, scope) ==
    [well_formed |-> TRUE, client_id |-> id, client_secret |-> pw, scope |-> scope]

MCTokenRequests ==
    {TokenRequest("tracker-read", "tracker-read", {"telescope:read"}),
     TokenRequest("tracker-read", "tracker-read", {"telescope:read", "telescope:slew"}),
     TokenRequest("tracker-full", "tracker-full", {"telescope:read", "telescope:slew"}),
     TokenRequest("tracker-full", WrongSecret, {"telescope:slew"})}

(* Every token the AS can issue in this instance.                          *)
Issuable ==
    {Wire!issue_token(req.client_id, req.scope, k, as_url, rs_url, token_lifetime, t, j) :
        req \in MCTokenRequests, k \in Keys, t \in 0..MaxTime, j \in Jtis}

(* A string that no key of the AS has signed, with the claims of a token.  *)
Forged == Wire!issue_token("tracker-full", {"telescope:slew"}, NoToken, as_url, rs_url, 9, 0,
                           CHOOSE j \in Jtis : TRUE)
MCOtherTokens == {Forged}

MCRequests ==
    [op : {"slew", "position"}, token : Issuable \cup MCOtherTokens \cup {NoToken},
     body : {[ra |-> {1}, dec |-> {1}]}]

(* A resource server whose clock is a second slow.                         *)
Behind == -1
=============================================================================
