----------------------------- MODULE AuthServer -----------------------------
(***************************************************************************)
(* The authorization server of src/telescope/auth.py: the application that *)
(* create_auth_app builds, with its three POST endpoints, the registry of  *)
(* clients, the in-memory revocation list, and the restarts that clear it. *)
(*                                                                         *)
(* Flask serves every request in a thread of its own.  /token reads no     *)
(* state that another request can change, so it is one step.  /introspect  *)
(* and /revoke verify the token first and use the revocation list          *)
(* afterwards; other requests, the clock and a crash may come in between.  *)
(***************************************************************************)
EXTENDS Protocol, FiniteSets

CONSTANTS
    Clients,          \* the ids in _REGISTERED_CLIENTS
    secret,           \* the secret registered for each of them
    allowed_scopes,   \* the scopes registered for each of them
    TokenRequests,    \* the bodies that are posted to /token
    OtherTokens,      \* strings posted to /introspect and /revoke that this
                      \* AS did not issue for this RS
    Jtis,             \* the values uuid4() may return; bounds the tokens
    Keys,             \* the EC keys the AS may be started with
    as_url, rs_url, token_lifetime,
    Workers,          \* the threads of the server
    NoToken,
    MaxTime, MaxRestarts   \* bounds of the model

VARIABLES
    now,              \* int(time.time())
    signing_key,      \* app.config["signing_key"] of the running process
    responses,        \* every TokenResponse sent so far
    revoked,          \* _REVOKED_JTIS
    handler,          \* what each thread is doing, and its last answer
    posted,           \* history: the issued tokens posted to /revoke since
                      \* the start
    epoch             \* history: the number of restarts

vars == <<now, signing_key, responses, revoked, handler, posted, epoch>>

Urls == {as_url, rs_url}
AccessToken == Token(Clients, Jtis, Keys, Urls)
TokenResponse ==
    [access_token : AccessToken, scope : SUBSET VALID_SCOPES, expires_in : Nat]

issued == {r.access_token : r \in responses}

(* What the registry of auth.py holds, and what a forged, foreign or       *)
(* malformed string cannot do: pass the verification of this AS.           *)
ASSUME RegistryAssumption ==
    /\ allowed_scopes \in [Clients -> SUBSET VALID_SCOPES]
    /\ DOMAIN secret = Clients
ASSUME LifetimeAssumption == token_lifetime \in Int
ASSUME OtherTokensAssumption ==
    \A tok \in OtherTokens : tok.key \notin Keys \/ tok.iss # as_url \/ tok.aud # rs_url
ASSUME BoundsAssumption == MaxTime \in Nat /\ MaxRestarts \in Nat

-----------------------------------------------------------------------------
Idle == [pc |-> "idle", op |-> "introspect", token |-> NoToken, active |-> FALSE,
         was_active |-> FALSE]

Init ==
    /\ now = 0
    /\ signing_key \in Keys
    /\ responses = {}
    /\ revoked = {}
    /\ handler = [w \in Workers |-> Idle]
    /\ posted = {}
    /\ epoch = 0

Tick ==
    /\ now < MaxTime
    /\ now' = now + 1
    /\ UNCHANGED <<signing_key, responses, revoked, handler, posted, epoch>>

(***************************************************************************)
(* POST /token.  The status is that of the first check that fails; a       *)
(* request that is refused changes nothing.                                *)
(***************************************************************************)
Authenticated(req) ==
    req.client_id \in Clients /\ secret[req.client_id] = req.client_secret

TokenStatus_SomeScope(req) ==
    IF ~ValidTokenRequest(req) THEN 400
    ELSE IF ~Authenticated(req) THEN 401
    ELSE IF req.scope \cap allowed_scopes[req.client_id] = {} THEN 403
    ELSE 200

TokenStatus(req) ==
    IF ~ValidTokenRequest(req) THEN 400
    ELSE IF ~Authenticated(req) THEN 401
    ELSE IF ~(req.scope \subseteq allowed_scopes[req.client_id]) THEN 403
    ELSE 200

(* uuid4() is external: it returns a value that it has not returned yet.   *)
FreshJtis == Jtis \ {tok.jti : tok \in issued}

token_endpoint(req) ==
    /\ TokenStatus(req) = 200
    /\ \E jti \in FreshJtis :
         LET tok == issue_token(req.client_id, req.scope, signing_key,
                                as_url, rs_url, token_lifetime, now, jti)
         IN  responses' = responses \cup
               {[access_token |-> tok, scope |-> req.scope,
                 expires_in |-> DEFAULT_EXPIRES_IN]}
    /\ UNCHANGED <<now, signing_key, revoked, handler, posted, epoch>>

-----------------------------------------------------------------------------
(* A string that is nothing but the jti of a token, as it reaches /revoke  *)
(* from the admin command line: it is no JWT, so no key verifies it.       *)
BareJti(jti) ==
    [sub |-> NoToken, scope |-> {}, iat |-> 0, exp |-> 0, jti |-> jti,
     key |-> NoToken, iss |-> NoToken, aud |-> NoToken]

(***************************************************************************)
(* POST /introspect and POST /revoke of a token.  Both verify it first and *)
(* answer at once when it raises: {"active": false}, or an empty 200.      *)
(* was_active records whether the token was active when the request came   *)
(* in; it is history, no action reads it.                                  *)
(***************************************************************************)
Ready(w) == handler[w].pc # "verified"

Accepted_Unsigned(tok) == now < tok.exp /\ tok.iss = as_url /\ tok.aud = rs_url
Accepted(tok) == Verified(tok, signing_key, as_url, rs_url, now)

is_revoked(jti) == jti \in revoked

(* What /introspect would say of a token if it did everything at once.     *)
IsActive(tok) == Accepted(tok) /\ ~is_revoked(tok.jti)

Verify(w, op, tok) ==
    /\ Ready(w)
    /\ handler' = [handler EXCEPT ![w] =
         [pc |-> IF Accepted(tok) THEN "verified" ELSE "done",
          op |-> op, token |-> tok, active |-> FALSE, was_active |-> IsActive(tok)]]
    /\ UNCHANGED <<now, signing_key, responses, revoked, epoch>>

IntrospectVerify(w, tok) == Verify(w, "introspect", tok) /\ UNCHANGED posted

RevokeVerify(w, tok) ==
    Verify(w, "revoke", tok) /\ posted' = posted \cup ({tok} \cap issued)

(* A body of /revoke without a token, or with an empty one: it is answered *)
(* 400 and nothing is looked at.  (To /introspect an empty string is one   *)
(* of OtherTokens, with the answer that all of them get.)                  *)
RevokeRefuses(w) ==
    /\ Ready(w)
    /\ handler' = [handler EXCEPT ![w] = [Idle EXCEPT !.pc = "refused"]]
    /\ UNCHANGED <<now, signing_key, responses, revoked, posted, epoch>>

IntrospectAnswer_NoList(w) ==
    /\ handler[w].pc = "verified" /\ handler[w].op = "introspect"
    /\ handler' = [handler EXCEPT ![w].pc = "done", ![w].active = TRUE]
    /\ UNCHANGED <<now, signing_key, responses, revoked, posted, epoch>>

IntrospectAnswer(w) ==
    /\ handler[w].pc = "verified" /\ handler[w].op = "introspect"
    /\ handler' = [handler EXCEPT ![w].pc = "done",
                                  ![w].active = ~is_revoked(handler[w].token.jti)]
    /\ UNCHANGED <<now, signing_key, responses, revoked, posted, epoch>>

revoke_token_Last(jti) == revoked' = {jti}
revoke_token(jti) == revoked' = revoked \cup {jti}

RevokeAnswer_Token(w) ==
    /\ handler[w].pc = "verified" /\ handler[w].op = "revoke"
    /\ revoke_token(handler[w].token)
    /\ handler' = [handler EXCEPT ![w].pc = "done"]
    /\ UNCHANGED <<now, signing_key, responses, posted, epoch>>

RevokeAnswer(w) ==
    /\ handler[w].pc = "verified" /\ handler[w].op = "revoke"
    /\ revoke_token(handler[w].token.jti)
    /\ handler' = [handler EXCEPT ![w].pc = "done"]
    /\ UNCHANGED <<now, signing_key, responses, posted, epoch>>

(***************************************************************************)
(* The process dies and is started again, perhaps with another key file.   *)
(* The revocation list lives in memory only, and requests in flight are    *)
(* lost with their answers.                                                *)
(***************************************************************************)
Restart ==
    /\ epoch < MaxRestarts
    /\ epoch' = epoch + 1
    /\ signing_key' \in Keys
    /\ revoked' = {}
    /\ posted' = {}
    /\ handler' = [w \in Workers |-> Idle]
    /\ UNCHANGED <<now, responses>>

Next ==
    \/ Tick
    \/ \E req \in TokenRequests : token_endpoint(req)
    \/ \E w \in Workers, tok \in issued \cup OtherTokens :
         IntrospectVerify(w, tok) \/ RevokeVerify(w, tok)
    \/ \E w \in Workers : RevokeRefuses(w) \/ IntrospectAnswer(w) \/ RevokeAnswer(w)
    \/ Restart

Spec == Init /\ [][Next]_vars

-----------------------------------------------------------------------------
Handling ==
    [pc : {"idle", "verified", "refused", "done"}, op : {"introspect", "revoke"},
     token : AccessToken \cup OtherTokens \cup {NoToken},
     active : BOOLEAN, was_active : BOOLEAN]

TypeOK ==
    /\ now \in Nat
    /\ signing_key \in Keys
    /\ responses \subseteq TokenResponse
    /\ revoked \subseteq Jtis
    /\ handler \in [Workers -> Handling]
    /\ posted \subseteq issued
    /\ epoch \in Nat

(* No token ever issued, in whatever order requests and restarts came,     *)
(* carries a scope that the registry does not give to its client           *)
(* (auth.py, token_endpoint).                                              *)
ScopesWithinRegistry ==
    \A tok \in issued : tok.sub \in Clients /\ tok.scope \subseteq allowed_scopes[tok.sub]

(* A token is revoked only by a /revoke that carried this very token: no   *)
(* other string, forged or issued to somebody else, revokes it, although   *)
(* the list keeps nothing but the jti.                                     *)
RevokedOnlyIfPosted ==
    \A tok \in issued : is_revoked(tok.jti) => tok \in posted

(* Once /revoke has answered 200 the posted string is not an active token, *)
(* now and until the AS restarts: it was revoked, or it had been refused   *)
(* because it can no longer become active.                                 *)
RevokeAnswerIsFinal ==
    \A w \in Workers :
        handler[w].pc = "done" /\ handler[w].op = "revoke" => ~IsActive(handler[w].token)

(* An answer of /introspect is true at some moment between the request and *)
(* the answer, although the endpoint reads the clock and the revocation    *)
(* list at different moments: "active" was true when the request arrived,  *)
(* "inactive" is true when it is sent and stays true until a restart.      *)
IntrospectionIsAtomic ==
    \A w \in Workers :
        LET h == handler[w] IN
        h.pc = "done" /\ h.op = "introspect" =>
            IF h.active THEN h.was_active /\ h.token \in issued
                        ELSE ~IsActive(h.token)

(* Within the life of one AS process an issued token that has become       *)
(* inactive, by expiry or by revocation, never becomes active again.       *)
InactiveIsForever ==
    [][epoch' = epoch => \A tok \in issued : ~IsActive(tok) => ~IsActive(tok)']_vars

(***************************************************************************)
(* The AS as TokenAuthority has it: a token is live while it is active,    *)
(* and a call is open while its token is verified and not yet looked up.   *)
(***************************************************************************)
AbstractCall(h) ==
    [status |-> IF h.pc = "verified" THEN "open"
                ELSE IF h.pc = "done" THEN "closed" ELSE "none",
     op |-> h.op, token |-> h.token, answer |-> h.active,
     possible |-> IF h.pc = "verified" THEN {h.was_active, IsActive(h.token)} ELSE {}]

Live == {tok \in issued : IsActive(tok)}
Calls == [w \in Workers |-> AbstractCall(handler[w])]

Authority == INSTANCE TokenAuthority WITH
    granted <- issued, live <- Live, call <- Calls, Strings <- OtherTokens

(* The clock, the keys and the list of jtis together do what a set of live *)
(* tokens would: /introspect answers what was true at some moment of the   *)
(* call, /revoke takes exactly the posted token out of the set, and no     *)
(* request of any thread puts a token back.                                *)
IsTokenAuthority == Authority!Spec

(* "Revoke a token by JTI or raw token" (scripts/admin.py): when the       *)
(* string posted to /revoke is the JTI of an issued token, the 200 of the  *)
(* endpoint means that this token is no longer active.                     *)
RevokeByJti ==
    \A w \in Workers, tok \in issued :
        /\ handler[w].pc = "done" /\ handler[w].op = "revoke"
        /\ handler[w].token = BareJti(tok.jti)
        => ~IsActive(tok)
=============================================================================
