--------------------------- MODULE TelescopeSystem --------------------------
(***************************************************************************)
(* The authorization server and the resource server together: clients get  *)
(* tokens from the AS and present them to the RS, administrators post      *)
(* tokens to /revoke, either server may be restarted.                      *)
(*                                                                         *)
(* Two topologies.  As README.md starts them, AS and RS are two processes: *)
(* server.py imports is_revoked from auth.py, so each process has its own  *)
(* _REVOKED_JTIS.  In the tests both applications live in one process and  *)
(* share the list; they are then started and stopped together.             *)
(***************************************************************************)
EXTENDS Integers, FiniteSets

CONSTANTS
    Clients, secret, allowed_scopes, TokenRequests, OtherTokens, Jtis, Keys,
    as_url, rs_url, token_lifetime, AsWorkers, NoToken, MaxTime, MaxRestarts,
    RsWorkers, Requests, as_public_key, SharedProcess, Preemptive, MaxLog,
    Skew              \* the clock of the RS minus the clock of the AS

VARIABLES
    clock, signing_key, responses, as_revoked, as_handler, posted, epoch,  \* AS
    mount, log, rs_revoked, rs_handler,                                  \* RS
    answered,         \* history: the tokens that /revoke has answered for,
                      \* since the start of the AS
    warned            \* history: for each thread of the RS, whether its
                      \* request arrived after such an answer

AS == INSTANCE AuthServer WITH revoked <- as_revoked, handler <- as_handler,
                               Workers <- AsWorkers, now <- clock
RS == INSTANCE ResourceServer WITH revoked <- rs_revoked, handler <- rs_handler,
                                   Workers <- RsWorkers, now <- clock + Skew

as_vars == <<signing_key, responses, as_revoked, as_handler, posted, epoch>>
rs_vars == <<mount, log, rs_revoked, rs_handler>>
vars == <<clock, as_vars, rs_vars, answered, warned>>

issued == {r.access_token : r \in responses}

ASSUME SkewAssumption == Skew \in Int
ASSUME SharedClockAssumption == SharedProcess => Skew = 0

(* The RS verifies with the public half of a key that the AS may sign with *)
(* (server.py, main, reads it from the certificate of the AS).             *)
ASSUME PublicKeyAssumption == as_public_key \in Keys

(* What each of the two servers assumes of its own constants.              *)
ASSUME AuthServerAssumption ==
    /\ allowed_scopes \in [Clients -> SUBSET AS!VALID_SCOPES]
    /\ DOMAIN secret = Clients
    /\ token_lifetime \in Int
    /\ \A tok \in OtherTokens : tok.key \notin Keys \/ tok.iss # as_url \/ tok.aud # rs_url
    /\ MaxTime \in Nat /\ MaxRestarts \in Nat
ASSUME ResourceServerAssumption ==
    /\ MaxLog \in Nat \ {0} /\ Preemptive \in BOOLEAN /\ SharedProcess \in BOOLEAN
    /\ \A r \in Requests : /\ r.op \in RS!Ops
                           /\ r.body.ra \subseteq Int /\ r.body.dec \subseteq Int
                           /\ r.token # NoToken => r.token.exp \in Int

-----------------------------------------------------------------------------
Init ==
    /\ AS!Init /\ RS!Boot
    /\ answered = {}
    /\ warned = [w \in RsWorkers |-> FALSE]

Tick == AS!Tick /\ UNCHANGED <<rs_vars, answered, warned>>

(* One list when both servers live in one process, two lists otherwise.    *)
ListOfRS_Own == UNCHANGED rs_revoked
ListOfRS == rs_revoked' = IF SharedProcess THEN as_revoked' ELSE rs_revoked

(* A step of the AS, which remembers what /revoke has answered.            *)
AuthServerStep ==
    /\ \/ \E req \in TokenRequests : AS!token_endpoint(req)
       \/ \E w \in AsWorkers, tok \in issued \cup OtherTokens :
            AS!IntrospectVerify(w, tok) \/ AS!RevokeVerify(w, tok)
       \/ \E w \in AsWorkers :
            AS!RevokeRefuses(w) \/ AS!IntrospectAnswer(w) \/ AS!RevokeAnswer(w)
    /\ ListOfRS
    /\ answered' = answered \cup
         {h.token : h \in {as_handler'[w] : w \in
            {v \in AsWorkers : as_handler'[v].pc = "done" /\ as_handler'[v].op = "revoke"}}}
    /\ UNCHANGED <<mount, log, rs_handler, warned>>

(* A client presents a token that it got, some other string, or nothing.   *)
Request(w, r) ==
    /\ r.token \in issued \cup OtherTokens \cup {NoToken}
    /\ clock' = clock
    /\ RS!Authenticate(w, r)
    /\ warned' = [warned EXCEPT ![w] = r.token \in answered]
    /\ UNCHANGED <<as_vars, answered>>

Serve(w) == clock' = clock /\ RS!Step(w) /\ UNCHANGED <<as_vars, answered, warned>>

RestartAuthServer ==
    /\ ~SharedProcess
    /\ AS!Restart
    /\ answered' = {}
    /\ warned' = [w \in RsWorkers |-> FALSE]
    /\ UNCHANGED rs_vars

RestartResourceServer ==
    /\ ~SharedProcess
    /\ clock' = clock
    /\ RS!Restart
    /\ warned' = [w \in RsWorkers |-> FALSE]
    /\ UNCHANGED <<as_vars, answered>>

RestartBoth ==
    /\ SharedProcess
    /\ AS!Restart /\ RS!Restart
    /\ answered' = {}
    /\ warned' = [w \in RsWorkers |-> FALSE]

Next ==
    \/ Tick
    \/ AuthServerStep
    \/ \E w \in RsWorkers, r \in Requests : Request(w, r)
    \/ \E w \in RsWorkers : Serve(w)
    \/ RestartAuthServer \/ RestartResourceServer \/ RestartBoth

Spec == Init /\ [][Next]_vars

-----------------------------------------------------------------------------
(* The servers use each other's types: what an RS thread holds was issued  *)
(* by the AS or is one of the other strings, and in one process the two    *)
(* lists are one.                                                          *)
TypeOK ==
    /\ AS!TypeOK
    /\ SharedProcess => rs_revoked = as_revoked
    /\ \A w \in RsWorkers :
         rs_handler[w].token \in issued \cup OtherTokens \cup {NoToken}

(* From the registry of the AS to the mount: an endpoint of the RS runs    *)
(* only for a token that this AS issued to a registered client, and only   *)
(* if the registry gives this client the scope of the endpoint; restarts   *)
(* and new keys on either side do not change that.                         *)
LeastPrivilege ==
    \A w \in RsWorkers :
        LET h == rs_handler[w] IN
        RS!Served(h) => /\ h.token \in issued
                        /\ RS!Required[h.op] \in allowed_scopes[h.token.sub]

(* A request that reaches the RS after /revoke has answered 200 for its    *)
(* token is refused ("Token should now be rejected by RS (shared in-memory *)
(* revocation list)", tests/test_auth.py; "for revocation list", plan.md). *)
RevocationIsEnforced == \A w \in RsWorkers : warned[w] => ~RS!Served(rs_handler[w])

(* The RS accepts a token only within its lifetime after the AS issued it, *)
(* give or take the skew of the clocks: whatever happens to revocations,   *)
(* this bounds how long a token can be used.                               *)
ExposureIsBounded ==
    [][\A w \in RsWorkers :
         /\ rs_handler[w].pc # "verified" /\ rs_handler'[w].pc = "verified"
         => LET age == clock - rs_handler'[w].token.iat
            IN  -Skew <= age /\ age < token_lifetime - Skew]_vars
=============================================================================
