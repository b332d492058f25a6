------------------------ MODULE TelescopeSystemProofs ------------------------
(***************************************************************************)
(* What the two servers promise together, for any registry, clients,       *)
(* threads and restarts, from what is proved of each of them: a step of    *)
(* the system is a step of the AS or leaves it alone, and it is a step of  *)
(* the RS, or time that passes for it, or a change of its revocation list. *)
(***************************************************************************)
EXTENDS TelescopeSystem, TLAPS

ASP == INSTANCE AuthServerProofs WITH revoked <- as_revoked, handler <- as_handler,
                                      Workers <- AsWorkers, now <- clock
RSP == INSTANCE ResourceServerProofs WITH revoked <- rs_revoked, handler <- rs_handler,
                                          Workers <- RsWorkers, now <- clock + Skew

(* The age at which a token expires is the one that the AS is told.        *)
Aged == \A tok \in issued : tok.exp = tok.iat + token_lifetime

(* What a thread of the RS knows of where its token comes from.            *)
FromHere(h) ==
    /\ h.token \in issued \cup OtherTokens \cup {NoToken}
    /\ h.pc = "verified" \/ RSP!Served(h) => h.token \in issued

IInv ==
    /\ ASP!IInv
    /\ RSP!IInv
    /\ Aged
    /\ \A w \in RsWorkers : FromHere(rs_handler[w])
    /\ SharedProcess => rs_revoked = as_revoked

-----------------------------------------------------------------------------
(* The actions of the AS, under the two names that they have here.         *)
LEMMA SameAuthServer ==
    /\ AS!Init <=> ASP!Init
    /\ AS!Tick <=> ASP!Tick
    /\ AS!Restart <=> ASP!Restart
    /\ \A req : AS!token_endpoint(req) <=> ASP!token_endpoint(req)
    /\ \A w, tok : /\ AS!IntrospectVerify(w, tok) <=> ASP!IntrospectVerify(w, tok)
                   /\ AS!RevokeVerify(w, tok) <=> ASP!RevokeVerify(w, tok)
    /\ \A w : /\ AS!RevokeRefuses(w) <=> ASP!RevokeRefuses(w)
              /\ AS!IntrospectAnswer(w) <=> ASP!IntrospectAnswer(w)
              /\ AS!RevokeAnswer(w) <=> ASP!RevokeAnswer(w)
<1>1. AS!Init <=> ASP!Init
  BY DEF AS!Init, ASP!Init, AS!Idle, ASP!Idle
<1>2. AS!Tick <=> ASP!Tick
  BY DEF AS!Tick, ASP!Tick
<1>3. AS!Restart <=> ASP!Restart
  BY DEF AS!Restart, ASP!Restart, AS!Idle, ASP!Idle
<1>4. ASSUME NEW req PROVE AS!token_endpoint(req) <=> ASP!token_endpoint(req)
  BY DEF AS!token_endpoint, ASP!token_endpoint, AS!TokenStatus, ASP!TokenStatus,
         AS!ValidTokenRequest, ASP!ValidTokenRequest, AS!Authenticated, ASP!Authenticated,
         AS!VALID_SCOPES, ASP!VALID_SCOPES, AS!FreshJtis, ASP!FreshJtis, AS!issued, ASP!issued,
         AS!issue_token, ASP!issue_token, AS!DEFAULT_EXPIRES_IN, ASP!DEFAULT_EXPIRES_IN
<1>5. ASSUME NEW w, NEW tok
      PROVE  /\ AS!IntrospectVerify(w, tok) <=> ASP!IntrospectVerify(w, tok)
             /\ AS!RevokeVerify(w, tok) <=> ASP!RevokeVerify(w, tok)
  BY DEF AS!IntrospectVerify, ASP!IntrospectVerify, AS!RevokeVerify, ASP!RevokeVerify,
         AS!Verify, ASP!Verify, AS!Ready, ASP!Ready, AS!Accepted, ASP!Accepted,
         AS!Verified, ASP!Verified, AS!IsActive, ASP!IsActive, AS!is_revoked, ASP!is_revoked,
         AS!issued, ASP!issued
<1>6. ASSUME NEW w
      PROVE  /\ AS!RevokeRefuses(w) <=> ASP!RevokeRefuses(w)
             /\ AS!IntrospectAnswer(w) <=> ASP!IntrospectAnswer(w)
             /\ AS!RevokeAnswer(w) <=> ASP!RevokeAnswer(w)
  BY DEF AS!RevokeRefuses, ASP!RevokeRefuses, AS!Ready, ASP!Ready, AS!Idle, ASP!Idle,
         AS!IntrospectAnswer, ASP!IntrospectAnswer, AS!RevokeAnswer, ASP!RevokeAnswer,
         AS!revoke_token, ASP!revoke_token, AS!is_revoked, ASP!is_revoked
<1> QED BY <1>1, <1>2, <1>3, <1>4, <1>5, <1>6

LEMMA SameResourceServer ==
    /\ RS!Boot <=> RSP!Boot
    /\ RS!Restart <=> RSP!Restart
    /\ \A w, r : RS!Authenticate(w, r) <=> RSP!Authenticate(w, r)
    /\ \A w : RS!Step(w) <=> RSP!Step(w)
    /\ \A h : RS!Served(h) <=> RSP!Served(h)
<1>1. RS!Boot <=> RSP!Boot
  BY DEF RS!Boot, RSP!Boot, RS!Idle, RSP!Idle, RS!NewMount, RSP!NewMount
<1>2. RS!Restart <=> RSP!Restart
  BY DEF RS!Restart, RSP!Restart, RS!Idle, RSP!Idle, RS!NewMount, RSP!NewMount
<1>3. ASSUME NEW w, NEW r PROVE RS!Authenticate(w, r) <=> RSP!Authenticate(w, r)
  BY DEF RS!Authenticate, RSP!Authenticate, RS!CanRun, RSP!CanRun, RS!MidMethod, RSP!MidMethod,
         RS!SwitchPoints, RSP!SwitchPoints, RS!Idle, RSP!Idle, RS!NewMount, RSP!NewMount,
         RS!Authentication, RSP!Authentication, RS!Verifies, RSP!Verifies,
         RS!Verified, RSP!Verified, RS!SignatureExpired, RSP!SignatureExpired,
         RS!IsActive, RSP!IsActive, RS!is_revoked, RSP!is_revoked
<1>4. ASSUME NEW w PROVE RS!Step(w) <=> RSP!Step(w)
  BY DEF RS!Step, RSP!Step, RS!Authorize, RSP!Authorize, RS!RejectSlew, RSP!RejectSlew,
         RS!log_connection, RSP!log_connection, RS!Assign, RSP!Assign, RS!Read, RSP!Read,
         RS!list_connections, RSP!list_connections, RS!NextConnection, RSP!NextConnection,
         RS!Copying, RSP!Copying, RS!Copied, RSP!Copied, RS!AfterAppend, RSP!AfterAppend,
         RS!CanRun, RSP!CanRun,
         RS!MidMethod, RSP!MidMethod, RS!SwitchPoints, RSP!SwitchPoints, RS!Idle, RSP!Idle,
         RS!NewMount, RSP!NewMount, RS!Authorization, RSP!Authorization,
         RS!is_revoked, RSP!is_revoked, RS!Required, RSP!Required, RS!Reads, RSP!Reads,
         RS!SlewCommand, RSP!SlewCommand, RS!ValidRa, RSP!ValidRa, RS!ValidDec, RSP!ValidDec,
         RS!Logged, RSP!Logged, RS!EntryOf, RSP!EntryOf, RS!Advance, RSP!Advance,
         RS!Accesses, RSP!Accesses, RS!slew_to, RSP!slew_to, RS!reset, RSP!reset, RS!Set, RSP!Set
<1>5. ASSUME NEW h PROVE RS!Served(h) <=> RSP!Served(h)
  BY DEF RS!Served, RSP!Served
<1> QED BY <1>1, <1>2, <1>3, <1>4, <1>5

-----------------------------------------------------------------------------
(* What is proved of each server, with the assumptions that it needs.      *)
LEMMA AuthServerInit == AS!Init => ASP!IInv
BY SameAuthServer, ASP!InitIInv, AuthServerAssumption DEF AS!VALID_SCOPES, ASP!VALID_SCOPES

LEMMA AuthServerNext ==
    ASSUME ASP!IInv, [ASP!Next]_ASP!vars
    PROVE  ASP!IInv'
BY ASP!NextIInv, AuthServerAssumption DEF AS!VALID_SCOPES, ASP!VALID_SCOPES

LEMMA ResourceServerBoot ==
    ASSUME RS!Boot, clock + Skew \in Int
    PROVE  RSP!IInv
BY SameResourceServer, RSP!BootIInv, ResourceServerAssumption, AuthServerAssumption
   DEF RS!Ops, RSP!Ops, RS!Required, RSP!Required

(* Time passes for the RS, or its revocation list grows.                   *)
LEMMA ResourceServerWaits ==
    ASSUME RSP!IInv, UNCHANGED <<mount, log, rs_handler>>,
           clock \in Int, clock' \in Int, clock <= clock', rs_revoked \subseteq rs_revoked'
    PROVE  RSP!IInv'
<1>1. (clock + Skew)' \in Int /\ clock + Skew <= (clock + Skew)'
  <2>1. PICK c \in Int : c = clock
    OBVIOUS
  <2>2. PICK d \in Int : d = clock'
    OBVIOUS
  <2>3. c <= d
    BY <2>1, <2>2
  <2>4. c + Skew <= d + Skew /\ d + Skew \in Int
    BY <2>3, SkewAssumption
  <2>5. (clock + Skew)' = d + Skew /\ clock + Skew = c + Skew
    BY <2>1, <2>2
  <2> QED BY <2>4, <2>5
<1> QED
  BY <1>1, RSP!TimeOrListStep, ResourceServerAssumption, AuthServerAssumption
     DEF RS!Ops, RSP!Ops, RS!Required, RSP!Required

LEMMA ResourceServerRequest ==
    ASSUME RSP!IInv, NEW w \in RsWorkers, NEW r \in Requests, RS!Authenticate(w, r)
    PROVE  RSP!IInv' /\ RSP!TakesRequest(w, r)
BY SameResourceServer, RSP!AuthenticateStep, ResourceServerAssumption, AuthServerAssumption
   DEF RS!Ops, RSP!Ops, RS!Required, RSP!Required

LEMMA ResourceServerStep ==
    ASSUME RSP!IInv, NEW w \in RsWorkers, RS!Step(w)
    PROVE  RSP!IInv' /\ \A v \in RsWorkers : RSP!KeepsToken(v)
BY SameResourceServer, RSP!ThreadStep, ResourceServerAssumption, AuthServerAssumption
   DEF RS!Ops, RSP!Ops, RS!Required, RSP!Required

LEMMA ResourceServerRestart ==
    ASSUME RSP!IInv, RS!Restart
    PROVE  /\ RSP!IInv'
           /\ \A w \in RsWorkers : /\ rs_handler'[w].token = NoToken
                                   /\ rs_handler'[w].pc = "idle"
                                   /\ ~RSP!Served(rs_handler'[w])
<1>1. RSP!IInv'
  BY SameResourceServer, RSP!RestartStep, ResourceServerAssumption, AuthServerAssumption
     DEF RS!Ops, RSP!Ops, RS!Required, RSP!Required
<1>2. \A w \in RsWorkers : rs_handler'[w].token = NoToken /\ rs_handler'[w].pc = "idle"
  BY DEF RS!Restart, RS!Idle
<1> QED BY <1>1, <1>2 DEF RSP!Served

-----------------------------------------------------------------------------
(* A step of the system is one of the AS, or leaves the AS alone.          *)
LEMMA AuthServerMoves == [Next]_vars => [ASP!Next]_(ASP!vars)
<1> SUFFICES ASSUME [Next]_vars PROVE [ASP!Next]_(ASP!vars)
  OBVIOUS
<1>1. CASE Tick
  BY <1>1, SameAuthServer DEF Tick, ASP!Next
<1>2. CASE AuthServerStep
  BY <1>2, SameAuthServer DEF AuthServerStep, ASP!Next, issued, ASP!issued
<1>3. ASSUME NEW w \in RsWorkers, NEW r \in Requests, Request(w, r)
      PROVE  UNCHANGED ASP!vars
  BY <1>3 DEF Request, as_vars, ASP!vars
<1>4. ASSUME NEW w \in RsWorkers, Serve(w)
      PROVE  UNCHANGED ASP!vars
  BY <1>4 DEF Serve, as_vars, ASP!vars
<1>5. CASE RestartAuthServer
  BY <1>5, SameAuthServer DEF RestartAuthServer, ASP!Next
<1>6. CASE RestartResourceServer
  BY <1>6 DEF RestartResourceServer, as_vars, ASP!vars
<1>7. CASE RestartBoth
  BY <1>7, SameAuthServer DEF RestartBoth, ASP!Next
<1>8. CASE UNCHANGED vars
  BY <1>8 DEF vars, as_vars, ASP!vars
<1> QED BY <1>1, <1>2, <1>3, <1>4, <1>5, <1>6, <1>7, <1>8 DEF Next

(* Tokens are issued, and never taken back.                                *)
LEMMA IssuedStep ==
    ASSUME Aged, [ASP!Next]_(ASP!vars)
    PROVE  Aged' /\ issued \subseteq issued'
<1>1. ASSUME NEW req \in TokenRequests, ASP!token_endpoint(req)
      PROVE  Aged' /\ issued \subseteq issued'
  <2>1. PICK jti :
          responses' = responses \cup
            {[access_token |-> ASP!issue_token(req.client_id, req.scope, signing_key,
                                               as_url, rs_url, token_lifetime, clock, jti),
              scope |-> req.scope, expires_in |-> ASP!DEFAULT_EXPIRES_IN]}
    BY <1>1 DEF ASP!token_endpoint
  <2>2. PICK tok : tok = ASP!issue_token(req.client_id, req.scope, signing_key,
                                         as_url, rs_url, token_lifetime, clock, jti)
    OBVIOUS
  <2>3. tok.exp = tok.iat + token_lifetime
    BY <2>2 DEF ASP!issue_token
  <2>4. PICK resp : /\ resp.access_token = tok
                    /\ responses' = responses \cup {resp}
    BY <2>1, <2>2
  <2>5. issued' = issued \cup {tok}
    BY <2>4, Zenon DEF issued
  <2> QED BY <2>3, <2>5 DEF Aged
<1>2. ASSUME UNCHANGED responses PROVE Aged' /\ issued \subseteq issued'
  BY <1>2 DEF Aged, issued
<1> QED BY <1>1, <1>2
        DEF ASP!Next, ASP!vars, ASP!Tick, ASP!IntrospectVerify, ASP!RevokeVerify, ASP!Verify,
            ASP!RevokeRefuses, ASP!IntrospectAnswer, ASP!RevokeAnswer, ASP!Restart

(* What the RS verifies was issued by this AS for it.                      *)
LEMMA VerifiedIsIssued ==
    ASSUME NEW tok \in issued \cup OtherTokens \cup {NoToken}, RSP!Verifies(tok)
    PROVE  tok \in issued
BY AuthServerAssumption, PublicKeyAssumption DEF RSP!Verifies, RSP!Verified

LEMMA ClockIsNat ==
    ASSUME ASP!IInv
    PROVE  clock \in Nat
BY DEF ASP!IInv, ASP!TypeOK

-----------------------------------------------------------------------------
LEMMA InitIInv == Init => IInv
<1> SUFFICES ASSUME Init PROVE IInv
  OBVIOUS
<1>1. AS!Init /\ RS!Boot
  BY DEF Init
<1>2. ASP!IInv
  BY <1>1, AuthServerInit
<1>3. RSP!IInv
  BY <1>1, <1>2, ClockIsNat, SkewAssumption, ResourceServerBoot
<1>4. issued = {} /\ as_revoked = {} /\ rs_revoked = {}
  BY <1>1 DEF AS!Init, RS!Boot, issued
<1>5. \A w \in RsWorkers : FromHere(rs_handler[w])
  <2>1. \A w \in RsWorkers : rs_handler[w].token = NoToken /\ rs_handler[w].pc = "idle"
    BY <1>1 DEF RS!Boot, RS!Idle
  <2> QED BY <2>1 DEF FromHere, RSP!Served
<1> QED BY <1>2, <1>3, <1>4, <1>5 DEF IInv, Aged

(* A thread of the RS that does not move keeps what it knows.              *)
LEMMA StillFromHere ==
    ASSUME IInv, issued \subseteq issued', rs_handler' = rs_handler
    PROVE  \A w \in RsWorkers : FromHere(rs_handler[w])'
BY DEF IInv, FromHere, RSP!Served

LEMMA TickStep ==
    ASSUME IInv, Tick
    PROVE  IInv'
<1>1. ASP!IInv' /\ Aged' /\ issued \subseteq issued'
  BY AuthServerMoves, AuthServerNext, IssuedStep DEF IInv, Next
<1>2. clock \in Nat /\ clock' \in Nat /\ clock <= clock'
  <2>1. clock' = clock + 1
    BY DEF Tick, AS!Tick
  <2> QED BY <2>1, ClockIsNat DEF IInv
<1>3. UNCHANGED <<mount, log, rs_handler, rs_revoked, as_revoked>>
  BY DEF Tick, AS!Tick, rs_vars
<1>4. RSP!IInv'
  BY <1>2, <1>3, ResourceServerWaits DEF IInv
<1> QED BY <1>1, <1>3, <1>4, StillFromHere DEF IInv

(* A step of the AS, which in one process shows in the list of the RS.     *)
LEMMA AuthServerStepFacts ==
    ASSUME IInv, AuthServerStep
    PROVE  /\ clock' = clock /\ epoch' = epoch
           /\ signing_key' = signing_key /\ as_revoked \subseteq as_revoked'
           /\ rs_revoked' = IF SharedProcess THEN as_revoked' ELSE rs_revoked
           /\ UNCHANGED <<mount, log, rs_handler, warned>>
<1>1. clock' = clock /\ epoch' = epoch
  BY DEF AuthServerStep, AS!token_endpoint, AS!IntrospectVerify, AS!RevokeVerify, AS!Verify,
         AS!RevokeRefuses, AS!IntrospectAnswer, AS!RevokeAnswer
<1>2. ASP!Next
  BY SameAuthServer DEF AuthServerStep, ASP!Next, issued, ASP!issued
<1>3. signing_key' = signing_key /\ as_revoked \subseteq as_revoked'
  BY <1>1, <1>2, ASP!SameProcess, AuthServerAssumption
     DEF IInv, AS!VALID_SCOPES, ASP!VALID_SCOPES
<1> QED BY <1>1, <1>3 DEF AuthServerStep, ListOfRS

LEMMA AuthServerStepStep ==
    ASSUME IInv, AuthServerStep
    PROVE  IInv'
<1>1. ASP!IInv' /\ Aged' /\ issued \subseteq issued'
  BY AuthServerMoves, AuthServerNext, IssuedStep DEF IInv, Next
<1>2. clock \in Nat /\ clock' \in Nat /\ clock <= clock'
  BY AuthServerStepFacts, ClockIsNat DEF IInv
<1>3. rs_revoked \subseteq rs_revoked' /\ (SharedProcess => rs_revoked' = as_revoked')
  BY AuthServerStepFacts DEF IInv
<1>4. RSP!IInv'
  BY <1>2, <1>3, AuthServerStepFacts, ResourceServerWaits DEF IInv
<1> QED BY <1>1, <1>3, <1>4, AuthServerStepFacts, StillFromHere DEF IInv

LEMMA RequestStep ==
    ASSUME IInv, NEW w \in RsWorkers, NEW r \in Requests, Request(w, r)
    PROVE  IInv'
<1>1. ASP!IInv' /\ Aged'
  BY AuthServerMoves, AuthServerNext, IssuedStep DEF IInv, Next
<1>2. RSP!IInv' /\ RSP!TakesRequest(w, r)
  BY ResourceServerRequest DEF IInv, Request
<1>3. issued' = issued /\ rs_revoked' = rs_revoked /\ as_revoked' = as_revoked
  BY DEF Request, as_vars, issued, RS!Authenticate
<1>4. r.token \in issued \cup OtherTokens \cup {NoToken}
  BY DEF Request
<1>5. ASSUME NEW v \in RsWorkers PROVE FromHere(rs_handler[v])'
  <2>1. CASE v = w
    <3>1. PICK h : h = rs_handler'[w]
      OBVIOUS
    <3>2. /\ h.token = r.token /\ ~RSP!Served(h)
          /\ h.pc = "verified" => RSP!Verifies(r.token)
      BY <1>2, <3>1 DEF RSP!TakesRequest
    <3>3. h.pc = "verified" => r.token \in issued
      BY <1>4, <3>2, VerifiedIsIssued
    <3> QED BY <1>3, <1>4, <2>1, <3>1, <3>2, <3>3 DEF FromHere, RSP!Served
  <2>2. CASE v # w
    BY <1>2, <1>3, <2>2 DEF RSP!TakesRequest, IInv, FromHere, RSP!Served
  <2> QED BY <2>1, <2>2
<1> QED BY <1>1, <1>2, <1>3, <1>5 DEF IInv

LEMMA ServeStep ==
    ASSUME IInv, NEW w \in RsWorkers, Serve(w)
    PROVE  IInv'
<1>1. ASP!IInv' /\ Aged'
  BY AuthServerMoves, AuthServerNext, IssuedStep DEF IInv, Next
<1>2. RSP!IInv' /\ \A v \in RsWorkers : RSP!KeepsToken(v)
  BY ResourceServerStep DEF IInv, Serve
<1>3. issued' = issued /\ rs_revoked' = rs_revoked /\ as_revoked' = as_revoked
  BY DEF Serve, as_vars, issued, RS!Step, RS!Authorize, RS!RejectSlew, RS!log_connection,
         RS!Assign, RS!Read, RS!list_connections, RS!NextConnection
<1>4. ASSUME NEW v \in RsWorkers PROVE FromHere(rs_handler[v])'
  BY <1>2, <1>3 DEF RSP!KeepsToken, IInv, FromHere, RSP!Served
<1> QED BY <1>1, <1>2, <1>3, <1>4 DEF IInv

LEMMA RestartStep ==
    ASSUME IInv, RestartAuthServer \/ RestartResourceServer \/ RestartBoth
    PROVE  IInv'
<1>1. ASP!IInv' /\ Aged' /\ issued \subseteq issued'
  BY AuthServerMoves, AuthServerNext, IssuedStep DEF IInv, Next
<1>2. CASE RestartAuthServer
  <2>1. ~SharedProcess /\ UNCHANGED <<clock, mount, log, rs_handler, rs_revoked>>
    BY <1>2 DEF RestartAuthServer, AS!Restart, rs_vars
  <2>2. clock \in Nat /\ clock' \in Nat /\ clock <= clock'
    BY <2>1, ClockIsNat DEF IInv
  <2>3. RSP!IInv'
    BY <2>1, <2>2, ResourceServerWaits DEF IInv
  <2> QED BY <1>1, <2>1, <2>3, StillFromHere DEF IInv
<1>3. CASE RestartResourceServer \/ RestartBoth
  <2>1. RS!Restart
    BY <1>3 DEF RestartResourceServer, RestartBoth
  <2>2. SharedProcess => rs_revoked' = as_revoked'
    BY <1>3 DEF RestartResourceServer, RestartBoth, AS!Restart, RS!Restart
  <2>3. /\ RSP!IInv'
        /\ \A w \in RsWorkers : /\ rs_handler'[w].token = NoToken
                                /\ rs_handler'[w].pc = "idle"
                                /\ ~RSP!Served(rs_handler'[w])
    BY <2>1, ResourceServerRestart DEF IInv
  <2>4. \A w \in RsWorkers : FromHere(rs_handler[w])'
    BY <2>3 DEF FromHere, RSP!Served
  <2> QED BY <1>1, <2>2, <2>3, <2>4 DEF IInv
<1> QED BY <1>2, <1>3

LEMMA NextIInv == IInv /\ [Next]_vars => IInv'
<1> SUFFICES ASSUME IInv, [Next]_vars PROVE IInv'
  OBVIOUS
<1>1. CASE UNCHANGED vars
  <2>1. ASP!IInv' /\ Aged' /\ issued \subseteq issued'
    BY AuthServerMoves, AuthServerNext, IssuedStep DEF IInv
  <2>2. UNCHANGED <<clock, mount, log, rs_handler, rs_revoked, as_revoked>>
    BY <1>1 DEF vars, as_vars, rs_vars
  <2>3. clock \in Nat /\ clock' \in Nat /\ clock <= clock'
    BY <2>2, ClockIsNat DEF IInv
  <2>4. RSP!IInv'
    BY <2>2, <2>3, ResourceServerWaits DEF IInv
  <2> QED BY <2>1, <2>2, <2>4, StillFromHere DEF IInv
<1> QED BY <1>1, TickStep, AuthServerStepStep, RequestStep, ServeStep, RestartStep DEF Next

(* The inductive invariant holds in every state of every behaviour.        *)
LEMMA InvariantHolds == Spec => []IInv
BY InitIInv, NextIInv, PTL DEF Spec

-----------------------------------------------------------------------------
(* Nothing that the RS, the clients or a restart of the RS do makes the AS *)
(* do what it would not do alone: the system implements AuthServer, so all *)
(* that is proved of the AS holds here.                                    *)
THEOREM SystemRunsAuthServer == Spec => AS!Spec
<1>1. Init => AS!Init
  BY DEF Init
<1>2. [Next]_vars => [AS!Next]_(AS!vars)
  <2>1. AS!Next <=> ASP!Next
    BY SameAuthServer DEF AS!Next, ASP!Next, AS!issued, ASP!issued
  <2>2. UNCHANGED AS!vars <=> UNCHANGED ASP!vars
    BY DEF AS!vars, ASP!vars
  <2> QED BY <2>1, <2>2, AuthServerMoves
<1> QED BY <1>1, <1>2, PTL DEF Spec, AS!Spec

(* The state of both servers keeps its types, in one process they see one  *)
(* revocation list, and the RS holds no token but those it was sent.       *)
THEOREM TypeCorrect == Spec => []TypeOK
<1>1. IInv => TypeOK
  <2>1. ASP!TypeOK => AS!TypeOK
    BY DEF ASP!TypeOK, AS!TypeOK, ASP!TokenResponse, AS!TokenResponse, ASP!AccessToken,
           AS!AccessToken, ASP!Token, AS!Token, ASP!Urls, AS!Urls, ASP!Handling, AS!Handling,
           ASP!VALID_SCOPES, AS!VALID_SCOPES, ASP!issued, AS!issued
  <2> QED BY <2>1 DEF IInv, ASP!IInv, FromHere, TypeOK
<1> QED BY <1>1, InvariantHolds, PTL

(* From the registry to the mount: an endpoint of the RS runs only for a   *)
(* token that this AS issued, to a client that is registered with the      *)
(* scope of the endpoint, whichever server was restarted in between.       *)
THEOREM LeastPrivilegeHolds == Spec => []LeastPrivilege
<1>1. IInv => LeastPrivilege
  <2> SUFFICES ASSUME IInv, NEW w \in RsWorkers, NEW h, h = rs_handler[w], RS!Served(h)
               PROVE  h.token \in issued /\ RS!Required[h.op] \in allowed_scopes[h.token.sub]
    BY DEF LeastPrivilege
  <2>1. RSP!Served(h)
    BY SameResourceServer
  <2>2. h.token \in issued
    BY <2>1 DEF IInv, FromHere
  <2>3. RSP!Required[h.op] \in h.token.scope
    BY <2>1 DEF IInv, RSP!IInv, RSP!ThreadOK, RSP!HasToken
  <2>4. h.token.scope \subseteq allowed_scopes[h.token.sub]
    BY <2>2 DEF IInv, ASP!IInv, ASP!ScopesWithinRegistry, ASP!issued, issued
  <2> QED BY <2>2, <2>3, <2>4 DEF RS!Required, RSP!Required
<1> QED BY <1>1, InvariantHolds, PTL

(* The RS takes a token only within its lifetime from the moment the AS    *)
(* issued it, give or take the skew of the two clocks.                     *)
THEOREM ExposureBounded == Spec => ExposureIsBounded
<1>1. IInv /\ [Next]_vars =>
        [\A w \in RsWorkers :
           /\ rs_handler[w].pc # "verified" /\ rs_handler'[w].pc = "verified"
           => LET age == clock - rs_handler'[w].token.iat
              IN  -Skew <= age /\ age < token_lifetime - Skew]_vars
  <2> SUFFICES ASSUME IInv, Next, NEW w \in RsWorkers, NEW h, h = rs_handler'[w],
                      rs_handler[w].pc # "verified", h.pc = "verified"
               PROVE  /\ -Skew <= clock - h.token.iat
                      /\ clock - h.token.iat < token_lifetime - Skew
    BY DEF vars
  <2>1. CASE Tick \/ AuthServerStep \/ RestartAuthServer
    <3>1. rs_handler' = rs_handler
      BY <2>1, AuthServerStepFacts DEF Tick, RestartAuthServer, rs_vars
    <3> QED BY <3>1
  <2>2. ASSUME NEW v \in RsWorkers, NEW r \in Requests, Request(v, r)
        PROVE  /\ -Skew <= clock - h.token.iat
               /\ clock - h.token.iat < token_lifetime - Skew
    <3>1. RSP!TakesRequest(v, r) /\ r.token \in issued \cup OtherTokens \cup {NoToken}
      BY <2>2, ResourceServerRequest DEF IInv, Request
    <3>2. h.token = r.token /\ RSP!Verifies(r.token)
      BY <3>1 DEF RSP!TakesRequest
    <3>3. PICK tok : tok = h.token
      OBVIOUS
    <3>4. tok \in issued /\ tok.iat <= clock + Skew /\ clock + Skew < tok.exp
      BY <3>1, <3>2, <3>3, VerifiedIsIssued DEF RSP!Verifies, RSP!Verified
    <3>5. tok.exp = tok.iat + token_lifetime
      BY <3>4 DEF IInv, Aged
    <3>6. tok.iat \in Int
      BY <3>4 DEF IInv, ASP!IInv, ASP!TypeOK, ASP!TokenResponse, ASP!AccessToken, ASP!Token, issued
    <3>7. clock \in Int /\ Skew \in Int /\ token_lifetime \in Int
      BY ClockIsNat, SkewAssumption, AuthServerAssumption DEF IInv
    <3>8. PICK i \in Int, c \in Int : i = tok.iat /\ c = clock
      BY <3>6, <3>7
    <3>9. i <= c + Skew /\ c + Skew < i + token_lifetime
      BY <3>4, <3>5, <3>8
    <3>10. -Skew <= c - i /\ c - i < token_lifetime - Skew
      BY <3>7, <3>9
    <3> QED BY <3>3, <3>8, <3>10
  <2>3. ASSUME NEW v \in RsWorkers, Serve(v) PROVE FALSE
    <3>1. RSP!KeepsToken(w)
      BY <2>3, ResourceServerStep DEF IInv, Serve
    <3> QED BY <3>1 DEF RSP!KeepsToken
  <2>4. CASE RestartResourceServer \/ RestartBoth
    <3>1. rs_handler'[w].pc = "idle"
      BY <2>4, ResourceServerRestart DEF IInv, RestartResourceServer, RestartBoth
    <3> QED BY <3>1
  <2> QED BY <2>1, <2>2, <2>3, <2>4 DEF Next
<1> QED BY <1>1, InvariantHolds, PTL DEF Spec, ExposureIsBounded

(* The composition takes nothing away from the RS either: what is proved   *)
(* of it alone holds with the AS beside it, even if the clocks differ.     *)
THEOREM SystemKeepsResourceServer ==
    Spec => [](/\ RS!ServedOnlyIfActive /\ RS!RefusedLeaveNoTrace
               /\ RS!LogKeepsTheLatest
               /\ RS!SlewingOnlyDuringSlew /\ RS!NoServerError)
<1>1. IInv => RS!ServedOnlyIfActive
  BY DEF IInv, RSP!IInv, RSP!ThreadOK, RSP!HasToken, RS!ServedOnlyIfActive,
         RS!Served, RSP!Served, RS!Required, RSP!Required
<1>2. IInv => RS!LogKeepsTheLatest
  <2>1. IInv => \A w \in RsWorkers : RSP!InLog(rs_handler[w])
    BY DEF IInv, RSP!IInv, RSP!ThreadOK
  <2>2. (\A w \in RsWorkers : RSP!InLog(rs_handler[w])) => RS!LogKeepsTheLatest
    BY DEF RSP!InLog, RS!LogKeepsTheLatest, RS!EntryOf, RSP!EntryOf, RS!ToSet, RSP!ToSet
  <2> QED BY <2>1, <2>2
<1>3. IInv => RS!SlewingOnlyDuringSlew /\ RS!NoServerError
  BY DEF IInv, RSP!IInv, RS!SlewingOnlyDuringSlew, RSP!SlewingOnlyDuringSlew,
         RS!NoServerError, RSP!NoServerError
<1>4. IInv => RS!RefusedLeaveNoTrace
  <2> SUFFICES ASSUME IInv, NEW w \in RsWorkers, rs_handler[w].logged
               PROVE  /\ rs_handler[w].reply \in {"ok", "server_error"}
                      /\ rs_handler[w].was_active
                      /\ RSP!Required[rs_handler[w].op] \in rs_handler[w].token.scope
    BY DEF RS!RefusedLeaveNoTrace, RS!Required, RSP!Required
  <2>1. RSP!InProgram(rs_handler[w]) /\ RSP!HasToken(rs_handler[w])
    BY DEF IInv, RSP!IInv, RSP!ThreadOK
  <2>2. rs_handler[w].reply \in {"ok", "server_error"} /\ RSP!Served(rs_handler[w])
    BY <2>1 DEF RSP!InProgram, RSP!Served
  <2> QED BY <2>1, <2>2 DEF RSP!HasToken
<1> QED BY <1>1, <1>2, <1>3, <1>4, InvariantHolds, PTL

-----------------------------------------------------------------------------
(***************************************************************************)
(* Revocation across the two servers.  It works only if both see one list, *)
(* one clock and one key.                                                  *)
(***************************************************************************)
(* What /revoke has answered for is no active token, and an RS thread that *)
(* got such a token is not past the second step of require_scope and will  *)
(* not get past it.                                                        *)
Warned ==
    /\ \A tok \in answered : tok \in issued \cup OtherTokens /\ ~ASP!IsActive(tok)
    /\ warned \in [RsWorkers -> BOOLEAN]
    /\ \A w \in RsWorkers : warned[w] =>
         /\ ~RSP!Served(rs_handler[w])
         /\ rs_handler[w].pc = "verified" => rs_handler[w].token.jti \in rs_revoked

(* A token that is not active stays so while the AS lives.                 *)
LEMMA AnsweredStays ==
    ASSUME IInv, IInv', clock <= clock', signing_key' = signing_key,
           as_revoked \subseteq as_revoked', issued \subseteq issued',
           NEW tok \in issued \cup OtherTokens, ~ASP!IsActive(tok)
    PROVE  tok \in issued' \cup OtherTokens /\ ~ASP!IsActive(tok)'
BY ASP!InactiveStays, AuthServerAssumption
   DEF IInv, ASP!IInv, issued, ASP!issued, AS!VALID_SCOPES, ASP!VALID_SCOPES

LEMMA WarnedStep ==
    ASSUME SharedProcess, Keys = {as_public_key}, IInv, IInv', Warned, [Next]_vars
    PROVE  Warned'
<1>1. clock \in Nat /\ issued \subseteq issued'
  BY ClockIsNat, AuthServerMoves, IssuedStep DEF IInv
<1>2. CASE Tick \/ UNCHANGED vars
  <2>1. /\ clock <= clock'
        /\ UNCHANGED <<signing_key, as_revoked, rs_handler, rs_revoked, answered, warned>>
    BY <1>1, <1>2 DEF Tick, AS!Tick, vars, as_vars, rs_vars
  <2>2. \A tok \in answered' : tok \in issued' \cup OtherTokens /\ ~ASP!IsActive(tok)'
    BY <1>1, <2>1, AnsweredStays DEF Warned
  <2> QED BY <2>1, <2>2 DEF Warned, RSP!Served
<1>3. CASE AuthServerStep
  <2>1. /\ clock' = clock /\ signing_key' = signing_key /\ as_revoked \subseteq as_revoked'
        /\ UNCHANGED <<rs_handler, warned>> /\ rs_revoked \subseteq rs_revoked'
    BY <1>3, AuthServerStepFacts DEF IInv
  <2>2. ASSUME NEW tok \in answered'
        PROVE  tok \in issued' \cup OtherTokens /\ ~ASP!IsActive(tok)'
    <3>1. CASE tok \in answered
      BY <1>1, <2>1, <3>1, AnsweredStays DEF Warned
    <3>2. CASE tok \notin answered
      <4>1. PICK w \in AsWorkers : /\ as_handler'[w].pc = "done" /\ as_handler'[w].op = "revoke"
                                   /\ tok = as_handler'[w].token
        BY <1>3, <3>2 DEF AuthServerStep
      <4> QED BY <4>1 DEF IInv, ASP!IInv, ASP!DoneHandler, issued, ASP!issued, ASP!IsActive,
                         ASP!Accepted, ASP!Verified, ASP!is_revoked
    <3> QED BY <3>1, <3>2
  <2> QED BY <2>1, <2>2 DEF Warned, RSP!Served
<1>4. ASSUME NEW w \in RsWorkers, NEW r \in Requests, Request(w, r) PROVE Warned'
  <2>1. RSP!TakesRequest(w, r) /\ r.token \in issued \cup OtherTokens \cup {NoToken}
    BY <1>4, ResourceServerRequest DEF IInv, Request
  <2>2. /\ warned' = [warned EXCEPT ![w] = r.token \in answered]
        /\ UNCHANGED <<clock, signing_key, responses, as_revoked, rs_revoked, answered>>
    BY <1>4 DEF Request, as_vars, RS!Authenticate
  <2>3. \A tok \in answered' : tok \in issued' \cup OtherTokens /\ ~ASP!IsActive(tok)'
    BY <1>1, <2>2, AnsweredStays DEF Warned
  <2>4. warned' \in [RsWorkers -> BOOLEAN]
    BY <2>2 DEF Warned
  <2>5. ASSUME NEW v \in RsWorkers, warned'[v]
        PROVE  /\ ~RSP!Served(rs_handler'[v])
               /\ rs_handler'[v].pc = "verified" => rs_handler'[v].token.jti \in rs_revoked'
    <3>1. CASE v = w
      <4>1. r.token \in answered
        BY <2>2, <2>5, <3>1 DEF Warned
      <4>2. ~ASP!IsActive(r.token)
        BY <4>1 DEF Warned
      <4>3. ASSUME RSP!Verifies(r.token) PROVE r.token.jti \in rs_revoked
        <5>1. ASP!Accepted(r.token)
          <6>1. signing_key = as_public_key
            BY DEF IInv, ASP!IInv, ASP!TypeOK
          <6>2. clock + Skew = clock
            BY <1>1, SharedClockAssumption
          <6> QED BY <4>3, <6>1, <6>2
                  DEF RSP!Verifies, RSP!Verified, ASP!Accepted, ASP!Verified
        <5> QED BY <4>2, <5>1 DEF IInv, ASP!IsActive, ASP!is_revoked
      <4> QED BY <2>1, <2>2, <3>1, <4>3 DEF RSP!TakesRequest
    <3>2. CASE v # w
      BY <2>1, <2>2, <2>5, <3>2 DEF RSP!TakesRequest, Warned
    <3> QED BY <3>1, <3>2
  <2> QED BY <2>3, <2>4, <2>5 DEF Warned, RSP!Served
<1>5. ASSUME NEW w \in RsWorkers, Serve(w) PROVE Warned'
  <2>1. \A v \in RsWorkers : RSP!KeepsToken(v)
    BY <1>5, ResourceServerStep DEF IInv, Serve
  <2>2. UNCHANGED <<clock, signing_key, responses, as_revoked, rs_revoked, answered, warned>>
    BY <1>5 DEF Serve, as_vars, RS!Step, RS!Authorize, RS!RejectSlew, RS!log_connection,
                RS!Assign, RS!Read, RS!list_connections, RS!NextConnection
  <2>3. \A tok \in answered' : tok \in issued' \cup OtherTokens /\ ~ASP!IsActive(tok)'
    BY <1>1, <2>2, AnsweredStays DEF Warned
  <2>4. ASSUME NEW v \in RsWorkers, warned'[v]
        PROVE  /\ ~RSP!Served(rs_handler'[v])
               /\ rs_handler'[v].pc = "verified" => rs_handler'[v].token.jti \in rs_revoked'
    BY <2>1, <2>2, <2>4 DEF RSP!KeepsToken, RSP!is_revoked, Warned
  <2> QED BY <2>2, <2>3, <2>4 DEF Warned, RSP!Served
<1>6. CASE RestartBoth
  BY <1>6 DEF RestartBoth, Warned
<1>7. ~RestartAuthServer /\ ~RestartResourceServer
  BY DEF RestartAuthServer, RestartResourceServer
<1> QED BY <1>2, <1>3, <1>4, <1>5, <1>6, <1>7 DEF Next

(* In one process, with the one key of the AS, a request that reaches the  *)
(* RS after /revoke has answered 200 for its token is refused, in whatever *)
(* order the steps of the threads come.                                    *)
THEOREM RevocationEnforced ==
    ASSUME SharedProcess, Keys = {as_public_key}
    PROVE  Spec => []RevocationIsEnforced
<1>1. Init => Warned
  BY DEF Init, Warned
<1>2. IInv /\ IInv' /\ Warned /\ [Next]_vars => Warned'
  BY WarnedStep
<1>3. Warned => RevocationIsEnforced
  BY SameResourceServer DEF Warned, RevocationIsEnforced
<1> QED BY <1>1, <1>2, <1>3, InvariantHolds, PTL DEF Spec
=============================================================================
