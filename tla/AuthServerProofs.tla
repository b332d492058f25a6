-------------------------- MODULE AuthServerProofs --------------------------
(***************************************************************************)
(* What AuthServer promises, for every registry, every number of threads,  *)
(* tokens, keys and restarts, and every lifetime.                          *)
(***************************************************************************)
EXTENDS AuthServer, TLAPS

(* Every issued token names this AS and this RS and is not from the        *)
(* future.                                                                 *)
IssuedHere ==
    \A tok \in issued : tok.iss = as_url /\ tok.aud = rs_url /\ tok.iat <= now

JtisAreUnique == \A s, t \in issued : s.jti = t.jti => s = t

(* RevokedOnlyIfPosted, in the form that survives a new token.             *)
RevokedFromPosted == \A jti \in revoked : \E tok \in posted : tok.jti = jti

(* What a thread that is between its two steps knows of its token.         *)
VerifiedHandler ==
    \A w \in Workers : handler[w].pc = "verified" =>
        LET h == handler[w] IN
        /\ h.token \in issued
        /\ h.op = "revoke" => h.token \in posted
        /\ h.token.jti \notin revoked => h.was_active

(* What a thread that has answered knows of its token.                     *)
DoneHandler ==
    \A w \in Workers : handler[w].pc = "done" =>
        LET h == handler[w] IN
        /\ h.token \in issued \cup OtherTokens
        /\ IF h.op = "introspect" /\ h.active THEN h.was_active /\ h.token \in issued
                                              ELSE ~IsActive(h.token)

IInv ==
    /\ TypeOK
    /\ ScopesWithinRegistry
    /\ IssuedHere
    /\ JtisAreUnique
    /\ RevokedFromPosted
    /\ VerifiedHandler
    /\ DoneHandler
-----------------------------------------------------------------------------
(* A string that was not issued by this AS for this RS is never accepted.  *)
LEMMA AcceptedIsIssued ==
    ASSUME TypeOK, NEW tok \in issued \cup OtherTokens, Accepted(tok)
    PROVE  tok \in issued
BY OtherTokensAssumption DEF TypeOK, Accepted, Verified

(* As long as the process lives, the clock does not go back and the        *)
(* revocation list only grows, no token becomes active again.              *)
LEMMA InactiveStays ==
    ASSUME TypeOK, TypeOK', IssuedHere, now <= now', signing_key' = signing_key,
           revoked \subseteq revoked',
           NEW tok \in issued \cup OtherTokens, ~IsActive(tok)
    PROVE  ~IsActive(tok)'
<1>1. CASE tok \in OtherTokens
  BY <1>1, OtherTokensAssumption DEF TypeOK, IsActive, Accepted, Verified
<1>2. CASE tok \in issued
  <2>1. tok.iat <= now /\ tok.iss = as_url /\ tok.aud = rs_url
    BY <1>2 DEF IssuedHere
  <2>2. tok \in AccessToken
    BY <1>2 DEF TypeOK, issued, TokenResponse
  <2>3. tok.iat \in Nat /\ tok.exp \in Int /\ now \in Nat /\ now' \in Nat
    BY <2>2 DEF AccessToken, Token, TypeOK
  <2>4. CASE tok.key # signing_key
    BY <2>4 DEF IsActive, Accepted, Verified
  <2>5. CASE tok.exp <= now
    BY <2>3, <2>5 DEF IsActive, Accepted, Verified
  <2>6. CASE tok.jti \in revoked
    BY <2>6 DEF IsActive, is_revoked
  <2>7. tok.key # signing_key \/ tok.exp <= now \/ tok.jti \in revoked
    BY <2>1, <2>3 DEF IsActive, Accepted, Verified, is_revoked
  <2> QED BY <2>4, <2>5, <2>6, <2>7
<1> QED BY <1>1, <1>2

LEMMA InitIInv == Init => IInv
<1> SUFFICES ASSUME Init PROVE IInv
  OBVIOUS
<1>1. issued = {}
  BY DEF Init, issued
<1>2. TypeOK
  BY <1>1 DEF Init, TypeOK, Idle, Handling
<1>3. ScopesWithinRegistry /\ IssuedHere /\ JtisAreUnique
  BY <1>1 DEF ScopesWithinRegistry, IssuedHere, JtisAreUnique
<1>4. RevokedFromPosted /\ VerifiedHandler /\ DoneHandler
  BY DEF Init, Idle, RevokedFromPosted, VerifiedHandler, DoneHandler
<1> QED BY <1>2, <1>3, <1>4 DEF IInv

(***************************************************************************)
(* The steps.  token_endpoint adds one fresh token; every other action     *)
(* leaves `responses' alone, so that only the clock, the list and the      *)
(* handlers matter.                                                        *)
(***************************************************************************)
LEMMA TokenStep ==
    ASSUME IInv, NEW req \in TokenRequests, token_endpoint(req)
    PROVE  IInv'
<1> DEFINE new(jti) == issue_token(req.client_id, req.scope, signing_key,
                                   as_url, rs_url, token_lifetime, now, jti)
<1>1. PICK jti \in FreshJtis :
        responses' = responses \cup {[access_token |-> new(jti), scope |-> req.scope,
                                      expires_in |-> DEFAULT_EXPIRES_IN]}
  BY DEF token_endpoint
<1> DEFINE tok == new(jti)
           response == [access_token |-> tok, scope |-> req.scope,
                        expires_in |-> DEFAULT_EXPIRES_IN]
<1>2. issued' = issued \cup {tok}
  <2>1. responses' = responses \cup {response} /\ response.access_token = tok
    BY <1>1
  <2> HIDE DEF tok, response
  <2> QED BY <2>1, Zenon DEF issued
<1>3. UNCHANGED <<now, signing_key, revoked, handler, posted, epoch>>
  BY DEF token_endpoint
<1>4. jti \in Jtis /\ \A t \in issued : t.jti # jti
  BY DEF FreshJtis
<1>5. /\ req.client_id \in Clients /\ req.scope \subseteq VALID_SCOPES
      /\ req.scope \subseteq allowed_scopes[req.client_id]
  BY DEF token_endpoint, TokenStatus, Authenticated, ValidTokenRequest
<1>6. /\ tok.sub = req.client_id /\ tok.scope = req.scope /\ tok.iat = now
      /\ tok.jti = jti /\ tok.iss = as_url /\ tok.aud = rs_url
  BY DEF issue_token
<1>7. tok \in AccessToken
  BY <1>4, <1>5, LifetimeAssumption
  DEF IInv, TypeOK, AccessToken, Token, Urls, issue_token
<1>8. TypeOK'
  <2>1. responses' \subseteq TokenResponse
    BY <1>1, <1>5, <1>7 DEF IInv, TypeOK, TokenResponse, DEFAULT_EXPIRES_IN
  <2>2. posted' \subseteq issued'
    BY <1>2, <1>3 DEF IInv, TypeOK
  <2> QED BY <2>1, <2>2, <1>3 DEF IInv, TypeOK
<1>9. ScopesWithinRegistry'
  BY <1>2, <1>5, <1>6 DEF IInv, ScopesWithinRegistry
<1>10. IssuedHere'
  BY <1>2, <1>3, <1>6 DEF IInv, TypeOK, IssuedHere
<1>11. JtisAreUnique'
  BY <1>2, <1>4, <1>6 DEF IInv, JtisAreUnique
<1>12. RevokedFromPosted'
  BY <1>3 DEF IInv, RevokedFromPosted
<1>13. VerifiedHandler'
  BY <1>2, <1>3 DEF IInv, VerifiedHandler
<1>14. DoneHandler'
  BY <1>2, <1>3 DEF IInv, DoneHandler, IsActive, Accepted, is_revoked
<1> QED BY <1>8, <1>9, <1>10, <1>11, <1>12, <1>13, <1>14 DEF IInv

(* What a step keeps that issues no token.                                 *)
LEMMA NoNewToken ==
    ASSUME IInv, UNCHANGED responses, now' \in Nat, now <= now'
    PROVE  issued' = issued /\ ScopesWithinRegistry' /\ IssuedHere' /\ JtisAreUnique'
<1>1. issued' = issued
  BY DEF issued
<1>2. \A tok \in issued : tok.iat \in Nat
  BY DEF IInv, TypeOK, issued, TokenResponse, AccessToken, Token
<1>3. IssuedHere'
  BY <1>1, <1>2 DEF IInv, TypeOK, IssuedHere
<1> QED BY <1>1, <1>3 DEF IInv, ScopesWithinRegistry, JtisAreUnique

LEMMA TickStep ==
    ASSUME IInv, Tick
    PROVE  IInv'
<1>1. /\ now \in Nat /\ now' = now + 1
      /\ UNCHANGED <<signing_key, responses, revoked, handler, posted, epoch>>
  BY DEF Tick, IInv, TypeOK
<1>2. issued' = issued /\ ScopesWithinRegistry' /\ IssuedHere' /\ JtisAreUnique'
  BY <1>1, NoNewToken
<1>3. TypeOK'
  BY <1>1, <1>2 DEF IInv, TypeOK
<1>4. RevokedFromPosted' /\ VerifiedHandler'
  BY <1>1, <1>2 DEF IInv, RevokedFromPosted, VerifiedHandler
<1>5. DoneHandler'
  <2> SUFFICES ASSUME NEW w \in Workers, handler[w].pc = "done",
                      ~(handler[w].op = "introspect" /\ handler[w].active)
               PROVE  ~IsActive(handler[w].token)'
    BY <1>1, <1>2 DEF IInv, DoneHandler
  <2>1. handler[w].token \in issued \cup OtherTokens /\ ~IsActive(handler[w].token)
    BY DEF IInv, DoneHandler
  <2>2. \A tok \in issued \cup OtherTokens : ~IsActive(tok) => ~IsActive(tok)'
    BY <1>1, <1>3, InactiveStays DEF IInv
  <2> QED BY <2>1, <2>2, <1>1
<1> QED BY <1>2, <1>3, <1>4, <1>5 DEF IInv

(* The first step of both endpoints; `seen' is what RevokeVerify adds to   *)
(* the history.                                                            *)
LEMMA VerifyStep ==
    ASSUME IInv, NEW w \in Workers, NEW op \in {"introspect", "revoke"},
           NEW tok \in issued \cup OtherTokens, Verify(w, op, tok),
           posted \subseteq posted', posted' \subseteq issued,
           op = "revoke" /\ tok \in issued => tok \in posted'
    PROVE  IInv'
<1> DEFINE h == [pc |-> IF Accepted(tok) THEN "verified" ELSE "done", op |-> op,
                 token |-> tok, active |-> FALSE, was_active |-> IsActive(tok)]
<1>1. /\ handler' = [handler EXCEPT ![w] = h]
      /\ UNCHANGED <<now, signing_key, responses, revoked, epoch>>
  BY DEF Verify
<1>2. issued' = issued /\ ScopesWithinRegistry' /\ IssuedHere' /\ JtisAreUnique'
  BY <1>1, NoNewToken DEF IInv, TypeOK
<1>3. issued \subseteq AccessToken
  BY DEF IInv, TypeOK, issued, TokenResponse
<1>4. Accepted(tok) \in BOOLEAN /\ IsActive(tok) \in BOOLEAN
  BY DEF Accepted, Verified, IsActive
<1>5. h \in Handling
  BY <1>3, <1>4 DEF Handling
<1>6. TypeOK'
  BY <1>1, <1>2, <1>5 DEF IInv, TypeOK
<1>7. \A v \in Workers : handler'[v] = IF v = w THEN h ELSE handler[v]
  BY <1>1 DEF IInv, TypeOK
<1>8. RevokedFromPosted'
  BY <1>1 DEF IInv, RevokedFromPosted
<1>9. VerifiedHandler'
  <2> SUFFICES ASSUME NEW v \in Workers, handler'[v].pc = "verified"
               PROVE  /\ handler'[v].token \in issued
                      /\ handler'[v].op = "revoke" => handler'[v].token \in posted'
                      /\ handler'[v].token.jti \notin revoked => handler'[v].was_active
    BY <1>1, <1>2 DEF VerifiedHandler
  <2>1. CASE v # w
    BY <2>1, <1>7 DEF IInv, VerifiedHandler
  <2>2. CASE v = w
    <3>1. Accepted(tok) /\ tok \in issued
      BY <2>2, <1>7, AcceptedIsIssued DEF IInv
    <3>2. handler'[v].token = tok /\ handler'[v].op = op
          /\ handler'[v].was_active = IsActive(tok)
      BY <2>2, <1>7
    <3>3. tok.jti \notin revoked => IsActive(tok)
      BY <3>1 DEF IsActive, is_revoked
    <3> QED BY <3>1, <3>2, <3>3
  <2> QED BY <2>1, <2>2
<1>10. DoneHandler'
  <2>1. \A t : IsActive(t)' <=> IsActive(t)
    BY <1>1 DEF IsActive, Accepted, is_revoked
  <2> SUFFICES ASSUME NEW v \in Workers, handler'[v].pc = "done"
               PROVE  /\ handler'[v].token \in issued \cup OtherTokens
                      /\ IF handler'[v].op = "introspect" /\ handler'[v].active
                         THEN handler'[v].was_active /\ handler'[v].token \in issued
                         ELSE ~IsActive(handler'[v].token)
    BY <1>2, <2>1 DEF DoneHandler
  <2>2. CASE v # w
    BY <2>2, <1>7 DEF IInv, DoneHandler
  <2>3. CASE v = w
    BY <2>3, <1>7 DEF IsActive
  <2> QED BY <2>2, <2>3
<1> QED BY <1>2, <1>6, <1>8, <1>9, <1>10 DEF IInv

(* A /revoke without a token changes nothing but its own thread.           *)
LEMMA RevokeRefusesStep ==
    ASSUME IInv, NEW w \in Workers, RevokeRefuses(w)
    PROVE  IInv'
<1>1. PICK h : h = [Idle EXCEPT !.pc = "refused"]
  OBVIOUS
<1>2. /\ handler' = [handler EXCEPT ![w] = h]
      /\ UNCHANGED <<now, signing_key, responses, revoked, posted, epoch>>
  BY <1>1 DEF RevokeRefuses
<1>3. issued' = issued /\ ScopesWithinRegistry' /\ IssuedHere' /\ JtisAreUnique'
  BY <1>2, NoNewToken DEF IInv, TypeOK
<1>4. h \in Handling /\ h.pc = "refused"
  BY <1>1 DEF Idle, Handling
<1>5. TypeOK'
  BY <1>2, <1>3, <1>4 DEF IInv, TypeOK
<1>6. \A v \in Workers : handler'[v] = IF v = w THEN h ELSE handler[v]
  BY <1>2 DEF IInv, TypeOK
<1>7. RevokedFromPosted' /\ VerifiedHandler'
  BY <1>2, <1>3, <1>4, <1>6 DEF IInv, RevokedFromPosted, VerifiedHandler
<1>8. DoneHandler'
  <2>1. \A t : IsActive(t)' <=> IsActive(t)
    BY <1>2 DEF IsActive, Accepted, is_revoked
  <2> QED BY <1>3, <1>4, <1>6, <2>1 DEF IInv, DoneHandler
<1> QED BY <1>3, <1>5, <1>7, <1>8 DEF IInv

LEMMA IntrospectAnswerStep ==
    ASSUME IInv, NEW w \in Workers, IntrospectAnswer(w)
    PROVE  IInv'
<1> DEFINE h == [handler[w] EXCEPT !.pc = "done",
                                   !.active = ~is_revoked(handler[w].token.jti)]
<1>1. /\ handler' = [handler EXCEPT ![w] = h]
      /\ handler[w].pc = "verified" /\ handler[w].op = "introspect"
      /\ UNCHANGED <<now, signing_key, responses, revoked, posted, epoch>>
  BY DEF IntrospectAnswer
<1>2. issued' = issued /\ ScopesWithinRegistry' /\ IssuedHere' /\ JtisAreUnique'
  BY <1>1, NoNewToken DEF IInv, TypeOK
<1>3. handler[w] \in Handling
  BY DEF IInv, TypeOK
<1>4. h \in Handling
  BY <1>3 DEF Handling, is_revoked
<1>5. TypeOK'
  BY <1>1, <1>2, <1>4 DEF IInv, TypeOK
<1>6. \A v \in Workers : handler'[v] = IF v = w THEN h ELSE handler[v]
  BY <1>1 DEF IInv, TypeOK
<1>7. RevokedFromPosted'
  BY <1>1 DEF IInv, RevokedFromPosted
<1>8. h.pc = "done" /\ h.op = "introspect" /\ h.token = handler[w].token
      /\ h.was_active = handler[w].was_active /\ h.active = ~is_revoked(h.token.jti)
  BY <1>1, <1>3 DEF Handling
<1>9. VerifiedHandler'
  BY <1>1, <1>2, <1>6, <1>8 DEF IInv, VerifiedHandler
<1>10. DoneHandler'
  <2>1. \A t : IsActive(t)' <=> IsActive(t)
    BY <1>1 DEF IsActive, Accepted, is_revoked
  <2>2. /\ h.token \in issued
        /\ IF h.active THEN h.was_active ELSE ~IsActive(h.token)
    BY <1>1, <1>8 DEF IInv, VerifiedHandler, IsActive, is_revoked
  <2> QED BY <1>2, <1>6, <1>8, <2>1, <2>2 DEF IInv, DoneHandler
<1> QED BY <1>2, <1>5, <1>7, <1>9, <1>10 DEF IInv

LEMMA RevokeAnswerStep ==
    ASSUME IInv, NEW w \in Workers, RevokeAnswer(w)
    PROVE  IInv'
<1> DEFINE h == [handler[w] EXCEPT !.pc = "done"]
           tok == handler[w].token
<1>1. /\ handler' = [handler EXCEPT ![w] = h]
      /\ handler[w].pc = "verified" /\ handler[w].op = "revoke"
      /\ revoked' = revoked \cup {tok.jti}
      /\ UNCHANGED <<now, signing_key, responses, posted, epoch>>
  BY DEF RevokeAnswer, revoke_token
<1>2. issued' = issued /\ ScopesWithinRegistry' /\ IssuedHere' /\ JtisAreUnique'
  BY <1>1, NoNewToken DEF IInv, TypeOK
<1>3. handler[w] \in Handling /\ tok \in issued /\ tok \in posted
  BY <1>1 DEF IInv, TypeOK, VerifiedHandler
<1>4. tok.jti \in Jtis
  BY <1>3 DEF IInv, TypeOK, issued, TokenResponse, AccessToken, Token
<1>5. h \in Handling
  BY <1>3 DEF Handling
<1>6. TypeOK'
  BY <1>1, <1>2, <1>4, <1>5 DEF IInv, TypeOK
<1>7. \A v \in Workers : handler'[v] = IF v = w THEN h ELSE handler[v]
  BY <1>1 DEF IInv, TypeOK
<1>8. h.pc = "done" /\ h.op = "revoke" /\ h.token = tok
  BY <1>1, <1>3 DEF Handling
<1>9. RevokedFromPosted'
  BY <1>1, <1>3 DEF IInv, RevokedFromPosted
<1>10. VerifiedHandler'
  BY <1>1, <1>2, <1>7, <1>8 DEF IInv, VerifiedHandler
<1>11. DoneHandler'
  <2>1. \A t \in issued \cup OtherTokens : ~IsActive(t) => ~IsActive(t)'
    BY <1>1, <1>6, InactiveStays DEF IInv, TypeOK
  <2>2. ~IsActive(tok)'
    BY <1>1 DEF IsActive, is_revoked
  <2> SUFFICES ASSUME NEW v \in Workers, handler'[v].pc = "done"
               PROVE  /\ handler'[v].token \in issued \cup OtherTokens
                      /\ IF handler'[v].op = "introspect" /\ handler'[v].active
                         THEN handler'[v].was_active /\ handler'[v].token \in issued
                         ELSE ~IsActive(handler[v].token)'
    BY <1>2, <1>7, <1>8 DEF DoneHandler
  <2>3. CASE v # w
    BY <2>1, <2>3, <1>7 DEF IInv, DoneHandler
  <2>4. CASE v = w
    BY <2>2, <2>4, <1>3, <1>7, <1>8
  <2> QED BY <2>3, <2>4
<1> QED BY <1>2, <1>6, <1>9, <1>10, <1>11 DEF IInv

LEMMA RestartStep ==
    ASSUME IInv, Restart
    PROVE  IInv'
<1>1. /\ UNCHANGED <<now, responses>> /\ signing_key' \in Keys
      /\ revoked' = {} /\ posted' = {} /\ handler' = [w \in Workers |-> Idle]
      /\ epoch' = epoch + 1
  BY DEF Restart
<1>2. issued' = issued /\ ScopesWithinRegistry' /\ IssuedHere' /\ JtisAreUnique'
  BY <1>1, NoNewToken DEF IInv, TypeOK
<1>3. Idle \in Handling
  BY DEF Idle, Handling
<1>4. TypeOK'
  BY <1>1, <1>3 DEF IInv, TypeOK
<1>5. RevokedFromPosted' /\ VerifiedHandler' /\ DoneHandler'
  BY <1>1 DEF RevokedFromPosted, VerifiedHandler, DoneHandler, Idle
<1> QED BY <1>2, <1>4, <1>5 DEF IInv

LEMMA NextIInv == IInv /\ [Next]_vars => IInv'
<1> SUFFICES ASSUME IInv, [Next]_vars PROVE IInv'
  OBVIOUS
<1>1. CASE Tick
  BY <1>1, TickStep
<1>2. ASSUME NEW req \in TokenRequests, token_endpoint(req) PROVE IInv'
  BY <1>2, TokenStep
<1>3. ASSUME NEW w \in Workers, NEW tok \in issued \cup OtherTokens, IntrospectVerify(w, tok)
      PROVE  IInv'
  BY <1>3, VerifyStep DEF IntrospectVerify, IInv, TypeOK
<1>4. ASSUME NEW w \in Workers, NEW tok \in issued \cup OtherTokens, RevokeVerify(w, tok)
      PROVE  IInv'
  BY <1>4, VerifyStep DEF RevokeVerify, IInv, TypeOK
<1>5. ASSUME NEW w \in Workers, IntrospectAnswer(w) PROVE IInv'
  BY <1>5, IntrospectAnswerStep
<1>6. ASSUME NEW w \in Workers, RevokeAnswer(w) PROVE IInv'
  BY <1>6, RevokeAnswerStep
<1>7. ASSUME NEW w \in Workers, RevokeRefuses(w) PROVE IInv'
  BY <1>7, RevokeRefusesStep
<1>8. CASE Restart
  BY <1>8, RestartStep
<1>9. CASE UNCHANGED vars
  BY <1>9 DEF vars, IInv, TypeOK, ScopesWithinRegistry, IssuedHere, JtisAreUnique,
              RevokedFromPosted, VerifiedHandler, DoneHandler, issued,
              IsActive, Accepted, is_revoked
<1> QED BY <1>1, <1>2, <1>3, <1>4, <1>5, <1>6, <1>7, <1>8, <1>9 DEF Next

(* Within the life of a process the clock goes on, the key stays and the   *)
(* revocation list only grows.                                             *)
LEMMA SameProcess ==
    ASSUME IInv, Next, epoch' = epoch
    PROVE  now <= now' /\ signing_key' = signing_key /\ revoked \subseteq revoked'
<1>1. now \in Nat /\ epoch \in Nat
  BY DEF IInv, TypeOK
<1>2. CASE Tick
  BY <1>1, <1>2 DEF Tick
<1>3. CASE \E req \in TokenRequests : token_endpoint(req)
  BY <1>1, <1>3 DEF token_endpoint
<1>4. CASE \E w \in Workers, t \in issued \cup OtherTokens :
             IntrospectVerify(w, t) \/ RevokeVerify(w, t)
  BY <1>1, <1>4 DEF IntrospectVerify, RevokeVerify, Verify
<1>5. CASE \E w \in Workers : RevokeRefuses(w) \/ IntrospectAnswer(w) \/ RevokeAnswer(w)
  BY <1>1, <1>5 DEF RevokeRefuses, IntrospectAnswer, RevokeAnswer, revoke_token
<1>6. ~Restart
  BY <1>1 DEF Restart
<1> QED BY <1>2, <1>3, <1>4, <1>5, <1>6 DEF Next

(* The inductive invariant holds in every state of every behaviour.        *)
LEMMA InvariantHolds == Spec => []IInv
BY InitIInv, NextIInv, PTL DEF Spec

-----------------------------------------------------------------------------
(* The state of the AS keeps its types (auth.py, create_auth_app).         *)
THEOREM TypeCorrect == Spec => []TypeOK
<1>1. IInv => TypeOK
  BY DEF IInv
<1> QED BY <1>1, InvariantHolds, PTL

(* No issued token has a scope outside its client's registration           *)
(* (auth.py, token_endpoint).                                              *)
THEOREM ScopesAreRegistered == Spec => []ScopesWithinRegistry
<1>1. IInv => ScopesWithinRegistry
  BY DEF IInv
<1> QED BY <1>1, InvariantHolds, PTL

(* Only a /revoke that carries a token revokes this token (auth.py,        *)
(* revoke_endpoint): the list of jtis names the tokens that were posted.   *)
THEOREM NothingElseIsRevoked == Spec => []RevokedOnlyIfPosted
<1>1. IInv => RevokedOnlyIfPosted
  BY DEF IInv, TypeOK, RevokedFromPosted, JtisAreUnique, RevokedOnlyIfPosted, is_revoked
<1> QED BY <1>1, InvariantHolds, PTL

(* A 200 of /revoke means that the posted token is not active (auth.py,    *)
(* revoke_endpoint), whatever ran in between.                              *)
THEOREM RevocationIsFinal == Spec => []RevokeAnswerIsFinal
<1>1. IInv => RevokeAnswerIsFinal
  BY DEF IInv, DoneHandler, RevokeAnswerIsFinal
<1> QED BY <1>1, InvariantHolds, PTL

(* The answers of /introspect are those of an atomic endpoint (auth.py,    *)
(* introspect_endpoint), for any number of threads.                        *)
THEOREM IntrospectionLinearizes == Spec => []IntrospectionIsAtomic
<1>1. IInv => IntrospectionIsAtomic
  BY DEF IInv, DoneHandler, IntrospectionIsAtomic
<1> QED BY <1>1, InvariantHolds, PTL

(* A token that has become inactive stays so for the life of the process.  *)
THEOREM NoResurrection == Spec => InactiveIsForever
<1>1. IInv /\ IInv' /\ [Next]_vars =>
        [epoch' = epoch => \A tok \in issued : ~IsActive(tok) => ~IsActive(tok)']_vars
  <2> SUFFICES ASSUME IInv, IInv', Next, epoch' = epoch,
                      NEW tok \in issued, ~IsActive(tok)
               PROVE  ~IsActive(tok)'
    BY DEF vars
  <2>1. now <= now' /\ signing_key' = signing_key /\ revoked \subseteq revoked'
    BY SameProcess
  <2> QED BY <2>1, InactiveStays DEF IInv
<1> QED BY <1>1, InvariantHolds, PTL DEF Spec, InactiveIsForever
=============================================================================
