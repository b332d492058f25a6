------------------------ MODULE AuthServerRefinement -------------------------
(***************************************************************************)
(* AuthServer implements TokenAuthority.  Every step of the AS is mapped   *)
(* to one of the abstract specification or to a stutter:                   *)
(*                                                                         *)
(*    token_endpoint                     Grant                             *)
(*    Tick                               Lapse                             *)
(*    IntrospectVerify, RevokeVerify     Begin                             *)
(*    RevokeRefuses                      Refuse                            *)
(*    IntrospectAnswer                   Introspect                        *)
(*    RevokeAnswer                       Revoke                            *)
(*    Restart                            Restart                           *)
(***************************************************************************)
EXTENDS AuthServerProofs

LEMMA InitRefines == Init => Authority!Init
<1> SUFFICES ASSUME Init PROVE Authority!Init
  OBVIOUS
<1>1. issued = {} /\ Live = {}
  BY DEF Init, issued, Live
<1>2. Calls = [w \in Workers |-> Authority!NoCall]
  BY DEF Init, Calls, AbstractCall, Idle, Authority!NoCall, Authority!Call
<1> QED BY <1>1, <1>2 DEF Authority!Init

(* Whether a token is active is the same before and after a step that      *)
(* leaves the clock, the key and the list alone.                           *)
LEMMA SameActive ==
    ASSUME UNCHANGED <<now, signing_key, revoked>>
    PROVE  /\ \A tok : IsActive(tok)' <=> IsActive(tok)
           /\ \A h : AbstractCall(h)' = AbstractCall(h)
BY DEF AbstractCall, IsActive, Accepted, Verified, is_revoked

(* A thread's call before and after a step.                                *)
LEMMA CallBefore ==
    ASSUME IInv, NEW w \in Workers
    PROVE  handler[w] \in Handling /\ Calls[w] = AbstractCall(handler[w])
BY DEF IInv, TypeOK, Calls

LEMMA CallAfter ==
    ASSUME IInv', NEW w \in Workers, NEW h, h = handler'[w]
    PROVE  h \in Handling /\ Calls'[w] = AbstractCall(h)'
BY DEF IInv, TypeOK, Calls, AbstractCall, IsActive, Accepted, Verified, is_revoked

(* What an open call has been able to say: once its token was active it    *)
(* may say so.                                                             *)
LEMMA OpenCall ==
    ASSUME IInv, NEW w \in Workers, handler[w].pc = "verified"
    PROVE  /\ handler[w].token \in issued
           /\ IsActive(handler[w].token) => handler[w].was_active
           /\ handler[w].was_active \in BOOLEAN
BY DEF IInv, TypeOK, Handling, VerifiedHandler, IsActive, is_revoked

(* The fields of an abstract call.                                         *)
LEMMA CallFields ==
    ASSUME NEW h \in Handling
    PROVE  /\ AbstractCall(h).op = h.op /\ AbstractCall(h).token = h.token
           /\ AbstractCall(h).answer = h.active
           /\ AbstractCall(h).status = "open" <=> h.pc = "verified"
           /\ AbstractCall(h).status = "closed" <=> h.pc = "done"
           /\ AbstractCall(h).possible =
                IF h.pc = "verified" THEN {h.was_active, IsActive(h.token)} ELSE {}
BY DEF AbstractCall, Handling

-----------------------------------------------------------------------------
(* What time, and another thread's /revoke, do to a call: it may deny its  *)
(* token from the moment the token is live no longer.                      *)
LEMMA CallLapses ==
    ASSUME IInv, IInv', issued' = issued, NEW w \in Workers,
           handler'[w] = handler[w],
           \A tok \in issued : ~IsActive(tok) => ~IsActive(tok)'
    PROVE  Calls'[w] = IF Calls[w].status = "open" /\ Calls[w].token \in Live \ Live'
                       THEN Authority!MayDeny(Calls[w]) ELSE Calls[w]
<1>1. PICK h \in Handling : h = handler[w] /\ h = handler'[w]
  BY DEF IInv, TypeOK
<1>2. Calls[w] = AbstractCall(h) /\ Calls'[w] = AbstractCall(h)'
  BY <1>1, CallBefore, CallAfter
<1>3. CASE h.pc # "verified"
  <2>1. Calls[w].status # "open"
    BY <1>2, <1>3, CallFields
  <2>2. AbstractCall(h)' = AbstractCall(h)
    BY <1>3 DEF AbstractCall
  <2> QED BY <2>1, <2>2, <1>2
<1>4. CASE h.pc = "verified"
  <2>1. /\ h.token \in issued /\ (IsActive(h.token) => h.was_active)
        /\ h.was_active \in BOOLEAN
    BY <1>1, <1>4, OpenCall
  <2>2. (h.token \in Live <=> IsActive(h.token)) /\ (h.token \in Live' <=> IsActive(h.token)')
    BY <2>1 DEF Live
  <2>3. IsActive(h.token) \in BOOLEAN /\ IsActive(h.token)' \in BOOLEAN
    BY DEF IsActive, Accepted, Verified
  <2>4. Calls[w].status = "open" /\ Calls[w].token = h.token
    BY <1>2, <1>4, CallFields
  <2>5. CASE IsActive(h.token) /\ ~IsActive(h.token)'
    <3>1. {h.was_active, IsActive(h.token)'}
            = {h.was_active, IsActive(h.token)} \cup {FALSE}
      BY <2>1, <2>3, <2>5
    <3>2. AbstractCall(h)' = Authority!MayDeny(AbstractCall(h))
      BY <1>4, <3>1 DEF AbstractCall, Authority!MayDeny, Authority!Call
    <3> QED BY <3>2, <1>2, <2>2, <2>4, <2>5
  <2>6. CASE ~(IsActive(h.token) /\ ~IsActive(h.token)')
    <3>1. IsActive(h.token)' = IsActive(h.token)
      BY <2>1, <2>3, <2>6
    <3>2. AbstractCall(h)' = AbstractCall(h)
      BY <1>4, <3>1 DEF AbstractCall
    <3> QED BY <3>2, <1>2, <2>2, <2>4, <2>6
  <2> QED BY <2>5, <2>6
<1> QED BY <1>3, <1>4

LEMMA TickRefines ==
    ASSUME IInv, IInv', Tick
    PROVE  Authority!Lapse
<1>1. /\ now \in Nat /\ now' = now + 1
      /\ UNCHANGED <<signing_key, responses, revoked, handler>>
  BY DEF Tick, IInv, TypeOK
<1>2. issued' = issued
  BY <1>1 DEF issued
<1>3. \A tok \in issued : ~IsActive(tok) => ~IsActive(tok)'
  BY <1>1, InactiveStays DEF IInv
<1>4. Live' \subseteq Live
  BY <1>2, <1>3 DEF Live
<1>5. \A w \in Workers :
        Calls'[w] = IF Calls[w].status = "open" /\ Calls[w].token \in Live \ Live'
                    THEN Authority!MayDeny(Calls[w]) ELSE Calls[w]
  BY <1>1, <1>2, <1>3, CallLapses
<1>6. Calls' = [w \in Workers |-> Calls'[w]]
  BY DEF Calls
<1> HIDE DEF Calls, Live
<1>7. Calls' = [w \in Workers |->
                 IF Calls[w].status = "open" /\ Calls[w].token \in Live \ Live'
                 THEN Authority!MayDeny(Calls[w]) ELSE Calls[w]]
  BY <1>5, <1>6
<1> QED BY <1>2, <1>4, <1>7 DEF Authority!Lapse

LEMMA TokenRefines ==
    ASSUME IInv, IInv', NEW req \in TokenRequests, token_endpoint(req)
    PROVE  Authority!Grant
<1> DEFINE new(jti) == issue_token(req.client_id, req.scope, signing_key,
                                   as_url, rs_url, token_lifetime, now, jti)
<1>1. PICK jti \in FreshJtis :
        responses' = responses \cup {[access_token |-> new(jti), scope |-> req.scope,
                                      expires_in |-> DEFAULT_EXPIRES_IN]}
  BY DEF token_endpoint
<1>2. UNCHANGED <<now, signing_key, revoked, handler>>
  BY DEF token_endpoint
<1>3. PICK tok : tok = new(jti)
  OBVIOUS
<1>4. issued' = issued \cup {tok}
  <2> DEFINE r == [access_token |-> tok, scope |-> req.scope,
                   expires_in |-> DEFAULT_EXPIRES_IN]
  <2>1. responses' = responses \cup {r} /\ r.access_token = tok
    BY <1>1, <1>3
  <2> HIDE DEF r
  <2> QED BY <2>1, Zenon DEF issued
<1>5. tok \notin issued
  <2>1. tok.jti = jti
    BY <1>3 DEF issue_token
  <2> QED BY <2>1 DEF FreshJtis
<1>6. tok \in issued' \ issued
  BY <1>4, <1>5
<1>7. tok.sub \in Clients /\ tok.scope \subseteq allowed_scopes[tok.sub]
  BY <1>6 DEF IInv, ScopesWithinRegistry
<1>8. Live' \in {Live, Live \cup {tok}}
  <2>1. \A t : IsActive(t)' <=> IsActive(t)
    BY <1>2, SameActive
  <2>2. Live' = {t \in issued \cup {tok} : IsActive(t)}
    BY <1>4, <2>1 DEF Live
  <2> QED BY <2>2 DEF Live
<1>9. Calls' = Calls
  BY <1>2, SameActive DEF Calls, AbstractCall
<1> QED BY <1>4, <1>6, <1>7, <1>8, <1>9 DEF Authority!Grant

(* A step of one thread that changes nothing but its own call.             *)
LEMMA OneCall ==
    ASSUME IInv, IInv', UNCHANGED <<now, signing_key, revoked, responses>>,
           NEW w \in Workers, NEW h, handler' = [handler EXCEPT ![w] = h]
    PROVE  /\ issued' = issued /\ Live' = Live
           /\ h \in Handling /\ Calls'[w] = AbstractCall(h)
           /\ Calls' = [Calls EXCEPT ![w] = AbstractCall(h)]
<1>1. issued' = issued
  BY DEF issued
<1>2. /\ \A t : IsActive(t)' <=> IsActive(t)
      /\ \A g : AbstractCall(g)' = AbstractCall(g)
  BY SameActive
<1>3. Live' = Live
  BY <1>1, <1>2 DEF Live
<1>4. \A v \in Workers : handler'[v] = IF v = w THEN h ELSE handler[v]
  BY DEF IInv, TypeOK
<1>5. h \in Handling /\ Calls'[w] = AbstractCall(h)
  BY <1>2, <1>4, CallAfter
<1>6. ASSUME NEW v \in Workers, v # w PROVE Calls'[v] = Calls[v]
  <2>1. PICK g \in Handling : g = handler[v] /\ g = handler'[v]
    BY <1>4, <1>6 DEF IInv, TypeOK
  <2>2. Calls[v] = AbstractCall(g)
    BY <2>1, CallBefore
  <2>3. Calls'[v] = AbstractCall(g)'
    BY <2>1, CallAfter
  <2> QED BY <2>2, <2>3, <1>2
<1>7. Calls = [v \in Workers |-> Calls[v]] /\ Calls' = [v \in Workers |-> Calls'[v]]
  BY DEF Calls
<1> HIDE DEF Calls
<1>8. Calls' = [Calls EXCEPT ![w] = AbstractCall(h)]
  BY <1>5, <1>6, <1>7
<1> QED BY <1>1, <1>3, <1>5, <1>8

LEMMA VerifyRefines ==
    ASSUME IInv, IInv', NEW w \in Workers, NEW op \in {"introspect", "revoke"},
           NEW tok \in issued \cup OtherTokens, Verify(w, op, tok)
    PROVE  Authority!Begin(w)
<1>1. PICK h : h = [pc |-> IF Accepted(tok) THEN "verified" ELSE "done", op |-> op,
                    token |-> tok, active |-> FALSE, was_active |-> IsActive(tok)]
  OBVIOUS
<1>2. /\ handler' = [handler EXCEPT ![w] = h] /\ handler[w].pc # "verified"
      /\ UNCHANGED <<now, signing_key, revoked, responses>>
  BY <1>1 DEF Verify, Ready
<1>3. /\ issued' = issued /\ Live' = Live
      /\ h \in Handling /\ Calls'[w] = AbstractCall(h)
      /\ Calls' = [Calls EXCEPT ![w] = AbstractCall(h)]
  BY <1>2, OneCall
<1>4. Calls[w].status # "open"
  BY <1>2, CallBefore, CallFields
<1>5. Calls'[w].op \in {"introspect", "revoke"} /\ ~Calls'[w].answer
      /\ Calls'[w].token = tok
  <2>1. h.op = op /\ h.token = tok /\ h.active = FALSE
    BY <1>1
  <2>2. /\ Calls'[w].op = op /\ Calls'[w].token = tok
        /\ Calls'[w].answer = FALSE
    BY <2>1, <1>3, CallFields
  <2> QED BY <2>2
<1>6. CASE Accepted(tok)
  <2>1. h.pc = "verified" /\ h.was_active = IsActive(tok) /\ h.token = tok
    BY <1>1, <1>6
  <2>2. tok \in issued
    BY <1>6, AcceptedIsIssued DEF IInv
  <2>3. Calls'[w].status = "open" /\ Calls'[w].possible = {IsActive(tok)}
    BY <2>1, <1>3, CallFields
  <2>4. IsActive(tok) = (tok \in Live)
    BY <2>2 DEF Live, IsActive
  <2>5. Calls'[w].possible = {Calls'[w].token \in Live}
    BY <2>3, <2>4, <1>5
  <2> QED BY <2>2, <2>3, <2>5, <1>3, <1>4, <1>5 DEF Authority!Begin
<1>7. CASE ~Accepted(tok)
  <2>1. h.pc = "done"
    BY <1>1, <1>7
  <2>2. Calls'[w].status = "closed" /\ Calls'[w].possible = {}
    BY <2>1, <1>3, CallFields
  <2>3. tok \notin Live
    BY <1>7 DEF Live, IsActive
  <2> QED BY <2>2, <2>3, <1>3, <1>4, <1>5 DEF Authority!Begin
<1> QED BY <1>6, <1>7

(* A request without a token ends the previous call and opens none.        *)
LEMMA RefusesRefines ==
    ASSUME IInv, IInv', NEW w \in Workers, RevokeRefuses(w)
    PROVE  Authority!Refuse(w)
<1>1. PICK h : h = [Idle EXCEPT !.pc = "refused"]
  OBVIOUS
<1>2. /\ handler' = [handler EXCEPT ![w] = h] /\ handler[w].pc # "verified"
      /\ UNCHANGED <<now, signing_key, revoked, responses>>
  BY <1>1 DEF RevokeRefuses, Ready
<1>3. issued' = issued /\ Live' = Live /\ Calls' = [Calls EXCEPT ![w] = AbstractCall(h)]
  BY <1>2, OneCall
<1>4. Calls[w].status # "open"
  BY <1>2, CallBefore, CallFields
<1>5. AbstractCall(h) = Authority!NoCall
  BY <1>1 DEF Idle, AbstractCall, Authority!NoCall, Authority!Call
<1> QED BY <1>3, <1>4, <1>5 DEF Authority!Refuse

LEMMA IntrospectRefines ==
    ASSUME IInv, IInv', NEW w \in Workers, IntrospectAnswer(w)
    PROVE  Authority!Introspect(w)
<1>1. PICK h : h = [handler[w] EXCEPT !.pc = "done",
                                      !.active = ~is_revoked(handler[w].token.jti)]
  OBVIOUS
<1>2. /\ handler' = [handler EXCEPT ![w] = h]
      /\ handler[w].pc = "verified" /\ handler[w].op = "introspect"
      /\ UNCHANGED <<now, signing_key, revoked, responses>>
  BY <1>1 DEF IntrospectAnswer
<1>3. /\ issued' = issued /\ Live' = Live
      /\ h \in Handling /\ Calls' = [Calls EXCEPT ![w] = AbstractCall(h)]
  BY <1>2, OneCall
<1>4. handler[w] \in Handling /\ Calls[w] = AbstractCall(handler[w])
  BY CallBefore
<1>5. /\ h.pc = "done" /\ h.op = handler[w].op /\ h.token = handler[w].token
      /\ h.active = ~is_revoked(handler[w].token.jti)
  BY <1>1, <1>4 DEF Handling
<1>6. /\ Calls[w].status = "open" /\ Calls[w].op = "introspect"
      /\ Calls[w].token = handler[w].token
      /\ Calls[w].possible = {handler[w].was_active, IsActive(handler[w].token)}
  BY <1>2, <1>4, CallFields
<1>7. h.active \in Calls[w].possible
  <2>1. CASE is_revoked(handler[w].token.jti)
    <3>1. h.active = IsActive(handler[w].token)
      BY <2>1, <1>5 DEF IsActive
    <3> QED BY <3>1, <1>6
  <2>2. CASE ~is_revoked(handler[w].token.jti)
    <3>1. handler[w].was_active = TRUE /\ h.active = TRUE
      BY <2>2, <1>2, <1>4, <1>5 DEF IInv, VerifiedHandler, is_revoked, Handling
    <3> QED BY <3>1, <1>6
  <2> QED BY <2>1, <2>2
<1>8. AbstractCall(h) = Authority!Closed(Calls[w], h.active)
  <2>1. AbstractCall(h) = [status |-> "closed", op |-> Calls[w].op,
                           token |-> Calls[w].token, answer |-> h.active,
                           possible |-> {}]
    BY <1>2, <1>5, <1>6 DEF AbstractCall
  <2> QED BY <2>1 DEF Authority!Closed, Authority!Call
<1> QED BY <1>3, <1>6, <1>7, <1>8 DEF Authority!Introspect

(* The list names the token that is revoked and no other.                  *)
LEMMA RevokeRefines ==
    ASSUME IInv, IInv', NEW w \in Workers, RevokeAnswer(w)
    PROVE  Authority!Revoke(w)
<1>1. PICK h : h = [handler[w] EXCEPT !.pc = "done"]
  OBVIOUS
<1>2. PICK tok : tok = handler[w].token
  OBVIOUS
<1>3. /\ handler' = [handler EXCEPT ![w] = h]
      /\ handler[w].pc = "verified" /\ handler[w].op = "revoke"
      /\ revoked' = revoked \cup {tok.jti}
      /\ UNCHANGED <<now, signing_key, responses>>
  BY <1>1, <1>2 DEF RevokeAnswer, revoke_token
<1>4. handler[w] \in Handling /\ Calls[w] = AbstractCall(handler[w])
  BY CallBefore
<1>5. /\ h.pc = "done" /\ h.op = handler[w].op /\ h.token = tok
      /\ h.active = handler[w].active
  BY <1>1, <1>2, <1>4 DEF Handling
<1>6. /\ Calls[w].status = "open" /\ Calls[w].op = "revoke"
      /\ Calls[w].token = tok /\ Calls[w].answer = h.active
  BY <1>2, <1>3, <1>4, <1>5, CallFields
<1>7. tok \in issued /\ issued' = issued
  BY <1>2, <1>3 DEF IInv, VerifiedHandler, issued
<1>8. \A t \in issued : IsActive(t)' <=> IsActive(t) /\ t # tok
  <2>1. \A t \in issued : t.jti = tok.jti <=> t = tok
    BY <1>7 DEF IInv, JtisAreUnique
  <2> QED BY <2>1, <1>3 DEF IsActive, Accepted, is_revoked
<1>9. Live' = Live \ {tok}
  BY <1>7, <1>8 DEF Live
<1>10. Calls'[w] = Authority!Closed(Calls[w], Calls[w].answer)
  <2>1. h = handler'[w]
    BY <1>3 DEF IInv, TypeOK
  <2>2. Calls'[w] = AbstractCall(h)'
    BY <2>1, CallAfter
  <2>3. AbstractCall(h)' = [status |-> "closed", op |-> h.op, token |-> h.token,
                            answer |-> h.active, possible |-> {}]
    BY <1>5 DEF AbstractCall
  <2> QED BY <2>2, <2>3, <1>3, <1>5, <1>6 DEF Authority!Closed, Authority!Call
<1>11. ASSUME NEW v \in Workers, v # w
       PROVE  Calls'[v] = IF Calls[v].status = "open" /\ Calls[v].token = tok
                          THEN Authority!MayDeny(Calls[v]) ELSE Calls[v]
  <2>1. PICK g \in Handling : g = handler[v] /\ g = handler'[v]
    BY <1>3, <1>11 DEF IInv, TypeOK
  <2>2. Calls[v] = AbstractCall(g) /\ Calls'[v] = AbstractCall(g)'
    BY <2>1, CallBefore, CallAfter
  <2>3. CASE g.pc # "verified"
    <3>1. Calls[v].status # "open"
      BY <2>2, <2>3, CallFields
    <3>2. AbstractCall(g)' = AbstractCall(g)
      BY <2>3 DEF AbstractCall
    <3> QED BY <3>1, <3>2, <2>2
  <2>4. CASE g.pc = "verified" /\ g.token = tok
    <3>1. /\ IsActive(tok) => g.was_active
          /\ g.was_active \in BOOLEAN
      BY <2>1, <2>4, OpenCall
    <3>2. IsActive(tok)' = FALSE /\ IsActive(tok) \in BOOLEAN
      BY <1>7, <1>8 DEF IsActive
    <3>3. {g.was_active, IsActive(tok)'} = {g.was_active, IsActive(tok)} \cup {FALSE}
      BY <3>1, <3>2
    <3>4. AbstractCall(g)' = Authority!MayDeny(AbstractCall(g))
      BY <2>4, <3>3 DEF AbstractCall, Authority!MayDeny, Authority!Call
    <3>5. Calls[v].status = "open" /\ Calls[v].token = tok
      BY <2>2, <2>4, CallFields
    <3> QED BY <3>4, <3>5, <2>2
  <2>5. CASE g.pc = "verified" /\ g.token # tok
    <3>1. g.token \in issued
      BY <2>1, <2>5, OpenCall
    <3>2. IsActive(g.token)' = IsActive(g.token)
      BY <3>1, <2>5, <1>8 DEF IsActive
    <3>3. AbstractCall(g)' = AbstractCall(g)
      BY <2>5, <3>2 DEF AbstractCall
    <3>4. Calls[v].token # tok
      BY <2>2, <2>5, CallFields
    <3> QED BY <3>3, <3>4, <2>2
  <2> QED BY <2>3, <2>4, <2>5
<1>12. Calls' = [v \in Workers |-> Calls'[v]]
  BY DEF Calls
<1> HIDE DEF Calls, Live
<1>13. Calls' = [v \in Workers |->
         IF v = w THEN Authority!Closed(Calls[w], Calls[w].answer)
         ELSE IF Calls[v].status = "open" /\ Calls[v].token = Calls[w].token
         THEN Authority!MayDeny(Calls[v]) ELSE Calls[v]]
  BY <1>6, <1>10, <1>11, <1>12
<1> QED BY <1>6, <1>7, <1>9, <1>13 DEF Authority!Revoke

LEMMA RestartRefines ==
    ASSUME IInv, IInv', Restart
    PROVE  Authority!Restart
<1>1. UNCHANGED responses /\ handler' = [w \in Workers |-> Idle]
  BY DEF Restart
<1>2. issued' = issued /\ Live' \subseteq issued'
  BY <1>1 DEF issued, Live
<1>3. Calls' = [w \in Workers |-> Authority!NoCall]
  BY <1>1 DEF Calls, AbstractCall, Idle, Authority!NoCall, Authority!Call
<1> QED BY <1>2, <1>3 DEF Authority!Restart

LEMMA NextRefines ==
    ASSUME IInv, IInv', [Next]_vars
    PROVE  [Authority!Next]_Authority!vars
<1>1. CASE Tick
  BY <1>1, TickRefines DEF Authority!Next
<1>2. ASSUME NEW req \in TokenRequests, token_endpoint(req) PROVE Authority!Next
  BY <1>2, TokenRefines DEF Authority!Next
<1>3. ASSUME NEW w \in Workers, NEW tok \in issued \cup OtherTokens,
             IntrospectVerify(w, tok) \/ RevokeVerify(w, tok)
      PROVE  Authority!Next
  <2>1. Verify(w, "introspect", tok) \/ Verify(w, "revoke", tok)
    BY <1>3 DEF IntrospectVerify, RevokeVerify
  <2>2. Authority!Begin(w)
    BY <2>1, VerifyRefines
  <2> QED BY <2>2 DEF Authority!Next
<1>4. ASSUME NEW w \in Workers, IntrospectAnswer(w) PROVE Authority!Next
  BY <1>4, IntrospectRefines DEF Authority!Next
<1>5. ASSUME NEW w \in Workers, RevokeAnswer(w) PROVE Authority!Next
  BY <1>5, RevokeRefines DEF Authority!Next
<1>6. ASSUME NEW w \in Workers, RevokeRefuses(w) PROVE Authority!Next
  BY <1>6, RefusesRefines DEF Authority!Next
<1>7. CASE Restart
  BY <1>7, RestartRefines DEF Authority!Next
<1>8. CASE UNCHANGED vars
  <2>1. UNCHANGED <<now, signing_key, revoked, responses, handler>>
    BY <1>8 DEF vars
  <2>2. issued' = issued
    BY <2>1 DEF issued
  <2>3. Live' = Live /\ Calls' = Calls
    BY <2>1, <2>2, SameActive DEF Live, Calls, AbstractCall
  <2> QED BY <2>2, <2>3 DEF Authority!vars
<1> QED BY <1>1, <1>2, <1>3, <1>4, <1>5, <1>6, <1>7, <1>8 DEF Next

-----------------------------------------------------------------------------
(* The AS, with its clock, its keys and its list of jtis, is an authority  *)
(* that keeps a set of live tokens (auth.py, create_auth_app), for every   *)
(* registry and every number of threads.                                   *)
THEOREM ImplementsTokenAuthority == Spec => IsTokenAuthority
<1>1. Init => Authority!Init
  BY InitRefines
<1>2. IInv /\ IInv' /\ [Next]_vars => [Authority!Next]_Authority!vars
  BY NextRefines
<1> QED BY <1>1, <1>2, InvariantHolds, PTL DEF Spec, IsTokenAuthority, Authority!Spec
=============================================================================
