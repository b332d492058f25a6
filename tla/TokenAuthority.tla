---------------------------- MODULE TokenAuthority ---------------------------
(***************************************************************************)
(* What the authorization server of src/telescope/auth.py promises: a set  *)
(* of granted tokens, the live ones among them, and calls of /introspect   *)
(* and /revoke that take effect at one moment between request and answer.  *)
(* Clocks, signatures, keys and the revocation list are not seen here.     *)
(***************************************************************************)
CONSTANTS
    Workers,
    Clients, allowed_scopes,
    Strings,          \* what is presented and was never granted
    NoToken

VARIABLES
    granted,          \* every token granted so far
    live,             \* the tokens that are good for something
    call              \* the call each thread is in, or its last one

vars == <<granted, live, call>>

(* possible: the answers of /introspect that have been true since the call *)
(* came in.                                                                *)
Call(status, op, tok, possible, answer) ==
    [status |-> status, op |-> op, token |-> tok, possible |-> possible,
     answer |-> answer]

NoCall == Call("none", "introspect", NoToken, {}, FALSE)

Closed(c, answer) == Call("closed", c.op, c.token, {}, answer)

(* The call that is open on a token that is live no longer.                *)
MayDeny(c) == Call(c.status, c.op, c.token, c.possible \cup {FALSE}, c.answer)

Init ==
    /\ granted = {}
    /\ live = {}
    /\ call = [w \in Workers |-> NoCall]

(* Tokens are live no longer; every open call on them may tell so.         *)
Lapse ==
    /\ live' \subseteq live
    /\ call' = [w \in Workers |->
         IF call[w].status = "open" /\ call[w].token \in live \ live'
         THEN MayDeny(call[w]) ELSE call[w]]
    /\ UNCHANGED granted

(* A new token, within the registration of its client.  One that ends at   *)
(* the moment it is issued is never live.                                  *)
Grant ==
    \E tok \in granted' \ granted :
        /\ tok.sub \in Clients /\ tok.scope \subseteq allowed_scopes[tok.sub]
        /\ granted' = granted \cup {tok}
        /\ live' \in {live, live \cup {tok}}
        /\ UNCHANGED call

(* A call begins, or is answered at once because its token is not live.    *)
Begin(w) ==
    LET new == call'[w] IN
    /\ call[w].status # "open"
    /\ new.op \in {"introspect", "revoke"} /\ ~new.answer
    /\ \/ /\ new.status = "open" /\ new.token \in granted
          /\ new.possible = {new.token \in live}
       \/ /\ new.status = "closed" /\ new.token \in (granted \cup Strings) \ live
          /\ new.possible = {}
    /\ call' = [call EXCEPT ![w] = new]
    /\ UNCHANGED <<granted, live>>

(* A call that names no token is refused, and is no call.                  *)
Refuse(w) ==
    /\ call[w].status # "open"
    /\ call' = [call EXCEPT ![w] = NoCall]
    /\ UNCHANGED <<granted, live>>

Introspect(w) ==
    /\ call[w].status = "open" /\ call[w].op = "introspect"
    /\ \E answer \in call[w].possible :
         call' = [call EXCEPT ![w] = Closed(call[w], answer)]
    /\ UNCHANGED <<granted, live>>

Revoke(w) ==
    /\ call[w].status = "open" /\ call[w].op = "revoke"
    /\ live' = live \ {call[w].token}
    /\ call' = [v \in Workers |->
         IF v = w THEN Closed(call[w], call[w].answer)
         ELSE IF call[v].status = "open" /\ call[v].token = call[w].token
         THEN MayDeny(call[v]) ELSE call[v]]
    /\ UNCHANGED granted

(* What has been revoked may be live again.                                *)
Restart ==
    /\ live' \subseteq granted
    /\ call' = [w \in Workers |-> NoCall]
    /\ UNCHANGED granted

Next ==
    \/ Grant \/ Lapse \/ Restart
    \/ \E w \in Workers : Begin(w) \/ Refuse(w) \/ Introspect(w) \/ Revoke(w)

Spec == Init /\ [][Next]_vars
=============================================================================
