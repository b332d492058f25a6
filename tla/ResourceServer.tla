--------------------------- MODULE ResourceServer ---------------------------
(***************************************************************************)
(* The resource server of src/telescope/server.py: the require_scope       *)
(* decorator, the five endpoints it guards, the simulated mount and the    *)
(* connection log.                                                         *)
(*                                                                         *)
(* Flask serves every request in a thread of its own and nothing is        *)
(* locked, so a request is a sequence of steps, each of which touches the  *)
(* shared state once: verify the token, look it up in the revocation list, *)
(* append to the connection log, then read or assign the mount's           *)
(* attributes, or copy the entries of the log, one by one.                 *)
(*                                                                         *)
(* Where a thread may be switched out depends on the build of CPython.     *)
(* With the GIL, and Python 3.12 or later as pyproject.toml asks, that is  *)
(* at calls and backward jumps, hence neither between two attribute        *)
(* accesses of one method nor within list(deque), which is one call.  A    *)
(* free-threaded build has no such limit.  The constant Preemptive chooses *)
(* between the two.                                                        *)
(***************************************************************************)
EXTENDS Protocol, FiniteSets, SequencesExt

CONSTANTS
    Workers,          \* the threads of the server
    Requests,         \* what clients send: endpoint, bearer token and body
    as_public_key, as_url, rs_url,
    NoToken,          \* a request without an Authorization header
    SharedProcess,    \* the AS runs in this process too, as in the tests
    Preemptive,       \* threads are switched between any two accesses
    MaxLog,           \* maxlen of _connection_log: 100 in the code
    MaxTime           \* bound of the model

VARIABLES
    now,              \* time.time()
    mount,            \* the attributes of TelescopeMountState that change
    log,              \* _connection_log
    revoked,          \* _REVOKED_JTIS of this process
    handler           \* what each thread is doing, and its last answer

vars == <<now, mount, log, revoked, handler>>

-----------------------------------------------------------------------------
(* The endpoints under require_scope, and the scope each of them asks for. *)
Required ==
    [position |-> "telescope:read", status |-> "telescope:read",
     slew |-> "telescope:slew", reset |-> "telescope:admin",
     connections |-> "telescope:admin"]

Ops == DOMAIN Required
Reads == {"position", "status"}

MountState == [ra : 0..23, dec : -90..90, is_slewing : BOOLEAN, is_tracking : BOOLEAN]
Entry == [client_id : {r.token.sub : r \in {q \in Requests : q.token # NoToken}},
          endpoint : Ops]

(* The position a new TelescopeMountState has, in whole hours and degrees. *)
NewMount == [ra |-> 5, dec |-> -5, is_slewing |-> FALSE, is_tracking |-> TRUE]

ASSUME MaxLogAssumption == MaxLog \in Nat \ {0}
ASSUME MaxTimeAssumption == MaxTime \in Nat
ASSUME SwitchAssumption == Preemptive \in BOOLEAN /\ SharedProcess \in BOOLEAN
ASSUME RequestsAssumption ==
    \A r \in Requests : /\ r.op \in Ops
                        /\ r.body.ra \subseteq Int /\ r.body.dec \subseteq Int
                        /\ r.token # NoToken => r.token.exp \in Int

(***************************************************************************)
(* The assignments of slew_to and reset, and the attributes get_position   *)
(* and get_status read, in program order.                                  *)
(***************************************************************************)
Set(attr, val) == [attr |-> attr, val |-> val]

slew_to_RaOnly(target) ==
    <<Set("is_slewing", TRUE), Set("ra", target.ra), Set("is_slewing", FALSE)>>
slew_to_NoEnd(target) ==
    <<Set("is_slewing", TRUE), Set("ra", target.ra), Set("dec", target.dec)>>
slew_to(target) ==
    <<Set("is_slewing", TRUE), Set("ra", target.ra), Set("dec", target.dec),
      Set("is_slewing", FALSE)>>

reset == <<Set("ra", 0), Set("dec", 0), Set("is_slewing", FALSE), Set("is_tracking", FALSE)>>

Accesses(h) ==
    CASE h.op = "slew" -> slew_to(h.target)
      [] h.op = "reset" -> reset
      [] h.op = "position" -> <<"ra", "dec">>
      [] h.op = "status" -> <<"is_slewing", "is_tracking", "ra", "dec">>

(* The accesses before which a thread can be switched out under the GIL:   *)
(* the first, and the one at the start of get_position within get_status.  *)
(* list_connections has two steps, the making of an iterator and its use.  *)
SwitchPoints_Properties(op) == 1..4
SwitchPoints(op) == IF op = "status" THEN {1, 3} ELSE {1}

MidMethod(w) == handler[w].pc = "act" /\ handler[w].step \notin SwitchPoints(handler[w].op)

CanRun(w) == Preemptive \/ \A v \in Workers \ {w} : ~MidMethod(v)

-----------------------------------------------------------------------------
(* step: the next access.  answer and listed: what the request has read.   *)
(* mutated: the deque has changed since this thread made its iterator.     *)
(* was_active, logged and later are history that no action reads: whether  *)
(* the token was good when the request came in, whether the request is a   *)
(* connection of the log, and how many were logged after it (at most       *)
(* MaxLog).                                                                *)
Idle == [pc |-> "idle", op |-> "position", token |-> NoToken,
         body |-> [ra |-> {}, dec |-> {}], target |-> [ra |-> 0, dec |-> 0],
         step |-> 1, reply |-> "ok", answer |-> NewMount, listed |-> << >>,
         mutated |-> FALSE, was_active |-> FALSE, logged |-> FALSE, later |-> 0]

(* What a new process holds.                                               *)
Boot ==
    /\ mount = NewMount
    /\ log = << >>
    /\ revoked = {}
    /\ handler = [w \in Workers |-> Idle]

Init == now = 0 /\ Boot

Tick ==
    /\ now < MaxTime
    /\ now' = now + 1
    /\ UNCHANGED <<mount, log, revoked, handler>>

(* The AS revokes a token: seen here only when both share one process.     *)
RevokeElsewhere(jti) ==
    /\ SharedProcess
    /\ revoked' = revoked \cup {jti}
    /\ UNCHANGED <<now, mount, log, handler>>

(***************************************************************************)
(* require_scope, in its two steps.                                        *)
(***************************************************************************)
is_revoked(jti) == jti \in revoked

Verifies(tok) == tok # NoToken /\ Verified(tok, as_public_key, as_url, rs_url, now)
IsActive(tok) == Verifies(tok) /\ ~is_revoked(tok.jti)

Authentication_Leeway(tok) ==
    IF tok = NoToken THEN "unauthorized"
    ELSE IF SignatureExpired(tok, as_public_key, now + 1) THEN "token_expired"
    ELSE IF Verifies(tok) THEN "ok"
    ELSE "invalid_token"

Authentication(tok) ==
    IF tok = NoToken THEN "unauthorized"
    ELSE IF Verifies(tok) THEN "ok"
    ELSE IF SignatureExpired(tok, as_public_key, now) THEN "token_expired"
    ELSE "invalid_token"

Authorization_NoList(h) ==
    IF Required[h.op] \notin h.token.scope THEN "insufficient_scope" ELSE "ok"

Authorization(h) ==
    IF is_revoked(h.token.jti) THEN "token_revoked"
    ELSE IF Required[h.op] \notin h.token.scope THEN "insufficient_scope"
    ELSE "ok"

Authenticate(w, r) ==
    /\ handler[w].pc \in {"idle", "done"} /\ CanRun(w)
    /\ handler' = [handler EXCEPT ![w] =
         [Idle EXCEPT !.op = r.op, !.token = r.token, !.body = r.body,
                      !.reply = Authentication(r.token),
                      !.pc = IF Authentication(r.token) = "ok" THEN "verified" ELSE "done",
                      !.was_active = IsActive(r.token)]]
    /\ UNCHANGED <<now, mount, log, revoked>>

Authorize(w) ==
    /\ handler[w].pc = "verified" /\ CanRun(w)
    /\ handler' = [handler EXCEPT ![w].reply = Authorization(handler[w]),
                                  ![w].pc = IF Authorization(handler[w]) = "ok"
                                            THEN "authorised" ELSE "done"]
    /\ UNCHANGED <<now, mount, log, revoked>>

-----------------------------------------------------------------------------
(***************************************************************************)
(* The endpoints.  post_slew refuses a bad body before it logs anything;   *)
(* all of them log the connection before they touch the mount.             *)
(***************************************************************************)
RejectSlew(w) ==
    /\ handler[w].pc = "authorised" /\ handler[w].op = "slew" /\ CanRun(w)
    /\ SlewCommand(handler[w].body) = {}
    /\ handler' = [handler EXCEPT ![w].pc = "done", ![w].reply = "invalid_request"]
    /\ UNCHANGED <<now, mount, log, revoked>>

EntryOf(h) == [client_id |-> h.token.sub, endpoint |-> h.op]

(* What deque(maxlen=MaxLog).append leaves in the log.                     *)
Logged_Unbounded(e) == Append(log, e)
Logged_DropNew(e) == IF Len(log) < MaxLog THEN Append(log, e) ELSE log
Logged(e) == IF Len(log) < MaxLog THEN Append(log, e) ELSE Append(Tail(log), e)

(* A thread in the middle of list(self._connection_log).                   *)
Copying(h) == h.pc = "act" /\ h.op = "connections" /\ h.step = 2

(* What another thread's append changes for a thread that is in state h:   *)
(* an iterator over the deque notices it.                                  *)
AfterAppend(h) ==
    [h EXCEPT !.mutated = Copying(h), !.later = IF @ < MaxLog THEN @ + 1 ELSE @]

log_connection_Blocks(w) ==
    /\ handler[w].pc = "authorised" /\ CanRun(w) /\ Len(log) < MaxLog
    /\ \E target \in IF handler[w].op = "slew" THEN SlewCommand(handler[w].body)
                                               ELSE {Idle.target} :
         handler' = [handler EXCEPT ![w].pc = "act", ![w].target = target]
    /\ log' = Append(log, EntryOf(handler[w]))
    /\ UNCHANGED <<now, mount, revoked>>

log_connection_First(w) ==
    /\ handler[w].pc \in {"verified", "authorised"} /\ CanRun(w)
    /\ handler' = [v \in Workers |->
         IF v = w THEN [handler[w] EXCEPT !.pc = IF @ = "verified" THEN @ ELSE "act",
                                          !.logged = TRUE, !.later = 0]
         ELSE AfterAppend(handler[v])]
    /\ log' = Logged(EntryOf(handler[w]))
    /\ UNCHANGED <<now, mount, revoked>>

log_connection(w) ==
    /\ handler[w].pc = "authorised" /\ CanRun(w)
    /\ \E target \in IF handler[w].op = "slew" THEN SlewCommand(handler[w].body)
                                               ELSE {Idle.target} :
         handler' = [v \in Workers |->
           IF v = w THEN [handler[w] EXCEPT !.pc = "act", !.target = target,
                                            !.logged = TRUE, !.later = 0]
           ELSE AfterAppend(handler[v])]
    /\ log' = Logged(EntryOf(handler[w]))
    /\ UNCHANGED <<now, mount, revoked>>

(* One access of the method that the endpoint calls.  After the last the   *)
(* answer goes out; Position(...) raises when a coordinate is not valid.   *)
Advance(h) ==
    IF h.step < Len(Accesses(h)) THEN [h EXCEPT !.step = @ + 1]
    ELSE [h EXCEPT !.pc = "done",
                   !.reply = IF h.op \in Reads /\ ~(ValidRa(h.answer.ra) /\ ValidDec(h.answer.dec))
                             THEN "server_error" ELSE "ok"]

Assign(w) ==
    /\ handler[w].pc = "act" /\ handler[w].op \in {"slew", "reset"} /\ CanRun(w)
    /\ LET a == Accesses(handler[w])[handler[w].step]
       IN  mount' = [mount EXCEPT ![a.attr] = a.val]
    /\ handler' = [handler EXCEPT ![w] = Advance(@)]
    /\ UNCHANGED <<now, log, revoked>>

Read(w) ==
    /\ handler[w].pc = "act" /\ handler[w].op \in Reads /\ CanRun(w)
    /\ LET attr == Accesses(handler[w])[handler[w].step]
       IN  handler' = [handler EXCEPT ![w] =
                         Advance([handler[w] EXCEPT !.answer[attr] = mount[attr]])]
    /\ UNCHANGED <<now, mount, log, revoked>>

(* list(self._connection_log): an iterator is made, and then gives one     *)
(* entry after another until there is no other.  Every time it first looks *)
(* whether the deque has been changed since it was made, and if so raises  *)
(* RuntimeError, which no one catches: the answer is a 500.                *)
list_connections(w) ==
    /\ handler[w].pc = "act" /\ handler[w].op = "connections" /\ handler[w].step = 1
    /\ CanRun(w)
    /\ handler' = [handler EXCEPT ![w].step = 2]
    /\ UNCHANGED <<now, mount, log, revoked>>

Copied_Unchecked(h) ==
    IF Len(h.listed) < Len(log)
    THEN [h EXCEPT !.listed = Append(@, log[Len(@) + 1])]
    ELSE [h EXCEPT !.pc = "done"]

Copied(h) ==
    IF h.mutated THEN [h EXCEPT !.pc = "done", !.reply = "server_error", !.mutated = FALSE]
    ELSE IF Len(h.listed) < Len(log)
    THEN [h EXCEPT !.listed = Append(@, log[Len(@) + 1])]
    ELSE [h EXCEPT !.pc = "done"]

NextConnection(w) ==
    /\ Copying(handler[w]) /\ CanRun(w)
    /\ handler' = [handler EXCEPT ![w] = Copied(@)]
    /\ UNCHANGED <<now, mount, log, revoked>>

(* The process dies and is started again: everything was in memory.        *)
Restart ==
    /\ mount' = NewMount
    /\ log' = << >>
    /\ revoked' = {}
    /\ handler' = [w \in Workers |-> Idle]
    /\ UNCHANGED now

Step(w) ==
    \/ Authorize(w) \/ RejectSlew(w) \/ log_connection(w)
    \/ Assign(w) \/ Read(w) \/ list_connections(w) \/ NextConnection(w)

PresentedJtis == {r.token.jti : r \in {q \in Requests : q.token # NoToken}}

Next ==
    \/ Tick
    \/ \E jti \in PresentedJtis : RevokeElsewhere(jti)
    \/ \E w \in Workers, r \in Requests : Authenticate(w, r)
    \/ \E w \in Workers : Step(w)
    \/ Restart

Spec == Init /\ [][Next]_vars

(* The interpreter keeps running every thread that is ready; clients may   *)
(* stop sending, and nothing makes the process die or a token be revoked.  *)
FairSpec == Spec /\ \A w \in Workers : WF_vars(Step(w))
-----------------------------------------------------------------------------
Replies == {"ok", "unauthorized", "token_expired", "invalid_token", "token_revoked",
            "insufficient_scope", "invalid_request", "server_error"}

Handling ==
    [pc : {"idle", "verified", "authorised", "act", "done"}, op : Ops,
     token : {r.token : r \in Requests} \cup {NoToken},
     body : {r.body : r \in Requests} \cup {Idle.body},
     target : Position, step : 1..4, reply : Replies, answer : MountState,
     listed : Seq(Entry), mutated : BOOLEAN,
     was_active : BOOLEAN, logged : BOOLEAN, later : 0..MaxLog]

TypeOK ==
    /\ now \in Nat
    /\ mount \in MountState
    /\ log \in Seq(Entry) /\ Len(log) <= MaxLog
    /\ revoked \subseteq PresentedJtis
    /\ handler \in [Workers -> Handling]

(* The reply of a request that require_scope let through.                  *)
Served(h) ==
    \/ h.pc \in {"authorised", "act"}
    \/ h.pc = "done" /\ h.reply \in {"ok", "invalid_request", "server_error"}

(* An endpoint runs only for a token that carries its scope and that was   *)
(* signed by the AS, in date and not revoked all at one moment after the   *)
(* request came in, although require_scope reads the clock and the         *)
(* revocation list at different times.                                     *)
ServedOnlyIfActive ==
    \A w \in Workers :
        Served(handler[w]) => /\ handler[w].was_active
                              /\ Required[handler[w].op] \in handler[w].token.scope

(* A request refused as expired or revoked is refused again if it is sent  *)
(* once more: its token is not active now and, until the RS restarts,      *)
(* never will be.                                                          *)
RefusalIsFinal ==
    \A w \in Workers :
        handler[w].reply \in {"token_expired", "token_revoked"} =>
            ~IsActive(handler[w].token)

(* A refused request leaves no trace: what the connection log has taken is *)
(* a request with a good token and the scope of its endpoint, and it is    *)
(* not refused afterwards, by require_scope or for its body.               *)
RefusedLeaveNoTrace ==
    \A w \in Workers :
        handler[w].logged => /\ handler[w].reply \in {"ok", "server_error"}
                             /\ handler[w].was_active
                             /\ Required[handler[w].op] \in handler[w].token.scope

(* A request that has reached the mount is in the connection log until     *)
(* MaxLog later connections push it out, and /admin/connections shows      *)
(* itself in the list it returns.                                          *)
LogKeepsTheLatest ==
    \A w \in Workers :
        LET h == handler[w] IN
        /\ h.pc = "act" \/ (h.pc = "done" /\ h.reply = "ok")
        /\ h.later < MaxLog
        => /\ log[Len(log) - h.later] = EntryOf(h)
           /\ h.pc = "done" /\ h.op = "connections" => EntryOf(h) \in ToSet(h.listed)

(* However slews, resets and status requests interleave, the mount says    *)
(* that it is slewing only while some slew_to is running, so never when    *)
(* the server is idle.                                                     *)
SlewingOnlyDuringSlew ==
    mount.is_slewing => \E w \in Workers : /\ handler[w].pc = "act" /\ handler[w].op = "slew"
                                           /\ handler[w].step > 1

(* Reading the position never fails: whatever mixture of writes a reader   *)
(* meets, Position(ra, dec) is valid.  With the GIL no request fails at    *)
(* all; without it, only /admin/connections does.                          *)
NoServerError ==
    \A w \in Workers :
        handler[w].reply = "server_error" => Preemptive /\ handler[w].op = "connections"

(* What /admin/connections answers is the whole log as it is at the moment *)
(* the last entry is copied, although entries are copied one by one while  *)
(* other requests append to the log and push entries out.                  *)
ListingIsTheLog ==
    [][\A w \in Workers :
         /\ handler[w].pc = "act" /\ handler[w].op = "connections"
         /\ handler'[w].pc = "done" /\ handler'[w].reply = "ok"
         => handler'[w].listed = log]_vars

Commanded ==
    {[ra |-> NewMount.ra, dec |-> NewMount.dec], [ra |-> 0, dec |-> 0]}
      \cup UNION {SlewCommand(r.body) : r \in Requests}

(* With the GIL only.  Between two methods of the mount it points to a     *)
(* place that one request commanded, never to a mixture of two.            *)
NoMixedPosition ==
    (\A w \in Workers : ~MidMethod(w)) => [ra |-> mount.ra, dec |-> mount.dec] \in Commanded

(***************************************************************************)
(* The mount as AtomicMount has it: a method that a thread is inside of    *)
(* has happened already, with all its assignments or reads, and a thread   *)
(* that has not entered its method, or not get_position within get_status, *)
(* still has its call.                                                     *)
(***************************************************************************)
AbstractMount ==
    IF \E w \in Workers : MidMethod(w) /\ handler[w].op \in {"slew", "reset"}
    THEN LET h == handler[CHOOSE w \in Workers : MidMethod(w)]
         IN  IF h.op = "reset" THEN [a \in DOMAIN mount |-> IF a \in {"ra", "dec"} THEN 0 ELSE FALSE]
             ELSE [mount EXCEPT !.ra = h.target.ra, !.dec = h.target.dec, !.is_slewing = FALSE]
    ELSE mount

AbstractCall(h) ==
    IF h.pc = "act" /\ h.op = "status" /\ h.step \in {2, 3}
    THEN [op |-> "position", target |-> h.target]
    ELSE IF h.pc = "act" /\ h.op # "connections" /\ h.step = 1
    THEN [op |-> h.op, target |-> h.target]
    ELSE [op |-> "none", target |-> Idle.target]

AbstractAnswer(w) ==
    IF MidMethod(w) /\ handler[w].op \in Reads
    THEN LET attr == Accesses(handler[w])[handler[w].step]
         IN  [handler[w].answer EXCEPT ![attr] = mount[attr]]
    ELSE handler[w].answer

Atomic == INSTANCE AtomicMount WITH
    mount <- AbstractMount,
    call <- [w \in Workers |-> AbstractCall(handler[w])],
    answer <- [w \in Workers |-> AbstractAnswer(w)],
    Targets <- {Idle.target} \cup UNION {SlewCommand(r.body) : r \in Requests}

(* With the GIL only.  Although a thread may be switched out around every  *)
(* method of the mount, the server behaves as if a slew or a reset were    *)
(* one step and a reading of the position another: no client is told a     *)
(* place that is half of one command and half of another, or that the      *)
(* mount is slewing ("Simulate instant slew"), and no command is lost or   *)
(* undone by one that returned before it.                                  *)
MountIsAtomic == Atomic!Spec

(* Every request is answered, unless the server dies first: no thread      *)
(* waits for another.                                                      *)
EveryRequestAnswered ==
    \A w \in Workers :
        handler[w].pc \notin {"idle", "done"} ~> handler[w].pc \in {"idle", "done"}
=============================================================================
