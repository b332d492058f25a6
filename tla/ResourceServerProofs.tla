------------------------ MODULE ResourceServerProofs -------------------------
(***************************************************************************)
(* What require_scope, the mount and the connection log of server.py       *)
(* promise, for every set of requests, any number of threads, any limit of *)
(* the log, and wherever the interpreter switches threads.                 *)
(***************************************************************************)
EXTENDS ResourceServer, SequenceTheorems, TLAPS

(***************************************************************************)
(* What a thread that is in the state h knows, one part for each of the    *)
(* things it depends on: its own program, the token, the clock and the     *)
(* revocation list, the connection log, the mount.                         *)
(***************************************************************************)
InProgram(h) ==
    /\ h.pc \in {"verified", "authorised", "act"} => h.reply = "ok"
    /\ h.pc \in {"verified", "authorised"} => h.step = 1
    /\ h.pc = "act" /\ h.op = "position" => h.step \in 1..2
    /\ h.pc = "act" /\ h.op = "connections" => h.step \in 1..2
    /\ h.pc = "act" /\ h.op = "slew" => h.target \in SlewCommand(h.body)
    /\ h.logged => h.pc \in {"act", "done"} /\ h.reply \in {"ok", "server_error"}
    /\ h.mutated => Copying(h) /\ Preemptive

(* Between its two steps, require_scope knows that the token was good when *)
(* the request came in unless it is revoked by now.                        *)
HasToken(h) ==
    /\ h.pc = "verified" =>
         /\ h.token # NoToken /\ h.token.key = as_public_key
         /\ ~is_revoked(h.token.jti) => h.was_active
    /\ Served(h) =>
         /\ h.token # NoToken /\ h.token.key = as_public_key
         /\ h.was_active /\ Required[h.op] \in h.token.scope

Refused(h) ==
    /\ h.reply = "token_expired" => h.token # NoToken /\ h.token.exp <= now
    /\ h.reply = "token_revoked" => is_revoked(h.token.jti)

InLog(h) ==
    /\ h.pc = "act" \/ (h.pc = "done" /\ h.reply = "ok")
    /\ h.later < MaxLog
    => /\ h.later < Len(log)
       /\ log[Len(log) - h.later] = EntryOf(h)
       /\ h.pc = "done" /\ h.op = "connections" => EntryOf(h) \in ToSet(h.listed)

(* What list(self._connection_log) has copied are the first entries of the *)
(* log, as long as the iterator finds the deque as it was.                 *)
InCopy(h) ==
    /\ h.pc # "done" /\ ~Copying(h) => h.listed = << >>
    /\ Copying(h) /\ ~h.mutated => /\ Len(h.listed) <= Len(log)
                                   /\ \A i \in 1..Len(h.listed) : h.listed[i] = log[i]

(* With the GIL: what a thread inside slew_to or reset has assigned so far *)
(* is still there.                                                         *)
InMethod(h) ==
    ~Preemptive /\ h.pc = "act" =>
        /\ h.op = "slew" => /\ h.step > 2 => mount.ra = h.target.ra
                            /\ h.step > 3 => mount.dec = h.target.dec
        /\ h.op = "reset" => /\ h.step > 1 => mount.ra = 0
                             /\ h.step > 2 => mount.dec = 0

ThreadOK(h) ==
    /\ InProgram(h) /\ HasToken(h) /\ Refused(h)
    /\ InLog(h) /\ InCopy(h) /\ InMethod(h)

Writing(h) == h.pc = "act" /\ h.op \in {"slew", "reset"}

(* With the GIL, one thread at most is inside a method of the mount, and   *)
(* while none is inside slew_to or reset the position is a whole one.      *)
OneInside ==
    ~Preemptive => \A v, w \in Workers : MidMethod(v) /\ MidMethod(w) => v = w

WholePosition ==
    /\ ~Preemptive
    /\ \A w \in Workers : ~(MidMethod(w) /\ Writing(handler[w]))
    => [ra |-> mount.ra, dec |-> mount.dec] \in Commanded

(* The types, for a server that is part of a system: its clock may be      *)
(* behind that of the AS, and the AS decides what is revoked.              *)
StateOK ==
    /\ now \in Int
    /\ mount \in MountState
    /\ log \in Seq(Entry) /\ Len(log) <= MaxLog
    /\ handler \in [Workers -> Handling]

IInv ==
    /\ StateOK
    /\ \A w \in Workers : ThreadOK(handler[w])
    /\ SlewingOnlyDuringSlew
    /\ NoServerError
    /\ OneInside
    /\ WholePosition

-----------------------------------------------------------------------------
LEMMA OpsAre == Ops = {"position", "status", "slew", "reset", "connections"}
BY DEF Ops, Required

LEMMA IdleFields ==
    /\ Idle \in Handling
    /\ Idle.pc = "idle" /\ Idle.reply = "ok" /\ Idle.step = 1
    /\ Idle.listed = << >> /\ Idle.mutated = FALSE /\ Idle.logged = FALSE
<1>1. [ra |-> 0, dec |-> 0] \in Position
  BY DEF Position
<1>2. NewMount \in MountState
  BY DEF NewMount, MountState
<1>3. << >> \in Seq(Entry)
  BY EmptySeq
<1>4. 0 \in 0..MaxLog /\ "position" \in Ops
  BY MaxLogAssumption, OpsAre
<1> QED BY <1>1, <1>2, <1>3, <1>4 DEF Idle, Handling, Replies

LEMMA IdleThread ==
    /\ ThreadOK(Idle)
    /\ ~Served(Idle)
BY IdleFields DEF ThreadOK, InProgram, HasToken, Refused, InLog, InCopy, InMethod, Copying, Served

(* A thread after a step, from the state it is in by then.                 *)
LEMMA ThreadAfter ==
    ASSUME NEW w \in Workers, NEW h, h = handler'[w], ThreadOK(h)'
    PROVE  ThreadOK(handler[w])'
BY DEF ThreadOK, InProgram, HasToken, Refused, InLog, InCopy, InMethod, Copying, is_revoked

LEMMA SameThread ==
    ASSUME UNCHANGED <<now, mount, log, revoked>>
    PROVE  \A h : ThreadOK(h)' <=> ThreadOK(h)
BY DEF ThreadOK, InProgram, HasToken, Refused, InLog, InCopy, InMethod, Copying, is_revoked

(* The commands a body stands for are positions.                           *)
LEMMA CommandsArePositions ==
    ASSUME NEW body \in {r.body : r \in Requests} \cup {Idle.body}
    PROVE  SlewCommand(body) \subseteq Position
<1> SUFFICES ASSUME NEW t \in SlewCommand(body) PROVE t \in Position
  OBVIOUS
<1>1. t \in [ra : body.ra, dec : body.dec] /\ ValidRa(t.ra) /\ ValidDec(t.dec)
  BY DEF SlewCommand
<1>2. body.ra \subseteq Int /\ body.dec \subseteq Int
  BY RequestsAssumption DEF Idle
<1> QED BY <1>1, <1>2 DEF ValidRa, ValidDec, Position

LEMMA BootIInv ==
    ASSUME Boot, now \in Int
    PROVE  IInv
<1>1. /\ mount = NewMount /\ log = << >> /\ revoked = {}
      /\ handler = [w \in Workers |-> Idle]
  BY DEF Boot
<1>2. mount \in MountState /\ mount.is_slewing = FALSE
  BY <1>1 DEF NewMount, MountState
<1>3. StateOK
  BY <1>1, <1>2, IdleFields, EmptySeq, MaxLogAssumption DEF StateOK
<1>4. \A w \in Workers : ThreadOK(handler[w])
  BY <1>1, IdleThread
<1>5. SlewingOnlyDuringSlew /\ NoServerError
  BY <1>1, <1>2, IdleFields DEF SlewingOnlyDuringSlew, NoServerError
<1>6. OneInside
  BY <1>1, IdleFields DEF OneInside, MidMethod
<1>7. WholePosition
  BY <1>1 DEF WholePosition, Commanded
<1> QED BY <1>3, <1>4, <1>5, <1>6, <1>7 DEF IInv

(* The clock and another process' /revoke: no thread moves.                *)
LEMMA TimeOrListStep ==
    ASSUME IInv, UNCHANGED <<mount, log, handler>>,
           now' \in Int, now <= now', revoked \subseteq revoked'
    PROVE  IInv'
<1>1. StateOK'
  BY DEF IInv, StateOK
<1>2. ASSUME NEW w \in Workers PROVE ThreadOK(handler[w])'
  <2>1. PICK h \in Handling : h = handler[w] /\ h = handler'[w]
    BY DEF IInv, StateOK
  <2>2. ThreadOK(h)
    BY <2>1 DEF IInv
  <2>3. HasToken(h)'
    BY <2>2 DEF ThreadOK, HasToken, is_revoked
  <2>4. Refused(h)'
    <3>1. ASSUME h.token # NoToken PROVE h.token.exp \in Int
      BY <3>1, RequestsAssumption DEF Handling
    <3>2. now \in Int
      BY DEF IInv, StateOK
    <3> QED BY <2>2, <3>1, <3>2 DEF ThreadOK, Refused, is_revoked
  <2>5. InProgram(h)' /\ InLog(h)' /\ InCopy(h)' /\ InMethod(h)'
    BY <2>2 DEF ThreadOK, InProgram, InLog, InCopy, InMethod, Copying
  <2> QED BY <2>1, <2>3, <2>4, <2>5, ThreadAfter DEF ThreadOK
<1>3. SlewingOnlyDuringSlew' /\ NoServerError' /\ OneInside' /\ WholePosition'
  BY DEF IInv, SlewingOnlyDuringSlew, NoServerError,
         OneInside, WholePosition, MidMethod, Writing
<1> QED BY <1>1, <1>2, <1>3 DEF IInv

(* With the GIL, a thread that runs finds no other one inside a method.    *)
LEMMA OthersOutside ==
    ASSUME NEW w \in Workers, CanRun(w), ~Preemptive
    PROVE  \A v \in Workers : v # w => ~MidMethod(v)
BY DEF CanRun

(* A step of one thread that changes nothing but what this thread knows.   *)
LEMMA OneThreadStep ==
    ASSUME IInv, UNCHANGED <<now, mount, log, revoked>>,
           NEW w \in Workers, CanRun(w), ~Writing(handler[w]),
           NEW h \in Handling, handler' = [handler EXCEPT ![w] = h],
           ThreadOK(h), h.reply = "server_error" => Preemptive /\ h.op = "connections"
    PROVE  IInv'
<1>1. \A v \in Workers : handler'[v] = IF v = w THEN h ELSE handler[v]
  BY DEF IInv, StateOK
<1>2. StateOK'
  BY DEF IInv, StateOK
<1>3. ASSUME NEW v \in Workers PROVE ThreadOK(handler[v])'
  <2>1. PICK g : g = handler'[v]
    OBVIOUS
  <2>2. ThreadOK(g)
    BY <1>1, <2>1 DEF IInv
  <2>3. ThreadOK(g)'
    BY <2>2, SameThread
  <2> QED BY <2>1, <2>3, ThreadAfter
<1>4. SlewingOnlyDuringSlew' /\ NoServerError'
  BY <1>1 DEF IInv, SlewingOnlyDuringSlew, NoServerError, Writing
<1>5. OneInside'
  BY <1>1, OthersOutside DEF OneInside, MidMethod
<1>6. WholePosition'
  BY <1>1, OthersOutside DEF IInv, WholePosition, MidMethod, Writing
<1> QED BY <1>2, <1>3, <1>4, <1>5, <1>6 DEF IInv

-----------------------------------------------------------------------------
(* What the first step of require_scope does to its thread w and request r *)
(* alone.                                                                  *)
TakesRequest(w, r) ==
    /\ \A v \in Workers \ {w} : handler'[v] = handler[v]
    /\ handler'[w].token = r.token /\ ~Served(handler'[w])
    /\ handler'[w].pc = "verified" => Verifies(r.token)

(* require_scope, first step.                                              *)
LEMMA AuthenticateStep ==
    ASSUME IInv, NEW w \in Workers, NEW r \in Requests, Authenticate(w, r)
    PROVE  IInv' /\ TakesRequest(w, r)
<1>1. PICK reply : reply = Authentication(r.token)
  OBVIOUS
<1>2. PICK active : active = IsActive(r.token)
  OBVIOUS
<1>3. PICK h : h = [Idle EXCEPT !.op = r.op, !.token = r.token, !.body = r.body,
                                !.reply = reply,
                                !.pc = IF reply = "ok" THEN "verified" ELSE "done",
                                !.was_active = active]
  OBVIOUS
<1>4. /\ handler' = [handler EXCEPT ![w] = h] /\ CanRun(w)
      /\ handler[w].pc \in {"idle", "done"} /\ UNCHANGED <<now, mount, log, revoked>>
  BY <1>1, <1>2, <1>3 DEF Authenticate
<1>5. reply \in {"ok", "unauthorized", "token_expired", "invalid_token"}
  BY <1>1 DEF Authentication
<1>6. active \in BOOLEAN
  BY <1>2 DEF IsActive, Verifies
<1>7. r.op \in Ops
  BY RequestsAssumption
<1>8. /\ h \in Handling /\ h.token = r.token /\ h.reply = reply /\ h.step = 1
      /\ h.pc = (IF reply = "ok" THEN "verified" ELSE "done") /\ h.was_active = active
      /\ h.listed = << >> /\ h.mutated = FALSE /\ h.logged = FALSE
  BY <1>3, <1>5, <1>6, <1>7, IdleFields DEF Handling, Replies
<1>9. InProgram(h)
  BY <1>8 DEF InProgram
<1>10. HasToken(h)
  <2>1. ASSUME reply = "ok"
        PROVE  /\ r.token # NoToken /\ r.token.key = as_public_key
               /\ ~is_revoked(r.token.jti) => active = TRUE
    BY <2>1, <1>1, <1>2 DEF Authentication, IsActive, Verifies, Verified
  <2>2. ~Served(h)
    BY <1>5, <1>8 DEF Served
  <2> QED BY <2>1, <2>2, <1>8 DEF HasToken
<1>11. Refused(h)
  <2>1. ASSUME reply = "token_expired" PROVE r.token # NoToken /\ r.token.exp <= now
    BY <2>1, <1>1 DEF Authentication, SignatureExpired
  <2> QED BY <2>1, <1>5, <1>8 DEF Refused
<1>12. InLog(h) /\ InCopy(h) /\ InMethod(h)
  BY <1>8 DEF InLog, InCopy, InMethod, Copying
<1>13. IInv'
  BY <1>4, <1>5, <1>8, <1>9, <1>10, <1>11, <1>12, OneThreadStep DEF ThreadOK, Writing
<1>14. TakesRequest(w, r)
  <2>1. \A v \in Workers : handler'[v] = IF v = w THEN h ELSE handler[v]
    BY <1>4 DEF IInv, StateOK
  <2>2. ~Served(h)
    BY <1>5, <1>8 DEF Served
  <2>3. reply = "ok" => Verifies(r.token)
    BY <1>1 DEF Authentication
  <2> QED BY <1>5, <1>8, <2>1, <2>2, <2>3 DEF TakesRequest
<1> QED BY <1>13, <1>14

(* What a step of one thread leaves of any thread v: its token and its     *)
(* endpoint, and no way past require_scope but through the second step of  *)
(* it, with a token that is not revoked.                                   *)
KeepsToken(v) ==
    /\ handler'[v].token = handler[v].token /\ handler'[v].op = handler[v].op
    /\ handler'[v].pc = "verified" => handler[v].pc = "verified"
    /\ Served(handler'[v]) => \/ Served(handler[v])
                             \/ /\ handler[v].pc = "verified"
                                /\ ~is_revoked(handler[v].token.jti)

(* require_scope, second step.                                             *)
LEMMA AuthorizeStep ==
    ASSUME IInv, NEW w \in Workers, Authorize(w)
    PROVE  IInv' /\ \A v \in Workers : KeepsToken(v)
<1>1. PICK reply : reply = Authorization(handler[w])
  OBVIOUS
<1>2. PICK h : h = [handler[w] EXCEPT !.reply = reply,
                                      !.pc = IF reply = "ok" THEN "authorised" ELSE "done"]
  OBVIOUS
<1>3. handler[w].pc = "verified" /\ CanRun(w) /\ UNCHANGED <<now, mount, log, revoked>>
  BY DEF Authorize
<1>4. handler' = [handler EXCEPT ![w] = h]
  BY <1>1, <1>2 DEF Authorize
<1>5. /\ handler[w] \in Handling
      /\ InProgram(handler[w]) /\ HasToken(handler[w]) /\ InCopy(handler[w])
  BY DEF IInv, StateOK, ThreadOK
<1>6. reply \in {"ok", "token_revoked", "insufficient_scope"}
  BY <1>1 DEF Authorization
<1>7. /\ h \in Handling /\ h.token = handler[w].token /\ h.op = handler[w].op
      /\ h.step = handler[w].step /\ h.was_active = handler[w].was_active
      /\ h.reply = reply /\ h.pc = (IF reply = "ok" THEN "authorised" ELSE "done")
      /\ h.listed = handler[w].listed /\ h.mutated = handler[w].mutated
      /\ h.logged = handler[w].logged
  BY <1>2, <1>5, <1>6 DEF Handling, Replies
<1>8. InProgram(h)
  BY <1>3, <1>5, <1>7 DEF InProgram, Copying
<1>9. HasToken(h)
  <2>1. ASSUME reply = "ok"
        PROVE  ~is_revoked(h.token.jti) /\ Required[h.op] \in h.token.scope
    BY <2>1, <1>1, <1>7 DEF Authorization
  <2>2. ASSUME reply # "ok" PROVE ~Served(h) /\ h.pc # "verified"
    BY <2>2, <1>6, <1>7 DEF Served
  <2> QED BY <2>1, <2>2, <1>3, <1>5, <1>7 DEF HasToken
<1>10. Refused(h)
  <2>1. ASSUME reply = "token_revoked" PROVE is_revoked(h.token.jti)
    BY <2>1, <1>1, <1>7 DEF Authorization
  <2> QED BY <2>1, <1>6, <1>7 DEF Refused
<1>11. InLog(h) /\ InCopy(h) /\ InMethod(h)
  BY <1>3, <1>5, <1>6, <1>7 DEF InLog, InCopy, InMethod, Copying
<1>12. IInv'
  BY <1>3, <1>4, <1>6, <1>7, <1>8, <1>9, <1>10, <1>11, OneThreadStep DEF ThreadOK, Writing
<1>13. ASSUME NEW v \in Workers PROVE KeepsToken(v)
  <2>1. CASE v = w
    <3>1. handler'[w] = h /\ (reply = "ok" => ~is_revoked(handler[w].token.jti))
      BY <1>1, <1>4 DEF IInv, StateOK, Authorization
    <3>2. Served(h) => reply = "ok"
      BY <1>6, <1>7 DEF Served
    <3> QED BY <1>3, <1>6, <1>7, <2>1, <3>1, <3>2 DEF KeepsToken
  <2>2. CASE v # w
    BY <1>4, <2>2 DEF IInv, StateOK, KeepsToken
  <2> QED BY <2>1, <2>2
<1> QED BY <1>12, <1>13

(* post_slew refuses the body.                                             *)
LEMMA RejectStep ==
    ASSUME IInv, NEW w \in Workers, RejectSlew(w)
    PROVE  IInv' /\ \A v \in Workers : KeepsToken(v)
<1>1. PICK h : h = [handler[w] EXCEPT !.pc = "done", !.reply = "invalid_request"]
  OBVIOUS
<1>2. /\ handler' = [handler EXCEPT ![w] = h] /\ CanRun(w)
      /\ handler[w].pc = "authorised" /\ UNCHANGED <<now, mount, log, revoked>>
  BY <1>1 DEF RejectSlew
<1>3. handler[w] \in Handling /\ InProgram(handler[w]) /\ HasToken(handler[w])
  BY DEF IInv, StateOK, ThreadOK
<1>4. /\ h \in Handling /\ h.pc = "done" /\ h.reply = "invalid_request"
      /\ h.token = handler[w].token /\ h.op = handler[w].op
      /\ h.was_active = handler[w].was_active
      /\ h.mutated = handler[w].mutated /\ h.logged = handler[w].logged
  BY <1>1, <1>3 DEF Handling, Replies
<1>5. ThreadOK(h)
  <2>1. HasToken(h)
    BY <1>2, <1>3, <1>4 DEF HasToken, Served
  <2>2. InProgram(h)
    BY <1>2, <1>3, <1>4 DEF InProgram, Copying
  <2> QED BY <1>4, <2>1, <2>2 DEF ThreadOK, Refused, InLog, InCopy, InMethod, Copying
<1>6. IInv'
  BY <1>2, <1>4, <1>5, OneThreadStep DEF Writing
<1>7. ASSUME NEW v \in Workers PROVE KeepsToken(v)
  <2>1. handler'[v] = IF v = w THEN h ELSE handler[v]
    BY <1>2 DEF IInv, StateOK
  <2>2. Served(handler[w])
    BY <1>2 DEF Served
  <2> QED BY <1>4, <2>1, <2>2 DEF KeepsToken
<1> QED BY <1>6, <1>7

-----------------------------------------------------------------------------
(* The program text of the mount's methods.                                *)
LEMMA Programs ==
    ASSUME NEW h
    PROVE  /\ h.op = "slew" => Accesses(h) = slew_to(h.target)
           /\ h.op = "reset" => Accesses(h) = reset
           /\ h.op = "position" => Accesses(h) = <<"ra", "dec">>
           /\ h.op = "status" => Accesses(h) = <<"is_slewing", "is_tracking", "ra", "dec">>
<1>1. CASE h.op = "slew"
  BY <1>1, Zenon DEF Accesses
<1>2. CASE h.op = "reset"
  BY <1>2, Zenon DEF Accesses
<1>3. CASE h.op = "position"
  BY <1>3, Zenon DEF Accesses
<1>4. CASE h.op = "status"
  BY <1>4, Zenon DEF Accesses
<1> QED BY <1>1, <1>2, <1>3, <1>4

LEMMA ProgramLengths ==
    ASSUME NEW h
    PROVE  /\ h.op \in {"slew", "reset", "status"} => Len(Accesses(h)) = 4
           /\ h.op = "position" => Len(Accesses(h)) = 2
<1>1. CASE h.op = "slew"
  <2>1. PICK t : t = h.target
    OBVIOUS
  <2>2. Len(slew_to(t)) = 4
    BY DEF slew_to
  <2>3. Accesses(h) = slew_to(t)
    BY <1>1, <2>1, Programs
  <2> QED BY <1>1, <2>2, <2>3
<1>2. CASE h.op = "reset"
  <2>1. Len(reset) = 4
    BY DEF reset
  <2>2. Accesses(h) = reset
    BY <1>2, Programs
  <2> QED BY <1>2, <2>1, <2>2
<1>3. CASE h.op = "status"
  BY <1>3, Programs
<1>4. CASE h.op = "position"
  BY <1>4, Programs
<1> QED BY <1>1, <1>2, <1>3, <1>4

(* One access further, or the answer.                                      *)
LEMMA AdvanceFields ==
    ASSUME NEW h \in Handling, h.pc = "act", h.reply = "ok", h.op # "connections",
           NEW g, g = Advance(h)
    PROVE  /\ g \in Handling /\ g.op = h.op /\ g.token = h.token /\ g.body = h.body
           /\ g.target = h.target /\ g.answer = h.answer /\ g.listed = h.listed
           /\ g.mutated = h.mutated /\ g.was_active = h.was_active
           /\ g.logged = h.logged /\ g.later = h.later
           /\ h.step < Len(Accesses(h)) =>
                g.pc = "act" /\ g.step = h.step + 1 /\ g.reply = "ok"
           /\ ~(h.step < Len(Accesses(h))) =>
                /\ g.pc = "done"
                /\ g.reply = IF h.op \in Reads /\ ~(ValidRa(h.answer.ra) /\ ValidDec(h.answer.dec))
                             THEN "server_error" ELSE "ok"
<1>1. CASE h.step < Len(Accesses(h))
  <2>1. g = [h EXCEPT !.step = h.step + 1]
    BY <1>1 DEF Advance
  <2>2. Len(Accesses(h)) \in {2, 4}
    <3>1. h.op \in {"position", "status", "slew", "reset"}
      BY OpsAre DEF Handling
    <3> QED BY <3>1, ProgramLengths
  <2>3. h.step \in 1..4
    BY DEF Handling
  <2>4. h.step + 1 \in 1..4
    <3>1. PICK n : n = Len(Accesses(h))
      OBVIOUS
    <3>2. PICK i : i = h.step
      OBVIOUS
    <3>3. n \in 1..4 /\ i \in 1..4 /\ i < n
      BY <1>1, <2>2, <2>3, <3>1, <3>2
    <3>4. i + 1 \in 1..4
      BY <3>3
    <3> QED BY <3>2, <3>4
  <2> QED BY <1>1, <2>1, <2>4 DEF Handling
<1>2. CASE ~(h.step < Len(Accesses(h)))
  <2>1. PICK reply \in {"ok", "server_error"} :
          /\ reply = IF h.op \in Reads /\ ~(ValidRa(h.answer.ra) /\ ValidDec(h.answer.dec))
                     THEN "server_error" ELSE "ok"
          /\ g = [h EXCEPT !.pc = "done", !.reply = reply]
    BY <1>2 DEF Advance
  <2> QED BY <1>2, <2>1 DEF Handling, Replies
<1> QED BY <1>1, <1>2

(* get_position and get_status: one attribute is read.                     *)
LEMMA AttributeRead ==
    ASSUME NEW h \in Handling, h.op \in Reads, h.pc = "act", InProgram(h)
    PROVE  Accesses(h)[h.step] \in {"ra", "dec", "is_slewing", "is_tracking"}
<1>1. CASE h.op = "position"
  <2>1. h.step = 1 \/ h.step = 2
    BY <1>1 DEF InProgram
  <2>2. Accesses(h) = <<"ra", "dec">>
    BY <1>1, Programs
  <2> QED BY <2>1, <2>2
<1>2. CASE h.op = "status"
  <2>1. h.step = 1 \/ h.step = 2 \/ h.step = 3 \/ h.step = 4
    BY DEF Handling
  <2>2. Accesses(h) = <<"is_slewing", "is_tracking", "ra", "dec">>
    BY <1>2, Programs
  <2> QED BY <2>1, <2>2
<1> QED BY <1>1, <1>2 DEF Reads

LEMMA ReadStep ==
    ASSUME IInv, NEW w \in Workers, Read(w)
    PROVE  IInv' /\ \A v \in Workers : KeepsToken(v)
<1>1. PICK h : h = handler[w]
  OBVIOUS
<1>2. /\ h.pc = "act" /\ h.op \in Reads /\ CanRun(w)
      /\ UNCHANGED <<now, mount, log, revoked>>
  BY <1>1 DEF Read
<1>3. /\ h \in Handling /\ mount \in MountState
      /\ InProgram(h) /\ HasToken(h) /\ InLog(h) /\ InCopy(h)
  BY <1>1 DEF IInv, StateOK, ThreadOK
<1>4. PICK attr : attr = Accesses(h)[h.step]
  OBVIOUS
<1>5. attr \in {"ra", "dec", "is_slewing", "is_tracking"}
  BY <1>2, <1>3, <1>4, AttributeRead
<1>6. PICK a : a = [h.answer EXCEPT ![attr] = mount[attr]]
  OBVIOUS
<1>7. a \in MountState
  <2>1. h.answer \in MountState
    BY <1>3 DEF Handling
  <2> QED BY <1>3, <1>5, <1>6, <2>1 DEF MountState
<1>8. PICK k : k = [h EXCEPT !.answer = a]
  OBVIOUS
<1>9. /\ k \in Handling /\ k.pc = "act" /\ k.reply = "ok" /\ k.op = h.op /\ k.answer = a
      /\ k.token = h.token /\ k.body = h.body /\ k.target = h.target /\ k.step = h.step
      /\ k.listed = h.listed /\ k.was_active = h.was_active /\ k.later = h.later
      /\ k.mutated = h.mutated /\ k.logged = h.logged
  <2>1. h.reply = "ok"
    BY <1>2, <1>3 DEF InProgram
  <2> QED BY <1>2, <1>3, <1>7, <1>8, <2>1 DEF Handling
<1>10. PICK g : g = Advance(k)
  OBVIOUS
<1>11. handler' = [handler EXCEPT ![w] = g]
  BY <1>1, <1>4, <1>6, <1>8, <1>10 DEF Read
<1>12. /\ g \in Handling /\ g.op = h.op /\ g.token = h.token /\ g.was_active = h.was_active
       /\ g.listed = h.listed /\ g.mutated = h.mutated /\ g.logged = h.logged
       /\ g.later = h.later /\ g.reply = "ok" /\ g.pc \in {"act", "done"}
       /\ g.pc = "act" => k.step < Len(Accesses(k)) /\ g.step = k.step + 1
  <2>1. ValidRa(k.answer.ra) /\ ValidDec(k.answer.dec)
    BY <1>7, <1>9 DEF MountState, ValidRa, ValidDec
  <2>2. k.op # "connections"
    BY <1>2, <1>9 DEF Reads
  <2> QED BY <1>9, <1>10, <2>1, <2>2, AdvanceFields
<1>13. InProgram(g)
  <2>1. ASSUME g.pc = "act", g.op = "position" PROVE g.step \in 1..2
    <3>1. Len(Accesses(k)) = 2
      BY <2>1, <1>9, <1>12, ProgramLengths
    <3>2. k.step \in 1..4
      BY <1>9 DEF Handling
    <3> QED BY <1>12, <2>1, <3>1, <3>2
  <2> QED BY <1>2, <1>3, <1>12, <2>1 DEF InProgram, Reads, Copying
<1>14. HasToken(g)
  BY <1>2, <1>3, <1>12 DEF HasToken, Served
<1>15. InLog(g)
  BY <1>2, <1>3, <1>12 DEF InLog, EntryOf, Reads
<1>16. Refused(g) /\ InCopy(g) /\ InMethod(g)
  BY <1>2, <1>3, <1>12 DEF Refused, InCopy, InMethod, Copying, Reads
<1>17. IInv'
  BY <1>1, <1>2, <1>11, <1>12, <1>13, <1>14, <1>15, <1>16, OneThreadStep
     DEF ThreadOK, Writing, Reads
<1>18. ASSUME NEW v \in Workers PROVE KeepsToken(v)
  <2>1. handler'[v] = IF v = w THEN g ELSE handler[v]
    BY <1>11 DEF IInv, StateOK
  <2>2. Served(handler[w])
    BY <1>1, <1>2 DEF Served
  <2> QED BY <1>1, <1>12, <2>1, <2>2 DEF KeepsToken
<1> QED BY <1>17, <1>18

(* list(self._connection_log): an iterator is made.                        *)
LEMMA ListStep ==
    ASSUME IInv, NEW w \in Workers, list_connections(w)
    PROVE  IInv' /\ \A v \in Workers : KeepsToken(v)
<1>1. PICK h : h = handler[w]
  OBVIOUS
<1>2. /\ h.pc = "act" /\ h.op = "connections" /\ h.step = 1 /\ CanRun(w)
      /\ UNCHANGED <<now, mount, log, revoked>>
  BY <1>1 DEF list_connections
<1>3. /\ h \in Handling /\ InProgram(h) /\ HasToken(h) /\ InLog(h) /\ InCopy(h)
  BY <1>1 DEF IInv, StateOK, ThreadOK
<1>4. PICK g : g = [h EXCEPT !.step = 2]
  OBVIOUS
<1>5. handler' = [handler EXCEPT ![w] = g]
  BY <1>1, <1>4 DEF list_connections
<1>6. /\ g \in Handling /\ g.op = h.op /\ g.token = h.token /\ g.was_active = h.was_active
      /\ g.later = h.later /\ g.reply = h.reply /\ g.pc = "act" /\ g.step = 2
      /\ g.listed = h.listed /\ g.mutated = h.mutated /\ g.logged = h.logged
  BY <1>2, <1>3, <1>4 DEF Handling
<1>7. HasToken(g)
  BY <1>2, <1>3, <1>6 DEF HasToken, Served
<1>8. InLog(g)
  BY <1>2, <1>3, <1>6 DEF InLog, EntryOf
<1>9. InProgram(g)
  BY <1>2, <1>3, <1>6 DEF InProgram, Copying
<1>10. InCopy(g)
  <2>1. g.listed = << >>
    BY <1>2, <1>3, <1>6 DEF InCopy, Copying
  <2>2. Len(log) \in Nat
    BY LenProperties DEF IInv, StateOK
  <2> QED BY <1>6, <2>1, <2>2 DEF InCopy
<1>11. Refused(g) /\ InMethod(g) /\ g.reply = "ok"
  BY <1>2, <1>3, <1>6 DEF InProgram, Refused, InMethod
<1>12. IInv'
  BY <1>1, <1>2, <1>5, <1>6, <1>7, <1>8, <1>9, <1>10, <1>11, OneThreadStep
     DEF ThreadOK, Writing
<1>13. ASSUME NEW v \in Workers PROVE KeepsToken(v)
  <2>1. handler'[v] = IF v = w THEN g ELSE handler[v]
    BY <1>5 DEF IInv, StateOK
  <2>2. Served(handler[w])
    BY <1>1, <1>2 DEF Served
  <2> QED BY <1>1, <1>6, <2>1, <2>2 DEF KeepsToken
<1> QED BY <1>12, <1>13

(* What the iterator gives next: an exception if the deque has changed,    *)
(* the next entry, or the end, by which time it has given the whole log.   *)
CopyGoesOn(h, g) ==
    \/ h.mutated /\ g.pc = "done" /\ g.reply = "server_error" /\ g.mutated = FALSE
    \/ /\ ~h.mutated /\ g.pc = "act" /\ g.reply = "ok" /\ g.mutated = FALSE
       /\ Len(h.listed) < Len(log) /\ g.listed = Append(h.listed, log[Len(h.listed) + 1])
    \/ ~h.mutated /\ g.pc = "done" /\ g.reply = "ok" /\ g.mutated = FALSE /\ g.listed = log

LEMMA CopiedFields ==
    ASSUME NEW h \in Handling, Copying(h), InProgram(h), InCopy(h),
           log \in Seq(Entry), NEW g, g = Copied(h)
    PROVE  /\ g \in Handling /\ g.op = h.op /\ g.token = h.token /\ g.body = h.body
           /\ g.target = h.target /\ g.step = h.step /\ g.was_active = h.was_active
           /\ g.logged = h.logged /\ g.later = h.later /\ g.answer = h.answer
           /\ CopyGoesOn(h, g)
<1>1. h.pc = "act" /\ h.reply = "ok" /\ h.mutated \in BOOLEAN /\ h.listed \in Seq(Entry)
  BY DEF Copying, InProgram, Handling
<1>2. CASE h.mutated
  <2>1. g = [h EXCEPT !.pc = "done", !.reply = "server_error", !.mutated = FALSE]
    BY <1>2 DEF Copied
  <2>2. /\ g \in Handling /\ g.op = h.op /\ g.token = h.token /\ g.body = h.body
        /\ g.target = h.target /\ g.step = h.step /\ g.was_active = h.was_active
        /\ g.logged = h.logged /\ g.later = h.later /\ g.answer = h.answer
        /\ g.pc = "done" /\ g.reply = "server_error" /\ g.mutated = FALSE
    BY <2>1 DEF Handling, Replies
  <2> QED BY <1>2, <2>2 DEF CopyGoesOn
<1>3. CASE ~h.mutated /\ Len(h.listed) < Len(log)
  <2>1. PICK e : e = log[Len(h.listed) + 1]
    OBVIOUS
  <2>2. e \in Entry
    <3>1. PICK n \in Nat : n = Len(h.listed)
      BY <1>1, LenProperties
    <3>2. PICK m \in Nat : m = Len(log)
      BY LenProperties
    <3>3. n + 1 \in 1..m
      BY <1>3, <3>1, <3>2
    <3> QED BY <2>1, <3>1, <3>2, <3>3, ElementOfSeq
  <2>3. PICK l : l = Append(h.listed, e)
    OBVIOUS
  <2>4. l \in Seq(Entry)
    BY <1>1, <2>2, <2>3, AppendProperties
  <2>5. g = [h EXCEPT !.listed = l]
    BY <1>3, <2>1, <2>3 DEF Copied
  <2>6. /\ g \in Handling /\ g.op = h.op /\ g.token = h.token /\ g.body = h.body
        /\ g.target = h.target /\ g.step = h.step /\ g.was_active = h.was_active
        /\ g.logged = h.logged /\ g.later = h.later /\ g.answer = h.answer
        /\ g.pc = h.pc /\ g.reply = h.reply /\ g.mutated = h.mutated /\ g.listed = l
    BY <2>4, <2>5 DEF Handling
  <2>7. g.mutated = FALSE
    BY <1>1, <1>3, <2>6
  <2> QED BY <1>1, <1>3, <2>1, <2>3, <2>6, <2>7 DEF CopyGoesOn
<1>4. CASE ~h.mutated /\ ~(Len(h.listed) < Len(log))
  <2>1. g = [h EXCEPT !.pc = "done"]
    BY <1>4 DEF Copied
  <2>2. /\ g \in Handling /\ g.op = h.op /\ g.token = h.token /\ g.body = h.body
        /\ g.target = h.target /\ g.step = h.step /\ g.was_active = h.was_active
        /\ g.logged = h.logged /\ g.later = h.later /\ g.answer = h.answer
        /\ g.pc = "done" /\ g.reply = h.reply /\ g.mutated = h.mutated
        /\ g.listed = h.listed
    BY <2>1 DEF Handling
  <2>3. h.listed = log
    <3>1. /\ Len(h.listed) <= Len(log)
          /\ \A i \in 1..Len(h.listed) : h.listed[i] = log[i]
      BY <1>4 DEF InCopy
    <3>2. Len(h.listed) \in Nat /\ Len(log) \in Nat
      BY <1>1, LenProperties
    <3>3. Len(h.listed) = Len(log)
      BY <1>4, <3>1, <3>2
    <3> QED BY <1>1, <3>1, <3>3, SeqEqual
  <2>4. g.mutated = FALSE
    BY <1>1, <1>4, <2>2
  <2> QED BY <1>1, <1>4, <2>2, <2>3, <2>4 DEF CopyGoesOn
<1> QED BY <1>2, <1>3, <1>4

LEMMA NextConnectionStep ==
    ASSUME IInv, NEW w \in Workers, NextConnection(w)
    PROVE  IInv' /\ \A v \in Workers : KeepsToken(v)
<1>1. PICK h : h = handler[w]
  OBVIOUS
<1>2. /\ h.pc = "act" /\ h.op = "connections" /\ h.step = 2 /\ Copying(h) /\ CanRun(w)
      /\ UNCHANGED <<now, mount, log, revoked>>
  BY <1>1 DEF NextConnection, Copying
<1>3. /\ h \in Handling /\ log \in Seq(Entry)
      /\ InProgram(h) /\ HasToken(h) /\ InLog(h) /\ InCopy(h)
  BY <1>1 DEF IInv, StateOK, ThreadOK
<1>4. PICK g : g = Copied(h)
  OBVIOUS
<1>5. handler' = [handler EXCEPT ![w] = g]
  BY <1>1, <1>4 DEF NextConnection
<1>6. /\ g \in Handling /\ g.op = h.op /\ g.token = h.token /\ g.was_active = h.was_active
      /\ g.step = h.step /\ g.later = h.later /\ g.logged = h.logged
      /\ CopyGoesOn(h, g)
  BY <1>2, <1>3, <1>4, CopiedFields
<1>7. /\ g.pc \in {"act", "done"} /\ g.mutated = FALSE
      /\ g.reply \in {"ok", "server_error"}
      /\ g.pc = "act" => g.reply = "ok"
      /\ g.reply = "server_error" => h.mutated
  BY <1>6 DEF CopyGoesOn
<1>8. HasToken(g)
  BY <1>2, <1>3, <1>6, <1>7 DEF HasToken, Served
<1>9. InLog(g)
  <2>1. ASSUME h.later < MaxLog
        PROVE  h.later < Len(log) /\ log[Len(log) - h.later] = EntryOf(h)
    BY <2>1, <1>2, <1>3 DEF InLog
  <2>2. ASSUME h.later < MaxLog PROVE EntryOf(h) \in ToSet(log)
    <3>1. h.later \in Nat
      BY <1>3, MaxLogAssumption DEF Handling
    <3>2. Len(log) - h.later \in DOMAIN log
      BY <2>1, <2>2, <3>1, <1>3, LenProperties
    <3> QED BY <2>1, <2>2, <3>2 DEF ToSet
  <2>3. g.pc = "done" /\ g.reply = "ok" => g.listed = log
    BY <1>6 DEF CopyGoesOn
  <2>4. EntryOf(g) = EntryOf(h)
    BY <1>6 DEF EntryOf
  <2> QED BY <1>6, <1>7, <2>1, <2>2, <2>3, <2>4 DEF InLog
<1>10. InProgram(g)
  BY <1>2, <1>3, <1>6, <1>7 DEF InProgram
<1>11. InCopy(g)
  <2>1. CASE g.pc = "done"
    BY <2>1 DEF InCopy, Copying
  <2>2. CASE g.pc = "act"
    <3>1. /\ Len(h.listed) < Len(log) /\ g.listed = Append(h.listed, log[Len(h.listed) + 1])
          /\ ~h.mutated
      BY <1>6, <2>2 DEF CopyGoesOn
    <3>2. h.listed \in Seq(Entry)
      BY <1>3 DEF Handling
    <3>3. PICK n \in Nat : n = Len(h.listed)
      BY <3>2, LenProperties
    <3>4. PICK m \in Nat : m = Len(log)
      BY <1>3, LenProperties
    <3>5. n + 1 \in 1..m
      BY <3>1, <3>3, <3>4
    <3>6. log[n + 1] \in Entry
      BY <1>3, <3>4, <3>5, ElementOfSeq
    <3>7. /\ Len(g.listed) = n + 1 /\ g.listed[n + 1] = log[n + 1]
          /\ \A i \in 1..n : g.listed[i] = h.listed[i]
      BY <3>1, <3>2, <3>3, <3>6, AppendProperties
    <3>8. \A i \in 1..n : h.listed[i] = log[i]
      BY <1>2, <1>3, <3>1, <3>3 DEF InCopy
    <3>9. \A i \in 1..(n + 1) : i \in 1..n \/ i = n + 1
      OBVIOUS
    <3>10. Len(g.listed) <= Len(log) /\ \A i \in 1..Len(g.listed) : g.listed[i] = log[i]
      BY <3>4, <3>5, <3>7, <3>8, <3>9
    <3>11. Copying(g)
      BY <1>2, <1>6, <2>2 DEF Copying
    <3> QED BY <3>10, <3>11 DEF InCopy
  <2> QED BY <1>7, <2>1, <2>2
<1>12. Refused(g) /\ InMethod(g)
  BY <1>2, <1>6, <1>7 DEF Refused, InMethod
<1>13. g.reply = "server_error" => Preemptive /\ g.op = "connections"
  BY <1>2, <1>3, <1>6, <1>7 DEF InProgram
<1>14. IInv'
  BY <1>1, <1>2, <1>5, <1>6, <1>8, <1>9, <1>10, <1>11, <1>12, <1>13, OneThreadStep
     DEF ThreadOK, Writing
<1>15. ASSUME NEW v \in Workers PROVE KeepsToken(v)
  <2>1. handler'[v] = IF v = w THEN g ELSE handler[v]
    BY <1>5 DEF IInv, StateOK
  <2>2. Served(handler[w])
    BY <1>1, <1>2 DEF Served
  <2> QED BY <1>1, <1>6, <1>7, <2>1, <2>2 DEF KeepsToken
<1> QED BY <1>14, <1>15

-----------------------------------------------------------------------------
(* What the deque holds after an append: the new entry last, and every     *)
(* older one a place further from the end, until it falls out.             *)
IsLogWith(l, e) ==
    /\ l \in Seq(Entry) /\ Len(l) \in 1..MaxLog
    /\ l[Len(l)] = e
    /\ \A d \in Nat : d < Len(log) /\ d + 1 < MaxLog =>
         /\ d + 1 < Len(l)
         /\ l[Len(l) - (d + 1)] = log[Len(log) - d]

LEMMA LoggedFacts ==
    ASSUME log \in Seq(Entry), Len(log) <= MaxLog,
           NEW e \in Entry, NEW l, l = Logged(e)
    PROVE  IsLogWith(l, e)
<1>1. PICK n \in Nat : n = Len(log) /\ DOMAIN log = 1..n
  BY LenProperties
<1>2. MaxLog \in Nat /\ MaxLog >= 1
  BY MaxLogAssumption
<1>3. CASE n < MaxLog
  <2>1. l = Append(log, e)
    BY <1>1, <1>3 DEF Logged
  <2>2. /\ l \in Seq(Entry) /\ Len(l) = n + 1 /\ l[n + 1] = e
        /\ \A i \in 1..n : l[i] = log[i]
    BY <1>1, <2>1, AppendProperties
  <2>3. ASSUME NEW d \in Nat, d < n, d + 1 < MaxLog
        PROVE  d + 1 < n + 1 /\ l[n + 1 - (d + 1)] = log[n - d]
    <3>1. n - d \in 1..n /\ n + 1 - (d + 1) = n - d
      BY <2>3
    <3> QED BY <2>2, <2>3, <3>1
  <2>4. Len(l) \in 1..MaxLog
    BY <1>2, <1>3, <2>2
  <2> QED BY <1>1, <2>2, <2>3, <2>4 DEF IsLogWith
<1>4. CASE ~(n < MaxLog)
  <2>1. n = MaxLog
    BY <1>1, <1>2, <1>4
  <2>2. PICK rest : rest = Tail(log)
    OBVIOUS
  <2>3. l = Append(rest, e)
    BY <1>1, <1>4, <2>2 DEF Logged
  <2>4. log # << >>
    BY <1>1, <1>2, <2>1, EmptySeq
  <2>5. /\ rest \in Seq(Entry) /\ Len(rest) = n - 1
        /\ \A i \in 1..(n - 1) : rest[i] = log[i + 1]
    BY <1>1, <2>2, <2>4, HeadTailProperties
  <2>6. /\ l \in Seq(Entry) /\ Len(l) = n /\ l[n] = e
        /\ \A i \in 1..(n - 1) : l[i] = log[i + 1]
    BY <1>1, <1>2, <2>1, <2>3, <2>5, AppendProperties
  <2>7. ASSUME NEW d \in Nat, d < n, d + 1 < MaxLog
        PROVE  d + 1 < n /\ l[n - (d + 1)] = log[n - d]
    <3>1. d + 1 < n /\ n - (d + 1) \in 1..(n - 1) /\ (n - (d + 1)) + 1 = n - d
      BY <2>1, <2>7
    <3> QED BY <2>6, <3>1
  <2>8. Len(l) \in 1..MaxLog
    BY <1>2, <2>1, <2>6
  <2> QED BY <1>1, <2>6, <2>7, <2>8 DEF IsLogWith
<1> QED BY <1>3, <1>4

LEMMA LogStep ==
    ASSUME IInv, NEW w \in Workers, log_connection(w)
    PROVE  IInv' /\ \A v \in Workers : KeepsToken(v)
<1>1. PICK o : o = handler[w]
  OBVIOUS
<1>2. /\ o.pc = "authorised" /\ CanRun(w) /\ UNCHANGED <<now, mount, revoked>>
      /\ log' = Logged(EntryOf(o))
  BY <1>1 DEF log_connection
<1>3. /\ o \in Handling /\ mount \in MountState
      /\ log \in Seq(Entry) /\ Len(log) <= MaxLog /\ now \in Int
      /\ InProgram(o) /\ HasToken(o) /\ InCopy(o) /\ handler \in [Workers -> Handling]
  BY <1>1 DEF IInv, StateOK, ThreadOK
<1>4. PICK target \in IF o.op = "slew" THEN SlewCommand(o.body) ELSE {Idle.target} :
        handler' = [v \in Workers |->
          IF v = w THEN [o EXCEPT !.pc = "act", !.target = target,
                                  !.logged = TRUE, !.later = 0]
          ELSE AfterAppend(handler[v])]
  BY <1>1 DEF log_connection
<1>5. target \in Position
  <2>1. o.body \in {r.body : r \in Requests} \cup {Idle.body}
    BY <1>3 DEF Handling
  <2>2. Idle.target \in Position
    BY DEF Idle, Position
  <2> QED BY <2>1, <2>2, CommandsArePositions
<1>6. PICK h : h = [o EXCEPT !.pc = "act", !.target = target, !.logged = TRUE, !.later = 0]
  OBVIOUS
<1>7. handler'[w] = h
  BY <1>4, <1>6
<1>8. /\ h \in Handling /\ h.pc = "act" /\ h.target = target /\ h.later = 0
      /\ h.op = o.op /\ h.token = o.token /\ h.body = o.body /\ h.step = 1
      /\ h.reply = "ok" /\ h.was_active = o.was_active /\ h.logged = TRUE
      /\ h.listed = << >> /\ h.mutated = FALSE
  <2>1. o.step = 1 /\ o.reply = "ok" /\ o.mutated = FALSE /\ o.listed = << >>
    BY <1>2, <1>3 DEF InProgram, InCopy, Copying, Handling
  <2>2. 0 \in 0..MaxLog
    BY MaxLogAssumption
  <2> QED BY <1>3, <1>5, <1>6, <2>1, <2>2 DEF Handling
<1>9. ASSUME NEW v \in Workers, v # w, NEW p, p = handler[v], NEW g, g = handler'[v]
      PROVE  /\ p \in Handling /\ g \in Handling
             /\ g.pc = p.pc /\ g.op = p.op /\ g.step = p.step /\ g.reply = p.reply
             /\ g.token = p.token /\ g.body = p.body /\ g.target = p.target
             /\ g.listed = p.listed /\ g.was_active = p.was_active /\ g.logged = p.logged
             /\ g.mutated = Copying(p)
             /\ g.later < MaxLog => p.later \in Nat /\ g.later = p.later + 1
  <2>1. p \in Handling
    BY <1>3, <1>9
  <2>2. p.later \in Nat /\ p.later <= MaxLog /\ MaxLog \in Nat
    BY <2>1, MaxLogAssumption DEF Handling
  <2>3. PICK m \in BOOLEAN : m = Copying(p)
    BY DEF Copying
  <2>4. PICK n : n = IF p.later < MaxLog THEN p.later + 1 ELSE p.later
    OBVIOUS
  <2>5. n \in 0..MaxLog /\ (n < MaxLog => n = p.later + 1)
    BY <2>2, <2>4
  <2>6. g = [p EXCEPT !.mutated = m, !.later = n]
    BY <1>4, <1>9, <2>3, <2>4 DEF AfterAppend
  <2>7. /\ g \in Handling
        /\ g.pc = p.pc /\ g.op = p.op /\ g.step = p.step /\ g.reply = p.reply
        /\ g.token = p.token /\ g.body = p.body /\ g.target = p.target
        /\ g.listed = p.listed /\ g.was_active = p.was_active /\ g.logged = p.logged
        /\ g.mutated = m /\ g.later = n
    BY <2>1, <2>5, <2>6 DEF Handling
  <2> QED BY <2>1, <2>2, <2>3, <2>5, <2>7
<1>10. PICK e : e = EntryOf(o)
  OBVIOUS
<1>11. PICK r \in Requests : r.token = o.token /\ r.token # NoToken
  BY <1>2, <1>3 DEF HasToken, Served, Handling
<1>12. e \in Entry /\ e.client_id = r.token.sub /\ e.endpoint = o.op
  <2>1. o.op \in Ops
    BY <1>3 DEF Handling
  <2> QED BY <1>10, <1>11, <2>1 DEF Entry, EntryOf
<1>13. PICK l : l = Logged(e)
  OBVIOUS
<1>14. log' = l
  BY <1>2, <1>10, <1>13
<1>15. IsLogWith(l, e)
  BY <1>3, <1>12, <1>13, LoggedFacts
<1>16. StateOK'
  <2>1. handler' \in [Workers -> Handling]
    BY <1>4, <1>7, <1>8, <1>9
  <2>2. Len(l) <= MaxLog
    BY <1>15, MaxLogAssumption DEF IsLogWith
  <2> QED BY <1>2, <1>3, <1>14, <1>15, <2>1, <2>2 DEF StateOK, IsLogWith
<1>17. ThreadOK(h)'
  <2>1. InProgram(h)'
    BY <1>4, <1>8 DEF InProgram
  <2>2. HasToken(h)'
    BY <1>2, <1>3, <1>8 DEF HasToken, Served, is_revoked
  <2>3. Refused(h)' /\ InCopy(h)' /\ InMethod(h)'
    BY <1>8 DEF Refused, InCopy, InMethod, Copying
  <2>4. InLog(h)'
    <3>1. EntryOf(h) = e
      BY <1>8, <1>10 DEF EntryOf
    <3>2. PICK n \in Nat : n = Len(l) /\ n >= 1 /\ l[n] = e
      BY <1>15, MaxLogAssumption DEF IsLogWith
    <3> QED BY <1>8, <1>14, <3>1, <3>2 DEF InLog
  <2> QED BY <2>1, <2>2, <2>3, <2>4 DEF ThreadOK
<1>18. ASSUME NEW v \in Workers, v # w PROVE ThreadOK(handler[v])'
  <2>1. PICK p : p = handler[v]
    OBVIOUS
  <2>2. PICK g : g = handler'[v]
    OBVIOUS
  <2>3. ThreadOK(p)
    BY <2>1 DEF IInv
  <2>4. InProgram(g)'
    <3>1. Copying(p) => Preemptive
      BY <1>2, <1>18, <2>1, OthersOutside DEF Copying, MidMethod, SwitchPoints
    <3>2. g.mutated = Copying(p) /\ (Copying(g)' <=> Copying(p))
      BY <1>9, <1>18, <2>1, <2>2 DEF Copying
    <3>3. g.mutated => Copying(g)' /\ Preemptive
      BY <3>1, <3>2
    <3> QED BY <1>9, <1>18, <2>1, <2>2, <2>3, <3>3 DEF ThreadOK, InProgram
  <2>5. HasToken(g)'
    BY <1>2, <1>9, <1>18, <2>1, <2>2, <2>3 DEF ThreadOK, HasToken, Served, is_revoked
  <2>6. Refused(g)'
    BY <1>2, <1>9, <1>18, <2>1, <2>2, <2>3 DEF ThreadOK, Refused, is_revoked
  <2>7. InMethod(g)'
    BY <1>2, <1>9, <1>18, <2>1, <2>2, <2>3 DEF ThreadOK, InMethod
  <2>8. InCopy(g)'
    <3>1. g.mutated = Copying(p) /\ (Copying(g)' <=> Copying(p))
      BY <1>9, <1>18, <2>1, <2>2 DEF Copying
    <3>2. g.pc = p.pc /\ g.listed = p.listed
      BY <1>9, <1>18, <2>1, <2>2
    <3>3. p.pc # "done" /\ ~Copying(p) => p.listed = << >>
      BY <2>3 DEF ThreadOK, InCopy
    <3> QED BY <3>1, <3>2, <3>3 DEF InCopy
  <2>9. InLog(g)'
    <3> SUFFICES ASSUME g.pc = "act" \/ (g.pc = "done" /\ g.reply = "ok"), g.later < MaxLog
                 PROVE  /\ g.later < Len(l) /\ l[Len(l) - g.later] = EntryOf(g)
                        /\ g.pc = "done" /\ g.op = "connections" =>
                             EntryOf(g) \in ToSet(g.listed)
      BY <1>14 DEF InLog, EntryOf
    <3>1. PICK d \in Nat : d = p.later /\ g.later = d + 1
      BY <1>9, <1>18, <2>1, <2>2
    <3>2. d < MaxLog /\ d + 1 < MaxLog
      BY <3>1, MaxLogAssumption
    <3>3. /\ d < Len(log) /\ log[Len(log) - d] = EntryOf(p)
          /\ p.pc = "done" /\ p.op = "connections" => EntryOf(p) \in ToSet(p.listed)
      BY <1>9, <1>18, <2>1, <2>2, <2>3, <3>1, <3>2 DEF ThreadOK, InLog
    <3>4. d + 1 < Len(l) /\ l[Len(l) - (d + 1)] = log[Len(log) - d]
      BY <1>15, <3>2, <3>3 DEF IsLogWith
    <3>5. EntryOf(g) = EntryOf(p)
      BY <1>9, <1>18, <2>1, <2>2 DEF EntryOf
    <3> QED BY <1>9, <1>18, <2>1, <2>2, <3>1, <3>3, <3>4, <3>5
  <2> QED BY <2>2, <2>4, <2>5, <2>6, <2>7, <2>8, <2>9, ThreadAfter DEF ThreadOK
<1>19. \A v \in Workers : v # w => /\ handler'[v].pc = handler[v].pc
                                   /\ handler'[v].op = handler[v].op
                                   /\ handler'[v].step = handler[v].step
                                   /\ handler'[v].reply = handler[v].reply
  BY <1>9
<1>20. handler[w].pc = "authorised" /\ handler'[w].step = 1 /\ handler'[w].reply = "ok"
  BY <1>1, <1>2, <1>7, <1>8
<1>21. SlewingOnlyDuringSlew' /\ NoServerError'
  BY <1>2, <1>19, <1>20 DEF IInv, SlewingOnlyDuringSlew, NoServerError
<1>22. \A v \in Workers : MidMethod(v)' => v # w /\ MidMethod(v)
  BY <1>19, <1>20 DEF MidMethod, SwitchPoints
<1>23. \A v \in Workers : MidMethod(v) => v # w
  BY <1>20 DEF MidMethod
<1>24. OneInside'
  BY <1>22 DEF IInv, OneInside
<1>25. WholePosition'
  <2>1. ~Preemptive => \A v \in Workers : ~MidMethod(v)
    BY <1>2, <1>23, OthersOutside
  <2> QED BY <1>2, <2>1 DEF IInv, WholePosition
<1>26. IInv'
  BY <1>7, <1>16, <1>17, <1>18, <1>19, <1>21, <1>24, <1>25, ThreadAfter DEF IInv
<1>27. ASSUME NEW v \in Workers PROVE KeepsToken(v)
  <2>1. CASE v = w
    <3>1. Served(handler[w])
      BY <1>1, <1>2 DEF Served
    <3> QED BY <1>1, <1>7, <1>8, <2>1, <3>1 DEF KeepsToken
  <2>2. CASE v # w
    BY <1>9, <2>2 DEF KeepsToken, Served
  <2> QED BY <2>1, <2>2
<1> QED BY <1>26, <1>27

-----------------------------------------------------------------------------
(* One assignment of slew_to or of reset: which attribute it changes from  *)
(* the mount m to the mount n.                                             *)
SlewWrote(m, n, t, i) ==
    /\ n \in MountState
    /\ i = 4 => ~n.is_slewing
    /\ n.ra = IF i = 2 THEN t.ra ELSE m.ra
    /\ n.dec = IF i = 3 THEN t.dec ELSE m.dec

ResetWrote(m, n, i) ==
    /\ n \in MountState
    /\ n.is_slewing => m.is_slewing /\ i # 3
    /\ n.ra = IF i = 1 THEN 0 ELSE m.ra
    /\ n.dec = IF i = 2 THEN 0 ELSE m.dec

LEMMA SlewAssigns ==
    ASSUME NEW t \in Position, NEW i \in 1..4, NEW m \in MountState, NEW n,
           n = [m EXCEPT ![slew_to(t)[i].attr] = slew_to(t)[i].val]
    PROVE  SlewWrote(m, n, t, i)
<1>1. t.ra \in 0..23 /\ t.dec \in -90..90
  BY DEF Position
<1>2. CASE i = 1
  <2>1. n = [m EXCEPT !.is_slewing = TRUE]
    BY <1>2 DEF slew_to, Set
  <2>2. n \in MountState
    BY <1>1, <2>1 DEF MountState
  <2>3. n.ra = m.ra /\ n.dec = m.dec
    BY <2>1 DEF MountState
  <2>4. n.is_slewing = TRUE
    BY <2>1 DEF MountState
  <2> QED BY <1>2, <2>2, <2>3, <2>4 DEF SlewWrote
<1>3. CASE i = 2
  <2>1. n = [m EXCEPT !.ra = t.ra]
    BY <1>3 DEF slew_to, Set
  <2>2. n \in MountState
    BY <1>1, <2>1 DEF MountState
  <2>3. n.ra = t.ra /\ n.dec = m.dec
    BY <2>1 DEF MountState
  <2>4. n.is_slewing = m.is_slewing
    BY <2>1 DEF MountState
  <2> QED BY <1>3, <2>2, <2>3, <2>4 DEF SlewWrote
<1>4. CASE i = 3
  <2>1. n = [m EXCEPT !.dec = t.dec]
    BY <1>4 DEF slew_to, Set
  <2>2. n \in MountState
    BY <1>1, <2>1 DEF MountState
  <2>3. n.ra = m.ra /\ n.dec = t.dec
    BY <2>1 DEF MountState
  <2>4. n.is_slewing = m.is_slewing
    BY <2>1 DEF MountState
  <2> QED BY <1>4, <2>2, <2>3, <2>4 DEF SlewWrote
<1>5. CASE i = 4
  <2>1. n = [m EXCEPT !.is_slewing = FALSE]
    BY <1>5 DEF slew_to, Set
  <2>2. n \in MountState
    BY <1>1, <2>1 DEF MountState
  <2>3. n.ra = m.ra /\ n.dec = m.dec
    BY <2>1 DEF MountState
  <2>4. n.is_slewing = FALSE
    BY <2>1 DEF MountState
  <2> QED BY <1>5, <2>2, <2>3, <2>4 DEF SlewWrote
<1> QED BY <1>2, <1>3, <1>4, <1>5

LEMMA ResetAssigns ==
    ASSUME NEW i \in 1..4, NEW m \in MountState, NEW n,
           n = [m EXCEPT ![reset[i].attr] = reset[i].val]
    PROVE  ResetWrote(m, n, i)
<1>1. 0 \in 0..23 /\ 0 \in -90..90
  OBVIOUS
<1>2. CASE i = 1
  <2>1. n = [m EXCEPT !.ra = 0]
    BY <1>2 DEF reset, Set
  <2>2. n \in MountState
    BY <1>1, <2>1 DEF MountState
  <2>3. n.ra = 0 /\ n.dec = m.dec
    BY <2>1 DEF MountState
  <2>4. n.is_slewing = m.is_slewing
    BY <2>1 DEF MountState
  <2> QED BY <1>2, <2>2, <2>3, <2>4 DEF ResetWrote
<1>3. CASE i = 2
  <2>1. n = [m EXCEPT !.dec = 0]
    BY <1>3 DEF reset, Set
  <2>2. n \in MountState
    BY <1>1, <2>1 DEF MountState
  <2>3. n.ra = m.ra /\ n.dec = 0
    BY <2>1 DEF MountState
  <2>4. n.is_slewing = m.is_slewing
    BY <2>1 DEF MountState
  <2> QED BY <1>3, <2>2, <2>3, <2>4 DEF ResetWrote
<1>4. CASE i = 3
  <2>1. n = [m EXCEPT !.is_slewing = FALSE]
    BY <1>4 DEF reset, Set
  <2>2. n \in MountState
    BY <1>1, <2>1 DEF MountState
  <2>3. n.ra = m.ra /\ n.dec = m.dec
    BY <2>1 DEF MountState
  <2>4. n.is_slewing = FALSE
    BY <2>1 DEF MountState
  <2> QED BY <1>4, <2>2, <2>3, <2>4 DEF ResetWrote
<1>5. CASE i = 4
  <2>1. n = [m EXCEPT !.is_tracking = FALSE]
    BY <1>5 DEF reset, Set
  <2>2. n \in MountState
    BY <1>1, <2>1 DEF MountState
  <2>3. n.ra = m.ra /\ n.dec = m.dec
    BY <2>1 DEF MountState
  <2>4. n.is_slewing = m.is_slewing
    BY <2>1 DEF MountState
  <2> QED BY <1>5, <2>2, <2>3, <2>4 DEF ResetWrote
<1> QED BY <1>2, <1>3, <1>4, <1>5

(* With the GIL, an assignment leaves alone what the other threads know:   *)
(* none of them is inside a method.                                        *)
LEMMA AssignOthers ==
    ASSUME NEW w \in Workers, CanRun(w), UNCHANGED <<now, log, revoked>>,
           NEW v \in Workers, v # w, NEW g, g = handler[v], g \in Handling, ThreadOK(g)
    PROVE  ThreadOK(g)'
<1>1. InProgram(g)' /\ HasToken(g)' /\ Refused(g)' /\ InLog(g)' /\ InCopy(g)'
  BY DEF ThreadOK, InProgram, HasToken, Refused, InLog, InCopy, Copying, is_revoked
<1>2. InMethod(g)'
  <2>1. ~Preemptive /\ g.pc = "act" /\ g.op \in {"slew", "reset"} => g.step = 1
    BY OthersOutside DEF MidMethod, SwitchPoints
  <2> QED BY <2>1 DEF InMethod
<1> QED BY <1>1, <1>2 DEF ThreadOK

LEMMA AssignStep ==
    ASSUME IInv, NEW w \in Workers, Assign(w)
    PROVE  IInv' /\ \A v \in Workers : KeepsToken(v)
<1>1. PICK h : h = handler[w]
  OBVIOUS
<1>2. /\ h.pc = "act" /\ h.op \in {"slew", "reset"} /\ CanRun(w)
      /\ UNCHANGED <<now, log, revoked>>
  BY <1>1 DEF Assign
<1>3. /\ h \in Handling /\ mount \in MountState /\ handler \in [Workers -> Handling]
      /\ InProgram(h) /\ HasToken(h) /\ Refused(h)
      /\ InLog(h) /\ InCopy(h) /\ InMethod(h)
  BY <1>1 DEF IInv, StateOK, ThreadOK
<1>4. PICK i \in 1..4 : i = h.step
  BY <1>3 DEF Handling
<1>5. PICK t \in Position : t = h.target
  BY <1>3 DEF Handling
<1>6. PICK m : m = mount'
  OBVIOUS
<1>7. m = [mount EXCEPT ![Accesses(h)[i].attr] = Accesses(h)[i].val]
  BY <1>1, <1>4, <1>6 DEF Assign
<1>8. ASSUME h.op = "slew"
      PROVE  SlewWrote(mount, m, t, i)
  <2>1. Accesses(h) = slew_to(t)
    BY <1>5, <1>8, Programs
  <2>2. m = [mount EXCEPT ![slew_to(t)[i].attr] = slew_to(t)[i].val]
    BY <1>7, <2>1
  <2> QED BY <1>3, <2>2, SlewAssigns
<1>9. ASSUME h.op = "reset"
      PROVE  ResetWrote(mount, m, i)
  <2>1. Accesses(h) = reset
    BY <1>9, Programs
  <2>2. m = [mount EXCEPT ![reset[i].attr] = reset[i].val]
    BY <1>7, <2>1
  <2> QED BY <1>3, <2>2, ResetAssigns
<1>10. PICK g : g = Advance(h)
  OBVIOUS
<1>11. \A v \in Workers : handler'[v] = IF v = w THEN g ELSE handler[v]
  BY <1>1, <1>3, <1>10 DEF Assign
<1>12. /\ g \in Handling /\ g.op = h.op /\ g.token = h.token /\ g.body = h.body
       /\ g.target = t /\ g.was_active = h.was_active /\ g.later = h.later
       /\ g.listed = h.listed /\ g.mutated = h.mutated /\ g.logged = h.logged
       /\ g.reply = "ok"
       /\ i < 4 => g.pc = "act" /\ g.step = i + 1
       /\ ~(i < 4) => g.pc = "done"
  <2>1. Len(Accesses(h)) = 4
    BY <1>2, ProgramLengths
  <2>2. h.reply = "ok" /\ h.op \notin Reads /\ h.op # "connections"
    BY <1>2, <1>3 DEF InProgram, Reads
  <2> QED BY <1>2, <1>3, <1>4, <1>5, <1>10, <2>1, <2>2, AdvanceFields
<1>13. StateOK'
  <2>1. mount' \in MountState
    BY <1>2, <1>6, <1>8, <1>9 DEF SlewWrote, ResetWrote
  <2>2. handler' \in [Workers -> Handling]
    BY <1>3, <1>10, <1>12, <1>1 DEF Assign
  <2> QED BY <1>2, <2>1, <2>2 DEF IInv, StateOK
<1>14. ThreadOK(g)'
  <2>1. InProgram(g)'
    BY <1>2, <1>3, <1>4, <1>5, <1>12 DEF InProgram, Copying
  <2>2. HasToken(g)'
    BY <1>2, <1>3, <1>12 DEF HasToken, Served, is_revoked
  <2>3. Refused(g)' /\ InCopy(g)'
    BY <1>2, <1>3, <1>12 DEF Refused, InCopy, Copying
  <2>4. InLog(g)'
    BY <1>2, <1>3, <1>12 DEF InLog, EntryOf
  <2>5. InMethod(g)'
    <3> SUFFICES ASSUME ~Preemptive, g.pc = "act"
                 PROVE  /\ g.op = "slew" => /\ g.step > 2 => mount'.ra = g.target.ra
                                            /\ g.step > 3 => mount'.dec = g.target.dec
                        /\ g.op = "reset" => /\ g.step > 1 => mount'.ra = 0
                                             /\ g.step > 2 => mount'.dec = 0
      BY DEF InMethod
    <3>1. i < 4 /\ g.step = i + 1
      BY <1>12
    <3>2. ASSUME h.op = "slew"
          PROVE  /\ i > 1 => m.ra = t.ra
                 /\ i > 2 => m.dec = t.dec
      <4>1. /\ i > 2 => mount.ra = t.ra
            /\ i > 3 => mount.dec = t.dec
        BY <1>2, <1>3, <1>4, <1>5, <3>2 DEF InMethod
      <4> QED BY <1>8, <3>2, <4>1 DEF SlewWrote
    <3>3. ASSUME h.op = "reset"
          PROVE  m.ra = 0 /\ (i > 1 => m.dec = 0)
      <4>1. /\ i > 1 => mount.ra = 0
            /\ i > 2 => mount.dec = 0
        BY <1>2, <1>3, <1>4, <3>3 DEF InMethod
      <4> QED BY <1>9, <3>3, <4>1 DEF ResetWrote
    <3> QED BY <1>6, <1>12, <3>1, <3>2, <3>3
  <2> QED BY <2>1, <2>2, <2>3, <2>4, <2>5 DEF ThreadOK
<1>15. ASSUME NEW v \in Workers PROVE ThreadOK(handler[v])'
  <2>1. CASE v = w
    BY <1>11, <1>14, <2>1, ThreadAfter
  <2>2. CASE v # w
    <3>1. PICK p : p = handler[v] /\ p = handler'[v]
      BY <1>11, <2>2
    <3>2. p \in Handling /\ ThreadOK(p)
      BY <1>3, <3>1 DEF IInv
    <3>3. ThreadOK(p)'
      BY <1>2, <2>2, <3>1, <3>2, AssignOthers
    <3> QED BY <3>1, <3>3, ThreadAfter
  <2> QED BY <2>1, <2>2
<1>16. SlewingOnlyDuringSlew'
  <2> SUFFICES ASSUME m.is_slewing
               PROVE  \E v \in Workers : /\ handler'[v].pc = "act" /\ handler'[v].op = "slew"
                                         /\ handler'[v].step > 1
    BY <1>6 DEF SlewingOnlyDuringSlew
  <2>1. CASE h.op = "slew"
    <3>1. i < 4
      BY <1>8, <2>1 DEF SlewWrote
    <3>2. g.pc = "act" /\ g.op = "slew" /\ g.step > 1
      BY <1>12, <2>1, <3>1
    <3> QED BY <1>11, <3>2
  <2>2. CASE h.op = "reset"
    <3>1. mount.is_slewing
      BY <1>9, <2>2 DEF ResetWrote
    <3>2. PICK v \in Workers : /\ handler[v].pc = "act" /\ handler[v].op = "slew"
                               /\ handler[v].step > 1
      BY <3>1 DEF IInv, SlewingOnlyDuringSlew
    <3>3. v # w
      BY <1>1, <2>2, <3>2
    <3> QED BY <1>11, <3>2, <3>3
  <2> QED BY <1>2, <2>1, <2>2
<1>17. NoServerError'
  BY <1>11, <1>12 DEF IInv, NoServerError
<1>18. ~Preemptive => \A v \in Workers : MidMethod(v)' => v = w
  <2>1. ~Preemptive => \A v \in Workers : v # w => ~MidMethod(v)
    BY <1>2, OthersOutside
  <2> QED BY <1>11, <2>1 DEF MidMethod
<1>19. OneInside'
  BY <1>18 DEF OneInside
<1>20. WholePosition'
  <2> SUFFICES ASSUME ~Preemptive, ~(MidMethod(w)' /\ Writing(handler[w])')
               PROVE  [ra |-> m.ra, dec |-> m.dec] \in Commanded
    BY <1>6 DEF WholePosition, Commanded
  <2>1. ~(i < 4)
    <3>1. ASSUME i < 4 PROVE FALSE
      <4>1. /\ handler'[w] = g /\ g.pc = "act" /\ g.op \in {"slew", "reset"}
            /\ g.step = i + 1
        BY <1>2, <1>11, <1>12, <3>1
      <4>2. MidMethod(w)'
        BY <4>1 DEF MidMethod, SwitchPoints
      <4>3. Writing(handler[w])'
        BY <4>1 DEF Writing
      <4> QED BY <4>2, <4>3
    <3> QED BY <3>1
  <2>2. i = 4
    BY <2>1
  <2>3. CASE h.op = "slew"
    <3>1. m.ra = t.ra /\ m.dec = t.dec
      <4>1. mount.ra = t.ra /\ mount.dec = t.dec
        BY <1>2, <1>3, <1>4, <1>5, <2>2, <2>3 DEF InMethod
      <4> QED BY <1>8, <2>2, <2>3, <4>1 DEF SlewWrote
    <3>2. [ra |-> m.ra, dec |-> m.dec] = t
      BY <3>1 DEF Position
    <3>3. t \in SlewCommand(h.body) /\ h.body \in {r.body : r \in Requests} \cup {Idle.body}
      BY <1>2, <1>3, <1>5, <2>3 DEF InProgram, Handling
    <3>4. SlewCommand(Idle.body) = {}
      BY DEF SlewCommand, Idle
    <3> QED BY <3>2, <3>3, <3>4 DEF Commanded
  <2>4. CASE h.op = "reset"
    <3>1. m.ra = 0 /\ m.dec = 0
      <4>1. mount.ra = 0 /\ mount.dec = 0
        BY <1>2, <1>3, <1>4, <2>2, <2>4 DEF InMethod
      <4> QED BY <1>9, <2>2, <2>4, <4>1 DEF ResetWrote
    <3> QED BY <3>1 DEF Commanded
  <2> QED BY <1>2, <2>3, <2>4
<1>21. IInv'
  BY <1>13, <1>15, <1>16, <1>17, <1>19, <1>20 DEF IInv
<1>22. ASSUME NEW v \in Workers PROVE KeepsToken(v)
  <2>1. handler'[v] = IF v = w THEN g ELSE handler[v]
    BY <1>11
  <2>2. Served(handler[w]) /\ g.pc # "verified"
    BY <1>1, <1>2, <1>12 DEF Served
  <2> QED BY <1>1, <1>12, <2>1, <2>2 DEF KeepsToken
<1> QED BY <1>21, <1>22

-----------------------------------------------------------------------------
(* A new process knows nothing, and nothing is wrong in it.                *)
LEMMA RestartStep ==
    ASSUME IInv, Restart
    PROVE  IInv'
<1>1. /\ mount' = NewMount /\ log' = << >> /\ revoked' = {} /\ now' = now
      /\ handler' = [w \in Workers |-> Idle]
  BY DEF Restart
<1>2. NewMount \in MountState /\ NewMount.is_slewing = FALSE
  BY DEF NewMount, MountState
<1>3. \A w \in Workers : handler'[w] = Idle
  BY <1>1
<1>4. StateOK'
  BY <1>1, <1>2, IdleFields, EmptySeq, MaxLogAssumption DEF IInv, StateOK
<1>5. ASSUME NEW w \in Workers PROVE ThreadOK(handler[w])'
  <2>1. PICK h : h = Idle
    OBVIOUS
  <2>2. /\ h.pc = "idle" /\ h.reply = "ok" /\ ~Served(h)
        /\ h.listed = << >> /\ h.mutated = FALSE /\ h.logged = FALSE
    BY <2>1, IdleFields, IdleThread
  <2>3. ThreadOK(h)'
    BY <2>2 DEF ThreadOK, InProgram, HasToken, Refused, InLog, InCopy, InMethod, Copying, Served
  <2> QED BY <1>3, <2>1, <2>3, ThreadAfter
<1>6. SlewingOnlyDuringSlew' /\ NoServerError'
  BY <1>1, <1>2, <1>3, IdleFields DEF SlewingOnlyDuringSlew, NoServerError
<1>7. OneInside'
  BY <1>3, IdleFields DEF OneInside, MidMethod
<1>8. WholePosition'
  BY <1>1 DEF WholePosition, Commanded
<1> QED BY <1>4, <1>5, <1>6, <1>7, <1>8 DEF IInv

LEMMA ThreadStep ==
    ASSUME IInv, NEW w \in Workers, Step(w)
    PROVE  IInv' /\ \A v \in Workers : KeepsToken(v)
BY AuthorizeStep, RejectStep, LogStep, AssignStep, ReadStep, ListStep, NextConnectionStep
   DEF Step

LEMMA NextIInv == IInv /\ [Next]_vars => IInv'
<1> SUFFICES ASSUME IInv, [Next]_vars PROVE IInv'
  OBVIOUS
<1>1. now \in Int
  BY DEF IInv, StateOK
<1>2. CASE Tick
  <2>1. now' \in Int /\ now <= now' /\ UNCHANGED <<mount, log, revoked, handler>>
    BY <1>1, <1>2 DEF Tick
  <2> QED BY <2>1, TimeOrListStep
<1>3. CASE \E jti \in PresentedJtis : RevokeElsewhere(jti)
  <2>1. UNCHANGED <<now, mount, log, handler>> /\ revoked \subseteq revoked'
    BY <1>3 DEF RevokeElsewhere
  <2>2. now' \in Int /\ now <= now'
    BY <1>1, <2>1
  <2> QED BY <2>1, <2>2, TimeOrListStep
<1>4. CASE \E w \in Workers, r \in Requests : Authenticate(w, r)
  BY <1>4, AuthenticateStep
<1>5. ASSUME NEW w \in Workers, Step(w) PROVE IInv'
  BY <1>5, ThreadStep
<1>6. CASE Restart
  BY <1>6, RestartStep
<1>7. CASE UNCHANGED vars
  <2>1. UNCHANGED <<mount, log, revoked, handler>> /\ now' = now
    BY <1>7 DEF vars
  <2>2. now' \in Int /\ now <= now'
    BY <1>1, <2>1
  <2> QED BY <2>1, <2>2, TimeOrListStep
<1> QED BY <1>2, <1>3, <1>4, <1>5, <1>6, <1>7 DEF Next

LEMMA InvariantHolds == Spec => []IInv
<1>1. Init => IInv
  BY BootIInv DEF Init
<1> QED BY <1>1, NextIInv, PTL DEF Spec

-----------------------------------------------------------------------------
(* The attributes of the mount, the log and what every thread is doing     *)
(* keep their types: the log never outgrows its deque, and the mount never *)
(* points to a place that Position(ra, dec) would refuse.                  *)
THEOREM TypeCorrect == Spec => []TypeOK
<1> DEFINE Bounds == now \in Nat /\ revoked \subseteq PresentedJtis
<1>1. Init => Bounds
  BY DEF Init, Boot
<1>2. Bounds /\ [Next]_vars => Bounds'
  <2> SUFFICES ASSUME Bounds, [Next]_vars PROVE Bounds'
    OBVIOUS
  <2>1. CASE Tick
    BY <2>1 DEF Tick
  <2>2. CASE \E jti \in PresentedJtis : RevokeElsewhere(jti)
    BY <2>2 DEF RevokeElsewhere
  <2>3. CASE \E w \in Workers, r \in Requests : Authenticate(w, r)
    BY <2>3 DEF Authenticate
  <2>4. ASSUME NEW w \in Workers, Step(w) PROVE Bounds'
    <3>1. UNCHANGED <<now, revoked>>
      BY <2>4 DEF Step, Authorize, RejectSlew, log_connection, Assign, Read,
                  list_connections, NextConnection
    <3> QED BY <3>1
  <2>5. CASE Restart
    BY <2>5 DEF Restart
  <2>6. CASE UNCHANGED vars
    BY <2>6 DEF vars
  <2> QED BY <2>1, <2>2, <2>3, <2>4, <2>5, <2>6 DEF Next
<1>3. IInv /\ Bounds => TypeOK
  BY DEF IInv, StateOK, TypeOK
<1> HIDE DEF Bounds
<1> QED BY <1>1, <1>2, <1>3, InvariantHolds, PTL DEF Spec

(* require_scope lets a request through only if its token has the scope of *)
(* the endpoint and was signed by the AS, in date and not revoked at one   *)
(* moment after the request came in, although the clock and the list are   *)
(* read at different times.                                                *)
THEOREM NoStaleAdmission == Spec => []ServedOnlyIfActive
<1>1. IInv => ServedOnlyIfActive
  BY DEF IInv, ThreadOK, HasToken, ServedOnlyIfActive
<1> QED BY <1>1, InvariantHolds, PTL

(* A token that was refused as expired or revoked stays refused, until the *)
(* resource server restarts and forgets what was revoked.                  *)
THEOREM RefusedForGood == Spec => []RefusalIsFinal
<1>1. IInv => RefusalIsFinal
  <2> SUFFICES ASSUME IInv, NEW w \in Workers,
                      handler[w].reply \in {"token_expired", "token_revoked"}
               PROVE  ~IsActive(handler[w].token)
    BY DEF RefusalIsFinal
  <2>1. handler[w] \in Handling /\ Refused(handler[w]) /\ now \in Int
    BY DEF IInv, StateOK, ThreadOK
  <2>2. CASE handler[w].reply = "token_expired"
    <3>1. PICK tok : tok = handler[w].token
      OBVIOUS
    <3>2. tok # NoToken /\ tok.exp <= now
      BY <2>1, <2>2, <3>1 DEF Refused
    <3>3. tok.exp \in Int
      BY <2>1, <3>1, <3>2, RequestsAssumption DEF Handling
    <3>4. ~(now < tok.exp)
      BY <2>1, <3>2, <3>3
    <3> QED BY <3>1, <3>4 DEF IsActive, Verifies, Verified
  <2>3. CASE handler[w].reply = "token_revoked"
    BY <2>1, <2>3 DEF Refused, IsActive
  <2> QED BY <2>2, <2>3
<1> QED BY <1>1, InvariantHolds, PTL

(* A request that is refused, as unauthorised, expired, revoked, out of    *)
(* scope or for its body, is not in the connection log: what the log takes *)
(* is answered by its endpoint, for a good token with its scope.           *)
THEOREM OnlyServedAreLogged == Spec => []RefusedLeaveNoTrace
<1>1. IInv => RefusedLeaveNoTrace
  <2> SUFFICES ASSUME IInv, NEW w \in Workers, handler[w].logged
               PROVE  /\ handler[w].reply \in {"ok", "server_error"}
                      /\ handler[w].was_active
                      /\ Required[handler[w].op] \in handler[w].token.scope
    BY DEF RefusedLeaveNoTrace
  <2>1. InProgram(handler[w]) /\ HasToken(handler[w])
    BY DEF IInv, ThreadOK
  <2>2. handler[w].reply \in {"ok", "server_error"} /\ Served(handler[w])
    BY <2>1 DEF InProgram, Served
  <2> QED BY <2>1, <2>2 DEF HasToken
<1> QED BY <1>1, InvariantHolds, PTL

(* A request that has reached the mount stays in the log until as many     *)
(* later ones as the deque holds push it out, and /admin/connections       *)
(* lists itself.                                                           *)
THEOREM LatestStayLogged == Spec => []LogKeepsTheLatest
<1>1. IInv => LogKeepsTheLatest
  BY DEF IInv, ThreadOK, InLog, LogKeepsTheLatest
<1> QED BY <1>1, InvariantHolds, PTL

(* The mount reports that it is slewing only while some slew_to runs, even *)
(* if threads are switched between any two assignments.                    *)
THEOREM SlewingMeansSlew == Spec => []SlewingOnlyDuringSlew
<1>1. IInv => SlewingOnlyDuringSlew
  BY DEF IInv
<1> QED BY <1>1, InvariantHolds, PTL

(* No reader of the position is answered with an internal error, whatever  *)
(* mixture of assignments it meets.  With the GIL no request is; without   *)
(* it, only /admin/connections is, whose copy of the log another request   *)
(* may disturb.                                                            *)
THEOREM OnlyListingFails == Spec => []NoServerError
<1>1. IInv => NoServerError
  BY DEF IInv
<1> QED BY <1>1, InvariantHolds, PTL

(* What /admin/connections answers is the whole log of one moment, however *)
(* many requests append to the log, and push entries out of it, while the  *)
(* entries are copied one by one.                                          *)
THEOREM ListingIsExact == Spec => ListingIsTheLog
<1> DEFINE Answers(w) ==
      /\ handler[w].pc = "act" /\ handler[w].op = "connections"
      /\ handler'[w].pc = "done" /\ handler'[w].reply = "ok"
<1>1. ASSUME IInv, [Next]_vars, NEW w \in Workers, Answers(w)
      PROVE  handler'[w].listed = log
  <2>1. PICK h \in Handling : h = handler[w]
    BY <1>1 DEF IInv, StateOK
  <2>2. /\ h.pc = "act" /\ h.op = "connections" /\ log \in Seq(Entry)
        /\ InProgram(h) /\ InCopy(h) /\ handler \in [Workers -> Handling]
    BY <1>1, <2>1 DEF IInv, StateOK, ThreadOK
  <2>3. handler'[w].pc # h.pc
    BY <1>1, <2>1
  <2>4. CASE NextConnection(w)
    <3>1. PICK g : g = Copied(h)
      OBVIOUS
    <3>2. handler'[w] = g /\ Copying(h)
      BY <2>1, <2>2, <2>4, <3>1 DEF NextConnection
    <3>3. CopyGoesOn(h, g)
      BY <2>2, <3>1, <3>2, CopiedFields
    <3> QED BY <1>1, <3>2, <3>3 DEF CopyGoesOn
  <2>5. ASSUME NEW v \in Workers,
               \/ Authorize(v) \/ RejectSlew(v) \/ Assign(v) \/ Read(v)
               \/ list_connections(v)
               \/ NextConnection(v) /\ v # w
               \/ \E r \in Requests : Authenticate(v, r)
        PROVE  handler'[w].pc = h.pc
    <3>1. CASE v # w
      BY <2>1, <2>2, <2>5, <3>1
         DEF Authorize, RejectSlew, Assign, Read, list_connections, NextConnection, Authenticate
    <3>2. CASE v = w
      <4>1. PICK g : g = [h EXCEPT !.step = 2]
        OBVIOUS
      <4>2. list_connections(w)
        BY <2>1, <2>2, <2>5, <3>2 DEF Authorize, RejectSlew, Assign, Read, Reads, Authenticate
      <4>3. handler'[w] = g
        BY <2>1, <2>2, <4>1, <4>2 DEF list_connections
      <4> QED BY <4>1, <4>3 DEF Handling
    <3> QED BY <3>1, <3>2
  <2>6. ASSUME NEW v \in Workers, log_connection(v)
        PROVE  handler'[w].pc = h.pc
    <3>1. v # w
      BY <2>1, <2>2, <2>6 DEF log_connection
    <3>2. handler'[w] = AfterAppend(h)
      BY <2>1, <2>6, <3>1 DEF log_connection
    <3>3. PICK m : m = Copying(h)
      OBVIOUS
    <3>4. PICK n : n = IF h.later < MaxLog THEN h.later + 1 ELSE h.later
      OBVIOUS
    <3>5. handler'[w] = [h EXCEPT !.mutated = m, !.later = n]
      BY <3>2, <3>3, <3>4 DEF AfterAppend
    <3> QED BY <3>5 DEF Handling
  <2>7. CASE Tick \/ UNCHANGED vars \/ \E jti \in PresentedJtis : RevokeElsewhere(jti)
    BY <2>1, <2>3, <2>7 DEF Tick, vars, RevokeElsewhere
  <2>8. CASE Restart
    BY <1>1, <2>8, IdleFields DEF Restart
  <2>9. ASSUME NEW v \in Workers, Step(v), ~NextConnection(w)
        PROVE  handler'[w].pc = h.pc
    <3>1. NextConnection(v) => v # w
      BY <2>9
    <3> QED BY <2>5, <2>6, <2>9, <3>1 DEF Step
  <2> QED BY <1>1, <2>3, <2>4, <2>5, <2>7, <2>8, <2>9 DEF Next
<1>2. IInv /\ [Next]_vars =>
        [\A w \in Workers : Answers(w) => handler'[w].listed = log]_vars
  BY <1>1
<1> QED BY <1>2, InvariantHolds, PTL DEF Spec, ListingIsTheLog

(* With the GIL, the mount points to a place that one request commanded    *)
(* whenever no thread is inside one of its methods.                        *)
THEOREM OneCommandAtATime ==
    ASSUME ~Preemptive
    PROVE  Spec => []NoMixedPosition
<1>1. IInv => NoMixedPosition
  BY DEF IInv, WholePosition, NoMixedPosition
<1> QED BY <1>1, InvariantHolds, PTL
=============================================================================
