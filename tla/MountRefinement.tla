--------------------------- MODULE MountRefinement ---------------------------
(***************************************************************************)
(* With the GIL, the resource server implements AtomicMount.  Every step   *)
(* is mapped to one of the abstract specification or to a stutter:         *)
(*                                                                         *)
(*    Authenticate                       Arrive                            *)
(*    log_connection                     Call, but for /admin/connections  *)
(*    Assign, the first of a method      Slew, Reset                       *)
(*    Read, the first of get_status      ReadFlags                         *)
(*    Read, the first of get_position    ReadPosition                      *)
(*    Restart                            Restart                           *)
(*    every other step                   a stutter                         *)
(***************************************************************************)
EXTENDS ResourceServerProofs

ZeroMount == [ra |-> 0, dec |-> 0, is_slewing |-> FALSE, is_tracking |-> FALSE]

(* The state of the abstract mount, calls and answers, written as          *)
(* functions of the mount and of what the threads are doing.               *)
Inside(h) == h.pc = "act" /\ h.step \notin SwitchPoints(h.op)

SlewedTo(m, t) == [m EXCEPT !.ra = t.ra, !.dec = t.dec, !.is_slewing = FALSE]

(* The mount as it is seen while at most one thread, in the state h, is    *)
(* inside a method.                                                        *)
MountSeen(m, h) ==
    IF Inside(h) /\ h.op = "slew" THEN SlewedTo(m, h.target)
    ELSE IF Inside(h) /\ h.op = "reset" THEN ZeroMount
    ELSE m

AnswerSeen(m, h) ==
    IF Inside(h) /\ h.op \in Reads
    THEN [h.answer EXCEPT ![Accesses(h)[h.step]] = m[Accesses(h)[h.step]]]
    ELSE h.answer

Calls == [w \in Workers |-> AbstractCall(handler[w])]
Answers == [w \in Workers |-> AbstractAnswer(w)]

-----------------------------------------------------------------------------
LEMMA Seen ==
    ASSUME NEW w \in Workers, NEW h, h = handler[w]
    PROVE  /\ MidMethod(w) <=> Inside(h)
           /\ Calls[w] = AbstractCall(h)
           /\ Answers[w] = AnswerSeen(mount, h)
BY DEF MidMethod, Inside, Calls, Answers, AbstractAnswer, AnswerSeen

LEMMA SeenAfter ==
    ASSUME NEW w \in Workers, NEW h, h = handler'[w], NEW m, m = mount'
    PROVE  /\ MidMethod(w)' <=> Inside(h)
           /\ Calls'[w] = AbstractCall(h)
           /\ Answers'[w] = AnswerSeen(m, h)
BY DEF MidMethod, Inside, Calls, Answers, AbstractAnswer, AnswerSeen, AbstractCall

(* What AbstractMount says of a mount that is being reset.                 *)
LEMMA ZeroIs ==
    ASSUME NEW m \in MountState
    PROVE  [a \in DOMAIN m |-> IF a \in {"ra", "dec"} THEN 0 ELSE FALSE] = ZeroMount
<1>1. PICK fields : fields = {"ra", "dec", "is_slewing", "is_tracking"}
  OBVIOUS
<1>2. DOMAIN m = fields /\ DOMAIN ZeroMount = fields
  BY <1>1 DEF MountState, ZeroMount
<1>3. ZeroMount = [a \in fields |-> ZeroMount[a]]
  BY <1>1 DEF ZeroMount
<1>4. ASSUME NEW a \in fields
      PROVE  ZeroMount[a] = IF a \in {"ra", "dec"} THEN 0 ELSE FALSE
  <2>1. CASE a \in {"ra", "dec"}
    <3>1. ZeroMount[a] = 0
      BY <2>1 DEF ZeroMount
    <3> QED BY <2>1, <3>1, Zenon
  <2>2. CASE a \notin {"ra", "dec"}
    <3>1. ZeroMount[a] = FALSE
      BY <1>1, <2>2 DEF ZeroMount
    <3> QED BY <2>2, <3>1, Zenon
  <2> QED BY <2>1, <2>2
<1> QED BY <1>2, <1>3, <1>4

(* While no thread but w can be inside a method.                           *)
LEMMA SeenAlone ==
    ASSUME NEW w \in Workers, NEW h, h = handler[w], mount \in MountState,
           \A v \in Workers : v # w => ~MidMethod(v)
    PROVE  AbstractMount = MountSeen(mount, h)
<1>1. MidMethod(w) <=> Inside(h)
  BY Seen
<1>2. CASE Inside(h) /\ h.op \in {"slew", "reset"}
  <2>1. (CHOOSE v \in Workers : MidMethod(v)) = w
    BY <1>1, <1>2
  <2>2. \E v \in Workers : MidMethod(v) /\ handler[v].op \in {"slew", "reset"}
    BY <1>1, <1>2
  <2>3. AbstractMount = IF h.op = "reset"
                        THEN [a \in DOMAIN mount |-> IF a \in {"ra", "dec"} THEN 0 ELSE FALSE]
                        ELSE SlewedTo(mount, h.target)
    BY <2>1, <2>2 DEF AbstractMount, SlewedTo
  <2>4. [a \in DOMAIN mount |-> IF a \in {"ra", "dec"} THEN 0 ELSE FALSE] = ZeroMount
    BY ZeroIs
  <2> QED BY <1>2, <2>3, <2>4 DEF MountSeen
<1>3. CASE ~(Inside(h) /\ h.op \in {"slew", "reset"})
  <2>1. ~\E v \in Workers : MidMethod(v) /\ handler[v].op \in {"slew", "reset"}
    BY <1>1, <1>3
  <2>2. AbstractMount = mount
    BY <2>1 DEF AbstractMount
  <2> QED BY <1>3, <2>2 DEF MountSeen
<1> QED BY <1>2, <1>3

LEMMA SeenAloneAfter ==
    ASSUME NEW w \in Workers, NEW h, h = handler'[w], NEW m \in MountState, m = mount',
           \A v \in Workers : v # w => ~MidMethod(v)'
    PROVE  AbstractMount' = MountSeen(m, h)
<1>1. MidMethod(w)' <=> Inside(h)
  BY SeenAfter
<1>2. CASE Inside(h) /\ h.op \in {"slew", "reset"}
  <2>1. (CHOOSE v \in Workers : MidMethod(v)') = w
    BY <1>1, <1>2
  <2>2. \E v \in Workers : MidMethod(v)' /\ handler'[v].op \in {"slew", "reset"}
    BY <1>1, <1>2
  <2>3. AbstractMount' = IF h.op = "reset"
                         THEN [a \in DOMAIN m |-> IF a \in {"ra", "dec"} THEN 0 ELSE FALSE]
                         ELSE SlewedTo(m, h.target)
    BY <2>1, <2>2 DEF AbstractMount, SlewedTo
  <2>4. [a \in DOMAIN m |-> IF a \in {"ra", "dec"} THEN 0 ELSE FALSE] = ZeroMount
    BY ZeroIs
  <2> QED BY <1>2, <2>3, <2>4 DEF MountSeen
<1>3. CASE ~(Inside(h) /\ h.op \in {"slew", "reset"})
  <2>1. ~\E v \in Workers : MidMethod(v)' /\ handler'[v].op \in {"slew", "reset"}
    BY <1>1, <1>3
  <2>2. AbstractMount' = m
    BY <2>1 DEF AbstractMount
  <2> QED BY <1>3, <2>2 DEF MountSeen
<1> QED BY <1>2, <1>3

(* What another thread's log_connection leaves alone.                      *)
Same(g, h) ==
    /\ g.pc = h.pc /\ g.op = h.op /\ g.step = h.step
    /\ g.target = h.target /\ g.answer = h.answer

(* A step of thread w from the state h to g, and of the mount from m to n: *)
(* the abstract state changes for w only.                                  *)
LEMMA OneCall ==
    ASSUME IInv, IInv', ~Preemptive, NEW w \in Workers, CanRun(w),
           NEW h, h = handler[w], NEW g, g = handler'[w],
           NEW m, m = mount, NEW n, n = mount',
           \A v \in Workers : v # w => Same(handler'[v], handler[v])
    PROVE  /\ AbstractMount = MountSeen(m, h) /\ AbstractMount' = MountSeen(n, g)
           /\ Calls[w] = AbstractCall(h)
           /\ Calls' = [Calls EXCEPT ![w] = AbstractCall(g)]
           /\ Answers[w] = AnswerSeen(m, h)
           /\ Answers' = [Answers EXCEPT ![w] = AnswerSeen(n, g)]
<1>1. \A v \in Workers : v # w => ~MidMethod(v)
  BY OthersOutside
<1>2. \A v \in Workers : v # w => ~MidMethod(v)'
  BY <1>1 DEF MidMethod, Same
<1>3. AbstractMount = MountSeen(m, h) /\ AbstractMount' = MountSeen(n, g)
  BY <1>1, <1>2, SeenAlone, SeenAloneAfter DEF IInv, StateOK
<1>4. ASSUME NEW v \in Workers, v # w
      PROVE  Calls'[v] = Calls[v] /\ Answers'[v] = Answers[v]
  <2>1. PICK p : p = handler[v]
    OBVIOUS
  <2>2. PICK q : q = handler'[v]
    OBVIOUS
  <2>3. Same(q, p)
    BY <1>4, <2>1, <2>2
  <2>4. ~Inside(p) /\ ~Inside(q)
    BY <1>1, <1>2, <1>4, <2>1, <2>2, Seen, SeenAfter
  <2>5. Answers[v] = p.answer /\ Answers'[v] = q.answer
    BY <2>1, <2>2, <2>4, Seen, SeenAfter DEF AnswerSeen
  <2>6. AbstractCall(p) = AbstractCall(q)
    BY <2>3 DEF Same, AbstractCall
  <2> QED BY <2>1, <2>2, <2>3, <2>5, <2>6, Seen, SeenAfter DEF Same
<1>5. /\ Calls[w] = AbstractCall(h) /\ Calls'[w] = AbstractCall(g)
      /\ Answers[w] = AnswerSeen(m, h) /\ Answers'[w] = AnswerSeen(n, g)
  BY Seen, SeenAfter
<1>6. /\ Calls = [v \in Workers |-> Calls[v]] /\ Calls' = [v \in Workers |-> Calls'[v]]
      /\ Answers = [v \in Workers |-> Answers[v]] /\ Answers' = [v \in Workers |-> Answers'[v]]
  BY DEF Calls, Answers
<1> HIDE DEF Calls, Answers
<1>7. Calls' = [Calls EXCEPT ![w] = AbstractCall(g)]
  BY <1>4, <1>5, <1>6
<1>8. Answers' = [Answers EXCEPT ![w] = AnswerSeen(n, g)]
  BY <1>4, <1>5, <1>6
<1> QED BY <1>3, <1>5, <1>7, <1>8

(* What the steps of require_scope, of the log and of the revocation list  *)
(* leave of the abstract state.                                            *)
LEMMA Quiet ==
    ASSUME UNCHANGED <<mount, handler>>
    PROVE  UNCHANGED <<AbstractMount, Calls, Answers>>
BY DEF AbstractMount, Calls, Answers, AbstractAnswer, MidMethod

(* A thread outside of every method, which has no call either.             *)
LEMMA NoCall ==
    ASSUME NEW m, NEW h, h.pc # "act"
    PROVE  /\ MountSeen(m, h) = m /\ AnswerSeen(m, h) = h.answer
           /\ AbstractCall(h) = Atomic!Nothing
BY DEF MountSeen, AnswerSeen, AbstractCall, Inside, Atomic!Nothing, Idle

LEMMA InitRefines ==
    ASSUME Init
    PROVE  Atomic!Init
<1>1. PICK h : h = Idle
  OBVIOUS
<1>2. h.pc = "idle" /\ h.answer = NewMount
  BY <1>1, IdleFields DEF Idle
<1>3. mount = NewMount /\ handler = [w \in Workers |-> h]
  BY <1>1 DEF Init, Boot
<1>4. AbstractMount = NewMount
  BY <1>2, <1>3 DEF AbstractMount, MidMethod
<1>5. Calls = [w \in Workers |-> Atomic!Nothing]
  BY <1>2, <1>3, NoCall DEF Calls
<1>6. Answers = [w \in Workers |-> NewMount]
  BY <1>2, <1>3 DEF Answers, AbstractAnswer, MidMethod
<1> QED BY <1>4, <1>5, <1>6 DEF Atomic!Init, Calls, Answers

LEMMA RestartRefines ==
    ASSUME Restart
    PROVE  Atomic!Restart
<1>1. PICK h : h = Idle
  OBVIOUS
<1>2. h.pc = "idle" /\ h.answer = NewMount
  BY <1>1, IdleFields DEF Idle
<1>3. mount' = NewMount /\ handler' = [w \in Workers |-> h]
  BY <1>1 DEF Restart
<1>4. AbstractMount' = NewMount
  BY <1>2, <1>3 DEF AbstractMount, MidMethod
<1>5. Calls' = [w \in Workers |-> Atomic!Nothing]
  <2>1. \A w \in Workers : Calls'[w] = Atomic!Nothing
    BY <1>2, <1>3, NoCall, SeenAfter
  <2> QED BY <2>1 DEF Calls
<1>6. Answers' = [w \in Workers |-> NewMount]
  BY <1>2, <1>3 DEF Answers, AbstractAnswer, MidMethod
<1> QED BY <1>4, <1>5, <1>6 DEF Atomic!Restart, Calls, Answers

LEMMA AuthenticateRefines ==
    ASSUME IInv, IInv', ~Preemptive, NEW w \in Workers, NEW r \in Requests, Authenticate(w, r)
    PROVE  Atomic!Arrive(w)
<1>1. PICK h \in Handling : h = handler[w]
  BY DEF IInv, StateOK
<1>2. PICK g \in Handling : g = handler'[w]
  BY DEF IInv, StateOK
<1>3. /\ h.pc \in {"idle", "done"} /\ CanRun(w) /\ mount' = mount
      /\ \A v \in Workers : v # w => handler'[v] = handler[v]
  BY <1>1 DEF Authenticate, IInv, StateOK
<1>4. g.pc \in {"verified", "done"} /\ g.answer = NewMount
  <2>1. PICK o, t, b, reply, pc, active :
          /\ g = [Idle EXCEPT !.op = o, !.token = t, !.body = b, !.reply = reply,
                              !.pc = pc, !.was_active = active]
          /\ pc \in {"verified", "done"}
    BY <1>2 DEF Authenticate, IInv, StateOK
  <2> QED BY <2>1, IdleFields DEF Idle
<1>5. /\ AbstractMount' = AbstractMount
      /\ Calls[w] = Atomic!Nothing /\ Calls' = [Calls EXCEPT ![w] = Atomic!Nothing]
      /\ Answers' = [Answers EXCEPT ![w] = NewMount]
  BY <1>1, <1>2, <1>3, <1>4, OneCall, NoCall DEF Same
<1>6. Calls' = Calls
  BY <1>5 DEF Calls
<1> QED BY <1>5, <1>6 DEF Atomic!Arrive, Calls, Answers

LEMMA RefusalRefines ==
    ASSUME IInv, IInv', ~Preemptive, NEW w \in Workers, Authorize(w) \/ RejectSlew(w)
    PROVE  UNCHANGED <<AbstractMount, Calls, Answers>>
<1>1. PICK h \in Handling : h = handler[w]
  BY DEF IInv, StateOK
<1>2. PICK g \in Handling : g = handler'[w]
  BY DEF IInv, StateOK
<1>3. /\ h.pc \in {"verified", "authorised"} /\ CanRun(w) /\ mount' = mount
      /\ \A v \in Workers : v # w => handler'[v] = handler[v]
  BY <1>1 DEF Authorize, RejectSlew, IInv, StateOK
<1>4. g.pc \in {"authorised", "done"} /\ g.answer = h.answer
  <2>1. PICK reply, pc : /\ g = [h EXCEPT !.reply = reply, !.pc = pc]
                         /\ pc \in {"authorised", "done"}
    <3>1. CASE Authorize(w)
      BY <1>1, <1>2, <3>1 DEF Authorize, IInv, StateOK
    <3>2. CASE RejectSlew(w)
      <4>1. g = [h EXCEPT !.reply = "invalid_request", !.pc = "done"]
        BY <1>1, <1>2, <3>2 DEF RejectSlew, IInv, StateOK, Handling
      <4> QED BY <4>1
    <3> QED BY <3>1, <3>2
  <2> QED BY <2>1 DEF Handling
<1>5. /\ AbstractMount' = AbstractMount
      /\ Calls[w] = Atomic!Nothing /\ Calls' = [Calls EXCEPT ![w] = Atomic!Nothing]
      /\ Answers[w] = h.answer /\ Answers' = [Answers EXCEPT ![w] = h.answer]
  BY <1>1, <1>2, <1>3, <1>4, OneCall, NoCall DEF Same
<1> QED BY <1>5 DEF Calls, Answers

-----------------------------------------------------------------------------
(* A request that is let through asks for a method of the mount, or for the *)
(* connection log, which is no part of it.                                 *)
LEMMA LogRefines ==
    ASSUME IInv, IInv', ~Preemptive, NEW w \in Workers, log_connection(w)
    PROVE  Atomic!Call(w) \/ UNCHANGED <<AbstractMount, Calls, Answers>>
<1>1. PICK h \in Handling : h = handler[w]
  BY DEF IInv, StateOK
<1>2. PICK g \in Handling : g = handler'[w]
  BY DEF IInv, StateOK
<1>3. h.pc = "authorised" /\ h.step = 1 /\ CanRun(w) /\ mount' = mount
  BY <1>1 DEF log_connection, IInv, ThreadOK, InProgram
<1>4. PICK target \in IF h.op = "slew" THEN SlewCommand(h.body) ELSE {Idle.target} :
        handler' = [v \in Workers |->
          IF v = w THEN [h EXCEPT !.pc = "act", !.target = target,
                                  !.logged = TRUE, !.later = 0]
          ELSE AfterAppend(handler[v])]
  BY ONLY <1>1, log_connection(w) DEF log_connection
<1>5. g.pc = "act" /\ g.op = h.op /\ g.step = 1 /\ g.target = target /\ g.answer = h.answer
  <2>1. g = [h EXCEPT !.pc = "act", !.target = target, !.logged = TRUE, !.later = 0]
    BY <1>2, <1>4
  <2> QED BY <1>3, <2>1 DEF Handling
<1>6. ASSUME NEW v \in Workers, v # w PROVE Same(handler'[v], handler[v])
  <2>1. PICK p \in Handling : p = handler[v]
    BY DEF IInv, StateOK
  <2>2. PICK q : q = handler'[v]
    OBVIOUS
  <2>3. PICK m : m = Copying(p)
    OBVIOUS
  <2>4. PICK n : n = IF p.later < MaxLog THEN p.later + 1 ELSE p.later
    OBVIOUS
  <2>5. q = [p EXCEPT !.mutated = m, !.later = n]
    BY <1>4, <1>6, <2>1, <2>2, <2>3, <2>4 DEF AfterAppend
  <2> QED BY <2>1, <2>2, <2>5 DEF Same, Handling
<1>7. ~Inside(g)
  BY <1>5 DEF Inside, SwitchPoints
<1>8. /\ AbstractMount' = AbstractMount
      /\ Calls[w] = Atomic!Nothing /\ Calls' = [Calls EXCEPT ![w] = AbstractCall(g)]
      /\ Answers[w] = h.answer /\ Answers' = [Answers EXCEPT ![w] = h.answer]
  <2>1. MountSeen(mount, g) = mount /\ AnswerSeen(mount, g) = h.answer
    BY <1>5, <1>7 DEF MountSeen, AnswerSeen
  <2> QED BY <1>1, <1>2, <1>3, <1>6, <2>1, OneCall, NoCall
<1>9. Answers' = Answers
  BY <1>8 DEF Answers
<1>10. CASE h.op = "connections"
  <2>1. AbstractCall(g) = Atomic!Nothing
    BY <1>5, <1>10 DEF AbstractCall, Atomic!Nothing, Idle
  <2>2. Calls' = Calls
    BY <1>8, <2>1 DEF Calls
  <2> QED BY <1>8, <1>9, <2>2
<1>11. CASE h.op # "connections"
  <2>1. AbstractCall(g) = [op |-> h.op, target |-> target]
    BY <1>5, <1>11 DEF AbstractCall
  <2>2. h.op \in {"slew", "reset", "position", "status"}
    BY <1>11, OpsAre DEF Handling
  <2>3. target \in {Idle.target} \cup UNION {SlewCommand(r.body) : r \in Requests}
    <3>1. SlewCommand(Idle.body) = {}
      BY DEF SlewCommand, Idle
    <3>2. h.body \in {r.body : r \in Requests} \/ h.body = Idle.body
      BY DEF Handling
    <3> QED BY <3>1, <3>2
  <2>4. Calls' = [Calls EXCEPT ![w] = [op |-> h.op, target |-> target]]
    BY <1>8, <2>1
  <2>5. Atomic!Call(w)
    BY <1>8, <1>9, <2>2, <2>3, <2>4 DEF Atomic!Call, Calls, Answers
  <2> QED BY <2>5
<1> QED BY <1>10, <1>11

(* A thread at work for /admin/connections has no call.                    *)
LEMMA NoCallOfListing ==
    ASSUME NEW m, NEW h, h.op = "connections"
    PROVE  /\ MountSeen(m, h) = m /\ AnswerSeen(m, h) = h.answer
           /\ AbstractCall(h) = Atomic!Nothing
BY DEF MountSeen, AnswerSeen, AbstractCall, Reads, Atomic!Nothing, Idle

LEMMA ListRefines ==
    ASSUME IInv, IInv', ~Preemptive, NEW w \in Workers,
           list_connections(w) \/ NextConnection(w)
    PROVE  UNCHANGED <<AbstractMount, Calls, Answers>>
<1>1. PICK h \in Handling : h = handler[w]
  BY DEF IInv, StateOK
<1>2. PICK g : g = handler'[w]
  OBVIOUS
<1>3. /\ h.op = "connections" /\ CanRun(w) /\ mount' = mount
      /\ \A v \in Workers : v # w => handler'[v] = handler[v]
  BY <1>1 DEF list_connections, NextConnection, Copying, IInv, StateOK
<1>4. g.op = "connections" /\ g.answer = h.answer
  <2>1. CASE list_connections(w)
    <3>1. g = [h EXCEPT !.step = 2]
      BY <1>1, <1>2, <2>1 DEF list_connections, IInv, StateOK
    <3> QED BY <1>3, <3>1 DEF Handling
  <2>2. CASE NextConnection(w)
    <3>1. g = Copied(h) /\ Copying(h)
      BY <1>1, <1>2, <2>2 DEF NextConnection, IInv, StateOK
    <3>2. InProgram(h) /\ InCopy(h) /\ log \in Seq(Entry)
      BY <1>1 DEF IInv, StateOK, ThreadOK
    <3> QED BY <1>3, <3>1, <3>2, CopiedFields
  <2> QED BY <2>1, <2>2
<1>5. /\ AbstractMount' = AbstractMount
      /\ Calls[w] = Atomic!Nothing /\ Calls' = [Calls EXCEPT ![w] = Atomic!Nothing]
      /\ Answers[w] = h.answer /\ Answers' = [Answers EXCEPT ![w] = h.answer]
  BY <1>1, <1>2, <1>3, <1>4, OneCall, NoCallOfListing DEF Same
<1> QED BY <1>5 DEF Calls, Answers

-----------------------------------------------------------------------------
(* n is the mount m after the assignment a.                                *)
Written(m, n, a) == n = [m EXCEPT ![a.attr] = a.val]

(* One assignment of slew_to makes no difference to where the mount is     *)
(* seen, and after the last the mount is there.                            *)
LEMMA SlewSeen ==
    ASSUME NEW t \in Position, NEW i \in 1..4, NEW m \in MountState, NEW n,
           Written(m, n, slew_to(t)[i])
    PROVE  /\ i < 4 => SlewedTo(n, t) = SlewedTo(m, t)
           /\ i = 4 /\ m.ra = t.ra /\ m.dec = t.dec => n = SlewedTo(m, t)
<1>1. t.ra \in 0..23 /\ t.dec \in -90..90
  BY DEF Position
<1>2. CASE i = 1
  <2>1. n = [m EXCEPT !.is_slewing = TRUE]
    BY <1>2 DEF slew_to, Set, Written
  <2>2. SlewedTo(n, t) = SlewedTo(m, t)
    BY ONLY <1>1, <2>1, m \in MountState DEF SlewedTo, MountState
  <2> QED BY <1>2, <2>2
<1>3. CASE i = 2
  <2>1. n = [m EXCEPT !.ra = t.ra]
    BY <1>3 DEF slew_to, Set, Written
  <2>2. SlewedTo(n, t) = SlewedTo(m, t)
    BY ONLY <1>1, <2>1, m \in MountState DEF SlewedTo, MountState
  <2> QED BY <1>3, <2>2
<1>4. CASE i = 3
  <2>1. n = [m EXCEPT !.dec = t.dec]
    BY <1>4 DEF slew_to, Set, Written
  <2>2. SlewedTo(n, t) = SlewedTo(m, t)
    BY ONLY <1>1, <2>1, m \in MountState DEF SlewedTo, MountState
  <2> QED BY <1>4, <2>2
<1>5. CASE i = 4
  <2>1. n = [m EXCEPT !.is_slewing = FALSE]
    BY <1>5 DEF slew_to, Set, Written
  <2>2. m.ra = t.ra /\ m.dec = t.dec => n = SlewedTo(m, t)
    BY ONLY <1>1, <2>1, m \in MountState DEF SlewedTo, MountState
  <2> QED BY <1>5, <2>2
<1> QED BY <1>2, <1>3, <1>4, <1>5

LEMMA ResetSeen ==
    ASSUME NEW m \in MountState, m.ra = 0, m.dec = 0, ~m.is_slewing, NEW n,
           n = [m EXCEPT ![reset[4].attr] = reset[4].val]
    PROVE  n = ZeroMount
<1>1. n = [m EXCEPT !.is_tracking = FALSE]
  BY DEF reset, Set
<1>2. m.is_slewing = FALSE
  BY DEF MountState
<1> QED BY <1>1, <1>2 DEF ZeroMount, MountState

(* The first assignment of a method is where the whole of it happens.      *)
LEMMA AssignRefines ==
    ASSUME IInv, IInv', ~Preemptive, NEW w \in Workers, Assign(w)
    PROVE  Atomic!Slew(w) \/ Atomic!Reset(w) \/ UNCHANGED <<AbstractMount, Calls, Answers>>
<1>1. PICK h \in Handling : h = handler[w]
  BY DEF IInv, StateOK
<1>2. PICK m \in MountState : m = mount
  BY DEF IInv, StateOK
<1>3. PICK n \in MountState : n = mount'
  BY DEF IInv, StateOK
<1>4. PICK g : g = Advance(h)
  OBVIOUS
<1>5. /\ h.pc = "act" /\ h.op \in {"slew", "reset"} /\ h.reply = "ok" /\ CanRun(w)
      /\ InMethod(h)
  BY <1>1 DEF Assign, IInv, ThreadOK, InProgram
<1>6. PICK i \in 1..4 : i = h.step
  BY DEF Handling
<1>7. PICK t \in Position : t = h.target
  BY DEF Handling
<1>8. n = [m EXCEPT ![Accesses(h)[i].attr] = Accesses(h)[i].val]
  BY <1>1, <1>2, <1>3, <1>6 DEF Assign
<1>9. /\ handler'[w] = g
      /\ \A v \in Workers : v # w => handler'[v] = handler[v]
  BY <1>1, <1>4 DEF Assign, IInv, StateOK
<1>10. /\ g.op = h.op /\ g.target = t /\ g.answer = h.answer
       /\ i < 4 => g.pc = "act" /\ g.step = i + 1
       /\ ~(i < 4) => g.pc = "done"
  <2>1. Len(Accesses(h)) = 4
    BY <1>5, ProgramLengths
  <2> QED BY <1>4, <1>5, <1>6, <1>7, <2>1, AdvanceFields
<1>11. /\ Inside(h) <=> i # 1
       /\ Inside(g) <=> i < 4
  BY <1>5, <1>6, <1>10 DEF Inside, SwitchPoints
<1>12. AnswerSeen(m, h) = h.answer /\ AnswerSeen(n, g) = h.answer
  BY <1>5, <1>10 DEF AnswerSeen, Reads
<1>13. AbstractCall(g) = Atomic!Nothing
  BY <1>5, <1>10 DEF AbstractCall, Atomic!Nothing, Idle
<1>14. /\ AbstractMount = MountSeen(m, h) /\ AbstractMount' = MountSeen(n, g)
       /\ Calls[w] = AbstractCall(h) /\ Calls' = [Calls EXCEPT ![w] = Atomic!Nothing]
       /\ Answers[w] = h.answer /\ Answers' = [Answers EXCEPT ![w] = h.answer]
  BY <1>1, <1>2, <1>3, <1>5, <1>9, <1>12, <1>13, OneCall DEF Same
<1>15. Answers' = Answers
  BY <1>14 DEF Answers
<1>16. MountSeen(n, g) = IF h.op = "slew" THEN SlewedTo(m, t) ELSE ZeroMount
  <2>1. CASE h.op = "slew"
    <3>1. n = [m EXCEPT ![slew_to(t)[i].attr] = slew_to(t)[i].val]
      BY <1>7, <1>8, <2>1, Programs
    <3>2. i = 4 => m.ra = t.ra /\ m.dec = t.dec
      BY <1>2, <1>5, <1>6, <1>7, <2>1 DEF InMethod
    <3>3. Written(m, n, slew_to(t)[i])
      BY <3>1 DEF Written
    <3>4. /\ i < 4 => SlewedTo(n, t) = SlewedTo(m, t)
          /\ i = 4 => n = SlewedTo(m, t)
      BY ONLY <3>2, <3>3, SlewSeen
    <3> QED BY <1>10, <1>11, <2>1, <3>4 DEF MountSeen
  <2>2. CASE h.op = "reset"
    <3>1. n = [m EXCEPT ![reset[i].attr] = reset[i].val]
      BY <1>8, <2>2, Programs
    <3>2. i = 4 => m.ra = 0 /\ m.dec = 0
      BY <1>2, <1>5, <1>6, <2>2 DEF InMethod
    <3>3. ~m.is_slewing
      <4> SUFFICES ASSUME m.is_slewing PROVE FALSE
        OBVIOUS
      <4>1. PICK v \in Workers : /\ handler[v].pc = "act" /\ handler[v].op = "slew"
                                 /\ handler[v].step > 1
        BY <1>2 DEF IInv, SlewingOnlyDuringSlew
      <4>2. MidMethod(v)
        BY <4>1 DEF MidMethod, SwitchPoints
      <4>3. v # w
        BY <1>1, <2>2, <4>1
      <4> QED BY <1>5, <4>2, <4>3, OthersOutside
    <3>4. i = 4 => n = ZeroMount
      BY <3>1, <3>2, <3>3, ResetSeen
    <3> QED BY <1>10, <1>11, <2>2, <3>4 DEF MountSeen
  <2> QED BY <1>5, <2>1, <2>2
<1>17. CASE i = 1
  <2>1. AbstractMount = m /\ Calls[w] = [op |-> h.op, target |-> t]
    BY <1>5, <1>6, <1>7, <1>11, <1>14, <1>17 DEF MountSeen, AbstractCall
  <2>2. CASE h.op = "slew"
    <3>1. AbstractMount' = [AbstractMount EXCEPT !.ra = t.ra, !.dec = t.dec, !.is_slewing = FALSE]
      BY <1>14, <1>16, <2>1, <2>2 DEF SlewedTo
    <3>2. Calls[w].op = "slew" /\ Calls[w].target = t
      BY <2>1, <2>2
    <3>3. Atomic!Slew(w)
      BY <1>14, <1>15, <3>1, <3>2 DEF Atomic!Slew, Calls, Answers
    <3> QED BY <3>3
  <2>3. CASE h.op = "reset"
    <3>1. Calls[w].op = "reset"
      BY <2>1, <2>3
    <3>2. AbstractMount' = ZeroMount
      BY <1>14, <1>16, <2>3
    <3>3. Atomic!Reset(w)
      BY <1>14, <1>15, <3>1, <3>2 DEF Atomic!Reset, Calls, Answers, ZeroMount
    <3> QED BY <3>3
  <2> QED BY <1>5, <2>2, <2>3
<1>18. CASE i # 1
  <2>1. AbstractMount' = AbstractMount
    BY <1>5, <1>7, <1>11, <1>14, <1>16, <1>18 DEF MountSeen
  <2>2. AbstractCall(h) = Atomic!Nothing
    BY <1>5, <1>6, <1>18 DEF AbstractCall, Atomic!Nothing, Idle
  <2>3. Calls' = Calls
    BY <1>14, <2>2 DEF Calls
  <2> QED BY <1>15, <2>1, <2>3
<1> QED BY <1>17, <1>18

-----------------------------------------------------------------------------
(* The first read of get_position, or of the two flags, is where the whole *)
(* of it happens: nothing changes the mount before the second.             *)
LEMMA ReadRefines ==
    ASSUME IInv, IInv', ~Preemptive, NEW w \in Workers, Read(w)
    PROVE  \/ Atomic!ReadFlags(w) \/ Atomic!ReadPosition(w)
           \/ UNCHANGED <<AbstractMount, Calls, Answers>>
<1>1. PICK h \in Handling : h = handler[w]
  BY DEF IInv, StateOK
<1>2. PICK m \in MountState : m = mount /\ m = mount'
  BY DEF IInv, StateOK, Read
<1>3. PICK attr : attr = Accesses(h)[h.step]
  OBVIOUS
<1>4. PICK a : a = [h.answer EXCEPT ![attr] = m[attr]]
  OBVIOUS
<1>5. PICK k : k = [h EXCEPT !.answer = a]
  OBVIOUS
<1>6. PICK g : g = Advance(k)
  OBVIOUS
<1>7. /\ h.pc = "act" /\ h.op \in Reads /\ h.reply = "ok" /\ CanRun(w) /\ InProgram(h)
  BY <1>1 DEF Read, IInv, ThreadOK, InProgram
<1>8. attr \in {"ra", "dec", "is_slewing", "is_tracking"}
  BY <1>3, <1>7, AttributeRead
<1>9. h.answer \in MountState /\ a \in MountState
  <2>1. h.answer \in MountState
    BY DEF Handling
  <2> QED BY <1>4, <1>8, <2>1 DEF MountState
<1>10. /\ k \in Handling /\ k.pc = "act" /\ k.reply = "ok" /\ k.op = h.op
       /\ k.answer = a /\ k.target = h.target /\ k.step = h.step
  BY <1>5, <1>7, <1>9 DEF Handling
<1>11. PICK i \in 1..4 : i = h.step
  BY DEF Handling
<1>12. h.op = "status" \/ (h.op = "position" /\ i \in 1..2)
  BY <1>7, <1>11 DEF InProgram, Reads
<1>13. /\ handler'[w] = g
       /\ \A v \in Workers : v # w => handler'[v] = handler[v]
  <2>1. handler' = [handler EXCEPT ![w] = g]
    BY <1>1, <1>2, <1>3, <1>4, <1>5, <1>6 DEF Read
  <2> QED BY <2>1 DEF IInv, StateOK
<1>14. PICK last : last = IF h.op = "position" THEN 2 ELSE 4
  OBVIOUS
<1>15. /\ g.op = h.op /\ g.target = h.target /\ g.answer = a
       /\ i < last => g.pc = "act" /\ g.step = i + 1
       /\ ~(i < last) => g.pc = "done"
  <2>1. Len(Accesses(k)) = last
    BY <1>10, <1>12, <1>14, ProgramLengths
  <2>2. k.op # "connections"
    BY <1>10, <1>12
  <2> QED BY <1>6, <1>10, <1>11, <2>1, <2>2, AdvanceFields
<1>16. /\ Inside(h) <=> i \in {2, 4}
       /\ Inside(g) <=> i \in {1, 3}
  BY <1>7, <1>11, <1>12, <1>14, <1>15 DEF Inside, SwitchPoints
<1>17. MountSeen(m, h) = m /\ MountSeen(m, g) = m
  BY <1>7, <1>15 DEF MountSeen, Reads
<1>18. /\ AbstractMount = m /\ AbstractMount' = m
       /\ Calls[w] = AbstractCall(h) /\ Calls' = [Calls EXCEPT ![w] = AbstractCall(g)]
       /\ Answers[w] = AnswerSeen(m, h) /\ Answers' = [Answers EXCEPT ![w] = AnswerSeen(m, g)]
  BY <1>1, <1>2, <1>7, <1>13, <1>17, OneCall DEF Same
<1>19. CASE i \in {2, 4}
  <2>1. AnswerSeen(m, h) = a
    BY <1>3, <1>4, <1>7, <1>16, <1>19 DEF AnswerSeen
  <2>2. AnswerSeen(m, g) = a
    BY <1>15, <1>16, <1>19 DEF AnswerSeen
  <2>3. AbstractCall(g) = AbstractCall(h)
    <3>1. CASE h.op = "position"
      BY <1>11, <1>12, <1>14, <1>15, <1>19, <3>1 DEF AbstractCall
    <3>2. CASE h.op = "status" /\ i = 2
      BY <1>7, <1>11, <1>14, <1>15, <3>2 DEF AbstractCall
    <3>3. CASE h.op = "status" /\ i = 4
      BY <1>7, <1>11, <1>14, <1>15, <3>3 DEF AbstractCall
    <3> QED BY <1>12, <1>19, <3>1, <3>2, <3>3
  <2> QED BY <1>18, <2>1, <2>2, <2>3 DEF Calls, Answers
<1>20. CASE i \in {1, 3}
  <2>1. AnswerSeen(m, h) = h.answer
    BY <1>16, <1>20 DEF AnswerSeen
  <2>2. g.pc = "act" /\ g.step = i + 1
    BY <1>12, <1>14, <1>15, <1>20
  <2>3. PICK next : next = Accesses(g)[g.step]
    OBVIOUS
  <2>4. AnswerSeen(m, g) = [a EXCEPT ![next] = m[next]]
    BY <1>7, <1>15, <1>16, <1>20, <2>3 DEF AnswerSeen
  <2>5. CASE h.op = "status" /\ i = 1
    <3>1. attr = "is_slewing" /\ next = "is_tracking"
      <4>1. /\ Accesses(h) = <<"is_slewing", "is_tracking", "ra", "dec">>
            /\ Accesses(g) = <<"is_slewing", "is_tracking", "ra", "dec">>
        BY <1>15, <2>5, Programs
      <4> QED BY <1>3, <1>11, <2>2, <2>3, <2>5, <4>1
    <3>2. AnswerSeen(m, g) = [h.answer EXCEPT !.is_slewing = m.is_slewing,
                                              !.is_tracking = m.is_tracking]
      BY <1>4, <2>4, <3>1
    <3>3. /\ AbstractCall(h) = [op |-> "status", target |-> h.target]
          /\ AbstractCall(g) = [op |-> "position", target |-> h.target]
      BY <1>7, <1>11, <1>15, <2>2, <2>5 DEF AbstractCall
    <3>4. Calls' = [Calls EXCEPT ![w].op = "position"]
      <4>1. PICK c : c = AbstractCall(h)
        OBVIOUS
      <4>2. AbstractCall(g) = [c EXCEPT !.op = "position"]
        BY ONLY <3>3, <4>1
      <4> QED BY ONLY <1>18, <4>1, <4>2
    <3>5. Answers' = [Answers EXCEPT ![w].is_slewing = AbstractMount.is_slewing,
                                     ![w].is_tracking = AbstractMount.is_tracking]
      BY <1>18, <2>1, <3>2
    <3>6. Atomic!ReadFlags(w)
      BY <1>18, <3>3, <3>4, <3>5 DEF Atomic!ReadFlags, Calls, Answers
    <3> QED BY <3>6
  <2>6. CASE h.op = "position" \/ i = 3
    <3>1. attr = "ra" /\ next = "dec"
      <4>1. CASE h.op = "position"
        <5>1. Accesses(h) = <<"ra", "dec">> /\ Accesses(g) = <<"ra", "dec">> /\ i = 1
          BY <1>12, <1>15, <1>20, <4>1, Programs
        <5> QED BY <1>3, <1>11, <2>2, <2>3, <5>1
      <4>2. CASE h.op = "status" /\ i = 3
        <5>1. /\ Accesses(h) = <<"is_slewing", "is_tracking", "ra", "dec">>
              /\ Accesses(g) = <<"is_slewing", "is_tracking", "ra", "dec">>
          BY <1>15, <4>2, Programs
        <5> QED BY <1>3, <1>11, <2>2, <2>3, <4>2, <5>1
      <4> QED BY <1>12, <2>6, <4>1, <4>2
    <3>2. AnswerSeen(m, g) = [h.answer EXCEPT !.ra = m.ra, !.dec = m.dec]
      BY <1>4, <2>4, <3>1
    <3>3. AbstractCall(h).op = "position"
      BY <1>7, <1>11, <1>12, <1>20, <2>6 DEF AbstractCall
    <3>4. AbstractCall(g) = Atomic!Nothing
      <4>1. g.step # 1 /\ (g.op = "status" => g.step \notin {2, 3})
        BY <1>12, <1>15, <1>20, <2>2, <2>6
      <4> QED BY <4>1 DEF AbstractCall, Atomic!Nothing, Idle
    <3>5. Answers' = [Answers EXCEPT ![w].ra = AbstractMount.ra, ![w].dec = AbstractMount.dec]
      BY <1>18, <2>1, <3>2
    <3>6. Atomic!ReadPosition(w)
      BY <1>18, <3>3, <3>4, <3>5 DEF Atomic!ReadPosition, Calls, Answers
    <3> QED BY <3>6
  <2> QED BY <1>12, <1>20, <2>5, <2>6
<1> QED BY <1>19, <1>20

LEMMA NextRefines ==
    ASSUME IInv, IInv', ~Preemptive, [Next]_vars
    PROVE  [Atomic!Next]_(Atomic!vars)
<1> DEFINE Stutter == UNCHANGED <<AbstractMount, Calls, Answers>>
<1>1. Stutter => UNCHANGED Atomic!vars
  BY DEF Atomic!vars, Calls, Answers
<1>2. CASE Tick \/ (\E jti \in PresentedJtis : RevokeElsewhere(jti)) \/ UNCHANGED vars
  <2>1. UNCHANGED <<mount, handler>>
    BY <1>2 DEF Tick, RevokeElsewhere, vars
  <2> QED BY <1>1, <2>1, Quiet
<1>3. CASE \E w \in Workers, r \in Requests : Authenticate(w, r)
  <2>1. \E w \in Workers : Atomic!Arrive(w)
    BY <1>3, AuthenticateRefines
  <2> QED BY <2>1 DEF Atomic!Next
<1>4. ASSUME NEW w \in Workers, Step(w)
      PROVE  [Atomic!Next]_(Atomic!vars)
  <2>1. \/ Atomic!Call(w) \/ Atomic!Slew(w) \/ Atomic!Reset(w)
        \/ Atomic!ReadFlags(w) \/ Atomic!ReadPosition(w) \/ Stutter
    BY <1>4, RefusalRefines, LogRefines, AssignRefines, ReadRefines, ListRefines DEF Step
  <2> HIDE DEF Stutter
  <2> QED BY <1>1, <2>1 DEF Atomic!Next
<1>5. CASE Restart
  BY <1>5, RestartRefines DEF Atomic!Next
<1> QED BY <1>2, <1>3, <1>4, <1>5 DEF Next

(* With the GIL, threads that are switched out around every method of the  *)
(* mount and in the middle of get_status leave no trace that atomic        *)
(* methods would not: no half of a command is told to a client, no command *)
(* is lost or undone by one that returned before it.                       *)
THEOREM ImplementsAtomicMount ==
    ASSUME ~Preemptive
    PROVE  Spec => MountIsAtomic
<1>1. Init => Atomic!Init
  BY InitRefines
<1>2. IInv /\ IInv' /\ [Next]_vars => [Atomic!Next]_(Atomic!vars)
  BY NextRefines
<1> QED BY <1>1, <1>2, InvariantHolds, PTL DEF Spec, MountIsAtomic, Atomic!Spec
=============================================================================
