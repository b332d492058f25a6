----------------------------- MODULE AtomicMount -----------------------------
(***************************************************************************)
(* What the mount of src/telescope/server.py promises to the threads that  *)
(* use it: a slew, a reset and the reading of a position happen at one     *)
(* moment each, somewhere between call and return.  A status is two        *)
(* readings, first of the flags and then of the position.                  *)
(***************************************************************************)
EXTENDS Integers

CONSTANTS
    Workers,          \* the threads
    Targets,          \* where the mount may be sent
    NewMount          \* the mount of a process that has just started

VARIABLES
    mount,            \* the attributes of the mount
    call,             \* what each thread has asked for and not been given
    answer            \* what each thread has read since its request came in

vars == <<mount, call, answer>>

Nothing == [op |-> "none", target |-> [ra |-> 0, dec |-> 0]]

Init ==
    /\ mount = NewMount
    /\ call = [w \in Workers |-> Nothing]
    /\ answer = [w \in Workers |-> NewMount]

(* A new request comes in and knows nothing yet.                           *)
Arrive(w) ==
    /\ call[w] = Nothing
    /\ answer' = [answer EXCEPT ![w] = NewMount]
    /\ UNCHANGED <<mount, call>>

Call(w) ==
    /\ call[w] = Nothing
    /\ \E op \in {"slew", "reset", "position", "status"}, target \in Targets :
         call' = [call EXCEPT ![w] = [op |-> op, target |-> target]]
    /\ UNCHANGED <<mount, answer>>

Slew(w) ==
    /\ call[w].op = "slew"
    /\ mount' = [mount EXCEPT !.ra = call[w].target.ra, !.dec = call[w].target.dec,
                              !.is_slewing = FALSE]
    /\ call' = [call EXCEPT ![w] = Nothing]
    /\ UNCHANGED answer

Reset(w) ==
    /\ call[w].op = "reset"
    /\ mount' = [ra |-> 0, dec |-> 0, is_slewing |-> FALSE, is_tracking |-> FALSE]
    /\ call' = [call EXCEPT ![w] = Nothing]
    /\ UNCHANGED answer

ReadFlags(w) ==
    /\ call[w].op = "status"
    /\ answer' = [answer EXCEPT ![w].is_slewing = mount.is_slewing,
                                ![w].is_tracking = mount.is_tracking]
    /\ call' = [call EXCEPT ![w].op = "position"]
    /\ UNCHANGED mount

ReadPosition(w) ==
    /\ call[w].op = "position"
    /\ answer' = [answer EXCEPT ![w].ra = mount.ra, ![w].dec = mount.dec]
    /\ call' = [call EXCEPT ![w] = Nothing]
    /\ UNCHANGED mount

Restart ==
    /\ mount' = NewMount
    /\ call' = [w \in Workers |-> Nothing]
    /\ answer' = [w \in Workers |-> NewMount]

Next ==
    \/ \E w \in Workers : \/ Arrive(w) \/ Call(w)
                          \/ Slew(w) \/ Reset(w) \/ ReadFlags(w) \/ ReadPosition(w)
    \/ Restart

Spec == Init /\ [][Next]_vars
=============================================================================
