-------------------------- MODULE MCResourceServer --------------------------
(* Instances of ResourceServer for TLC: one set of requests that is all    *)
(* about the mount, one about tokens and one about the connection log.     *)
EXTENDS ResourceServer

CONSTANTS as_key, other_key

NoBody == [ra |-> {}, dec |-> {}]
Body(ra, dec) == [ra |-> {ra}, dec |-> {dec}]

Tok(sub, scope, jti, key, iat, exp) ==
    [sub |-> sub, scope |-> scope, iat |-> iat, exp |-> exp, jti |-> jti,
     key |-> key, iss |-> as_url, aud |-> rs_url]

ReadToken  == Tok("tracker-read", {"telescope:read"}, "j1", as_key, 0, 2)
FullToken  == Tok("tracker-full", {"telescope:read", "telescope:slew"}, "j2", as_key, 1, 2)
AdminToken == Tok("admin-client", VALID_SCOPES, "j3", as_key, 0, 3)
ForgedToken == Tok("tracker-read", VALID_SCOPES, "j3", other_key, 0, 3)
WrongAudience == [AdminToken EXCEPT !.aud = as_url]

Request(op, token, body) == [op |-> op, token |-> token, body |-> body]

(* Two targets that differ in both coordinates, and a reset; the log is    *)
(* copied too.                                                             *)
MountRequests ==
    {Request("slew", AdminToken, Body(23, -90)), Request("slew", AdminToken, Body(1, 90)),
     Request("reset", AdminToken, NoBody), Request("status", AdminToken, NoBody),
     Request("position", AdminToken, NoBody), Request("connections", AdminToken, NoBody)}

(* Without the GIL: one target is enough for a mixture with the home       *)
(* position or the first one.  The other body must be refused.             *)
ThreadRequests ==
    {Request("slew", AdminToken, Body(23, -90)), Request("slew", AdminToken, Body(0, 91)),
     Request("reset", AdminToken, NoBody), Request("status", AdminToken, NoBody),
     Request("connections", AdminToken, NoBody)}

(* Every outcome of require_scope, and bodies outside and at the edge of   *)
(* the valid range.                                                        *)
TokenRequests ==
    {Request("position", t, NoBody) :
        t \in {NoToken, ReadToken, ForgedToken, WrongAudience}}
      \cup {Request("slew", ReadToken, Body(1, 1)), Request("slew", FullToken, Body(23, 90)),
            Request("slew", FullToken, Body(24, 0)), Request("slew", FullToken, Body(0, 91)),
            Request("slew", FullToken, [ra |-> {1}, dec |-> {}]),
            Request("reset", FullToken, NoBody), Request("reset", AdminToken, NoBody)}

Symmetry == Permutations(Workers)
=============================================================================
