---------------------------- MODULE MCAuthServer ----------------------------
(* Instances of AuthServer for TLC: two of the three registered clients,   *)
(* one request of every outcome, and the strings an endpoint can be sent.  *)
EXTENDS AuthServer, TLC

CONSTANTS OtherKey, WrongSecret

MCClients == {"tracker-read", "tracker-full"}
MCSecret == [c \in MCClients |-> c]
MCScopes == [c \in MCClients |->
    IF c = "tracker-read" THEN {"telescope:read"}
                          ELSE {"telescope:read", "telescope:slew"}]

Request(ok, id, pw, scope) ==
    [well_formed |-> ok, client_id |-> id, client_secret |-> pw, scope |-> scope]

MCRequests ==
    {Request(TRUE, "tracker-read", "tracker-read", {"telescope:read"}),
     Request(TRUE, "tracker-read", "tracker-read", {"telescope:read", "telescope:slew"}),
     Request(TRUE, "tracker-full", "tracker-full", {"telescope:read", "telescope:slew"}),
     Request(TRUE, "tracker-full", WrongSecret, {"telescope:read"}),
     Request(TRUE, "nobody", WrongSecret, {"telescope:read"}),
     Request(TRUE, "tracker-full", "tracker-full", {"telescope:destroy"}),
     Request(FALSE, "tracker-full", "tracker-full", {"telescope:read"})}

(* The jti of an issued token alone, and the same jti in a JWT that is not *)
(* signed with a key of this AS.                                           *)
Foreign(jti) ==
    issue_token("tracker-read", {"telescope:read"}, OtherKey, as_url, rs_url, 9, 0, jti)
MCOtherTokens == {BareJti(j) : j \in Jtis} \cup {Foreign(j) : j \in Jtis}

Symmetry == Permutations(Jtis) \cup Permutations(Keys) \cup Permutations(Workers)
=============================================================================
