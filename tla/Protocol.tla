------------------------------ MODULE Protocol ------------------------------
(***************************************************************************)
(* The wire models of src/telescope/protocol.py, and the two token         *)
(* operations of src/telescope/auth.py that the authorization server (AS)  *)
(* and the resource server (RS) both use.  Everything here is a constant   *)
(* operator: no state.                                                     *)
(*                                                                         *)
(* Abstractions.  A scope string is the set of its words, which is how     *)
(* both servers read it (`set(s.split())').  Coordinates are integers.     *)
(* Times are whole seconds, which is exact here: every expiry comparison   *)
(* of the code has an integer on one side, so replacing the float          *)
(* time.time() on the other by its floor never changes the outcome.        *)
(***************************************************************************)
EXTENDS Integers

VALID_SCOPES == {"telescope:read", "telescope:slew", "telescope:admin"}

(* Right ascension in [0, 24) hours and declination in [-90, 90] degrees.  *)
ValidRa(ra)   == 0 <= ra /\ ra < 24
ValidDec(dec) == -90 <= dec /\ dec <= 90

Position == [ra : 0..23, dec : -90..90]

(***************************************************************************)
(* SlewCommand( **data ).  A field of a body is the set of numbers it can  *)
(* be read as: a singleton, or {} when it is missing, not a number or NaN  *)
(* (which fails both range checks).  The result is the set of commands     *)
(* the constructor returns: one, or none when validation raises.           *)
(***************************************************************************)
SlewCommand_RaOnly(body) == {p \in [ra : body.ra, dec : body.dec] : ValidRa(p.ra)}

SlewCommand(body) ==
    {p \in [ra : body.ra, dec : body.dec] : ValidRa(p.ra) /\ ValidDec(p.dec)}

(***************************************************************************)
(* TokenRequest( **data ).  well_formed stands for the JSON object, the    *)
(* grant_type and the length limits; the scopes are checked against        *)
(* VALID_SCOPES.  A request without a scope is one for {"telescope:read"}, *)
(* and an empty scope string is a legal request for no scope at all.       *)
(***************************************************************************)
ValidTokenRequest(req) == req.well_formed /\ req.scope \subseteq VALID_SCOPES

(* The default of TokenResponse.expires_in, the only value ever sent.      *)
DEFAULT_EXPIRES_IN == 3600

(***************************************************************************)
(* A JWT, seen through its claims and the key that signed it.  A string    *)
(* that is not a JWT signed by a known key is a token whose key is not     *)
(* the verifier's.                                                         *)
(***************************************************************************)
Token(Subjects, Jtis, Keys, Urls) ==
    [sub : Subjects, scope : SUBSET VALID_SCOPES, iat : Nat, exp : Int,
     jti : Jtis, key : Keys, iss : Urls, aud : Urls]

issue_token(client_id, scope, key, as_url, rs_url, lifetime, now, jti) ==
    [sub |-> client_id, scope |-> scope, iat |-> now, exp |-> now + lifetime,
     jti |-> jti, key |-> key, iss |-> as_url, aud |-> rs_url]

(***************************************************************************)
(* jwt.decode checks the signature, then iat, exp, iss and aud, and raises *)
(* at the first failure.  verify_token returns the claims exactly when     *)
(* Verified holds; it raises ExpiredSignatureError when SignatureExpired   *)
(* holds and another InvalidTokenError otherwise.                          *)
(***************************************************************************)
Verified_AnyAge(tok, public_key, as_url, rs_url, now) ==
    /\ tok.key = public_key
    /\ tok.iss = as_url
    /\ tok.aud = rs_url

Verified(tok, public_key, as_url, rs_url, now) ==
    /\ tok.key = public_key
    /\ tok.iat <= now
    /\ now < tok.exp
    /\ tok.iss = as_url
    /\ tok.aud = rs_url

SignatureExpired(tok, public_key, now) ==
    /\ tok.key = public_key
    /\ tok.iat <= now
    /\ tok.exp <= now
=============================================================================
