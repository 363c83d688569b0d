------------------------------ MODULE GatewayAuth ------------------------------
(***************************************************************************)
(* Who a call acts for: the tokens of auth.py, the actor that the API      *)
(* derives from a request (main.py) and the credentials that the gateway's *)
(* endpoint asks of the service that calls it (app.py).  A token is a      *)
(* record of what the checks look at; a signature is right or wrong.       *)
(***************************************************************************)
EXTENDS Naturals

CONSTANTS
    Roles,
    Issuer, Audience,    \* jwt_issuer, jwt_audience
    Nothing              \* a claim, a header or a role that is not given

\* A signed JWT as the checks see it; aud is the set of audiences it lists.
IsToken(t) ==
    /\ DOMAIN t = {"header", "signed", "iss", "aud", "exp", "nbf", "role"}
    /\ t.header \in {"HS256", "none"} /\ t.signed \in BOOLEAN

\* _verify_registered_claims, _audience_matches
VerifyClaims(t, now) ==
    /\ t.iss = Issuer /\ Audience \in t.aud
    /\ t.exp \in Nat /\ t.exp > now
    /\ t.nbf \in Nat => t.nbf <= now

\* HmacJwtAuthenticator.authenticate
Authenticates(t, now) ==
    /\ IsToken(t)
    /\ t.header = "HS256"
    /\ t.signed
    /\ VerifyClaims(t, now)
    /\ t.role \in Roles

\* _bearer_token and _resolve_api_actor where the environment is staging or production:
\* the token of the header is the actor, the role of the request's body is ignored.
ResolveApiActor(request, now) ==
    IF request.token # Nothing /\ Authenticates(request.token, now)
    THEN [role |-> request.token.role, token |-> request.token]
    ELSE Nothing

\* _authorize_service: no configured secret admits nobody.
AuthorizeService(given, expected) ==
    given # Nothing /\ expected # Nothing /\ given = expected
=============================================================================
