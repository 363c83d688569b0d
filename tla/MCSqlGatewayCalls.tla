--------------------------- MODULE MCSqlGatewayCalls ---------------------------
(* Constants for model-checking SqlGatewayCalls.                               *)
EXTENDS SqlGatewayCalls, TLC

CONSTANTS p1, p2, k1, k2

Anyone == Permutations(Procs) \cup Permutations(Keys)

Token(role, signed, exp) ==
    [header |-> "HS256", signed |-> signed, iss |-> Issuer, aud |-> {Audience}, exp |-> exp,
     nbf |-> 0, role |-> role]

\* An engineer's token, one that expires under way, and requests that must not run: a forged
\* token, a viewer's who asks for another role, and none at all.
MCRequests ==
    { [token |-> Token("ENGINEER", TRUE, 9), role |-> Nothing],
      [token |-> Token("ENGINEER", TRUE, 1), role |-> Nothing],
      [token |-> Token("ENGINEER", FALSE, 9), role |-> Nothing],
      [token |-> Token("VIEWER", TRUE, 9), role |-> "ENGINEER"],
      [token |-> Nothing, role |-> "ENGINEER"] }
=============================================================================
