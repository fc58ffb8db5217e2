--------------------------- MODULE MCTimeTracking ---------------------------
(* A person with an address of their own, and an address two tabs share, one *)
(* of them without a token.                                                  *)
EXTENDS TimeTracking

CONSTANTS a, b, c, u1, u2, home, cafe

MCAccount == [t \in Tab |-> CASE t = a -> u1 [] t = b -> NoUser [] t = c -> u2]
MCIp == [t \in Tab |-> IF t = c THEN home ELSE cafe]

=============================================================================
