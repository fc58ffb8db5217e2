----------------------------- MODULE MCUrlRelay -----------------------------
(* Two relays, one of them of a Kick channel, against any human. *)
EXTENDS UrlRelay

CONSTANTS r1, r2

MCKick == {r2}

=============================================================================
