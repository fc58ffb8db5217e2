----------------------------- MODULE MCTakeover -----------------------------
(* Takeover for TLC: two humans and a viewbot, each at an address of its own. *)
EXTENDS Takeover, TLC

CONSTANTS h1, h2, b1, ip1, ip2, ip3

MCIpOf == [s \in Socket |-> CASE s = h1 -> ip1 [] s = h2 -> ip2 [] OTHER -> ip3]
=============================================================================
