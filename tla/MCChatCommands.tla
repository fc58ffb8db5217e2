--------------------------- MODULE MCChatCommands ---------------------------
(***************************************************************************)
(* An instance of ChatCommands for TLC: three viewers, two of them at one  *)
(* address, so that the crowd may be nobody, one or two.                   *)
(***************************************************************************)
EXTENDS ChatCommands, TLC

CONSTANTS v1, v2, v3, home, cafe

MCAddress == (v1 :> home) @@ (v2 :> home) @@ (v3 :> cafe)

=============================================================================
