----------------------------- MODULE StreamSlot -----------------------------
(***************************************************************************)
(* What the stream slot promises, without handlers, queues or awaits.      *)
(*                                                                         *)
(* One streamer at a time.  A person claims the slot in one step, only     *)
(* outside the global cooldown and only when the cooldown of the previous  *)
(* claim has been started; a bot claims it only when no person streams and *)
(* no claim is unfinished.  Ending a stream is never refused.  Every       *)
(* change of streamer takes a new generation, so that clients can order    *)
(* what they are told.                                                     *)
(***************************************************************************)
EXTENDS Naturals

CONSTANTS Human, Bot, TestStream, NoStreamer

VARIABLES
  streamer,
  generation,
  cooldown,   \* the global cooldown runs
  unfinished  \* the person whose claim has not started the cooldown yet

slotVars == <<streamer, generation, cooldown, unfinished>>

Init ==
  /\ streamer = NoStreamer
  /\ generation = 0
  /\ cooldown = FALSE
  /\ unfinished = {}

Install(x) ==
  /\ streamer' = x
  /\ generation' = generation + 1

Claim(h) ==
  /\ unfinished = {} /\ ~cooldown
  /\ Install(h)
  /\ unfinished' = {h}
  /\ UNCHANGED cooldown

StartCooldown ==
  /\ unfinished # {}
  /\ unfinished' = {}
  /\ cooldown' = TRUE
  /\ UNCHANGED <<streamer, generation>>

CooldownEnds ==
  /\ cooldown
  /\ cooldown' = FALSE
  /\ UNCHANGED <<streamer, generation, unfinished>>

BotClaim(b) ==
  /\ streamer \notin Human
  /\ unfinished = {}
  /\ Install(b)
  /\ UNCHANGED <<cooldown, unfinished>>

ShowTest ==
  /\ Install(TestStream)
  /\ UNCHANGED <<cooldown, unfinished>>

End ==
  /\ Install(NoStreamer)
  /\ UNCHANGED <<cooldown, unfinished>>

\* A game announces itself with a generation of its own.
Announce ==
  /\ generation' = generation + 1
  /\ UNCHANGED <<streamer, cooldown, unfinished>>

Next ==
  \/ \E h \in Human : Claim(h)
  \/ \E b \in Bot : BotClaim(b)
  \/ StartCooldown \/ CooldownEnds \/ ShowTest \/ End \/ Announce

Spec == Init /\ [][Next]_slotVars
=============================================================================
