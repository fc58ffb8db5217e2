----------------------------- MODULE AtomicStore -----------------------------
(***************************************************************************)
(* What transaction.js promises the modules that write through it, with no *)
(* chain, no connection and no transaction in sight: a scope's writes get  *)
(* into the database in one step, together with those of the statements it *)
(* started and that ran while it was open; any other statement is there    *)
(* when it returns; and no caller is told anything else than what happened *)
(* to its writes.  A crash takes nothing away.                             *)
(*                                                                         *)
(* A connection that is stuck in a transaction promises less: statements   *)
(* may return without being in the database, and no scope gets there.      *)
(***************************************************************************)
EXTENDS Integers

CONSTANTS Scope, Statement, NoScope, Writes

VARIABLES
  stored,   \* the writes that are in the database
  outcome,  \* what each call has come to, "open" till then
  inside,   \* the scope that started a statement
  stuck     \* the connection may be in a transaction nobody will end

vars == <<stored, outcome, inside, stuck>>

Call == Scope \cup Statement
BodyWrites(s) == {s} \X (1..Writes)

Init ==
  /\ stored = {}
  /\ outcome = [c \in Call |-> "open"]
  /\ inside = [b \in Statement |-> NoScope]
  /\ stuck = FALSE

Open(c) == outcome[c] = "open"
EndsAs(c, result) == outcome' = [outcome EXCEPT ![c] = result]

-----------------------------------------------------------------------------
\* Scopes

\* The statements that ran in the scope and count on it.
Guests(s) == {b \in Statement : inside[b] = s /\ outcome[b] = "returned"}

\* All the writes of the scope at once.
Store(s) ==
  /\ Open(s) /\ ~stuck
  /\ BodyWrites(s) \cap stored = {}
  /\ stored' = stored \cup BodyWrites(s) \cup Guests(s) \X {1}
  /\ UNCHANGED <<outcome, inside, stuck>>

Return(s) ==
  /\ Open(s)
  /\ BodyWrites(s) \subseteq stored
  /\ EndsAs(s, "returned")
  /\ UNCHANGED <<stored, inside, stuck>>

Fail(s) ==
  /\ Open(s)
  /\ BodyWrites(s) \cap stored = {}
  /\ EndsAs(s, "failed")
  /\ UNCHANGED <<stored, inside, stuck>>

Start(s, b) ==
  /\ Open(s) /\ Open(b)
  /\ inside[b] = NoScope
  /\ inside' = [inside EXCEPT ![b] = s]
  /\ UNCHANGED <<stored, outcome, stuck>>

-----------------------------------------------------------------------------
\* Statements

\* The scope that started the statement is still open: its fate is theirs.
HasHost(b) == inside[b] \in Scope /\ Open(inside[b])

Run(b) ==
  /\ Open(b)
  /\ EndsAs(b, "returned")
  /\ \/ stored' = stored \cup {<<b, 1>>}
     \/ (HasHost(b) \/ stuck) /\ UNCHANGED stored
  /\ UNCHANGED <<inside, stuck>>

Refuse(b) ==
  /\ Open(b)
  /\ EndsAs(b, "failed")
  /\ UNCHANGED <<stored, inside, stuck>>

-----------------------------------------------------------------------------
GetsStuck == stuck' = TRUE /\ UNCHANGED <<stored, outcome, inside>>

Crash ==
  /\ \E lost \in SUBSET {c \in Call : Open(c)} :
       outcome' = [c \in Call |-> IF c \in lost THEN "crashed" ELSE outcome[c]]
  /\ stuck' = FALSE
  /\ UNCHANGED <<stored, inside>>

Next ==
  \/ \E s \in Scope : Store(s) \/ Return(s) \/ Fail(s)
  \/ \E s \in Scope, b \in Statement : Start(s, b)
  \/ \E b \in Statement : Run(b) \/ Refuse(b)
  \/ GetsStuck \/ Crash

Spec == Init /\ [][Next]_vars
=============================================================================
