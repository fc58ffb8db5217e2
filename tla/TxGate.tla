------------------------------- MODULE TxGate -------------------------------
(***************************************************************************)
(* withTransaction and the gated statements: one connection that every     *)
(* module of the server writes through.                                    *)
(*                                                                         *)
(* Calls line up on one chain of promises: each call awaits the promise of *)
(* the call before it and resolves its own when it is done.  A scope opens *)
(* a transaction and runs a body of several writes; a bare statement is    *)
(* one write.  A statement started inside the open scope goes round the    *)
(* chain; the async context it was born in is what tells.                  *)
(*                                                                         *)
(* The connection runs a statement at the call (better-sqlite3).  A write  *)
(* joins whatever transaction is open on it, or is committed on its own.   *)
(***************************************************************************)
EXTENDS Integers, FiniteSets

CONSTANTS
  Scope,      \* calls of withTransaction
  Statement,  \* calls of a gated runAsync, getAsync or allAsync
  NoScope,
  Writes      \* writes in the body of a scope

ASSUME CallAssumption == Scope \cap Statement = {} /\ NoScope \notin Scope
ASSUME WritesAssumption == Writes \in Nat \ {0}

VARIABLES
  mutex,             \* number of the last promise of the chain
  resolved,          \* the promises that are resolved
  promise,           \* number of the promise each call made
  at,                \* where each call is
  bornIn,            \* the scope whose async context a statement has
  activeScopeToken,
  stuckError,        \* a ROLLBACK failed in this process
  openTx,            \* the scope that opened the connection's transaction
  pending,           \* writes of that transaction
  committed,
  wrote              \* writes the body of each scope has made

chain == <<mutex, resolved, promise>>
connection == <<openTx, pending, committed>>
helper == <<bornIn, activeScopeToken, stuckError>>
vars == <<chain, at, helper, connection, wrote>>

-----------------------------------------------------------------------------
Call == Scope \cup Statement
Ended == {"returned", "failed", "crashed"}
Phase == {"idle", "born", "waiting", "body", "rolling", "committed",
          "rolledBack"} \cup Ended

BodyWrites(s) == {s} \X (1..Writes)
Write == (Scope \X (1..Writes)) \cup (Statement \X {1})

TypeOK ==
  /\ mutex \in Nat
  /\ resolved \subseteq Nat
  /\ promise \in [Call -> Nat]
  /\ at \in [Call -> Phase]
  /\ bornIn \in [Statement -> Scope \cup {NoScope}]
  /\ activeScopeToken \in Scope \cup {NoScope}
  /\ stuckError \in BOOLEAN
  /\ openTx \in Scope \cup {NoScope}
  /\ pending \subseteq Write
  /\ committed \subseteq Write
  /\ wrote \in [Scope -> 0..Writes]

\* Promise 0 is the resolved one the chain starts from.
Init ==
  /\ mutex = 0 /\ resolved = {0}
  /\ promise = [c \in Call |-> 0]
  /\ at = [c \in Call |-> "idle"]
  /\ bornIn = [b \in Statement |-> NoScope]
  /\ activeScopeToken = NoScope /\ stuckError = FALSE
  /\ openTx = NoScope /\ pending = {} /\ committed = {}
  /\ wrote = [s \in Scope |-> 0]

Goto(c, phase) == at' = [at EXCEPT ![c] = phase]

\* prev = mutex; mutex = a promise of its own.
JoinChain(c) ==
  /\ mutex' = mutex + 1
  /\ promise' = [promise EXCEPT ![c] = mutex + 1]
  /\ UNCHANGED resolved

\* await prev
HasTurn(c) == at[c] = "waiting" /\ promise[c] - 1 \in resolved

\* release(), in the finally of each call
Release(c) ==
  /\ resolved' = resolved \cup {promise[c]}
  /\ UNCHANGED <<mutex, promise>>

\* The connection leaves its transaction, and its writes with it.
Discard == openTx' = NoScope /\ pending' = {} /\ UNCHANGED committed

\* One write: part of the open transaction, or committed at once.
Execute(w) ==
  IF openTx = NoScope
    THEN committed' = committed \cup {w} /\ UNCHANGED <<openTx, pending>>
    ELSE pending' = pending \cup {w} /\ UNCHANGED <<openTx, committed>>

-----------------------------------------------------------------------------
\* withTransaction

WithTransaction(s) ==
  /\ at[s] = "idle"
  /\ JoinChain(s)
  /\ Goto(s, "waiting")
  /\ UNCHANGED <<helper, connection, wrote>>

\* Mutant of ScopeRefused: the error is thrown past release().
ScopeRefusedHolding(s) ==
  /\ HasTurn(s)
  /\ Goto(s, "failed")
  /\ UNCHANGED <<chain, helper, connection, wrote>>

\* The helper is stuck, or BEGIN IMMEDIATE fails on a lock of another handle
\* or on the transaction that is still open.
ScopeRefused(s) ==
  /\ HasTurn(s)
  /\ Release(s)
  /\ Goto(s, "failed")
  /\ UNCHANGED <<helper, connection, wrote>>

Begin(s) ==
  /\ HasTurn(s)
  /\ ~stuckError
  /\ openTx = NoScope
  /\ openTx' = s
  /\ activeScopeToken' = s
  /\ Goto(s, "body")
  /\ UNCHANGED <<chain, bornIn, stuckError, pending, committed, wrote>>

\* Mutant of BodyWrite: the body makes one write too many.
BodyWriteOnceMore(s) ==
  /\ at[s] = "body"
  /\ wrote[s] <= Writes
  /\ wrote' = [wrote EXCEPT ![s] = @ + 1]
  /\ Execute(<<s, wrote[s] + 1>>)
  /\ UNCHANGED <<chain, at, helper>>

\* A write of the body through tx.
BodyWrite(s) ==
  /\ at[s] = "body"
  /\ wrote[s] < Writes
  /\ wrote' = [wrote EXCEPT ![s] = @ + 1]
  /\ Execute(<<s, wrote[s] + 1>>)
  /\ UNCHANGED <<chain, at, helper>>

\* The body starts a statement and does not await it.
BodySpawns(s, b) ==
  /\ at[s] = "body"
  /\ at[b] = "idle"
  /\ bornIn' = [bornIn EXCEPT ![b] = s]
  /\ Goto(b, "born")
  /\ UNCHANGED <<chain, activeScopeToken, stuckError, connection, wrote>>

\* A statement fails, or the body itself throws.
BodyThrows(s) ==
  /\ at[s] = "body"
  /\ Goto(s, "rolling")
  /\ UNCHANGED <<chain, helper, connection, wrote>>

Commit(s) ==
  /\ at[s] = "body"
  /\ wrote[s] = Writes
  /\ committed' = committed \cup pending
  /\ openTx' = NoScope /\ pending' = {}
  /\ Goto(s, "committed")
  /\ UNCHANGED <<chain, helper, wrote>>

\* Mutant of CommitFails: its error is swallowed.
CommitFailsSilently(s) ==
  /\ at[s] = "body"
  /\ wrote[s] = Writes
  /\ Goto(s, "committed")
  /\ UNCHANGED <<chain, helper, connection, wrote>>

CommitFails(s) ==
  /\ at[s] = "body"
  /\ wrote[s] = Writes
  /\ Goto(s, "rolling")
  /\ UNCHANGED <<chain, helper, connection, wrote>>

Rollback(s) ==
  /\ at[s] = "rolling"
  /\ Discard
  /\ Goto(s, "rolledBack")
  /\ UNCHANGED <<chain, helper, wrote>>

\* The transaction stays open, or SQLite had ended it by itself.
RollbackFails(s) ==
  /\ at[s] = "rolling"
  /\ stuckError' = TRUE
  /\ Discard \/ UNCHANGED connection
  /\ Goto(s, "rolledBack")
  /\ UNCHANGED <<chain, bornIn, activeScopeToken, wrote>>

\* Both finally blocks: the token goes, the next call has its turn.
Close(s) ==
  /\ at[s] \in {"committed", "rolledBack"}
  /\ activeScopeToken' = NoScope
  /\ Release(s)
  /\ Goto(s, IF at[s] = "committed" THEN "returned" ELSE "failed")
  /\ UNCHANGED <<bornIn, stuckError, connection, wrote>>

-----------------------------------------------------------------------------
\* The gated statements

\* Called from outside any scope.
CallOutside(b) ==
  /\ at[b] = "idle"
  /\ JoinChain(b)
  /\ Goto(b, "waiting")
  /\ UNCHANGED <<helper, connection, wrote>>

\* Mutant of InScope: some scope is open, no matter which.
SomeScopeOpen(b) == activeScopeToken # NoScope

\* The async context is that of the open scope.
InScope(b) == bornIn[b] = activeScopeToken /\ activeScopeToken # NoScope

\* Born in a scope that is over: it lines up like any other.
CallLate(b) ==
  /\ at[b] = "born"
  /\ ~InScope(b)
  /\ JoinChain(b)
  /\ Goto(b, "waiting")
  /\ UNCHANGED <<helper, connection, wrote>>

RunInScope(b) ==
  /\ at[b] = "born"
  /\ InScope(b)
  /\ Execute(<<b, 1>>)
  /\ Goto(b, "returned")
  /\ UNCHANGED <<chain, helper, wrote>>

RunGated(b) ==
  /\ HasTurn(b)
  /\ Execute(<<b, 1>>)
  /\ Release(b)
  /\ Goto(b, "returned")
  /\ UNCHANGED <<helper, wrote>>

StatementFails(b) ==
  /\ \/ at[b] = "born" /\ InScope(b) /\ UNCHANGED chain
     \/ HasTurn(b) /\ Release(b)
  /\ Goto(b, "failed")
  /\ UNCHANGED <<helper, connection, wrote>>

-----------------------------------------------------------------------------
\* The process dies and comes up again: the transaction is rolled back, what
\* was committed is there.
Crash ==
  /\ \E c \in Call : at[c] \notin Ended \cup {"idle"}
  /\ at' = [c \in Call |-> IF at[c] \in Ended \cup {"idle"} THEN at[c] ELSE "crashed"]
  /\ mutex' = 0 /\ resolved' = {0} /\ promise' = [c \in Call |-> 0]
  /\ activeScopeToken' = NoScope /\ stuckError' = FALSE
  /\ Discard
  /\ UNCHANGED <<bornIn, wrote>>

ScopeStep(s) ==
  \/ ScopeRefused(s) \/ Begin(s) \/ BodyWrite(s) \/ BodyThrows(s)
  \/ Commit(s) \/ CommitFails(s) \/ Rollback(s) \/ RollbackFails(s) \/ Close(s)

StatementStep(b) ==
  CallLate(b) \/ RunInScope(b) \/ RunGated(b) \/ StatementFails(b)

Next ==
  \/ \E s \in Scope : WithTransaction(s) \/ ScopeStep(s)
  \/ \E s \in Scope, b \in Statement : BodySpawns(s, b)
  \/ \E b \in Statement : CallOutside(b) \/ StatementStep(b)
  \/ Crash

Spec == Init /\ [][Next]_vars

\* Awaits settle, whatever they settle to, and bodies come to an end.
Fairness ==
  /\ \A s \in Scope : WF_vars(ScopeStep(s))
  /\ \A b \in Statement : WF_vars(StatementStep(b))

FairSpec == Spec /\ Fairness

-----------------------------------------------------------------------------
\* Properties

\* The calls that hold the chain.
Holding ==
  {c \in Call : HasTurn(c) \/ at[c] \in {"body", "rolling", "committed", "rolledBack"}}

\* Who made a write: for a statement, the scope it was born in.
Maker(w) == IF w[1] \in Scope THEN w[1] ELSE bornIn[w[1]]

\* A transaction holds only writes of its own scope: no timer or socket
\* writes into a transaction it does not belong to, and none is destroyed by
\* a foreign ROLLBACK (the gate of ADR-0029).  A stuck helper is excepted.
ForeignWritesStayOut ==
  stuckError \/ \A w \in pending : Maker(w) = openTx

\* A scope is all or nothing: every write of its body is committed, or none
\* is, and the outcome its caller sees says which (withTransaction; the
\* money flow of purchase, sale, transfer and of addPoints rests on it).
ScopesAreAtomic ==
  \A s \in Scope :
    /\ BodyWrites(s) \subseteq committed \/ BodyWrites(s) \cap committed = {}
    /\ at[s] = "returned" => BodyWrites(s) \subseteq committed
    /\ at[s] = "failed" => BodyWrites(s) \cap committed = {}

\* Every call on the chain returns or throws: each of its error paths passes
\* release(), else all later statements of the server would hang.
EveryCallReturns == \A c \in Call : at[c] = "waiting" ~> at[c] \in Ended

\* A statement from outside any scope that returned is in the database, and
\* no failing scope can destroy it.
StuckConnectionsAreLeftAlone ==
  \A b \in Statement :
    at[b] = "returned" /\ bornIn[b] = NoScope => <<b, 1>> \in committed

-----------------------------------------------------------------------------
\* The abstract store

Store == INSTANCE AtomicStore WITH
  stored <- committed,
  outcome <- [c \in Call |-> IF at[c] \in Ended THEN at[c] ELSE "open"],
  inside <- bornIn,
  stuck <- stuckError

\* Behind the chain, BEGIN, COMMIT and ROLLBACK of one shared connection, the
\* callers of transaction.js see an atomic store: a scope's writes appear in
\* one step with those of the statements that joined it, or never; all other
\* statements are in the database when they return, unless the helper is
\* stuck; and what a caller is told is true, crash or no crash.
ImplementsAtomicStore == Store!Spec
=============================================================================
