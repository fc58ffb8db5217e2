---------------------------- MODULE TxGateProofs ----------------------------
(***************************************************************************)
(* The gate's safety, for any sets of scopes and statements and any number *)
(* of writes.                                                              *)
(*                                                                         *)
(* The argument.  Promises are resolved in the order they were made, so at *)
(* most one call has its turn (OneHolder).  Hence while a scope is open,   *)
(* whatever joins its transaction comes from the scope or from a statement *)
(* of its async context; its COMMIT makes exactly its own writes durable   *)
(* and its ROLLBACK destroys no other.                                     *)
(***************************************************************************)
EXTENDS TxGate, TLAPS

Open == {"body", "rolling"}
Active == {"body", "rolling", "committed", "rolledBack"}
Successful == {"committed", "returned"}

-----------------------------------------------------------------------------
\* The inductive invariant

\* The resolved promises are the first ones; a call on the chain has its own
\* unresolved, and a scope at work has the one before it resolved.
TurnsInOrder ==
  /\ 0 \in resolved
  /\ \A i \in resolved : i <= mutex
  /\ \A i \in resolved : \A j \in 0..i : j \in resolved
  /\ \A c \in Call : promise[c] <= mutex
  /\ \A c, d \in Call : c # d /\ promise[c] = promise[d] => promise[c] = 0
  /\ \A c \in Call : at[c] \in Active \cup {"waiting"} => promise[c] \notin resolved
  /\ \A c \in Call : at[c] \in Active => promise[c] - 1 \in resolved

\* The open transaction is that of the scope at work, unless the helper is
\* stuck; the token names that scope.
TransactionHasItsScope ==
  /\ openTx = NoScope => pending = {}
  /\ openTx # NoScope => stuckError \/ at[openTx] \in Open
  /\ \A s \in Scope : at[s] \in Open => openTx = s /\ ~stuckError
  /\ \A s \in Scope : at[s] \in Active => activeScopeToken = s
  /\ \A b \in Statement : <<b, 1>> \in pending => at[b] = "returned"

\* What a scope has written is where its phase says.
WritesFollowTheScope ==
  \A s \in Scope :
    /\ at[s] \in {"idle", "waiting"} => wrote[s] = 0
    /\ at[s] = "body" => {s} \X (1..wrote[s]) \subseteq pending
    /\ at[s] \notin Successful \cup {"crashed"} => BodyWrites(s) \cap committed = {}
    /\ at[s] \in Successful => BodyWrites(s) \subseteq committed
    /\ BodyWrites(s) \subseteq committed \/ BodyWrites(s) \cap committed = {}

Inductive ==
  TurnsInOrder /\ TransactionHasItsScope /\ ForeignWritesStayOut /\ WritesFollowTheScope

-----------------------------------------------------------------------------
\* The state is well typed.
THEOREM GateTypeCorrect == Spec => []TypeOK
<1> USE CallAssumption, WritesAssumption
<1>1. Init => TypeOK
  <2> SUFFICES ASSUME Init PROVE TypeOK
    OBVIOUS
  <2>1. stuckError \in BOOLEAN
    BY Zenon DEF Init
  <2> QED BY <2>1 DEF Init, TypeOK, Phase, Call
<1>2. ASSUME TypeOK, [Next]_vars PROVE TypeOK'
  <2> USE <1>2 DEF TypeOK, Phase, Ended, Write, chain, connection, helper,
        Goto, JoinChain, Release, HasTurn, Discard, Execute
  <2>1. Scope \subseteq Call /\ Statement \subseteq Call
    BY DEF Call
  <2>2. stuckError' \in BOOLEAN
    <3> USE DEF helper
    <3>1. stuckError' \in {stuckError, TRUE, FALSE}
      BY <1>2, Zenon DEF Next, ScopeStep, StatementStep, WithTransaction, ScopeRefused, Begin,
        BodyWrite, BodySpawns, BodyThrows, Commit, CommitFails, Rollback, RollbackFails,
        Close, CallOutside, CallLate, RunInScope, RunGated, StatementFails, Crash, vars
    <3> QED BY <3>1, Zenon
  <2> USE <2>1
  <2>3. ASSUME NEW s \in Scope, WithTransaction(s) PROVE TypeOK'
    BY <2>3 DEF WithTransaction
  <2>4. ASSUME NEW s \in Scope, ScopeStep(s) PROVE TypeOK'
    <3>1. CASE ScopeRefused(s)
      BY <3>1, ZenonT(40) DEF ScopeRefused
    <3>2. CASE Begin(s)
      BY <2>2, <3>2 DEF Begin
    <3>3. CASE BodyWrite(s)
      <4>1. wrote[s] + 1 \in 1..Writes
        BY <3>3 DEF BodyWrite
      <4> QED BY <3>3, <4>1 DEF BodyWrite
    <3>4. CASE BodyThrows(s) \/ Commit(s) \/ CommitFails(s)
      BY <3>4 DEF BodyThrows, Commit, CommitFails
    <3>5. CASE Rollback(s) \/ RollbackFails(s)
      BY <2>2, <3>5 DEF Rollback, RollbackFails
    <3>6. CASE Close(s)
      BY <3>6, ZenonT(40) DEF Close
    <3> QED BY <2>4, <3>1, <3>2, <3>3, <3>4, <3>5, <3>6 DEF ScopeStep
  <2>5. ASSUME NEW s \in Scope, NEW b \in Statement, BodySpawns(s, b) PROVE TypeOK'
    BY <2>5 DEF BodySpawns
  <2>6. ASSUME NEW b \in Statement, CallOutside(b) \/ StatementStep(b) PROVE TypeOK'
    <3>1. <<b, 1>> \in Write
      OBVIOUS
    <3>2. CASE CallOutside(b)
      BY <3>2 DEF CallOutside
    <3>3. CASE CallLate(b)
      BY <3>3 DEF CallLate
    <3>4. CASE RunInScope(b)
      BY <3>1, <3>4 DEF RunInScope
    <3>5. CASE RunGated(b)
      <4>1. promise[b] \in Nat
        OBVIOUS
      <4>2. /\ mutex' \in Nat /\ resolved' \subseteq Nat
            /\ promise' \in [Call -> Nat] /\ at' \in [Call -> Phase]
        BY <3>5, <4>1 DEF RunGated
      <4>3. /\ openTx' = openTx /\ pending' \subseteq Write /\ committed' \subseteq Write
            /\ UNCHANGED <<helper, wrote>>
        BY <3>1, <3>5 DEF RunGated
      <4> QED BY <4>2, <4>3
    <3>6. CASE StatementFails(b)
      BY <3>6 DEF StatementFails
    <3> QED BY <2>6, <3>2, <3>3, <3>4, <3>5, <3>6 DEF StatementStep
  <2>7. CASE Crash
    BY <2>2, <2>7 DEF Crash
  <2>8. CASE UNCHANGED vars
    BY <2>8 DEF vars
  <2> QED BY <1>2, <2>3, <2>4, <2>5, <2>6, <2>7, <2>8 DEF Next
<1> QED BY <1>1, <1>2, PTL DEF Spec

-----------------------------------------------------------------------------
\* The chain

\* At most one call holds the chain: an open scope has the connection to
\* itself, but for the statements it let in.
LEMMA OneHolder ==
  ASSUME TypeOK, TurnsInOrder,
         NEW c \in Call, c \in Holding,
         NEW d \in Call, d \in Holding
  PROVE  c = d
<1>1. /\ promise[c] \in Nat /\ promise[d] \in Nat
      /\ promise[c] - 1 \in resolved /\ promise[d] - 1 \in resolved
      /\ promise[c] \notin resolved /\ promise[d] \notin resolved
  BY DEF TypeOK, TurnsInOrder, Holding, HasTurn, Active
<1>2. \A i \in resolved : \A j \in 0..i : j \in resolved
  BY DEF TurnsInOrder
<1>3. promise[c] = promise[d]
  <2>1. ~(promise[c] <= promise[d] - 1)
    BY <1>1, <1>2
  <2>2. ~(promise[d] <= promise[c] - 1)
    BY <1>1, <1>2
  <2> QED BY <1>1, <2>1, <2>2
<1>4. promise[c] # 0
  BY <1>1 DEF TurnsInOrder
<1> QED BY <1>3, <1>4 DEF TurnsInOrder

\* What a step does to the chain: a call joins it, a call that holds it
\* leaves it, nothing, or the process starts anew.
Joins(c) == at[c] \in {"idle", "born"} /\ JoinChain(c) /\ Goto(c, "waiting")
Leaves(c) ==
  /\ c \in Holding
  /\ Release(c)
  /\ \E phase \in Ended : Goto(c, phase)
Moves(c) ==
  /\ UNCHANGED chain
  /\ \E phase \in Phase \ {"waiting"} :
       /\ Goto(c, phase)
       /\ phase \in Active => c \in Holding
       /\ at[c] \in Active \cup {"waiting"} => phase \in Active

LEMMA ChainEffect ==
  ASSUME TypeOK, [Next]_vars
  PROVE  \/ \E c \in Call : Joins(c) \/ Leaves(c) \/ Moves(c)
         \/ UNCHANGED <<chain, at>>
         \/ Crash
<1> DEFINE P == \/ \E c \in Call : Joins(c) \/ Leaves(c) \/ Moves(c)
                \/ UNCHANGED <<chain, at>>
<1>1. ASSUME NEW s \in Scope, WithTransaction(s) PROVE P
  BY <1>1 DEF WithTransaction, Joins, Call
<1>2. ASSUME NEW s \in Scope, ScopeRefused(s) \/ Close(s) PROVE P
  BY <1>2 DEF ScopeRefused, Close, Leaves, Call, Holding, Ended
<1>3. ASSUME NEW s \in Scope, Begin(s) PROVE P
  BY <1>3 DEF Begin, Moves, Call, Holding, Phase, Active, chain
<1>4. ASSUME NEW s \in Scope, BodyWrite(s) PROVE P
  BY <1>4 DEF BodyWrite
<1>5. ASSUME NEW s \in Scope, BodyThrows(s) \/ Commit(s) \/ CommitFails(s) PROVE P
  BY <1>5 DEF BodyThrows, Commit, CommitFails, Moves, Call, Holding, Phase, Active, chain
<1>6. ASSUME NEW s \in Scope, Rollback(s) \/ RollbackFails(s) PROVE P
  BY <1>6 DEF Rollback, RollbackFails, Moves, Call, Holding, Phase, Active, chain
<1>7. ASSUME NEW s \in Scope, NEW b \in Statement, BodySpawns(s, b) PROVE P
  BY <1>7 DEF BodySpawns, Moves, Call, Phase, Active, chain
<1>8. ASSUME NEW b \in Statement, CallOutside(b) \/ CallLate(b) PROVE P
  BY <1>8 DEF CallOutside, CallLate, Joins, Call
<1>9. ASSUME NEW b \in Statement, RunInScope(b) PROVE P
  BY <1>9 DEF RunInScope, Moves, Call, Phase, Ended, Active, chain
<1>10. ASSUME NEW b \in Statement, RunGated(b) PROVE P
  BY <1>10 DEF RunGated, Leaves, Call, Holding, Ended
<1>11. ASSUME NEW b \in Statement, StatementFails(b) PROVE P
  BY <1>11 DEF StatementFails, Leaves, Moves, Call, Holding, Phase, Ended, Active, chain
<1>12. CASE UNCHANGED vars
  BY <1>12 DEF vars
<1> QED
  BY <1>1, <1>2, <1>3, <1>4, <1>5, <1>6, <1>7, <1>8, <1>9, <1>10, <1>11, <1>12
  DEF Next, ScopeStep, StatementStep

\* Calls have their turns in the order in which they came.
LEMMA ChainStep ==
  ASSUME TypeOK, TurnsInOrder, [Next]_vars PROVE TurnsInOrder'
<1> USE DEF TurnsInOrder, TypeOK, Active
<1>1. ASSUME NEW c \in Call, Joins(c) PROVE TurnsInOrder'
  BY <1>1 DEF Joins, JoinChain, Goto
<1>2. ASSUME NEW c \in Call, Leaves(c) PROVE TurnsInOrder'
  <2>1. /\ promise[c] \in Nat /\ promise[c] - 1 \in resolved /\ promise[c] \notin resolved
        /\ resolved' = resolved \cup {promise[c]}
        /\ UNCHANGED <<mutex, promise>>
    BY <1>2 DEF Leaves, Release, Holding, HasTurn
  <2>2. /\ 0 \in resolved'
        /\ \A i \in resolved' : i <= mutex'
        /\ \A i \in resolved' : \A j \in 0..i : j \in resolved'
    BY <2>1
  <2>3. /\ \A d \in Call : promise'[d] <= mutex'
        /\ \A d, e \in Call : d # e /\ promise'[d] = promise'[e] => promise'[d] = 0
    BY <2>1
  <2>4. ASSUME NEW d \in Call, at'[d] \in Active \cup {"waiting"} PROVE promise'[d] \notin resolved'
    BY <1>2, <2>1, <2>4 DEF Leaves, Goto, Ended
  <2>5. ASSUME NEW d \in Call, at'[d] \in Active PROVE promise'[d] - 1 \in resolved'
    BY <1>2, <2>1, <2>5 DEF Leaves, Goto, Ended
  <2> QED BY <2>2, <2>3, <2>4, <2>5
<1>3. ASSUME NEW c \in Call, Moves(c) PROVE TurnsInOrder'
  BY <1>3 DEF Moves, chain, Goto, Holding, HasTurn
<1>4. CASE UNCHANGED <<chain, at>>
  BY <1>4 DEF chain
<1>5. CASE Crash
  BY <1>5 DEF Crash, Ended
<1> QED BY <1>1, <1>2, <1>3, <1>4, <1>5, ChainEffect

\* The resolved promises are the first so many, and behind each of the others
\* is a call that has still to resolve it.
TurnsAreGiven ==
  /\ \E n \in Nat : n <= mutex /\ resolved = 0..n
  /\ \A i \in 1..mutex :
       i \in resolved \/ \E c \in Call : promise[c] = i /\ at[c] \in Active \cup {"waiting"}

LEMMA TurnsStep ==
  ASSUME TypeOK, TurnsInOrder, TurnsAreGiven, [Next]_vars PROVE TurnsAreGiven'
<1>0. PICK n \in Nat : n <= mutex /\ resolved = 0..n
  BY DEF TurnsAreGiven
<1> USE DEF TurnsAreGiven, TypeOK, Active
<1>1. ASSUME NEW c \in Call, Joins(c) PROVE TurnsAreGiven'
  <2>1. /\ at[c] \in {"idle", "born"}
        /\ mutex' = mutex + 1 /\ resolved' = resolved
        /\ promise' = [promise EXCEPT ![c] = mutex + 1]
        /\ at' = [at EXCEPT ![c] = "waiting"]
    BY <1>1 DEF Joins, JoinChain, Goto
  <2>2. ASSUME NEW i \in 1..mutex', i \notin resolved'
        PROVE  \E d \in Call : promise'[d] = i /\ at'[d] \in Active \cup {"waiting"}
    <3>1. CASE i = mutex + 1
      BY <2>1, <3>1
    <3>2. CASE i \in 1..mutex
      <4>1. PICK d \in Call : promise[d] = i /\ at[d] \in Active \cup {"waiting"}
        BY <2>1, <2>2, <3>2
      <4> QED BY <2>1, <4>1
    <3> QED BY <2>1, <2>2, <3>1, <3>2
  <2>3. n <= mutex' /\ resolved' = 0..n
    BY <1>0, <2>1
  <2> QED BY <2>2, <2>3
<1>2. ASSUME NEW c \in Call, Leaves(c) PROVE TurnsAreGiven'
  <2>1. /\ promise[c] \in Nat /\ promise[c] - 1 \in resolved /\ promise[c] \notin resolved
        /\ promise[c] <= mutex
        /\ resolved' = resolved \cup {promise[c]}
        /\ UNCHANGED <<mutex, promise>>
        /\ \A d \in Call : d # c => at'[d] = at[d]
    BY <1>2 DEF Leaves, Release, Holding, HasTurn, TurnsInOrder, Goto
  <2>2. n + 1 <= mutex' /\ resolved' = 0..(n + 1)
    BY <1>0, <2>1
  <2>3. ASSUME NEW i \in 1..mutex', i \notin resolved'
        PROVE  \E d \in Call : promise'[d] = i /\ at'[d] \in Active \cup {"waiting"}
    <3>1. PICK d \in Call : promise[d] = i /\ at[d] \in Active \cup {"waiting"}
      BY <2>1, <2>3
    <3> QED BY <2>1, <2>3, <3>1
  <2> QED BY <2>2, <2>3
<1>3. ASSUME NEW c \in Call, Moves(c) PROVE TurnsAreGiven'
  <2>1. /\ UNCHANGED <<mutex, resolved, promise>>
        /\ \A d \in Call : at[d] \in Active \cup {"waiting"} => at'[d] \in Active \cup {"waiting"}
    BY <1>3 DEF Moves, chain, Goto
  <2> QED BY <2>1
<1>4. CASE UNCHANGED <<chain, at>>
  BY <1>4 DEF chain
<1>5. CASE Crash
  <2>1. mutex' = 0 /\ resolved' = 0..0
    BY <1>5 DEF Crash
  <2> QED BY <2>1
<1> QED BY <1>1, <1>2, <1>3, <1>4, <1>5, ChainEffect

\* A call that waits is behind one that does not: the call next to the last
\* resolved promise holds the chain, and came no later.
ChainIsHeld ==
  \A c \in Call : at[c] = "waiting" => \E d \in Holding : promise[d] <= promise[c]

LEMMA SomebodyHolds ==
  ASSUME TypeOK, TurnsInOrder, TurnsAreGiven PROVE ChainIsHeld
<1> SUFFICES ASSUME NEW c \in Call, at[c] = "waiting"
             PROVE  \E d \in Holding : promise[d] <= promise[c]
  BY DEF ChainIsHeld
<1>1. PICK n \in Nat : n <= mutex /\ resolved = 0..n
  BY DEF TurnsAreGiven
<1>2. promise[c] \in Nat /\ promise[c] <= mutex /\ promise[c] \notin resolved /\ mutex \in Nat
  BY DEF TypeOK, TurnsInOrder
<1>3. n + 1 \in 1..mutex /\ n + 1 \notin resolved /\ n + 1 <= promise[c]
  BY <1>1, <1>2
<1>4. PICK d \in Call : promise[d] = n + 1 /\ at[d] \in Active \cup {"waiting"}
  BY <1>3 DEF TurnsAreGiven
<1>5. promise[d] - 1 \in resolved
  BY <1>1, <1>4
<1> QED BY <1>3, <1>4, <1>5 DEF Holding, HasTurn, Active

-----------------------------------------------------------------------------
\* The connection

\* While a call has its turn no scope is at work; a scope at work is alone.
LEMMA Alone ==
  ASSUME TypeOK, TurnsInOrder
  PROVE  /\ \A c \in Call : HasTurn(c) => \A s \in Scope : at[s] \notin Active
         /\ \A s, t \in Scope : at[s] \in Active /\ at[t] \in Active => s = t
<1>1. ASSUME NEW c \in Call, HasTurn(c), NEW s \in Scope, at[s] \in Active PROVE FALSE
  <2>1. c \in Holding /\ s \in Holding /\ s \in Call
    BY <1>1 DEF Holding, Active, Call
  <2>2. c = s
    BY <2>1, OneHolder
  <2> QED BY <1>1, <2>2 DEF HasTurn, Active
<1>2. ASSUME NEW s \in Scope, NEW t \in Scope, at[s] \in Active, at[t] \in Active PROVE s = t
  <2>1. s \in Holding /\ s \in Call /\ t \in Holding /\ t \in Call
    BY <1>2 DEF Holding, Active, Call
  <2> QED BY <2>1, OneHolder
<1> QED BY <1>1, <1>2

\* The transaction stays with the scope at work.
LEMMA TransactionStep ==
  ASSUME TypeOK, TurnsInOrder, TransactionHasItsScope, [Next]_vars
  PROVE  TransactionHasItsScope'
<1> USE CallAssumption DEF TransactionHasItsScope, TypeOK, Open, Active, Goto, Call
<1>1. ASSUME NEW s \in Scope, WithTransaction(s) PROVE TransactionHasItsScope'
  BY <1>1 DEF WithTransaction, helper, connection
<1>2. ASSUME NEW s \in Scope, ScopeRefused(s) PROVE TransactionHasItsScope'
  BY <1>2 DEF ScopeRefused, helper, connection, HasTurn
<1>3. ASSUME NEW s \in Scope, Begin(s) PROVE TransactionHasItsScope'
  BY <1>3, Alone DEF Begin
<1>4. ASSUME NEW s \in Scope, BodyWrite(s) PROVE TransactionHasItsScope'
  BY <1>4 DEF BodyWrite, Execute, helper
<1>5. ASSUME NEW s \in Scope, BodyThrows(s) \/ CommitFails(s) PROVE TransactionHasItsScope'
  BY <1>5 DEF BodyThrows, CommitFails, helper, connection
<1>6. ASSUME NEW s \in Scope, Commit(s) \/ Rollback(s) PROVE TransactionHasItsScope'
  BY <1>6 DEF Commit, Rollback, Discard, helper
<1>7. ASSUME NEW s \in Scope, RollbackFails(s) PROVE TransactionHasItsScope'
  BY <1>7, Alone DEF RollbackFails, Discard, connection
<1>8. ASSUME NEW s \in Scope, Close(s) PROVE TransactionHasItsScope'
  BY <1>8, Alone DEF Close, connection
<1>9. ASSUME NEW s \in Scope, NEW b \in Statement, BodySpawns(s, b) PROVE TransactionHasItsScope'
  BY <1>9 DEF BodySpawns, connection
<1>10. ASSUME NEW b \in Statement, CallOutside(b) \/ CallLate(b) PROVE TransactionHasItsScope'
  BY <1>10 DEF CallOutside, CallLate, helper, connection
<1>11. ASSUME NEW b \in Statement, RunInScope(b) PROVE TransactionHasItsScope'
  BY <1>11 DEF RunInScope, Execute, helper
<1>12. ASSUME NEW b \in Statement, RunGated(b) PROVE TransactionHasItsScope'
  BY <1>12 DEF RunGated, HasTurn, Execute, helper
<1>13. ASSUME NEW b \in Statement, StatementFails(b) PROVE TransactionHasItsScope'
  BY <1>13 DEF StatementFails, HasTurn, helper, connection
<1>14. CASE Crash
  BY <1>14 DEF Crash, Discard, Ended
<1>15. CASE UNCHANGED vars
  BY <1>15 DEF vars, helper, connection
<1> QED
  BY <1>1, <1>2, <1>3, <1>4, <1>5, <1>6, <1>7, <1>8, <1>9, <1>10, <1>11, <1>12,
     <1>13, <1>14, <1>15 DEF Next, ScopeStep, StatementStep

\* No step puts a foreign write into the transaction of a scope.
LEMMA ForeignWritesStep ==
  ASSUME TypeOK, TurnsInOrder, TransactionHasItsScope, ForeignWritesStayOut, [Next]_vars
  PROVE  ForeignWritesStayOut'
<1> DEFINE Same == UNCHANGED <<stuckError, openTx, bornIn, pending>>
           Dropped == pending' = {}
<1> USE CallAssumption DEF ForeignWritesStayOut
<1>1. CASE Same
  BY <1>1 DEF Maker
<1>2. CASE Dropped
  BY <1>2
<1>3. ASSUME NEW s \in Scope, Begin(s) PROVE Dropped
  BY <1>3 DEF Begin, TransactionHasItsScope
<1>4. ASSUME NEW s \in Scope, BodyWrite(s) PROVE ForeignWritesStayOut'
  BY <1>4 DEF BodyWrite, Execute, Maker, helper, TransactionHasItsScope, Open
<1>5. ASSUME NEW s \in Scope, NEW b \in Statement, BodySpawns(s, b) PROVE ForeignWritesStayOut'
  <2>1. /\ at[b] = "idle" /\ UNCHANGED <<stuckError, openTx, pending>>
        /\ bornIn' = [bornIn EXCEPT ![b] = s]
    BY <1>5 DEF BodySpawns, connection
  <2>2. ASSUME NEW w \in pending PROVE w[1] # b
    BY <2>1, <2>2 DEF TypeOK, Write, TransactionHasItsScope
  <2>3. ASSUME NEW w \in pending PROVE Maker(w)' = Maker(w)
    BY <2>1, <2>2, <2>3 DEF Maker, TypeOK, Write
  <2> QED BY <2>1, <2>3
<1>6. ASSUME NEW s \in Scope, RollbackFails(s) PROVE ForeignWritesStayOut'
  BY <1>6 DEF RollbackFails
<1>7. ASSUME NEW b \in Statement, RunInScope(b) PROVE ForeignWritesStayOut'
  <2>1. /\ UNCHANGED <<stuckError, bornIn>>
        /\ Execute(<<b, 1>>)
        /\ bornIn[b] = activeScopeToken
    BY <1>7 DEF RunInScope, InScope, helper
  <2>2. CASE openTx = NoScope
    BY <2>1, <2>2 DEF Execute, Maker
  <2>3. CASE openTx # NoScope
    <3>1. stuckError \/ openTx = activeScopeToken
      BY <2>3 DEF TransactionHasItsScope, TypeOK, Open, Active
    <3>2. Maker(<<b, 1>>) = activeScopeToken
      BY <2>1 DEF Maker
    <3>3. \A w : Maker(w)' = Maker(w)
      BY <2>1 DEF Maker
    <3>4. pending' = pending \cup {<<b, 1>>} /\ openTx' = openTx
      BY <2>1, <2>3 DEF Execute
    <3> QED BY <2>1, <3>1, <3>2, <3>3, <3>4
  <2> QED BY <2>2, <2>3
<1>8. ASSUME NEW b \in Statement, RunGated(b) PROVE ForeignWritesStayOut'
  <2>1. HasTurn(b) /\ Execute(<<b, 1>>) /\ UNCHANGED <<stuckError, bornIn>>
    BY <1>8 DEF RunGated, helper
  <2>2. stuckError \/ openTx = NoScope
    BY <2>1, Alone DEF TransactionHasItsScope, TypeOK, Call, Open, Active
  <2> QED BY <2>1, <2>2 DEF Execute, Maker
<1>9. ASSUME NEW s \in Scope, Commit(s) \/ Rollback(s) PROVE Dropped
  BY <1>9 DEF Commit, Rollback, Discard
<1>10. CASE Crash
  BY <1>10 DEF Crash, Discard
<1>11. ASSUME NEW s \in Scope, WithTransaction(s) \/ ScopeRefused(s) \/ BodyThrows(s)
                               \/ CommitFails(s) \/ Close(s)
       PROVE  Same
  BY <1>11 DEF WithTransaction, ScopeRefused, BodyThrows, CommitFails, Close, helper, connection
<1>12. ASSUME NEW b \in Statement, CallOutside(b) \/ CallLate(b) \/ StatementFails(b)
       PROVE  Same
  BY <1>12 DEF CallOutside, CallLate, StatementFails, helper, connection
<1>13. CASE UNCHANGED vars
  BY <1>13, <1>1 DEF vars, helper, connection
<1> QED
  BY <1>1, <1>2, <1>3, <1>4, <1>5, <1>6, <1>7, <1>8, <1>9, <1>10, <1>11, <1>12, <1>13
  DEF Next, ScopeStep, StatementStep

\* A statement's write is no write of a scope's body.
LEMMA StatementWritesAreApart ==
  ASSUME NEW b \in Statement, NEW s \in Scope
  PROVE  <<b, 1>> \notin BodyWrites(s)
BY CallAssumption DEF BodyWrites

\* The writes of a scope stay together.
LEMMA WritesStep ==
  ASSUME TypeOK, TurnsInOrder, TransactionHasItsScope, ForeignWritesStayOut,
         WritesFollowTheScope, [Next]_vars
  PROVE  WritesFollowTheScope'
<1> SUFFICES ASSUME NEW t \in Scope
             PROVE /\ at'[t] \in {"idle", "waiting"} => wrote'[t] = 0
                   /\ at'[t] = "body" => {t} \X (1..wrote'[t]) \subseteq pending'
                   /\ at'[t] \notin Successful \cup {"crashed"}
                        => BodyWrites(t) \cap committed' = {}
                   /\ at'[t] \in Successful => BodyWrites(t) \subseteq committed'
                   /\ \/ BodyWrites(t) \subseteq committed'
                      \/ BodyWrites(t) \cap committed' = {}
  BY DEF WritesFollowTheScope, BodyWrites
<1> DEFINE
  Goal == /\ at'[t] \in {"idle", "waiting"} => wrote'[t] = 0
          /\ at'[t] = "body" => {t} \X (1..wrote'[t]) \subseteq pending'
          /\ at'[t] \notin Successful \cup {"crashed"} => BodyWrites(t) \cap committed' = {}
          /\ at'[t] \in Successful => BodyWrites(t) \subseteq committed'
          /\ BodyWrites(t) \subseteq committed' \/ BodyWrites(t) \cap committed' = {}
  Before == /\ at[t] \in {"idle", "waiting"} => wrote[t] = 0
            /\ at[t] = "body" => {t} \X (1..wrote[t]) \subseteq pending
            /\ at[t] \notin Successful \cup {"crashed"} => BodyWrites(t) \cap committed = {}
            /\ at[t] \in Successful => BodyWrites(t) \subseteq committed
            /\ BodyWrites(t) \subseteq committed \/ BodyWrites(t) \cap committed = {}
<1>0. /\ Before
      /\ t \in Call /\ at \in [Call -> Phase] /\ wrote \in [Scope -> 0..Writes]
      /\ Scope \subseteq Call /\ Statement \subseteq Call
      /\ \A b \in Statement : b # t
  BY CallAssumption DEF WritesFollowTheScope, TypeOK, Call
\* Steps that write nothing.
<1>1. ASSUME NEW c \in Call, NEW phase, Goto(c, phase),
             UNCHANGED <<pending, committed, wrote>>,
             c = t => /\ phase \in {"idle", "waiting"} => at[t] \in {"idle", "waiting"}
                      /\ phase = "body" => at[t] \in {"body", "waiting"}
                      /\ phase \in Successful <=> at[t] \in Successful
                      /\ at[t] # "crashed"
      PROVE  Goal
  BY <1>0, <1>1 DEF Goto, Successful
<1>2. ASSUME NEW s \in Scope, WithTransaction(s) \/ ScopeRefused(s) \/ Begin(s)
                              \/ BodyThrows(s) \/ CommitFails(s) \/ Close(s)
      PROVE  Goal
  <2>1. UNCHANGED <<pending, committed, wrote>>
    BY <1>2 DEF WithTransaction, ScopeRefused, Begin, BodyThrows, CommitFails, Close, connection
  <2>2. PICK phase : /\ Goto(s, phase)
                     /\ phase = "waiting" => at[s] = "idle"
                     /\ phase = "body" => at[s] = "waiting"
                     /\ phase \in Successful <=> at[s] \in Successful
                     /\ phase # "idle" /\ at[s] # "crashed"
    BY <1>2 DEF WithTransaction, ScopeRefused, Begin, BodyThrows, CommitFails, Close,
                HasTurn, Successful
  <2> QED BY <1>0, <1>1, <2>1, <2>2
<1>3. ASSUME NEW b \in Statement, NEW phase, Goto(b, phase),
             UNCHANGED <<pending, committed, wrote>>
      PROVE  Goal
  BY <1>0, <1>1, <1>3
<1>4. ASSUME NEW b \in Statement,
             CallOutside(b) \/ CallLate(b) \/ StatementFails(b)
             \/ \E s \in Scope : BodySpawns(s, b)
      PROVE  Goal
  BY <1>3, <1>4 DEF CallOutside, CallLate, StatementFails, BodySpawns, connection
\* A write of a statement.
<1>5. ASSUME NEW b \in Statement, RunInScope(b) \/ RunGated(b) PROVE Goal
  <2>1. /\ Execute(<<b, 1>>) /\ UNCHANGED wrote /\ at'[t] = at[t]
    BY <1>0, <1>5 DEF RunInScope, RunGated, Goto
  <2>2. /\ pending \subseteq pending' /\ committed \subseteq committed'
        /\ committed' \subseteq committed \cup {<<b, 1>>}
    BY <2>1 DEF Execute
  <2>3. <<b, 1>> \notin BodyWrites(t)
    BY StatementWritesAreApart
  <2> QED BY <1>0, <2>1, <2>2, <2>3
\* A write of a body.
<1>6. ASSUME NEW s \in Scope, BodyWrite(s) PROVE Goal
  <2>1. /\ at[s] = "body" /\ UNCHANGED <<at, committed>>
        /\ wrote' = [wrote EXCEPT ![s] = wrote[s] + 1]
        /\ pending' = pending \cup {<<s, wrote[s] + 1>>}
    BY <1>6, CallAssumption DEF BodyWrite, Execute, TransactionHasItsScope, Open
  <2>2. wrote[s] \in Nat /\ wrote[t] \in Nat
    BY <1>0, WritesAssumption
  <2>3. CASE s = t
    <3>1. \A k \in 1..(wrote[t] + 1) : k \in 1..wrote[t] \/ k = wrote[t] + 1
      BY <2>2
    <3>2. wrote'[t] = wrote[t] + 1
      BY <1>0, <2>1, <2>3
    <3>3. {t} \X (1..wrote'[t]) \subseteq pending'
      BY <1>0, <2>1, <2>3, <3>1, <3>2
    <3> QED BY <1>0, <2>1, <2>3, <3>3
  <2>4. CASE s # t
    BY <1>0, <2>1, <2>4
  <2> QED BY <2>3, <2>4
\* The ends of a transaction.
<1>7. ASSUME NEW s \in Scope, Commit(s) PROVE Goal
  <2>1. /\ at[s] = "body" /\ wrote[s] = Writes /\ UNCHANGED wrote
        /\ committed' = committed \cup pending
        /\ at' = [at EXCEPT ![s] = "committed"]
    BY <1>7 DEF Commit, Goto
  <2>2. CASE s = t
    <3>1. BodyWrites(t) \subseteq committed'
      BY <1>0, <2>1, <2>2 DEF BodyWrites
    <3> QED BY <1>0, <2>1, <2>2, <3>1 DEF Successful
  <2>3. CASE s # t
    <3>1. openTx = s /\ ~stuckError
      BY <2>1 DEF TransactionHasItsScope, Open
    <3>2. \A w \in pending : Maker(w) = s
      BY <3>1 DEF ForeignWritesStayOut
    <3>3. \A w \in BodyWrites(t) : Maker(w) = t
      BY DEF BodyWrites, Maker
    <3>4. BodyWrites(t) \cap pending = {}
      BY <2>3, <3>2, <3>3
    <3>5. at'[t] = at[t] /\ at[t] # "body"
      BY <1>0, <2>1, <2>3, Alone DEF Active
    <3> QED BY <1>0, <2>1, <3>4, <3>5
  <2> QED BY <2>2, <2>3
<1>8. ASSUME NEW s \in Scope, Rollback(s) \/ RollbackFails(s) PROVE Goal
  <2>1. /\ at[s] = "rolling" /\ UNCHANGED <<wrote, committed>>
        /\ at' = [at EXCEPT ![s] = "rolledBack"]
    BY <1>8 DEF Rollback, RollbackFails, Goto, Discard, connection
  <2>2. at[t] # "body"
    BY <2>1, Alone DEF Active
  <2> QED BY <1>0, <2>1, <2>2 DEF Successful
<1>9. CASE Crash
  <2>1. /\ UNCHANGED <<wrote, committed>>
        /\ at'[t] \in {at[t], "crashed"}
        /\ at[t] = "body" => at'[t] = "crashed"
    BY <1>0, <1>9 DEF Crash, Discard, Ended
  <2> QED BY <1>0, <2>1 DEF Successful
<1>10. CASE UNCHANGED vars
  BY <1>0, <1>10 DEF vars, connection
<1> QED
  BY <1>2, <1>4, <1>5, <1>6, <1>7, <1>8, <1>9, <1>10 DEF Next, ScopeStep, StatementStep

\* A statement that a scope started has a scope that is open or over, and if
\* it ran while the body was at work its write waits in the transaction.
StatementsHaveTheirScope ==
  /\ activeScopeToken # NoScope => at[activeScopeToken] \in Active
  /\ \A b \in Statement : at[b] = "idle" => bornIn[b] = NoScope
  /\ \A s \in Scope, b \in Statement : bornIn[b] = s =>
       /\ at[s] \notin {"idle", "waiting"}
       /\ at[b] = "returned" /\ at[s] = "body" => <<b, 1>> \in pending

LEMMA StatementsStep ==
  ASSUME TypeOK, TurnsInOrder, TransactionHasItsScope, StatementsHaveTheirScope, [Next]_vars
  PROVE  StatementsHaveTheirScope'
<1> USE CallAssumption DEF StatementsHaveTheirScope, TypeOK, Active, Goto, Call
<1>1. ASSUME NEW s \in Scope, WithTransaction(s) PROVE StatementsHaveTheirScope'
  BY <1>1 DEF WithTransaction, helper, connection
<1>2. ASSUME NEW s \in Scope, ScopeRefused(s) PROVE StatementsHaveTheirScope'
  BY <1>2 DEF ScopeRefused, helper, connection, HasTurn
<1>3. ASSUME NEW s \in Scope, Begin(s) PROVE StatementsHaveTheirScope'
  BY <1>3 DEF Begin, HasTurn
<1>4. ASSUME NEW s \in Scope, BodyWrite(s) PROVE StatementsHaveTheirScope'
  BY <1>4 DEF BodyWrite, Execute, helper
<1>5. ASSUME NEW s \in Scope, BodyThrows(s) \/ CommitFails(s) PROVE StatementsHaveTheirScope'
  BY <1>5 DEF BodyThrows, CommitFails, helper, connection
<1>6. ASSUME NEW s \in Scope, Commit(s) \/ Rollback(s) \/ RollbackFails(s)
      PROVE  StatementsHaveTheirScope'
  <2>1. /\ at[s] \in {"body", "rolling"} /\ UNCHANGED <<bornIn, activeScopeToken>>
        /\ \E phase \in {"committed", "rolledBack"} : at' = [at EXCEPT ![s] = phase]
    BY <1>6 DEF Commit, Rollback, RollbackFails, helper
  <2>2. \A t \in Scope : at'[t] # "body"
    BY <2>1, Alone
  <2> QED BY <2>1, <2>2
<1>7. ASSUME NEW s \in Scope, Close(s) PROVE StatementsHaveTheirScope'
  BY <1>7 DEF Close, connection
<1>8. ASSUME NEW s \in Scope, NEW b \in Statement, BodySpawns(s, b)
      PROVE  StatementsHaveTheirScope'
  BY <1>8 DEF BodySpawns, connection
<1>9. ASSUME NEW b \in Statement, CallOutside(b) \/ CallLate(b)
      PROVE  StatementsHaveTheirScope'
  BY <1>9 DEF CallOutside, CallLate, helper, connection
<1>10. ASSUME NEW b \in Statement, RunInScope(b) PROVE StatementsHaveTheirScope'
  BY <1>10 DEF RunInScope, InScope, Execute, helper, TransactionHasItsScope, Open
<1>11. ASSUME NEW b \in Statement, RunGated(b) PROVE StatementsHaveTheirScope'
  <2>1. \A s \in Scope : at[s] # "body"
    BY <1>11, Alone DEF RunGated
  <2> QED BY <1>11, <2>1 DEF RunGated, HasTurn, Execute, helper
<1>12. ASSUME NEW b \in Statement, StatementFails(b) PROVE StatementsHaveTheirScope'
  BY <1>12 DEF StatementFails, HasTurn, helper, connection
<1>13. CASE Crash
  BY <1>13 DEF Crash, Discard, Ended
<1>14. CASE UNCHANGED vars
  BY <1>14 DEF vars, helper, connection
<1> QED
  BY <1>1, <1>2, <1>3, <1>4, <1>5, <1>6, <1>7, <1>8, <1>9, <1>10, <1>11, <1>12,
     <1>13, <1>14 DEF Next, ScopeStep, StatementStep

-----------------------------------------------------------------------------
\* The gate's promises

\* Everything the two promises rest on is an invariant.
THEOREM GateInductive == Spec => []Inductive
<1>1. Init => Inductive
  <2> SUFFICES ASSUME Init PROVE Inductive
    OBVIOUS
  <2>1. TurnsInOrder
    BY DEF Init, TurnsInOrder, Active
  <2>2. TransactionHasItsScope /\ ForeignWritesStayOut
    BY DEF Init, TransactionHasItsScope, ForeignWritesStayOut, Open, Active, Call
  <2>3. WritesFollowTheScope
    BY DEF Init, WritesFollowTheScope, Call, Successful
  <2> QED BY <2>1, <2>2, <2>3 DEF Inductive
<1>2. TypeOK /\ Inductive /\ [Next]_vars => Inductive'
  BY ChainStep, TransactionStep, ForeignWritesStep, WritesStep DEF Inductive
<1> QED BY <1>1, <1>2, GateTypeCorrect, PTL DEF Spec

\* A transaction holds only writes of its own scope, until a ROLLBACK fails:
\* the gate of transaction.js keeps every other caller of the connection out.
THEOREM TransactionsAreTheirScopes == Spec => []ForeignWritesStayOut
<1>1. Inductive => ForeignWritesStayOut
  BY DEF Inductive
<1> QED BY <1>1, GateInductive, PTL

\* withTransaction is all or nothing, stuck or not, across crashes, and its
\* caller is told which.
THEOREM ScopesAllOrNothing == Spec => []ScopesAreAtomic
<1>1. Inductive => ScopesAreAtomic
  BY DEF Inductive, WritesFollowTheScope, ScopesAreAtomic, Successful
<1> QED BY <1>1, GateInductive, PTL

\* The facts about who waits for whom and about the statements of a scope.
THEOREM GateStaysOpen == Spec => [](TurnsAreGiven /\ StatementsHaveTheirScope)
<1>1. Init => TurnsAreGiven /\ StatementsHaveTheirScope
  <2> SUFFICES ASSUME Init PROVE TurnsAreGiven /\ StatementsHaveTheirScope
    OBVIOUS
  <2>1. mutex = 0 /\ resolved = 0..0
    BY DEF Init
  <2>2. TurnsAreGiven
    BY <2>1 DEF TurnsAreGiven
  <2> QED BY <2>2, CallAssumption DEF Init, StatementsHaveTheirScope, Call
<1>2. TypeOK /\ Inductive /\ TurnsAreGiven /\ StatementsHaveTheirScope /\ [Next]_vars
        => TurnsAreGiven' /\ StatementsHaveTheirScope'
  BY TurnsStep, StatementsStep DEF Inductive
<1> QED BY <1>1, <1>2, GateTypeCorrect, GateInductive, PTL DEF Spec

\* Nobody waits for nobody: whenever a call waits on the chain, another that
\* came no later holds it, and is past its wait.  No chain of promises is
\* left with its head gone, whatever throws and whenever the process dies.
THEOREM TheChainIsHeld == Spec => []ChainIsHeld
<1>1. TypeOK /\ Inductive /\ TurnsAreGiven => ChainIsHeld
  BY SomebodyHolds DEF Inductive
<1> QED BY <1>1, GateTypeCorrect, GateInductive, GateStaysOpen, PTL

-----------------------------------------------------------------------------
(* Refinement *)

\* What the abstract store sees of a call.
Outcome == [c \in Call |-> IF at[c] \in Ended THEN at[c] ELSE "open"]

LEMMA OutcomeOfGoto ==
  ASSUME TypeOK, NEW c \in Call, at[c] \notin Ended, NEW phase, Goto(c, phase)
  PROVE  /\ phase \in Ended => Outcome' = [Outcome EXCEPT ![c] = phase]
         /\ phase \notin Ended => Outcome' = Outcome
         /\ Outcome[c] = "open"
BY DEF Outcome, Goto, TypeOK, Ended

\* Every step is a step of the abstract store or a stutter.
THEOREM StoreIsAtomic == Spec => ImplementsAtomicStore
<1> USE CallAssumption
<1>1. Init => Store!Init
  BY DEF Init, Store!Init, Store!Call, Call, Ended
<1>2. ASSUME TypeOK, Inductive, StatementsHaveTheirScope, [Next]_vars
      PROVE  [Store!Next]_(Store!vars)
  <2> DEFINE Quiet == UNCHANGED <<committed, Outcome, bornIn, stuckError>>
             Goal == [Store!Next]_(Store!vars)
  <2> USE <1>2
  <2>0. Scope \subseteq Call /\ Statement \subseteq Call
    BY DEF Call
  <2>1. ASSUME Quiet PROVE Goal
    BY <2>1 DEF Outcome, Store!vars
  <2>2. ASSUME NEW s \in Scope, WithTransaction(s) \/ Begin(s) \/ BodyThrows(s)
                                \/ CommitFails(s) \/ Rollback(s)
        PROVE  Quiet
    <3>1. UNCHANGED <<committed, bornIn, stuckError>>
      BY <2>2 DEF WithTransaction, Begin, BodyThrows, CommitFails, Rollback, Discard,
                  helper, connection
    <3>2. PICK phase : Goto(s, phase) /\ phase \notin Ended /\ at[s] \notin Ended
      BY <2>2 DEF WithTransaction, Begin, BodyThrows, CommitFails, Rollback, HasTurn, Ended
    <3> QED BY <2>0, <3>1, <3>2, OutcomeOfGoto
  <2>3. ASSUME NEW s \in Scope, BodyWrite(s) PROVE Quiet
    <3>1. openTx # NoScope
      BY <2>3 DEF BodyWrite, Inductive, TransactionHasItsScope, Open
    <3> QED BY <2>3, <3>1 DEF BodyWrite, Execute, helper, Outcome
  <2>4. ASSUME NEW s \in Scope, Commit(s) PROVE Store!Store(s)
    <3>1. /\ at[s] = "body" /\ wrote[s] = Writes /\ Goto(s, "committed")
          /\ committed' = committed \cup pending
          /\ UNCHANGED <<bornIn, stuckError>>
      BY <2>4 DEF Commit, helper
    <3>2. Outcome' = Outcome /\ Outcome[s] = "open"
      BY <2>0, <3>1, OutcomeOfGoto DEF Ended
    <3>3. openTx = s /\ ~stuckError
      BY <3>1 DEF Inductive, TransactionHasItsScope, Open
    <3>4. BodyWrites(s) \subseteq pending /\ BodyWrites(s) \cap committed = {}
      BY <3>1 DEF Inductive, WritesFollowTheScope, BodyWrites, Successful
    <3>5. Store!Guests(s) = {b \in Statement : bornIn[b] = s /\ at[b] = "returned"}
      BY <2>0 DEF Store!Guests, Ended
    <3>6. Store!Guests(s) \X {1} \subseteq pending
      BY <3>1, <3>5 DEF StatementsHaveTheirScope
    <3>7. ASSUME NEW w \in pending PROVE w \in BodyWrites(s) \cup Store!Guests(s) \X {1}
      <4>1. Maker(w) = s /\ w \in Write
        BY <3>3 DEF Inductive, ForeignWritesStayOut, TypeOK
      <4>2. CASE w[1] \in Scope
        BY <4>1, <4>2 DEF Maker, Write, BodyWrites
      <4>3. CASE w[1] \notin Scope
        <5>1. PICK b \in Statement : w = <<b, 1>>
          BY <4>1, <4>3 DEF Write
        <5>2. bornIn[b] = s /\ at[b] = "returned"
          BY <4>1, <4>3, <5>1 DEF Maker, Inductive, TransactionHasItsScope
        <5> QED BY <3>5, <5>1, <5>2
      <4> QED BY <4>2, <4>3
    <3>8. committed' = committed \cup BodyWrites(s) \cup Store!Guests(s) \X {1}
      BY <3>1, <3>4, <3>6, <3>7
    <3> QED BY <3>1, <3>2, <3>3, <3>4, <3>8
            DEF Store!Store, Store!Open, Store!BodyWrites, BodyWrites, Outcome
  <2>5. ASSUME NEW s \in Scope, RollbackFails(s) PROVE Store!GetsStuck
    <3>1. /\ stuckError' = TRUE /\ UNCHANGED <<committed, bornIn>>
          /\ Goto(s, "rolledBack") /\ at[s] = "rolling"
      BY <2>5 DEF RollbackFails, Discard, connection
    <3>2. Outcome' = Outcome
      BY <2>0, <3>1, OutcomeOfGoto DEF Ended
    <3> QED BY <3>1, <3>2 DEF Store!GetsStuck, Outcome
  <2>6. ASSUME NEW s \in Scope, ScopeRefused(s) \/ Close(s) PROVE Store!Return(s) \/ Store!Fail(s)
    <3>1. UNCHANGED <<committed, bornIn, stuckError>>
      BY <2>6 DEF ScopeRefused, Close, helper, connection
    <3>2. \/ Goto(s, "returned") /\ at[s] = "committed"
          \/ Goto(s, "failed") /\ at[s] \in {"waiting", "rolledBack"}
      BY <2>6 DEF ScopeRefused, Close, HasTurn
    <3>3. CASE Goto(s, "returned") /\ at[s] = "committed"
      <4>1. Outcome' = [Outcome EXCEPT ![s] = "returned"] /\ Outcome[s] = "open"
        BY <2>0, <3>3, OutcomeOfGoto DEF Ended
      <4>2. BodyWrites(s) \subseteq committed
        BY <3>3 DEF Inductive, WritesFollowTheScope, Successful
      <4> QED BY <3>1, <4>1, <4>2
              DEF Store!Return, Store!Open, Store!EndsAs, Store!BodyWrites, BodyWrites, Outcome
    <3>4. CASE Goto(s, "failed") /\ at[s] \in {"waiting", "rolledBack"}
      <4>1. Outcome' = [Outcome EXCEPT ![s] = "failed"] /\ Outcome[s] = "open"
        BY <2>0, <3>4, OutcomeOfGoto DEF Ended
      <4>2. BodyWrites(s) \cap committed = {}
        BY <3>4 DEF Inductive, WritesFollowTheScope, Successful
      <4> QED BY <3>1, <4>1, <4>2
              DEF Store!Fail, Store!Open, Store!EndsAs, Store!BodyWrites, BodyWrites, Outcome
    <3> QED BY <3>2, <3>3, <3>4
  <2>7. ASSUME NEW s \in Scope, NEW b \in Statement, BodySpawns(s, b) PROVE Store!Start(s, b)
    <3>1. /\ at[s] = "body" /\ at[b] = "idle" /\ Goto(b, "born")
          /\ bornIn' = [bornIn EXCEPT ![b] = s] /\ UNCHANGED <<committed, stuckError>>
      BY <2>7 DEF BodySpawns, connection
    <3>2. Outcome' = Outcome /\ Outcome[b] = "open" /\ Outcome[s] = "open"
      BY <2>0, <3>1, OutcomeOfGoto DEF Ended, Outcome
    <3>3. bornIn[b] = NoScope
      BY <3>1 DEF StatementsHaveTheirScope
    <3> QED BY <3>1, <3>2, <3>3 DEF Store!Start, Store!Open, Outcome
  <2>8. ASSUME NEW b \in Statement, CallOutside(b) \/ CallLate(b) PROVE Quiet
    <3>1. UNCHANGED <<committed, bornIn, stuckError>>
      BY <2>8 DEF CallOutside, CallLate, helper, connection
    <3>2. Goto(b, "waiting") /\ at[b] \notin Ended
      BY <2>8 DEF CallOutside, CallLate, Ended
    <3> QED BY <2>0, <3>1, <3>2, OutcomeOfGoto DEF Ended
  <2>9. ASSUME NEW b \in Statement, RunInScope(b) \/ RunGated(b) PROVE Store!Run(b)
    <3>1. /\ Goto(b, "returned") /\ at[b] \in {"born", "waiting"}
          /\ Execute(<<b, 1>>) /\ UNCHANGED <<bornIn, stuckError>>
      BY <2>9 DEF RunInScope, RunGated, HasTurn, helper
    <3>2. Outcome' = [Outcome EXCEPT ![b] = "returned"] /\ Outcome[b] = "open"
      BY <2>0, <3>1, OutcomeOfGoto DEF Ended
    <3>3. committed' = committed \cup {<<b, 1>>} \/ (openTx # NoScope /\ UNCHANGED committed)
      BY <3>1 DEF Execute
    <3>4. ASSUME openTx # NoScope, ~stuckError
          PROVE  bornIn[b] \in Scope /\ Outcome[bornIn[b]] = "open"
      <4>1. openTx \in Scope /\ at[openTx] \in Open
        BY <3>4 DEF Inductive, TransactionHasItsScope, TypeOK
      <4>2. RunInScope(b)
        BY <2>0, <2>9, <4>1, Alone DEF RunGated, Inductive, Open, Active
      <4>3. bornIn[b] = openTx
        BY <4>1, <4>2 DEF RunInScope, InScope, Inductive, TransactionHasItsScope, Open, Active
      <4> QED BY <2>0, <4>1, <4>3 DEF Outcome, Open, Ended
    <3> QED BY <3>1, <3>2, <3>3, <3>4
            DEF Store!Run, Store!Open, Store!EndsAs, Store!HasHost, Outcome
  <2>10. ASSUME NEW b \in Statement, StatementFails(b) PROVE Store!Refuse(b)
    <3>1. /\ Goto(b, "failed") /\ at[b] \in {"born", "waiting"}
          /\ UNCHANGED <<committed, bornIn, stuckError>>
      BY <2>10 DEF StatementFails, HasTurn, helper, connection
    <3>2. Outcome' = [Outcome EXCEPT ![b] = "failed"] /\ Outcome[b] = "open"
      BY <2>0, <3>1, OutcomeOfGoto DEF Ended
    <3> QED BY <3>1, <3>2 DEF Store!Refuse, Store!Open, Store!EndsAs, Outcome
  <2>11. CASE Crash
    <3> DEFINE lost == {c \in Call : at[c] \notin Ended \cup {"idle"}}
    <3>1. Outcome' = [c \in Call |-> IF c \in lost THEN "crashed" ELSE Outcome[c]]
      BY <2>11 DEF Crash, Outcome, Ended
    <3>2. lost \in SUBSET {c \in Call : Outcome[c] = "open"}
      BY DEF Outcome
    <3>3. stuckError' = FALSE /\ UNCHANGED <<committed, bornIn>>
      BY <2>11 DEF Crash, Discard
    <3>4. Store!Crash
      BY <3>1, <3>2, <3>3 DEF Store!Crash, Store!Open, Store!Call, Call, Outcome
    <3> QED BY <3>4 DEF Store!Next
  <2>12. CASE UNCHANGED vars
    <3>1. Quiet
      BY <2>12 DEF vars, helper, connection, Outcome
    <3> QED BY <2>1, <3>1
  <2> QED
    BY <2>1, <2>2, <2>3, <2>4, <2>5, <2>6, <2>7, <2>8, <2>9, <2>10, <2>11, <2>12
    DEF Next, ScopeStep, StatementStep, Store!Next
<1> QED
  BY <1>1, <1>2, GateTypeCorrect, GateInductive, GateStaysOpen, PTL
  DEF Spec, ImplementsAtomicStore, Store!Spec
=============================================================================
