------------------------------ MODULE RequestScope ------------------------------
(***************************************************************************)
(* How a request comes by its database session and its use case.  Each     *)
(* context has one container for the whole process; a request overrides    *)
(* the container's session with its own, and the last override wins.       *)
(* Where the route asks for the use case with a Provide marker, FastAPI    *)
(* resolves the markers in its thread pool and the use case is built when  *)
(* the endpoint is called, after awaits in which other requests run.  The  *)
(* checkout builds its use case in the step that overrides the session.    *)
(* A session is named by the request it was opened for.                    *)
(***************************************************************************)
EXTENDS Sequences

CONSTANTS
  Requests,
  Containers,  \* the contexts' containers
  Eager,       \* those whose route builds the use case with the override
  NoSession

VARIABLES
  overrides,  \* overrides[c]: the sessions that override c's provider
  uses,       \* uses[r]: the container r's route uses
  built,      \* built[r]: the session r's use case was built with
  pc,         \* pc[r]: what r has done
  work,       \* work[s]: requests whose writes are uncommitted in session s
  committed   \* requests whose writes are committed

vars == <<overrides, uses, built, pc, work, committed>>

Init ==
  /\ overrides = [c \in Containers |-> <<>>]
  /\ uses \in [Requests -> Containers]
  /\ built = [r \in Requests |-> NoSession]
  /\ pc = [r \in Requests |-> "idle"]
  /\ work = [s \in Requests |-> {}]
  /\ committed = {}

Push(r) == overrides' = [overrides EXCEPT ![uses[r]] = Append(@, r)]

\* The session dependency of most contexts overrides the provider and yields.
Override(r) ==
  /\ pc[r] = "idle"
  /\ uses[r] \notin Eager
  /\ Push(r)
  /\ pc' = [pc EXCEPT ![r] = "overridden"]
  /\ UNCHANGED <<uses, built, work, committed>>

\* The endpoint is called: the use case and its repositories get the session that
\* overrides the provider by then; without one the provider raises.
Resolve(r) ==
  LET stack == overrides[uses[r]]
  IN /\ pc[r] = "overridden"
     /\ \/ /\ stack # <<>>
           /\ built' = [built EXCEPT ![r] = stack[Len(stack)]]
           /\ pc' = [pc EXCEPT ![r] = "resolved"]
        \/ /\ stack = <<>>
           /\ pc' = [pc EXCEPT ![r] = "failed"]
           /\ UNCHANGED built
     /\ UNCHANGED <<overrides, uses, work, committed>>

\* The checkout overrides and builds in one step.
OverrideAndBuild(r) ==
  /\ pc[r] = "idle"
  /\ uses[r] \in Eager
  /\ Push(r)
  /\ built' = [built EXCEPT ![r] = r]
  /\ pc' = [pc EXCEPT ![r] = "resolved"]
  /\ UNCHANGED <<uses, work, committed>>

\* The use case writes through its repositories.
Execute(r) ==
  /\ pc[r] = "resolved"
  /\ work' = [work EXCEPT ![built[r]] = @ \cup {r}]
  /\ pc' = [pc EXCEPT ![r] = "executed"]
  /\ UNCHANGED <<overrides, uses, built, committed>>

\* ... or refuses, or fails.
Refuse(r) ==
  /\ pc[r] = "resolved"
  /\ pc' = [pc EXCEPT ![r] = "failed"]
  /\ UNCHANGED <<overrides, uses, built, work, committed>>

\* The route commits its own session, then answers.
Commit(r) ==
  /\ pc[r] = "executed"
  /\ committed' = committed \cup work[r]
  /\ work' = [work EXCEPT ![r] = {}]
  /\ pc' = [pc EXCEPT ![r] = "answered"]
  /\ UNCHANGED <<overrides, uses, built>>

\* The dependencies are torn down: every override of the container goes, and the
\* session is closed, which rolls back what it has not committed.
TearDown(r) ==
  /\ pc[r] \in {"answered", "failed"}
  /\ overrides' = [overrides EXCEPT ![uses[r]] = <<>>]
  /\ work' = [work EXCEPT ![r] = {}]
  /\ pc' = [pc EXCEPT ![r] = IF @ = "answered" THEN "done" ELSE "refused"]
  /\ UNCHANGED <<uses, built, committed>>

Next ==
  \E r \in Requests :
    \/ Override(r) \/ Resolve(r) \/ OverrideAndBuild(r)
    \/ Execute(r) \/ Refuse(r) \/ Commit(r) \/ TearDown(r)

Spec == Init /\ [][Next]_vars

-----------------------------------------------------------------------------
\* "Request-scoped sessions keep units of work clean" (docs/adr/0003:25): what a
\* request is answered for is committed, and nothing of a request is that was
\* refused or is still at work.
UnitsOfWorkAreClean ==
  /\ \A r \in Requests : pc[r] \in {"answered", "done"} => r \in committed
  /\ \A r \in committed : pc[r] \in {"answered", "done"}
=============================================================================
