--------------------------- MODULE SpannerSession ---------------------------
(***************************************************************************)
(* Calls of migu.Diff and migu.Sync (src/migu.go) on one Spanner dialect     *)
(* (src/dialect/spanner.go): the two clients it creates on demand and keeps, *)
(* the schema changes, each a long-running operation of the server that is   *)
(* submitted and waited for, and the end of a run, where Commit and Rollback *)
(* do the same: they close the clients.                                      *)
(*                                                                          *)
(* The migration is N statements.  Each changes the schema once: an ADD or a *)
(* CREATE submitted again is refused.  What Diff plans is the statements     *)
(* whose effect it does not see, to be executed in their order.              *)
(***************************************************************************)
EXTENDS Naturals, Sequences

CONSTANTS
  N,          \* statements of the migration
  MaxFaults   \* bound on failures of the network, the server and the process

ASSUME NAssumption == N \in Nat
ASSUME MaxFaultsAssumption == MaxFaults \in Nat

VARIABLES
  c,         \* d.c, the data client: nil, or a client that is open or closed
  ac,        \* d.ac, the admin client
  pc,        \* where the call is
  call,      \* the call in progress or last made
  plan,      \* statements still to execute
  applied,   \* the schema: the statements that took effect
  ops,       \* operations the server has accepted and not ended, in order
  waiting,   \* the position in ops of the operation op.Wait waits for, or 0
  atBegin,   \* the schema when the run began to execute (history)
  faults     \* failures so far

vars == <<c, ac, pc, call, plan, applied, ops, waiting, atBegin, faults>>

Statements == 1..N

\* Mutant: Diff plans the whole migration again.
RemainingAll == Statements

\* Diff plans what it does not find in the schema.
Remaining == Statements \ applied

\* The statement that is executed next.
IsNext(k) == k \in plan /\ \A l \in plan : k <= l

Steps == {"idle", "client", "query", "begin", "admin", "submit", "wait",
          "rollback", "committed", "commitfailed", "rolledback", "returned"}

Clients == {"nil", "open", "closed"}

Init ==
  /\ c = "nil"
  /\ ac = "nil"
  /\ pc = "idle"
  /\ call = "none"
  /\ plan = {}
  /\ applied = {}
  /\ ops = <<>>
  /\ waiting = 0
  /\ atBegin = {}
  /\ faults = 0

Fault == faults < MaxFaults /\ faults' = faults + 1

\* A program calls Diff, or Sync, on the dialect; --dry-run is a Diff.
Call(kind) ==
  /\ pc = "idle"
  /\ call' = kind
  /\ pc' = "client"
  /\ UNCHANGED <<c, ac, plan, applied, ops, waiting, atBegin, faults>>

\* The client that is kept, or else a new one.
Kept(client) == IF client = "nil" THEN "open" ELSE client

\* client() keeps the client it creates, and creates none while it has one.
Client ==
  /\ pc = "client"
  /\ c' = Kept(c)
  /\ pc' = "query"
  /\ UNCHANGED <<ac, call, plan, applied, ops, waiting, atBegin, faults>>

\* NewClient, or the query, fails: Diff returns the error, and so does Sync,
\* before there is anything to roll back.
DiffFails ==
  /\ pc = "query" \/ (pc = "client" /\ c = "nil")
  /\ Fault
  /\ pc' = "returned"
  /\ UNCHANGED <<c, ac, call, plan, applied, ops, waiting, atBegin>>

\* Diff reads the schema of this moment, whatever the server has still to do.
Query ==
  /\ pc = "query"
  /\ plan' = Remaining
  /\ pc' = IF call = "sync" THEN "begin" ELSE "returned"
  /\ UNCHANGED <<c, ac, call, applied, ops, waiting, atBegin, faults>>

\* Begin starts no transaction.
Begin ==
  /\ pc = "begin"
  /\ pc' = "admin"
  /\ atBegin' = applied
  /\ UNCHANGED <<c, ac, call, plan, applied, ops, waiting, faults>>

AdminClient ==
  /\ pc = "admin"
  /\ plan # {}
  /\ ac' = Kept(ac)
  /\ pc' = "submit"
  /\ UNCHANGED <<c, call, plan, applied, ops, waiting, atBegin, faults>>

AdminClientFails ==
  /\ pc = "admin"
  /\ plan # {}
  /\ ac = "nil"
  /\ Fault
  /\ pc' = "rollback"
  /\ UNCHANGED <<c, ac, call, plan, applied, ops, waiting, atBegin>>

\* Mutant: the operation is not waited for.
UpdateDatabaseDdlOnly ==
  /\ pc = "submit"
  /\ \E k \in plan : IsNext(k) /\ ops' = Append(ops, k) /\ plan' = plan \ {k}
  /\ pc' = "admin"
  /\ UNCHANGED <<c, ac, call, applied, waiting, atBegin, faults>>

UpdateDatabaseDdl ==
  /\ pc = "submit"
  /\ \E k \in plan : IsNext(k) /\ ops' = Append(ops, k)
  /\ waiting' = Len(ops) + 1
  /\ pc' = "wait"
  /\ UNCHANGED <<c, ac, call, plan, applied, atBegin, faults>>

\* Mutant: the error of the request is not looked at.
UpdateDatabaseDdlUnchecked ==
  /\ pc = "submit"
  /\ Fault
  /\ \/ \E k \in plan : IsNext(k) /\ ops' = Append(ops, k)
     \/ UNCHANGED ops
  /\ waiting' = Len(ops) + 1
  /\ pc' = "wait"
  /\ UNCHANGED <<c, ac, call, plan, applied, atBegin>>

\* The request fails, or its answer is lost after the server accepted it.
UpdateDatabaseDdlFails ==
  /\ pc = "submit"
  /\ Fault
  /\ \/ \E k \in plan : IsNext(k) /\ ops' = Append(ops, k)
     \/ UNCHANGED ops
  /\ pc' = "rollback"
  /\ UNCHANGED <<c, ac, call, plan, applied, waiting, atBegin>>

\* The server ends its first operation; a run that waits for it is told.
ServerEnds(succeeds) ==
  /\ ops # <<>>
  /\ succeeds => Head(ops) \notin applied
  /\ applied' = IF succeeds THEN applied \union {Head(ops)} ELSE applied
  /\ ops' = Tail(ops)
  /\ IF waiting = 1
       THEN /\ waiting' = 0
            /\ plan' = IF succeeds THEN plan \ {Head(ops)} ELSE plan
            /\ pc' = IF succeeds THEN "admin" ELSE "rollback"
       ELSE /\ waiting' = IF waiting = 0 THEN 0 ELSE waiting - 1
            /\ UNCHANGED <<plan, pc>>
  /\ UNCHANGED <<c, ac, call, atBegin>>

ServerApplies == ServerEnds(TRUE) /\ UNCHANGED faults

\* A statement whose effect is there already is refused; another one fails by
\* the data it meets.
ServerRefuses ==
  /\ ServerEnds(FALSE)
  /\ IF Head(ops) \in applied THEN UNCHANGED faults ELSE Fault

\* Mutant: the run goes on as if the statement had taken effect.
WaitFailsIgnored ==
  /\ pc = "wait"
  /\ Fault
  /\ plan' = {k \in plan : ~IsNext(k)}
  /\ waiting' = 0
  /\ pc' = "admin"
  /\ UNCHANGED <<c, ac, call, applied, ops, atBegin>>

\* op.Wait fails while the server goes on with the operation.
WaitFails ==
  /\ pc = "wait"
  /\ Fault
  /\ waiting' = 0
  /\ pc' = "rollback"
  /\ UNCHANGED <<c, ac, call, plan, applied, ops, atBegin>>

\* Mutant: a client is closed and not forgotten.
CloseKeeps ==
  /\ c' = IF c = "nil" THEN "nil" ELSE "closed"
  /\ ac' = IF ac = "nil" THEN "nil" ELSE "closed"

\* Mutant: the data client is closed only when there is no admin client.
CloseOne == (IF ac = "nil" THEN c' = "nil" ELSE c' = c) /\ ac' = "nil"

\* close() of both clients: an error of Close does not keep one.
Close == c' = "nil" /\ ac' = "nil"

Commit ==
  /\ pc = "admin"
  /\ plan = {}
  /\ Close
  /\ pc' = "committed"
  /\ UNCHANGED <<call, plan, applied, ops, waiting, atBegin, faults>>

\* The error of closing the admin client is the result of Commit, and of Sync.
CommitFails ==
  /\ pc = "admin"
  /\ plan = {}
  /\ ac # "nil"
  /\ Fault
  /\ Close
  /\ pc' = "commitfailed"
  /\ UNCHANGED <<call, plan, applied, ops, waiting, atBegin>>

Rollback ==
  /\ pc = "rollback"
  /\ Close
  /\ pc' = "rolledback"
  /\ UNCHANGED <<call, plan, applied, ops, waiting, atBegin, faults>>

\* The program has the result of the call, and may make another.
Return ==
  /\ pc \in {"committed", "commitfailed", "rolledback", "returned"}
  /\ pc' = "idle"
  /\ plan' = {}
  /\ atBegin' = {}
  /\ UNCHANGED <<c, ac, call, applied, ops, waiting, faults>>

\* The process ends in the middle of a call; a new one has no client.
Crash ==
  /\ pc # "idle"
  /\ Fault
  /\ c' = "nil"
  /\ ac' = "nil"
  /\ pc' = "idle"
  /\ call' = "none"
  /\ plan' = {}
  /\ waiting' = 0
  /\ atBegin' = {}
  /\ UNCHANGED <<applied, ops>>

Steady ==
  \/ Call("sync")
  \/ Client
  \/ Query
  \/ Begin
  \/ AdminClient
  \/ UpdateDatabaseDdl
  \/ Commit
  \/ Rollback
  \/ Return

Server == ServerApplies \/ ServerRefuses

Next ==
  \/ Steady
  \/ Server
  \/ Call("diff")
  \/ DiffFails
  \/ AdminClientFails
  \/ UpdateDatabaseDdlFails
  \/ WaitFails
  \/ CommitFails
  \/ Crash

\* A call goes on, the server ends the operations it accepted, and Sync is called
\* again and again: SF, for Diff may be called instead any number of times.
Spec == Init /\ [][Next]_vars
FairSpec == Spec /\ WF_vars(Steady) /\ SF_vars(Call("sync")) /\ WF_vars(Server)

-----------------------------------------------------------------------------
(* Properties.                                                             *)

\* Every variable has its type, and a run waits for an operation the server
\* has.
TypeOK ==
  /\ c \in Clients
  /\ ac \in Clients
  /\ pc \in Steps
  /\ call \in {"none", "diff", "sync"}
  /\ plan \subseteq Statements
  /\ applied \subseteq Statements
  /\ atBegin \subseteq Statements
  /\ ops \in Seq(Statements)
  /\ waiting \in 0..Len(ops)
  /\ faults \in 0..MaxFaults

\* The statements take effect in the order Diff gave them, through failures,
\* retries and operations that outlive the run that submitted them: no
\* statement does before one it may need.
PrefixApplied == \A k \in applied : 1..k \subseteq applied

\* The statements implement a migration: whatever fails, is retried or outlives its run,
\* each takes effect at most once, after those before it, and is never undone.
M == INSTANCE Migration WITH N <- N, applied <- applied
ImplementsMigration == M!Spec

\* Sync returns nil only when the whole migration took effect, its own statements
\* and those earlier runs left to the server; and when all that fails is the
\* closing of the clients, it took effect as well.
CommittedMeansDone == pc \in {"committed", "commitfailed"} => applied = Statements

\* No call uses a client that an earlier run closed: what close() closes it forgets,
\* so that the next call on the same dialect creates another.
NoClosedClientUsed ==
  /\ pc = "query" => c = "open"
  /\ pc \in {"submit", "wait"} => ac = "open"

\* A run that began leaves no client open, whether it ends well or not.
ClosedAfterRun == pc \in {"committed", "commitfailed", "rolledback"} => c # "open" /\ ac # "open"

\* Once failures end, calling Sync again completes the migration.
MigrationCompletes == <>[](applied = Statements)

\* "All query for synchronization will be performed within the transaction if
\* storage engine supports the transaction": a run rolled back leaves the
\* schema it found.
RolledBackLeavesSchema == pc = "rolledback" => applied = atBegin
=============================================================================
