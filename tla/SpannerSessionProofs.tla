------------------------ MODULE SpannerSessionProofs ------------------------
(***************************************************************************)
(* The safety properties of SpannerSession, for every number of statements *)
(* and of failures.  One inductive invariant, Inv, implies all of them.     *)
(***************************************************************************)
EXTENDS SpannerSession, SequenceTheorems, TLAPS

Executing == {"begin", "admin", "submit", "wait"}

\* The clients: none is closed and kept, only a run that executes, or is about to end,
\* has an admin client.
ClientsInv ==
  /\ c # "closed" /\ ac # "closed"
  /\ pc \in {"submit", "wait"} => ac = "open"
  /\ pc = "query" => c = "open"
  /\ ac = "open" => pc \in {"admin", "submit", "wait", "rollback"}
  /\ pc \in {"committed", "commitfailed", "rolledback"} => c = "nil"

\* The operation a run waits for is the one it submitted last.
WaitInv ==
  /\ waiting > 0 <=> pc = "wait"
  /\ pc = "wait" => IsNext(ops[waiting])
  /\ pc = "submit" => plan # {}

\* What is not planned took effect, and so did all that comes before a statement the
\* server has accepted: this is why statements take effect in their order.
OrderInv ==
  /\ PrefixApplied
  /\ pc \in Executing => Statements \ plan \subseteq applied
  /\ \A n \in DOMAIN ops : 1..(ops[n] - 1) \subseteq applied

Inv == TypeOK /\ ClientsInv /\ WaitInv /\ OrderInv /\ CommittedMeansDone

\* Before the statement that comes next, all have taken effect.
LEMMA NextInOrder ==
  ASSUME plan \subseteq Statements, Statements \ plan \subseteq applied,
         NEW k \in plan, IsNext(k)
  PROVE  1..(k - 1) \subseteq applied
BY NAssumption DEF IsNext, Statements

\* The invariant holds initially.
LEMMA InitInv == Init => Inv
<1> SUFFICES ASSUME Init PROVE Inv
  OBVIOUS
<1> USE DEF Init
<1>1. ops \in Seq(Statements) /\ Len(ops) = 0 /\ DOMAIN ops = {}
  BY EmptySeq
<1>2. TypeOK
  <2>1. c \in Clients /\ ac \in Clients
    BY DEF Clients
  <2>2. plan \subseteq Statements /\ applied \subseteq Statements /\ atBegin \subseteq Statements
    OBVIOUS
  <2>3. waiting \in 0..Len(ops) /\ faults \in 0..MaxFaults
    BY <1>1, MaxFaultsAssumption
  <2>4. pc \in Steps /\ call \in {"none", "diff", "sync"}
    BY DEF Steps
  <2>5. QED BY <1>1, <2>1, <2>2, <2>3, <2>4 DEF TypeOK
<1>3. ClientsInv /\ CommittedMeansDone
  BY DEF ClientsInv, CommittedMeansDone, Executing
<1>4. WaitInv
  BY DEF WaitInv
<1>5. OrderInv
  BY <1>1 DEF OrderInv, PrefixApplied, Executing
<1>6. QED BY <1>2, <1>3, <1>4, <1>5 DEF Inv

\* Appending an accepted statement.
LEMMA AcceptedInv ==
  ASSUME TypeOK, OrderInv, NEW k \in plan, IsNext(k), pc \in Executing,
         ops' = Append(ops, k), applied' = applied
  PROVE  /\ ops' \in Seq(Statements)
         /\ Len(ops') = Len(ops) + 1
         /\ ops'[Len(ops) + 1] = k
         /\ \A n \in DOMAIN ops' : 1..(ops'[n] - 1) \subseteq applied'
<1>1. ops \in Seq(Statements) /\ k \in Statements
  BY DEF TypeOK
<1>2. 1..(k - 1) \subseteq applied
  BY NextInOrder DEF TypeOK, OrderInv
<1>3. /\ ops' \in Seq(Statements)
      /\ Len(ops') = Len(ops) + 1
      /\ \A n \in 1..Len(ops) : ops'[n] = ops[n]
      /\ ops'[Len(ops) + 1] = k
  BY <1>1, AppendProperties
<1>4. ASSUME NEW n \in DOMAIN ops' PROVE 1..(ops'[n] - 1) \subseteq applied'
  <2>1. n \in 1..Len(ops) \/ n = Len(ops) + 1
    BY <1>1, <1>3, LenProperties
  <2>2. CASE n \in 1..Len(ops)
    BY <2>2, <1>1, <1>3, LenProperties DEF OrderInv
  <2>3. CASE n = Len(ops) + 1
    BY <2>3, <1>2, <1>3
  <2>4. QED BY <2>1, <2>2, <2>3
<1>5. QED BY <1>3, <1>4

\* The steps that leave the server's operations and the schema alone.
Local ==
  \/ \E kind \in {"diff", "sync"} : Call(kind)
  \/ Client \/ DiffFails \/ Query \/ Begin
  \/ AdminClient \/ AdminClientFails
  \/ WaitFails \/ Commit \/ CommitFails \/ Rollback \/ Return \/ Crash

\* A step is one of the call, a submission, or the end of an operation of the server.
LEMMA NextCases ==
  Next => Local \/ UpdateDatabaseDdl \/ UpdateDatabaseDdlFails
            \/ \E succeeds \in BOOLEAN : ServerEnds(succeeds) /\ (UNCHANGED faults \/ Fault)
BY DEF Next, Steady, Server, Local, ServerApplies, ServerRefuses

\* The steps of a call that submit nothing keep the types.
LEMMA LocalTypeOK == TypeOK /\ Local => TypeOK'
<1> SUFFICES ASSUME TypeOK, Local PROVE TypeOK'
  OBVIOUS
<1>1. UNCHANGED <<applied, ops>>
  BY DEF Local, Call, Client, DiffFails, Query, Begin, AdminClient, AdminClientFails,
         WaitFails, Commit, CommitFails, Rollback, Return, Crash
<1>2. c' \in Clients /\ ac' \in Clients
  BY DEF TypeOK, Clients, Kept, Close, Local, Call, Client, DiffFails, Query, Begin, AdminClient, AdminClientFails,
         WaitFails, Commit, CommitFails, Rollback, Return, Crash
<1>3. pc' \in Steps /\ call' \in {"none", "diff", "sync"}
  BY DEF TypeOK, Local, Steps, Call, Client, DiffFails, Query, Begin, AdminClient, AdminClientFails,
         WaitFails, Commit, CommitFails, Rollback, Return, Crash
<1>4. plan' \subseteq Statements /\ atBegin' \subseteq Statements
  BY DEF TypeOK, Local, Remaining, Call, Client, DiffFails, Query, Begin, AdminClient, AdminClientFails,
         WaitFails, Commit, CommitFails, Rollback, Return, Crash
<1>5. waiting' \in 0..Len(ops) /\ faults' \in 0..MaxFaults
  BY LenProperties, MaxFaultsAssumption
  DEF TypeOK, Local, Fault, Call, Client, DiffFails, Query, Begin, AdminClient, AdminClientFails,
         WaitFails, Commit, CommitFails, Rollback, Return, Crash
<1>6. QED BY <1>1, <1>2, <1>3, <1>4, <1>5 DEF TypeOK

\* The steps of a call that submit nothing keep the invariant.
LEMMA LocalInv == Inv /\ Local => Inv'
<1> SUFFICES ASSUME Inv, Local PROVE Inv'
  OBVIOUS
<1>1. UNCHANGED <<applied, ops>>
  BY DEF Local, Call, Client, DiffFails, Query, Begin, AdminClient, AdminClientFails,
         WaitFails, Commit, CommitFails, Rollback, Return, Crash
<1>2. TypeOK'
  BY LocalTypeOK DEF Inv
<1>3. ClientsInv'
  BY DEF Inv, TypeOK, ClientsInv, Clients, Kept, Close, Local, Call, Client, DiffFails, Query, Begin,
         AdminClient, AdminClientFails, WaitFails, Commit, CommitFails, Rollback, Return, Crash
<1>4. WaitInv'
  BY LenProperties
  DEF Inv, TypeOK, WaitInv, Local, Call, Client, DiffFails, Query, Begin,
      AdminClient, AdminClientFails, WaitFails, Commit, CommitFails, Rollback, Return, Crash
<1>5. (pc \in Executing => Statements \ plan \subseteq applied)'
  BY <1>1
  DEF Inv, TypeOK, OrderInv, Executing, Remaining, Local, Call, Client, DiffFails, Query, Begin,
      AdminClient, AdminClientFails, WaitFails, Commit, CommitFails, Rollback, Return, Crash
<1>6. OrderInv'
  BY <1>1, <1>5 DEF Inv, OrderInv, PrefixApplied
<1>7. CommittedMeansDone'
  BY <1>1
  DEF Inv, TypeOK, OrderInv, Executing, CommittedMeansDone, Local, Call, Client, DiffFails, Query,
      Begin, AdminClient, AdminClientFails, WaitFails, Commit, CommitFails, Rollback, Return, Crash
<1>8. QED BY <1>2, <1>3, <1>4, <1>6, <1>7 DEF Inv

\* UpdateDatabaseDdl with or without its answer.
LEMMA SubmitInv == Inv /\ (UpdateDatabaseDdl \/ UpdateDatabaseDdlFails) => Inv'
<1> SUFFICES ASSUME Inv, UpdateDatabaseDdl \/ UpdateDatabaseDdlFails PROVE Inv'
  OBVIOUS
<1>1. /\ UNCHANGED <<c, ac, call, plan, applied, atBegin>>
      /\ pc = "submit"
      /\ pc \in Executing
  BY DEF UpdateDatabaseDdl, UpdateDatabaseDdlFails, Executing
<1>2. ASSUME NEW k \in plan, IsNext(k), ops' = Append(ops, k),
             \/ waiting' = Len(ops) + 1 /\ pc' = "wait" /\ UNCHANGED faults
             \/ UNCHANGED waiting /\ pc' = "rollback" /\ Fault
      PROVE  Inv'
  <2>1. /\ ops' \in Seq(Statements)
        /\ Len(ops') = Len(ops) + 1
        /\ ops'[Len(ops) + 1] = k
        /\ \A n \in DOMAIN ops' : 1..(ops'[n] - 1) \subseteq applied'
    BY <1>1, <1>2, AcceptedInv DEF Inv
  <2>2. Len(ops) \in Nat
    BY LenProperties DEF Inv, TypeOK
  <2>3. waiting' \in 0..Len(ops') /\ faults' \in 0..MaxFaults
    BY <1>2, <2>1, <2>2, MaxFaultsAssumption DEF Inv, TypeOK, Fault
  <2>4. pc' \in Steps
    BY <1>2 DEF Steps
  <2>5. TypeOK'
    BY <1>1, <2>1, <2>3, <2>4 DEF Inv, TypeOK
  <2>6. ClientsInv'
    BY <1>1, <1>2 DEF Inv, ClientsInv, Executing
  <2>7. IsNext(k)'
    BY <1>1, <1>2 DEF IsNext
  <2>8. WaitInv'
    BY <1>1, <1>2, <2>1, <2>2, <2>7 DEF Inv, WaitInv
  <2>9. OrderInv'
    BY <1>1, <2>1 DEF Inv, OrderInv, PrefixApplied
  <2>10. CommittedMeansDone'
    BY <1>2 DEF CommittedMeansDone
  <2>11. QED BY <2>5, <2>6, <2>8, <2>9, <2>10 DEF Inv
<1>3. CASE UpdateDatabaseDdl
  BY <1>2, <1>3 DEF UpdateDatabaseDdl
<1>4. CASE UpdateDatabaseDdlFails /\ UNCHANGED ops
  <2>1. UNCHANGED waiting /\ pc' = "rollback" /\ Fault
    BY <1>4 DEF UpdateDatabaseDdlFails
  <2>2. TypeOK'
    BY <1>1, <1>4, <2>1, MaxFaultsAssumption DEF Inv, TypeOK, Steps, Fault
  <2>3. ClientsInv' /\ CommittedMeansDone'
    BY <1>1, <2>1 DEF Inv, ClientsInv, CommittedMeansDone, Executing
  <2>4. WaitInv'
    BY <1>1, <2>1 DEF Inv, WaitInv
  <2>5. OrderInv'
    BY <1>1, <1>4, <2>1 DEF Inv, OrderInv, PrefixApplied, Executing
  <2>6. QED BY <2>2, <2>3, <2>4, <2>5 DEF Inv
<1>5. CASE UpdateDatabaseDdlFails /\ ~UNCHANGED ops
  BY <1>2, <1>5 DEF UpdateDatabaseDdlFails
<1>6. QED BY <1>3, <1>4, <1>5

\* The end of an operation keeps the invariant, whoever waits for it.
LEMMA ServerInv ==
  ASSUME Inv, NEW succeeds \in BOOLEAN, ServerEnds(succeeds), UNCHANGED faults \/ Fault
  PROVE  Inv'
<1> DEFINE k == Head(ops)
<1>1. /\ ops \in Seq(Statements)
      /\ ops # <<>>
      /\ k \in Statements
      /\ k = ops[1]
      /\ 1 \in DOMAIN ops
      /\ Len(ops) \in Nat \ {0}
  BY HeadTailProperties, LenProperties, EmptySeq DEF Inv, TypeOK, ServerEnds
<1>2. /\ ops' \in Seq(Statements)
      /\ Len(ops') = Len(ops) - 1
      /\ \A n \in 1..Len(ops') : n + 1 \in DOMAIN ops /\ ops'[n] = ops[n + 1]
  BY <1>1, HeadTailProperties, LenProperties DEF ServerEnds
<1>3. waiting \in 0..Len(ops)
  BY DEF Inv, TypeOK
<1>4. UNCHANGED <<c, ac, call, atBegin>>
  BY DEF ServerEnds
<1>5. applied' = applied \/ (succeeds /\ applied' = applied \union {k})
  BY DEF ServerEnds
<1>6. waiting = 1 => /\ waiting' = 0
                     /\ pc = "wait"
                     /\ IsNext(k)
                     /\ \/ succeeds /\ plan' = plan \ {k} /\ pc' = "admin" /\ k \in applied'
                        \/ plan' = plan /\ pc' = "rollback"
  <2>1. waiting = 1 => pc = "wait" /\ IsNext(ops[waiting])
    BY DEF Inv, WaitInv
  <2>2. QED BY <1>1, <2>1 DEF ServerEnds
<1>7. waiting # 1 => /\ waiting' = IF waiting = 0 THEN 0 ELSE waiting - 1
                     /\ plan' = plan
                     /\ pc' = pc
  BY DEF ServerEnds
<1>8. TypeOK'
  <2>1. waiting' \in 0..Len(ops')
    BY <1>1, <1>2, <1>3, <1>6, <1>7
  <2>2. faults' \in 0..MaxFaults
    BY MaxFaultsAssumption DEF Inv, TypeOK, Fault
  <2>3. plan' \subseteq Statements /\ applied' \subseteq Statements
    BY <1>1, <1>5, <1>6, <1>7 DEF Inv, TypeOK
  <2>4. pc' \in Steps
    BY <1>6, <1>7 DEF Inv, TypeOK, Steps
  <2>5. QED BY <1>2, <1>4, <2>1, <2>2, <2>3, <2>4 DEF Inv, TypeOK
<1>9. ClientsInv'
  BY <1>4, <1>6, <1>7 DEF Inv, ClientsInv, Executing
<1>10. WaitInv'
  <2>1. CASE waiting = 1
    BY <1>6, <2>1 DEF WaitInv
  <2>2. CASE waiting # 1
    <3>1. waiting' > 0 <=> pc' = "wait"
      BY <1>3, <1>7, <2>2 DEF Inv, WaitInv
    <3>2. ASSUME pc' = "wait" PROVE IsNext(ops[waiting])'
      <4>1. pc = "wait" /\ waiting > 1 /\ waiting' = waiting - 1
        BY <1>3, <1>7, <2>2, <3>2 DEF Inv, WaitInv
      <4>2. ops'[waiting'] = ops[waiting]
        BY <1>1, <1>2, <1>3, <4>1
      <4>3. IsNext(ops[waiting])
        BY <4>1 DEF Inv, WaitInv
      <4>4. QED BY <1>7, <2>2, <4>2, <4>3 DEF IsNext
    <3>3. pc' = "submit" => plan' # {}
      BY <1>7, <2>2 DEF Inv, WaitInv
    <3>4. QED BY <3>1, <3>2, <3>3 DEF WaitInv
  <2>3. QED BY <2>1, <2>2
<1>11. OrderInv'
  <2>1. applied \subseteq applied'
    BY <1>5
  <2>2. 1..(k - 1) \subseteq applied
    BY <1>1 DEF Inv, OrderInv
  <2>3. PrefixApplied'
    BY <1>1, <1>5, <2>2, NAssumption DEF Inv, OrderInv, PrefixApplied, Statements
  <2>4. (pc \in Executing => Statements \ plan \subseteq applied)'
    BY <1>6, <1>7, <2>1 DEF Inv, OrderInv, Executing, Statements
  <2>5. \A n \in DOMAIN ops' : 1..(ops'[n] - 1) \subseteq applied'
    <3>1. DOMAIN ops' = 1..Len(ops')
      BY <1>2, LenProperties
    <3>2. QED BY <1>2, <2>1, <3>1 DEF Inv, OrderInv
  <2>6. QED BY <2>3, <2>4, <2>5 DEF OrderInv
<1>12. CommittedMeansDone'
  BY <1>5, <1>6, <1>7, <1>8 DEF Inv, CommittedMeansDone, TypeOK
<1>13. QED BY <1>8, <1>9, <1>10, <1>11, <1>12 DEF Inv

\* The invariant depends on the variables only.
LEMMA StutterInv == Inv /\ UNCHANGED vars => Inv'
<1> SUFFICES ASSUME Inv, UNCHANGED vars PROVE Inv'
  OBVIOUS
<1> USE DEF vars
<1>1. TypeOK'
  BY DEF Inv, TypeOK
<1>2. ClientsInv' /\ CommittedMeansDone'
  BY DEF Inv, ClientsInv, CommittedMeansDone
<1>3. WaitInv'
  BY DEF Inv, WaitInv, IsNext
<1>4. OrderInv'
  BY DEF Inv, OrderInv, PrefixApplied
<1>5. QED BY <1>1, <1>2, <1>3, <1>4 DEF Inv

\* The invariant is inductive.
LEMMA InvIsInductive == Inv /\ [Next]_vars => Inv'
BY NextCases, LocalInv, SubmitInv, ServerInv, StutterInv

\* The invariant holds throughout.
LEMMA InvHolds == Spec => []Inv
BY InitInv, InvIsInductive, PTL DEF Spec

-----------------------------------------------------------------------------

\* Type correctness, for any number of statements and failures.
THEOREM TypeCorrect == Spec => []TypeOK
<1>1. Inv => TypeOK
  BY DEF Inv
<1>2. QED BY <1>1, InvHolds, PTL

\* The statements take effect in the order Diff gave them, whatever fails and whatever
\* outlives the run that submitted it.
THEOREM EffectsInOrder == Spec => []PrefixApplied
<1>1. Inv => PrefixApplied
  BY DEF Inv, OrderInv
<1>2. QED BY <1>1, InvHolds, PTL

\* When Sync returns nil the whole migration took effect.
THEOREM CommitIsComplete == Spec => []CommittedMeansDone
<1>1. Inv => CommittedMeansDone
  BY DEF Inv
<1>2. QED BY <1>1, InvHolds, PTL

\* No call uses a client that was closed.
THEOREM ClientsUsable == Spec => []NoClosedClientUsed
<1>1. Inv => NoClosedClientUsed
  BY DEF Inv, ClientsInv, NoClosedClientUsed
<1>2. QED BY <1>1, InvHolds, PTL

\* A run that began leaves no client open, however it ends.
THEOREM ClientsClosed == Spec => []ClosedAfterRun
<1>1. Inv => ClosedAfterRun
  BY DEF Inv, ClientsInv, ClosedAfterRun
<1>2. QED BY <1>1, InvHolds, PTL

\* A step of the session is a step of the abstract migration, or leaves it as it is:
\* only the end of an operation of the server changes the schema, and OrderInv says that
\* all before its statement has taken effect.
LEMMA StepImplements == Inv /\ [Next]_vars => [M!Next]_applied
<1> SUFFICES ASSUME Inv, [Next]_vars PROVE [M!Next]_applied
  OBVIOUS
<1>1. CASE Local
  BY <1>1 DEF Local, Call, Client, DiffFails, Query, Begin, AdminClient, AdminClientFails,
         WaitFails, Commit, CommitFails, Rollback, Return, Crash
<1>2. CASE UpdateDatabaseDdl \/ UpdateDatabaseDdlFails
  BY <1>2 DEF UpdateDatabaseDdl, UpdateDatabaseDdlFails
<1>3. ASSUME NEW succeeds \in BOOLEAN, ServerEnds(succeeds) PROVE [M!Next]_applied
  <2>1. Head(ops) \in Statements /\ Head(ops) = ops[1] /\ 1 \in DOMAIN ops
    BY <1>3, HeadTailProperties, LenProperties, EmptySeq DEF Inv, TypeOK, ServerEnds
  <2>2. 1..(Head(ops) - 1) \subseteq applied
    BY <2>1 DEF Inv, OrderInv
  <2>3. CASE succeeds
    <3>1. M!TakesEffect(Head(ops))
      BY <1>3, <2>2, <2>3 DEF M!TakesEffect, ServerEnds
    <3>2. QED BY <2>1, <3>1 DEF M!Next, Statements
  <2>4. CASE ~succeeds
    BY <1>3, <2>4 DEF ServerEnds
  <2>5. QED BY <2>3, <2>4
<1>4. CASE UNCHANGED vars
  BY <1>4 DEF vars
<1>5. QED BY <1>1, <1>2, <1>3, <1>4, NextCases

\* The session implements the abstract migration, whatever fails.
THEOREM SessionImplementsMigration == Spec => ImplementsMigration
<1>1. Init => M!Init
  BY DEF Init, M!Init
<1>2. QED BY <1>1, InvHolds, StepImplements, PTL DEF Spec, ImplementsMigration, M!Spec
=============================================================================
