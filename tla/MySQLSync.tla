----------------------------- MODULE MySQLSync ------------------------------
(***************************************************************************)
(* Runs of migu.Sync (src/migu.go) and of the sync command (src/cmd/migu/    *)
(* sync.go, the same steps with --dry-run) against one MySQL database: read  *)
(* the source, read the index map, read the columns and plan, begin, execute *)
(* the statements one by one, commit.  A run may fail at any of them, and is *)
(* started again; several may overlap; the source is edited between runs.    *)
(* MySQL commits every DDL statement at once, so that Rollback undoes none.  *)
(***************************************************************************)
EXTENDS MySQL

CONSTANTS
  Procs,      \* processes that run sync
  Histories,  \* successive versions of the source: the first is what the
              \* database holds, the second what is to be synchronized first
  MaxFaults   \* bound on the failures that are not the server's refusals

ASSUME HistoriesAssumption == \A h \in Histories :
  IsHistory(h) /\ Len(h) > 1 /\ Holdable(h[1])
ASSUME MaxFaultsAssumption == MaxFaults \in Nat

VARIABLES
  db,        \* the tables
  versions,  \* the version of the source on disk, and those it will have
  faults,    \* failures so far
  before,    \* the tables at the last edit of the source (history)
  pc,        \* where each run is
  source,    \* what a run parsed
  indexMap,  \* what its first query answered
  base,      \* the tables when it read them (history)
  torn,      \* a run read its indexes and its columns in different states (history)
  plan       \* the statements it still has to execute

vars == <<db, versions, faults, before, pc, source, indexMap, base, torn, plan>>

File == Head(versions)
None == [t \in {} |-> <<>>]

-----------------------------------------------------------------------------

Init ==
  /\ \E h \in Histories :
       /\ db = [t \in DOMAIN h[1] |-> Built(t, h[1][t])]
       /\ versions = Tail(h)
  /\ before = db
  /\ faults = 0
  /\ pc = [p \in Procs |-> "idle"]
  /\ source = [p \in Procs |-> None]
  /\ indexMap = [p \in Procs |-> None]
  /\ base = [p \in Procs |-> None]
  /\ torn = FALSE
  /\ plan = [p \in Procs |-> <<>>]

Goto(p, step) == pc' = [pc EXCEPT ![p] = step]
Fault == faults < MaxFaults /\ faults' = faults + 1

\* The source changes between two runs.
Edit ==
  /\ Len(versions) > 1
  /\ \A p \in Procs : pc[p] = "idle"
  /\ versions' = Tail(versions)
  /\ db' = Marked(db)
  /\ before' = Marked(db)
  /\ UNCHANGED <<faults, pc, source, indexMap, base, torn, plan>>

\* Diff parses the source before it reads the database.
Start(p) ==
  /\ pc[p] = "idle"
  /\ source' = [source EXCEPT ![p] = File]
  /\ Goto(p, "getIndexMap")
  /\ UNCHANGED <<db, versions, faults, before, indexMap, base, torn, plan>>

GetIndexMap(p) ==
  /\ pc[p] = "getIndexMap"
  /\ \E m \in IndexMaps(db) : indexMap' = [indexMap EXCEPT ![p] = m]
  /\ base' = [base EXCEPT ![p] = db]
  /\ Goto(p, "columnSchema")
  /\ UNCHANGED <<db, versions, faults, before, source, torn, plan>>

\* The second query, and the rest of Diff, which touches nothing shared.
ColumnSchema(p) ==
  /\ pc[p] = "columnSchema"
  /\ \E d \in Diff(source[p], ReadTables(db, indexMap[p]), TRUE) :
       plan' = [plan EXCEPT ![p] = d]
  /\ torn' = (torn \/ base[p] # db)
  /\ base' = [base EXCEPT ![p] = db]
  /\ Goto(p, "begin")
  /\ UNCHANGED <<db, versions, faults, before, source, indexMap>>

\* With --dry-run the statements are printed and nothing is begun.
DryRun(p) ==
  /\ pc[p] = "begin"
  /\ Goto(p, "dry")
  /\ UNCHANGED <<db, versions, faults, before, source, indexMap, base, torn, plan>>

Begin(p) ==
  /\ pc[p] = "begin"
  /\ Goto(p, "exec")
  /\ UNCHANGED <<db, versions, faults, before, source, indexMap, base, torn, plan>>

\* A query, Begin or Commit fails: the error is returned.
Fails(p) ==
  /\ pc[p] \in {"getIndexMap", "columnSchema", "begin"}
       \/ (pc[p] = "exec" /\ plan[p] = <<>>)
  /\ Fault
  /\ Goto(p, "failed")
  /\ UNCHANGED <<db, versions, before, source, indexMap, base, torn, plan>>

Exec(p) ==
  /\ pc[p] = "exec"
  /\ plan[p] # <<>>
  /\ db' \in Result(db, Head(plan[p]))
  /\ plan' = [plan EXCEPT ![p] = Tail(@)]
  /\ UNCHANGED <<versions, faults, before, pc, source, indexMap, base, torn>>

\* Mutant: a statement that is refused is skipped.
ExecRejectedIgnored(p) ==
  /\ pc[p] = "exec"
  /\ plan[p] # <<>>
  /\ Result(db, Head(plan[p])) = {}
  /\ plan' = [plan EXCEPT ![p] = Tail(@)]
  /\ UNCHANGED <<db, versions, faults, before, pc, source, indexMap, base, torn>>

\* The server refuses the statement.
ExecRejected(p) ==
  /\ pc[p] = "exec"
  /\ plan[p] # <<>>
  /\ Result(db, Head(plan[p])) = {}
  /\ Goto(p, "rollback")
  /\ UNCHANGED <<db, versions, faults, before, source, indexMap, base, torn, plan>>

\* The connection breaks while the statement runs: it took effect or not.
ExecBroken(p) ==
  /\ pc[p] = "exec"
  /\ plan[p] # <<>>
  /\ Fault
  /\ db' \in Result(db, Head(plan[p])) \union {db}
  /\ Goto(p, "rollback")
  /\ UNCHANGED <<versions, before, source, indexMap, base, torn, plan>>

\* Every statement executed so far is committed already.
Rollback(p) ==
  /\ pc[p] = "rollback"
  /\ Goto(p, "failed")
  /\ UNCHANGED <<db, versions, faults, before, source, indexMap, base, torn, plan>>

Commit(p) ==
  /\ pc[p] = "exec"
  /\ plan[p] = <<>>
  /\ Goto(p, "ok")
  /\ UNCHANGED <<db, versions, faults, before, source, indexMap, base, torn, plan>>

\* The process is killed.
Crash(p) ==
  /\ pc[p] \in {"getIndexMap", "columnSchema", "begin", "exec", "rollback"}
  /\ Fault
  /\ Goto(p, "failed")
  /\ UNCHANGED <<db, versions, before, source, indexMap, base, torn, plan>>

\* The process ends; nothing of it is left for the next run.
Exit(p) ==
  /\ pc[p] \in {"ok", "failed", "dry"}
  /\ Goto(p, "idle")
  /\ source' = [source EXCEPT ![p] = None]
  /\ indexMap' = [indexMap EXCEPT ![p] = None]
  /\ base' = [base EXCEPT ![p] = None]
  /\ plan' = [plan EXCEPT ![p] = <<>>]
  /\ UNCHANGED <<db, versions, faults, before, torn>>

Run(p) ==
  \/ Start(p)
  \/ GetIndexMap(p)
  \/ ColumnSchema(p)
  \/ Begin(p)
  \/ Exec(p)
  \/ ExecRejected(p)
  \/ Rollback(p)
  \/ Commit(p)
  \/ Exit(p)

Next ==
  \/ Edit
  \/ \E p \in Procs :
       Run(p) \/ DryRun(p) \/ Fails(p) \/ ExecBroken(p) \/ Crash(p)

Spec == Init /\ [][Next]_vars

\* A run that has started goes on, and sync is run again until it succeeds, not
\* for ever with --dry-run.
\* These are WF_vars(Run(p)) and SF_vars(Begin(p)), written out: Run(p) is enabled
\* in every state, and Begin(p) where pc[p] says so.
Fairness ==
  \A p \in Procs :
    /\ []<><<Run(p)>>_vars
    /\ []<>(pc[p] = "begin") => []<><<Begin(p)>>_vars
FairSpec == Spec /\ Fairness

-----------------------------------------------------------------------------
(* The declarations Diff does not carry out, or not in one run.  Each is a   *)
(* limit of the code, described in README.md; the properties below say what  *)
(* holds outside them.                                                       *)

\* The key is given up while one of its columns stays: ADD PRIMARY KEY ().
KeyRemoved(tbl, fields) ==
  PkColumns(fields) = {} /\
    \E c \in tbl.pk, n \in DOMAIN fields : fields[n].column = c \/ fields[n].name = Camel[c]

Limited(tables, s) ==
  \/ Leaked(tables, s)
  \/ \E t \in DOMAIN s :
       \/ Shared(Built(t, s[t]))
       \/ Ambiguous(t, s[t])
       \/ /\ t \in DOMAIN tables
          /\ \/ ReadAsDefault(t, tables[t])
             \/ Alias(tables[t], s[t])
             \/ Respelled(tables[t], s[t])
             \/ RenamedIndexed(tables[t], s[t])
             \/ Reshaped(t, tables[t], s[t])
             \/ Shared(tables[t])
             \/ KeyRemoved(tables[t], s[t])

\* A column of an index becomes a key column.  The key is created before the
\* index is dropped: a run that ends in between leaves both, the next reads the
\* column as one of the key only, and no run drops the index any more.
KeyOverIndex(tables, s) ==
  \E t \in DOMAIN s \intersect DOMAIN tables :
    \E x \in tables[t].indexes :
      ToSet(x.columns) \intersect (PkColumns(s[t]) \ tables[t].pk) # {}

\* An index is made anew under its name: a run that planned earlier drops the new
\* one for the old.
RecreatesIndex(tables, s) ==
  \E t \in DOMAIN s \intersect DOMAIN tables :
    \E x \in tables[t].indexes, y \in Declared(t, s[t]) : x.name = y.name /\ x # y

-----------------------------------------------------------------------------
(* Properties.                                                             *)

\* Every variable has its type.
TypeOK ==
  /\ IsDatabase(db)
  /\ \A t \in DOMAIN db : WellFormed(t, db[t])
  /\ faults \in 0..MaxFaults
  /\ pc \in [Procs -> {"idle", "getIndexMap", "columnSchema", "begin", "exec",
                       "rollback", "ok", "failed", "dry"}]
  /\ \A p \in Procs : IsSchema(source[p]) /\ plan[p] \in Seq(Change)

\* Sync returns nil only when the database has become what the source
\* declares, whatever earlier runs that failed or crashed left behind.
SuccessMeansMatch ==
  \A p \in Procs :
    (pc[p] = "ok" /\ ~Limited(base[p], source[p])) => Matches(db, source[p])

\* A run that executes read an index spelled like a column as the default one of that column,
\* and may go on to drop another index of that name.
Misread == \E p \in Procs : \E t \in DOMAIN base[p] : ReadAsDefault(t, base[p][t])

\* A database that matches is left alone: no run executes a statement on it, not even one
\* that planned before it matched.
MatchIsStable ==
  [][(Matches(db, File) /\ ~Limited(db, File) /\ ~Misread /\ versions' = versions)
       => db' = db]_vars

\* From an edit of the source to the next, and at every point of every run,
\* a column that the new source still declares, under its name or under the
\* Go name it is read with, keeps its data.
DeclaredDataKept ==
  \A t \in DOMAIN before \intersect DOMAIN File :
    ~Crossed(File[t]) /\ ~Respelled(before[t], File[t]) =>
      \A c \in ColumnNames(before[t]), n \in DOMAIN File[t] :
        LET f == File[t][n]
        IN  f.column = c \/ f.name = Camel[c] =>
              /\ t \in DOMAIN db
              /\ \E col \in ToSet(db[t].columns) :
                   col.name \in {c, f.column} /\ col.data = c

\* A table the source does not declare is not touched as long as the source
\* declares one.
OtherTablesUntouched ==
  DOMAIN File # {} =>
    \A t \in DOMAIN before \ DOMAIN File : t \in DOMAIN db /\ db[t] = before[t]

\* Failures end and sync is run again: the database comes to match, however
\* far the failed runs went.
Converges ==
  (/\ Len(versions) = 1
   /\ \A p \in Procs : pc[p] = "idle"
   /\ ~Limited(db, File)
   /\ ~KeyOverIndex(db, File)
   /\ ~SpelledLikeColumn(File))
    ~> Matches(db, File)

\* However two runs from the same source overlap, once all have ended and one of them
\* returned nil the database is what the source declares.
OneSuccessSuffices ==
  (/\ \A p \in Procs : pc[p] \in {"ok", "failed"}
   /\ \E p \in Procs : pc[p] = "ok"
   /\ ~Limited(before, File)
   /\ ~RecreatesIndex(before, File)
   /\ ~torn)
    => Matches(db, File)

\* "Sync synchronizes the schema between Go's struct and the database": when every run
\* has returned nil the database is what the source declares.
AllSucceededMeansMatch ==
  (/\ \A p \in Procs : pc[p] = "ok"
   /\ ~Limited(before, File)
   /\ ~RecreatesIndex(before, File))
    => Matches(db, File)

\* "Migu is an idempotent database schema migration tool": after a run that
\* returned nil, another from the same source has nothing to execute.
SyncIsIdempotent ==
  \A p \in Procs :
    pc[p] = "ok" =>
      \A m \in IndexMaps(db) : Diff(source[p], ReadTables(db, m), TRUE) = {<<>>}
=============================================================================
