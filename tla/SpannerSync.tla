---------------------------- MODULE SpannerSync -----------------------------
(***************************************************************************)
(* Runs of migu.Sync (src/migu.go) against one Cloud Spanner database: what   *)
(* the statements of the dialect make of the schema, over edits of the source *)
(* and runs that are refused or interrupted half way.  SpannerSession has the *)
(* same runs call by call, with clients and operations, and an opaque plan.   *)
(***************************************************************************)
EXTENDS Spanner

CONSTANTS
  Histories,  \* versions of the source: the first is what the database holds
  MaxFaults   \* bound on the interruptions

ASSUME HistoriesAssumption == \A h \in Histories :
  IsHistory(h) /\ Len(h) > 1 /\ Holdable(h[1]) /\ OwnNames(h[1])

VARIABLES
  db,        \* the tables
  rows,      \* the tables hold rows
  versions,  \* the version of the source on disk, and those it will have
  before,    \* the tables at the last edit of the source (history)
  faults,    \* interruptions so far
  pc,        \* where the run is
  base,      \* the tables when the run read them (history)
  plan       \* the statements it still has to execute

vars == <<db, rows, versions, before, faults, pc, base, plan>>

File == Head(versions)

Init ==
  /\ \E h \in Histories :
       /\ db = [t \in DOMAIN h[1] |-> Built(t, h[1][t])]
       /\ versions = Tail(h)
  /\ rows \in BOOLEAN
  /\ before = db
  /\ faults = 0
  /\ pc = "idle"
  /\ base = db
  /\ plan = <<>>

\* The source changes between two runs, and what was added has its data by then.
Edit ==
  /\ Len(versions) > 1
  /\ pc = "idle"
  /\ versions' = Tail(versions)
  /\ db' = Marked(db)
  /\ before' = Marked(db)
  /\ UNCHANGED <<rows, faults, pc, base, plan>>

\* Diff reads the columns and their indexes in one query, and plans.
Plan ==
  /\ pc = "idle"
  /\ \E tables \in Reads(db) : plan' \in Planned(File, tables)
  /\ base' = db
  /\ pc' = "exec"
  /\ UNCHANGED <<db, rows, versions, before, faults>>

Exec ==
  /\ pc = "exec"
  /\ plan # <<>>
  /\ db' \in Result(db, Head(plan), rows)
  /\ plan' = Tail(plan)
  /\ UNCHANGED <<rows, versions, before, faults, pc, base>>

\* The server refuses the statement; Rollback undoes nothing.
Refused ==
  /\ pc = "exec"
  /\ plan # <<>>
  /\ Result(db, Head(plan), rows) = {}
  /\ pc' = "failed"
  /\ UNCHANGED <<db, rows, versions, before, faults, base, plan>>

\* The run is interrupted while a statement runs, which takes effect or not.
Interrupted ==
  /\ pc = "exec"
  /\ plan # <<>>
  /\ faults < MaxFaults
  /\ faults' = faults + 1
  /\ db' \in Result(db, Head(plan), rows) \union {db}
  /\ pc' = "failed"
  /\ UNCHANGED <<rows, versions, before, base, plan>>

Commit ==
  /\ pc = "exec"
  /\ plan = <<>>
  /\ pc' = "ok"
  /\ UNCHANGED <<db, rows, versions, before, faults, base, plan>>

\* The run ends; the next one starts from what it finds.
Exit ==
  /\ pc \in {"ok", "failed"}
  /\ pc' = "idle"
  /\ base' = db
  /\ plan' = <<>>
  /\ UNCHANGED <<db, rows, versions, before, faults>>

Run == Plan \/ Exec \/ Refused \/ Commit \/ Exit

Next == Run \/ Edit \/ Interrupted

Spec == Init /\ [][Next]_vars

\* Sync is run again and again, and a run that has started goes on.  Run is enabled in
\* every state, so that this is WF_vars(Run), written out.
FairSpec == Spec /\ []<><<Run>>_vars

-----------------------------------------------------------------------------
(* The declarations the Spanner dialect does not carry out, beside those of     *)
(* Database.                                                               *)

\* A column of the table under another name, or with another value of its option.
RenamedOrReset(tbl, fields) ==
  \/ \E c \in ColumnNames(tbl) \ ColumnsOf(fields), n \in DOMAIN fields :
       fields[n].name = Camel[c]
  \/ \E col \in ToSet(tbl.columns), n \in DOMAIN fields :
       /\ fields[n].column = col.name
       /\ NoExtra \notin {fields[n].def.extra, col.def.extra}
       /\ fields[n].def.extra # col.def.extra

\* The key of a table is the one it was created with.
KeyChanged(tbl, fields) == tbl.pk # PkColumns(fields)

Limited(tables, s) ==
  \/ Leaked(tables, s)
  \/ \E t \in DOMAIN s :
       \/ Shared(Built(t, s[t]))
       \/ Ambiguous(t, s[t])
       \/ /\ t \in DOMAIN tables
          /\ \/ ReadAsDefault(t, tables[t])
             \/ Alias(tables[t], s[t])
             \/ Respelled(tables[t], s[t])
             \/ Reshaped(t, tables[t], s[t])
             \/ Shared(tables[t])
             \/ RenamedOrReset(tables[t], s[t])
             \/ KeyChanged(tables[t], s[t])

\* What the server refuses, at whatever time: an index is in the way of its column or its
\* table, a column becomes NOT NULL or of a type its data are not of, a key column
\* changes.
Refusable(tables, s) ==
  \/ DOMAIN s = {} /\ \E t \in DOMAIN tables : tables[t].indexes # {}
  \/ \E t \in DOMAIN s \intersect DOMAIN tables :
       LET Known(c) == c \in ColumnNames(tables[t])
       IN  \/ \E x \in tables[t].indexes : ~(ToSet(x.columns) \subseteq ColumnsOf(s[t]))
           \/ \E n \in DOMAIN s[t] :
                LET new == s[t][n].def
                    old == ColumnNamed(tables[t], s[t][n].column)
                IN  IF Known(s[t][n].column)
                      THEN \/ old.def # new /\ old.name \in tables[t].pk
                           \/ old.def.type # new.type /\ <<old.def.type, new.type>> \notin Convertible
                           \/ rows /\ ~new.nullable /\ old.def.nullable /\ old.data = NewColumn
                      ELSE rows /\ ~new.nullable

-----------------------------------------------------------------------------
(* Properties.                                                             *)

\* Sync returns nil only when the database has become what the source declares,
\* whatever earlier runs that were refused or interrupted left behind.
SuccessMeansMatch == (pc = "ok" /\ ~Limited(base, File)) => Matches(db, File)

\* At every point of every run, a column the new source still declares, under its name or
\* under the Go name it is read with, keeps its data, and its name: none is renamed.
DeclaredDataKept ==
  \A t \in DOMAIN before \intersect DOMAIN File :
    ~Respelled(before[t], File[t]) =>
      \A c \in ColumnNames(before[t]), n \in DOMAIN File[t] :
        LET f == File[t][n]
        IN  f.column = c \/ f.name = Camel[c] =>
              /\ t \in DOMAIN db
              /\ \E col \in ToSet(db[t].columns) : col.name = c /\ col.data = c

\* Where the server has nothing to refuse, sync run again completes what an interrupted run
\* left half done.
Converges ==
  (/\ Len(versions) = 1
   /\ pc = "idle"
   /\ ~Limited(db, File)
   /\ ~Refusable(db, File)
   /\ ~SpelledLikeColumn(File))
    ~> Matches(db, File)
=============================================================================
