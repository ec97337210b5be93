# Verification of migu

migu (`github.com/naoina/migu`) keeps the tables of a database in step with the structs of a Go
source. This directory holds TLA+ modules that model its core, the TLC runs that check them on
small instances, and proofs, checked by TLAPS, of what holds for every instance.

All line numbers are those of the files under `src/`.

## The system

### Components

| Component | State | Operations |
|---|---|---|
| Diff (`migu.go` 58-195, helpers 228-515) | local: the maps of declared and read tables, the statements emitted so far, `droppedColumn`, the indexes gathered per table | `makeAlterTableFields`, `makePrimaryKeyColumns`, `makeIndexes`, `getTableMap`, the loop over the tables |
| Sync (`migu.go` 39-55), the sync command (`cmd/migu/sync.go`) | local: the statements still to execute, the transaction | Diff, Begin, Exec for each statement, Rollback on the first error, Commit; `--dry-run` |
| MySQL dialect (`dialect/mysql.go`) | the server's tables; a cached version and database name | introspection in two queries joined in memory, one SQL text per change, a `sql.Tx` |
| Spanner dialect (`dialect/spanner.go`) | the two clients, created on demand and kept; the server's schema and its long-running operations | introspection in one query, SQL texts, `UpdateDatabaseDdl` and `Wait` for each statement, `close` |
| Reading source files (`migu.go` 58-103, 197-238, 597-666) | the struct of each table found so far | `collectFiles`, `makeStructASTMap`, `detectTypeName`, the choice of structs and fields |
| Struct tags and annotations (`annotation.go`, `migu.go` 707-829) | none | text to fields and back |
| Column and Go types (`dialect/dialect.go`, tables in the dialects) | none | Go type to column type and back |
| Fprint, the dump command (`migu.go` 518-570, `cmd/migu/dump.go`) | the file half written | tables to Go source |
| Command line (`cmd/migu/main.go`, `template.go`, `dialect/option.go`) | flags | opens the database, picks the dialect |

### How they interact

Sync calls Diff, which parses the source *first*, then asks the dialect for the columns of the
declared tables. MySQL answers from two queries that share no transaction: the index map
(`getIndexMap`, line 104), then the columns (line 138). Each column is turned into the text of a
struct field by `fieldAST` and parsed again by `newField`, so that both sides are lists of the
same `field`. Diff compares the lists and returns SQL texts. Sync executes them one at a time.
MySQL commits each DDL statement as it executes; Spanner runs each as an operation of its own. So
the transaction Sync opens protects nothing, and whatever happens between two statements is seen
by the next run and by other runs.

### What is hard

- **Partial failure and retry.** A statement may be refused, its connection may break with the
  statement executed or not, the process may be killed. The next run starts from whatever is there.
- **Interleaving.** Nothing stops two runs (two deployments) from overlapping; each executes a plan
  made for a database the other changes.
- **Atomicity.** The plan is made from two reads.
- **Stale state.** `droppedColumn` outlives the table it was filled for; the index map keeps one
  index of each column; a Spanner client outlives the call that opened it.
- **Text.** Types, defaults and tags are texts that migu, Go and the server each write in their own way;
  what is written has to be found again as it was meant, or every run writes it again.
- **Sequences.** Renames are recognised by the Go name, indexes by the column's *new* name. Several
  edits of the source in a row reach combinations no single test does.
- **Edges.** A source without a struct asks for *all* tables and drops them; giving up a key writes
  `ADD PRIMARY KEY ()`; two keys are compared by their counts first.

`PROJECT.json` lists each of these under `hazards`, at its line, with the properties about it.

### What makes each component correct

- *Diff*: emits nothing that is not asked for, everything that is, in an order a database can
  execute, each index once; and nothing at all when both sides agree.
- *Sync over MySQL*: nil means the database is what the source declares; data of a column still
  declared is never lost and tables the source does not mention are not touched, at any point of any
  run; a database that matches is left alone; retries converge; overlapping runs do no harm.
- *Sync over Spanner*: schema changes take effect in their order; nil means all of them did; clients
  are not used after they are closed; retries complete the migration.
- *Columns*: what is written is found again as it is declared; what is left alone is what would be written.
- *Sources*: what the marked structs mean is what Diff compares, in whatever order files and structs come.
- *Types, dump*: `GoType` answers, with a type that holds the column; a dump that returns nil is whole,
  and reads back as the database.

## The modules

| Module | What it models | Depends on |
|---|---|---|
| `SchemaDiff` | fields, the rules that match new and old ones, index names, the changes: operators only | |
| `DiffFunction` | Diff as one function of the source and the tables read | `SchemaDiff` |
| `DiffLoop` | Diff, one action per iteration of each of its loops, with its local variables | `DiffFunction` |
| `Database` | what both servers share: tables, keys, indexes, old fields, limits | `DiffFunction` |
| `MySQL` | what each MySQL statement does, when it is refused, introspection | `Database` |
| `MySQLSync` | runs of Sync over one MySQL database: failures, crashes, reruns, edits, overlap | `MySQL` |
| `Spanner` | the statements of the Spanner dialect, when they are refused, its rows | `Database` |
| `SpannerSync` | runs of Sync over one Spanner database: edits, refusals, interruptions | `Spanner` |
| `SpannerSession` | calls on one Spanner dialect: clients, operations, failures | `Migration` |
| `Migration` | the abstract promise of a migration, implemented by `SpannerSession` | |
| `ColumnTypes` | the type tables of both dialects and the conversions: operators only | |
| `GoType` | the recursion of GoType, one action per call | `ColumnTypes` |
| `StructTag` | the tag of a field, written and read: operators only | |
| `Annotation` | the comment of a struct: operators only | `StructTag` |
| `Column` | the life of one column: edits, syncs, five servers | `ColumnTypes`, `StructTag` |
| `SourceFiles` | the first half of Diff: files, structs, fields | `Annotation` |
| `Dump` | the dump command, then Diff of the file | `GoType`, `SourceFiles` |
| `MCDiffLoop`, `MCMySQLSync`, `MCSpannerSync`, `MCColumn`, `MCDump` | the instances TLC checks | |
| `DiffFunctionTheorems` | lemmas about the operators of `SchemaDiff`; induction, folds and sorted orders; what Diff as a function returns | `DiffFunction` |
| `DiffLoopProofs` | theorems about `DiffLoop` | `DiffLoop`, `DiffFunctionTheorems` |
| `DiffResultProofs` | theorems about what `DiffLoop` returns | `DiffLoopProofs` |
| `DatabaseTheorems` | lemmas about tables, reading them and the plans made from a reading | `Database`, `DiffFunctionTheorems` |
| `PlanTheorems` | what Diff plans for tables that are read as they are: all that is asked for, nothing else | `DatabaseTheorems` |
| `MySQLSyncProofs` | theorems about `MySQLSync` | `MySQLSync`, `PlanTheorems` |
| `SpannerSyncProofs` | theorems about `SpannerSync` | `SpannerSync`, `PlanTheorems` |
| `SpannerSessionProofs` | theorems about `SpannerSession` | `SpannerSession` |

### SchemaDiff, DiffLoop, DiffFunction

A `Field` is the code's `field` cut down to what Diff tells apart: table, Go name, column, whether
it is a key column, its raw index and unique tags (`Unnamed` is a tag without a name), and one
opaque definition that stands for type, NULL, DEFAULT, AUTO_INCREMENT, EXTRA and COMMENT (`Column`
spells them out). In the code
`IsDifferent` compares those one by one and any difference has the same effect. `PkChanged` is
`makePrimaryKeyColumns`: the key fields differ in number, or a new one is of no old key column (373, 380). What it is
for is stated apart from it, in `DiffLoop`: `SameKey` says that the two sides list the same columns in some order, by
a bijection of their key fields. The two differ where a struct lists a column of its key twice (`RepeatsKey`): `a`, `a` is
taken for the key of a table whose key is `a`, `b`, so that `EverythingIsServed` owes no key there; in any other
such case `ADD PRIMARY KEY` names a column twice and MySQL refuses it.

The Go maps of `makeAlterTableFields`, keyed by column *and* Go name with later entries
overwriting earlier ones, are `Keyed` and `LastOf`; `OldField` is the lookup by column, then by
name. `AddToIndexes` is the pair of a map and a list of names in `makeIndexes`.

`DiffLoop` has the code's variables: `tableMap`, `migrations`, `droppedColumn` (declared outside the
loop over the tables, as in the code), `dropIndexes`, `addIndexes`, and `pc`, `i`, `j` for the place
in the loops. `Fail` stands for the early returns with an error. `DropLeftover` takes the tables
left in any order, as a `range` over a map does.

`DiffFunction` computes the same in one step, for the models where other processes matter more than
the inside of Diff. The invariant `LoopsComputeDiff` ties the two together; it is proved.

### Database, MySQL, MySQLSync

The server is external. A table has columns (each with its definition and the name of the earlier
column whose data it holds, or `NewColumn`), a key and indexes. `DROP` of a column takes it out of
its indexes; `CHANGE` renames it in them; a statement that names what is not there, or creates what
is, is refused, and so is a table with two columns of one name, or an index without a column. `WellFormed` says
what a server sees to so: columns and indexes of a table have names of their own. A primary key is also an index
called `PRIMARY` that introspection reports and `DROP INDEX` can drop; no other index gets that name. These rules are those of MySQL 5.7/8 and MariaDB that the dialect's SQL relies
on; duplicate key values, which can make a `CREATE UNIQUE INDEX` fail by the data, appear as
`ExecBroken` with no effect.

`IndexMaps` is `getIndexMap`: any one of a column's indexes may be the last row. `ReadField` is the
round trip through `fieldAST` and `newField`: the column `a` comes back as field `A` with column
`Snake[Camel["a"]]`.

In `MySQLSync` a run goes `idle`, `getIndexMap`, `columnSchema`, `begin`, `exec`, then `ok`, `failed`
or `dry`. `Fails`, `ExecBroken` and `Crash` are failures from outside, at most `MaxFaults`;
`ExecRejected` is the server's own answer and not bounded. `Rollback` changes nothing, as MySQL commits
DDL implicitly. `Edit` replaces the source by its next version between runs and marks
each column as holding its own data. `before`, `base` and `torn` are history variables for the
properties.

### Spanner, SpannerSync

The same tables, fields and runs, with the other dialect. `SQL` is the statements of a change, which may
be none (a rename, 275) or two (`ADD COLUMN` then `ALTER COLUMN` for `NOT NULL`, 257). `Result` is what
Cloud Spanner makes of one, empty where it is refused: to drop a column or a table that has an index, to
change a key column, to make a column of a table with rows `NOT NULL`. `Reads` is the introspection query,
with a row for each index of a column (`ColumnRows`), in any order among them (119), so that one column may be two old
fields. There is no `PrimaryKeyModifier`: Diff never changes a key. `Interrupted` ends a run before or
after the effect of its current statement.

### SpannerSession, Migration

The clients `c` and `ac` are `nil`, open or closed. A migration is `N` statements, each with one effect;
Diff plans those whose effect it does not find. Exec submits one operation and waits; the server
ends operations in order, with success or not; a wait may end while the operation goes on, and an
answer may be lost after the server accepted. `Commit` and `Rollback` both close the clients. A
program may call Diff or Sync on the dialect again after any call; a crash forgets the clients.
`ImplementsMigration` says that all of this, seen through `applied` alone, is `Migration`: one
statement takes effect at a time, after all before it, once, and for good.

### Texts: ColumnTypes, StructTag, Annotation

A text is the sequence of its parts: words, and the marks the code looks for, as in
`<<"decimal", "(", "20", ",", "2", ")">>`. The scanners work on these: `Scan` is `tagOptionSplit` under a
`bufio.Scanner` with a window of `Buffer` parts (4096 bytes in Go), `Write` is the tag `fieldAST` makes,
`Get` is what `reflect.StructTag` gives back. They use RECURSIVE operators and are checked by TLC only.

### Column

The source declares one column; it is edited, and sync runs again. One step is one run: `New` is the field
of the source, `columnSQL` the clause written, `Stored` what the server makes of it (none when it refuses,
more than one where that depends on its mode), `OldFieldOf` the way back through `mysqlColumnSchema`, the
tag of `fieldAST` and `newField`. The server's part is modelled from the SQL the dialect sends and the
answers its methods are written for: quoted defaults from MariaDB 10.2.7 on, display widths before
MySQL 8.0.19, `DEFAULT_GENERATED`.

### SourceFiles, GoType, Dump

`SourceFiles` has Diff up to the database: `CollectFiles`, `ReadFile` (any file next), `VisitStruct` (any
struct next), with its variables `asts` (`structASTMap`) and `tables` (`structMap`). A source carries
beside each comment what its author meant by it, which the code never looks at and the properties compare with.

`GoType` has a step for each call of the function of that name on itself. `Dump` composes both: the file
is created and truncated, the database queried, imports, fields, markers and structs written, one by one,
over a writer that may fail at any time and recover; the error of writing the marker is not looked at (551).
A file that was written is then given to Diff, with a package clause, which Fprint does not write. A source
written by hand goes to Diff at once (`db = ByHand`).

## What is checked

| Run | Module, cfg | Expected | Shows |
|---|---|---|---|
| `diff` | `MCDiffLoop`, `DiffLoop.cfg` | pass | the seven invariants of Diff below |
| `diff_leak` | `MCDiffLoop`, `DiffLoopLeak.cfg` | violation | an index stays because another table lost a column of that name |
| `sync` | `MCMySQLSync`, `SyncSolo.cfg` | pass | runs in sequence over edits, with one failure anywhere: safety, and retries converge |
| `sync_overlap` | `MCMySQLSync`, `SyncOverlap.cfg` | pass | two overlapping runs |
| `sync_torn` | `MCMySQLSync`, `SyncTorn.cfg` | violation | the two reads of a plan |
| `sync_idempotent` | `MCMySQLSync`, `SyncIdempotent.cfg` | violation | a second run still has something to do |
| `spanner` | `SpannerSession`, `SpannerSession.cfg` | pass | safety and liveness of the Spanner session |
| `spanner_rollback` | `SpannerSession`, `SpannerRollback.cfg` | violation | a rolled back run leaves statements in effect |
| `spanner_sync` | `MCSpannerSync`, `SpannerSync.cfg` | pass | the statements of the Spanner dialect over edits and interruptions |
| `column` | `MCColumn`, `Column.cfg` | pass | one column through edits and syncs, on five servers |
| `dump` | `MCDump`, `Dump.cfg` | pass | dumps of every type and tag, and what Diff reads of them and of sources written by hand |
| `dump_enum` | `MCDump`, `DumpEnum.cfg` | violation | GoType calls itself for ever |

**diff.** `EveryChangeIsDue`: each statement, and each index about to get one, has its reason in
the difference of the two sides. `EverythingIsServed`: on return each difference has its
statement. `PhasesInOrder`: columns, then key, then indexes, drops before creations.
`OneStatementPerIndex`: fields that share an index name get one statement. `NothingToDo`: equal
sides give no statement. `LoopsComputeDiff`: the loops and `DiffFunction` agree. *Bounds*: two tables, two
columns, two Go names, two definitions, one named index and the default ones. Sources and databases
come in five slices (names and definitions; keys; two Go fields of one column in the key; index tags, up to two on a
field; two tables with and without an index), every source of any slice against every database of any slice. Every rule of
Diff relates at most two fields of one table, or a column of one table and an index of another, so
that two of each reach every case of the code. Deadlock is off: Diff returns.

**sync, sync_overlap.** *Bounds*: two tables, three columns; histories of two
versions within one slice (names and definitions, keys, indexes, two tables, all mixed on two columns; a
column that changes its name while one comes that may be named after it, on three; indexes spelled like a column
and like the default index of another, on two columns and on three; from these to sources no database can hold) and of
three versions in a slice of edits; two versions of each of these slices but the mixed one for the overlap, with
two declared columns where the slice is one of indexes or definitions; one failure from outside, at any step of
any run (none in the overlap run, which already interleaves two runs statement by statement and lets each be refused). A failure in a
retry of a failure starts from a database that is the result of some earlier half run, as the first
one does; two failures in one history are left to later work. `SuccessMeansMatch`,
`DeclaredDataKept`, `OtherTablesUntouched` and `MatchIsStable` are stated over all runs and all points of
a run; `OneSuccessSuffices` over the end of both. `Converges`: after any interruption, runs that go on end
in a database that matches.

**spanner.** `N = 3`, `MaxFaults = 3`: a statement before and after the one that fails, and enough
failures for an operation to outlive two runs. The safety part is proved for every `N` and `MaxFaults`.

**spanner_sync.** *Bounds*: the key column and two more, two tables; `Defs` holds every combination of type,
NULL and option (`DefsAssumption`), as a column may come to any of them by steps; histories of two versions within a
slice (definitions: four types, NULL, an option of the one type that has one; indexes: plain and unique, default and named, of one or
two columns; indexes spelled like a column; two tables), from such indexes to sources no database can hold, and of three
versions where a new column is asked for in one shape, then in
another; tables with rows or without; one interruption. A change of a column is seen and written by itself,
and an index relates two columns at most in any rule, so that two columns beside the key are enough.

**column.** *Bounds*: declarations by Go type, by `type`, by `default` (quotes, backslashes, parentheses, commas, words of
SQL, texts that fit into their column and that do not), by `extra` and `autoincrement`, with a comment; every one of them after every other, as the source may be
edited any number of times, on a database that starts without the column, with one written by an earlier
declaration, or with one migu would not write; MySQL 5.7.30, 8.0.23, MariaDB 10.1.48, 10.2.7 and 10.3.0: each
side of the comparisons the dialect and the server make, and one version that is misread; one entry of `--column-type-file`. The length of a text is counted in its parts
(`Number`). A database that is found has no backslash in a default; one that is declared escapes the quote, so that the
statement is refused, or is taken out of the text by the server. `WrittenIsFound` and
`SameIsStored` are the two halves of idempotence; `TextIsRarelyRefused` is about the quoting of defaults.

**dump.** *Bounds*: a one-column database for each type of the tables, with and without a width, UNSIGNED, ZEROFILL
and NULL, and for each Spanner type and array; one for each tag of 3 types, 10 defaults, 5 extra clauses, 9 choices
of an index (named like its column, like the default index, otherwise), key and NULL, long enough to cross `Buffer` = 24 parts; databases of up to three tables of up to two columns, with names
that do and do not survive camel case and names that are no identifiers in it. A writer that breaks and recovers at any write. By hand:
comments in every spelling of an annotation, two declarations of nine kinds, two fields of every kind, directories
of up to three files of nine. A rule of the reader relates at most two structs or two fields. `HoldsNull`,
`HoldsIntegers`, `DumpedTypeIsStable`, `DumpedTypeIsImported` and `Answers` are about `GoType`; `DumpIsWhole`,
`DumpIsRead`, `ReadBackIsDatabase` and `ReadsBackAsMeant` about the dump; `ResultIsMeant` and `FailsOnlyForMarked` about
what Diff makes of any source.

### Limits

The modules name the declarations migu does not carry out, or not in one run. The properties say what holds
outside them; each was put there because TLC found a run that breaks a property without it, or because a proof
failed without it and TLC then found the run: so `Crossed`, `Ambiguous`, `ReadAsDefault` and `Misread` came to be.

Of Diff over both servers, in `Database` and `MySQLSync`:

- `Alias`: a field carries the Go name of another old column; the name decides wrongly (`migu.go` 497). Part
  of it is `Crossed`, where the source alone shows it: a field is named after the column of another field. Say `A` with
  column `a` becomes `A` with column `b`, and a new field `B` with column `c` comes. One run renames `a` to `b` and adds
  `c`. If it ends between the two, or another run reads the tables there, `B` finds its Go name in column `b` and the
  next run renames `b` to `c`, and the data of `a` with it.
- `Respelled`, of a table: a column whose name is not the snake case of its camel case is read back under another name
  (`migu.go` 784, 290).
- `RenamedIndexed`: a renamed column is part of an index; the index follows the column and is
  created again (398).
- `Reshaped`: an index keeps name, kind and a column, and changes otherwise (404-455).
- `Shared`: a column is in two indexes, or in an index and the key; over MySQL one of them is read
  (`mysql.go` 432), over Spanner each is a row, and the last row decides, so that an index may be created
  again and refused (`spanner.go` 119).
- `KeyRemoved`: the key is given up while a column of it stays: `ADD PRIMARY KEY ()` (`mysql.go` 278).
- `Leaked`: `droppedColumn` of an earlier table (`migu.go` 181).
- `Ambiguous`: two fields have one column, a field names an index twice, or an index is to be plain and unique.
  No database can hold such a source, and Diff may return a plan that is executed to its end all the same: each of two
  fields of one column is matched with that column (`migu.go` 494-504), and `makeIndexes` gathers by name alone (388-456).
- `ReadAsDefault`: an index of the database has the name of one of its columns, and is read back as a tag without a
  name, which stands for the default index of that column (`migu.go` 799-810).
- `SpelledLikeColumn`, for convergence only: the source asks for such an index. A run that ends half way leaves
  it beside the index that default name stands for, and the next takes the one for the other.
- `Misread`, for `MatchIsStable` only: the run at work read an index in this way. Say index `a` is on columns `b` and
  `a`, index `t_a` on `c`, and the source gives up `a`. The plan drops `a` by the name it has for `b`, and `t_a` by the
  name it is read with for `a`: after the first statement the database is what the source declares, and the second
  drops the index on `c`.
- `KeyOverIndex`, for convergence only: an indexed column becomes a key column, and a run ends between
  the two statements.
- `RecreatesIndex`, for overlap only: an index is made anew under its name, and the other run drops the
  new one for the old.

Of the Spanner dialect, in `SpannerSync`:

- `RenamedOrReset`: a rename, or an option that changes from one value to another, writes no statement; Sync
  returns nil every time (`spanner.go` 275-290).
- `KeyChanged`: there is no `PrimaryKeyModifier`.
- `Refusable`, for convergence only: an index is in the way of its column, as Diff leaves out the `DROP INDEX` of a
  dropped column for every dialect (`migu.go` 181); a key column changes; a column of a table with rows becomes
  `NOT NULL`.

Of columns, in `Column`:

- `Respelled`: `INTEGER`, or an integer with a display width; the server answers another spelling.
- `SpecialDefault`: the default is a word of SQL (`true` is read back as `1`, `migu.go` 338), has quotes of its own, a backslash or
  the look of a call, or stands in a type `isTextType` does not know (enum; `MIDIUMTEXT` for MEDIUMTEXT, `mysql.go` 325).
- `SpecialExtra`: the clause is not in the spelling the server gives, or not shown at all.
- `Misread`: a version such as MariaDB 10.3.0, which the comparison number by number takes for one before
  10.2.7 (`mysql.go` 557).
- `HiddenDefault`: the defaults `''`, `NULL` and the zero date are read as none (`mysql.go` 567).
- `OtherCase`: the values of an enum are put into upper case (`mysql.go` 189).
- `TakenForGoType`: `ColumnType` looks the type of a column up among the Go types (`mysql.go` 182).

- `TooLong`: the default has no room in its `CHAR(n)` or `VARCHAR(n)`, and the server refuses it.
- `EscapesQuote`: `QuoteString` doubles quotes only (`mysql.go` 227); a backslash at the end of a default, or before a
  quote, takes the quote for a part of the text, and the server refuses the statement.

Of Diff alone: `RepeatsKey`, a struct that lists a column of its key twice (see `SchemaDiff` above).

Of Go types, in `GoType`: `UnsignedNull` (the unsigned type is taken before NULL is looked at, `dialect.go` 112) and
`Zerofill` (it hides `unsigned`).

Of tags and sources, in `StructTag` and `SourceFiles`:

- `Unwritable`: a text with a comma outside parentheses, with a parenthesis left open, a quote, a backslash or a
  backquote; a tag longer than the window.
- `NamedLikeColumn`: an index with the name of its column is written as a tag without a name (`migu.go` 806), which
  Diff reads as the default name of the table and the column (312).
- `SameTable`: two structs of one table; the last one read counts (`migu.go` 76).
- `FieldList`: `A, B int`; only the first name becomes a column (271).
- `Grouped`: a struct marked by its own comment within `type ( ... )` is not seen (605); alone in a source it makes
  Diff drop every table.
- Annotations in the sources of the run do not end a value in a backslash (`annotation.go` 87).

Of dumps, in `Dump`:

- `Renamed`, `SharesName`: the marker has no `table` and the field no `column` option (`migu.go` 551, 696), so that a
  name which is not the snake case of its camel case comes back as another.
- `Unexported`: a column whose name makes no exported Go name.
- `OpaqueColumn`: a column migu has no type for is dumped as `interface{}`, which Diff answers with
  "BUG: unknown type" (664). An ignored field of such a type fails as well (82).
- `MarkerLost`: the marker could not be written and the struct could (551).
- `Multiline`, `Backquoted`: a comment of several lines has slashes before the first only (825); a backquote ends the
  literal of a tag.
- `NoIdentifier`: a table `2fa` or a column `first-name` is given a name that Go does not parse, as the camel case of
  a name is written as it is (696, 784).

### Where code and documents disagree

- `diff_leak`: the comment at `migu.go:179` explains why a `DROP INDEX` is left out: its column is
  dropped. The map it consults also holds columns of tables visited earlier.
- `sync_idempotent`: "Migu is an idempotent database schema migration tool" (`README.md:3`); an index
  that changes its columns under its name takes two runs.
- `sync_torn`: "Sync synchronizes the schema between Go's struct and the database" (`migu.go:28`);
  two runs that overlap may both return nil and leave a table without its key: a column that left the key
  between the two reads looks like one with an index called `PRIMARY`, which the second run drops.
- `spanner_rollback`: "All query for synchronization will be performed within the transaction if
  storage engine supports the transaction" (`migu.go:36`); the Spanner transaction is an object that
  closes clients.
- `dump_enum`: "Fprint generates Go's structs from database schema" (`migu.go:517`); on `enum('a b')` GoType calls
  itself with the same name until the stack is exhausted (`mysql.go` 204). Diff asks GoType of each column, too.

Further disagreements are visible in the limits and have no run of their own: `migu:"unique,size:512"` of
`README.md:217` has an option `parseStructTag` does not know (`migu.go` 757); `default:true` of `README.md:139` is
written in every run; `README.md:142` promises quotes for a string field of any type; `README.md:212` says that a
field with `-` does not affect the migration, but its type is looked at first; `README.md:27` speaks of the comment
of a struct, and that of a struct in a group is not read.

### Fairness

Safety over MySQL needs none. `Converges` of `sync` assumes that a run that has started goes on (a process
that is not killed executes its next instruction) and that an operator keeps running sync, not for
ever with `--dry-run`: weak fairness of `Run`, strong fairness of `Begin`. They are written out as
`[]<>` formulas, which is equivalent because `Run(p)` is enabled in every state and `Begin(p)` exactly at
`begin`; TLC then need not evaluate `ENABLED` of Diff. `SpannerSession` assumes that a call goes on,
that the server ends the operations it accepted, and that Sync, not only Diff, is called again and
again. `SpannerSync` assumes that runs go on and are started again (`Run`, enabled in every state, so that
`[]<><<Run>>_vars` is its weak fairness). `Dump` assumes that a call of GoType that was made goes on: nothing else runs
in that process; `Answers` then fails only where the calls never end. Failures need no fairness: `MaxFaults` bounds them, which is what "once failures end" means.

## What is proved

TLAPS checks these for every value of the constants, from the assumptions named in the modules. They say that
there are finitely many tables (at least one) and index names; that names sort (`RankAssumption`); that `Unnamed` and
`NewColumn` are not names; that the functions on names have their types, and that a struct field that is read
begins with an upper-case letter, which no snake case does (`CaseAssumption`); that sources and databases are lists of
fields of the table they are under, a history has at least two versions and no struct has two fields of one exported
Go name (`HistoriesAssumption`, `SourcesAssumption`, `SchemasAssumption`; Go refuses the others); that the first version
of a history, which says what the database holds at the start, is one a server can hold (`Holdable`, over Spanner
`OwnNames` as well, where no two tables have an index of one name), and of the later ones nothing; that definitions over
Spanner are triples (`DefsAssumption`); that counts are natural numbers. So: any number of tables, columns and indexes,
fields of any length, repeated columns included (also in a key; see `SameKey`), with or without a `PrimaryKeyModifier`; any number of versions,
failures and overlapping runs. `BufferAssumption` of `StructTag` is evaluated by its run and no theorem uses it.

| Theorem | Statement |
|---|---|
| `DiffLoopProofs!TypeCorrect` | `Spec => []TypeOK` |
| `DiffLoopProofs!ChangesAreDue` | `Spec => []EveryChangeIsDue` |
| `DiffLoopProofs!PhasesAreInOrder` | `Spec => []PhasesInOrder` |
| `DiffLoopProofs!IndexesAreGathered` | `Spec => []OneStatementPerIndex` |
| `DiffLoopProofs!EverythingServed` | `Spec => []EverythingIsServed` |
| `DiffResultProofs!DiffOfEqualIsEmpty` | `Spec => []NothingToDo` |
| `DiffResultProofs!LoopsAgree` | `Spec => []LoopsComputeDiff` |
| `DiffFunctionTheorems!DiffIsPlanned` | every result of `Diff` is a sequence of `Plans` |
| `PlanTheorems!DiffPlans` | a plan made from `DiffOutside` tables is `PlannedFor` them |
| `MySQLSyncProofs!TypeCorrect` | `Spec => []TypeOK` |
| `MySQLSyncProofs!DeclaredDataIsKept` | `Spec => []DeclaredDataKept` |
| `MySQLSyncProofs!OtherTablesAreUntouched` | `Spec => []OtherTablesUntouched` |
| `MySQLSyncProofs!SuccessIsMatch` | for one process, `Spec => []SuccessMeansMatch` |
| `MySQLSyncProofs!MatchIsLeftAlone` | for one process, `Spec => MatchIsStable` |
| `SpannerSyncProofs!DeclaredDataIsKept` | `Spec => []DeclaredDataKept` |
| `SpannerSyncProofs!SuccessIsMatch` | `Spec => []SuccessMeansMatch` |
| `SpannerSessionProofs!TypeCorrect` | `Spec => []TypeOK` |
| `SpannerSessionProofs!EffectsInOrder` | `Spec => []PrefixApplied` |
| `SpannerSessionProofs!CommitIsComplete` | `Spec => []CommittedMeansDone` |
| `SpannerSessionProofs!ClientsUsable` | `Spec => []NoClosedClientUsed` |
| `SpannerSessionProofs!ClientsClosed` | `Spec => []ClosedAfterRun` |
| `SpannerSessionProofs!SessionImplementsMigration` | `Spec => ImplementsMigration` (`M!Spec`, the specification of `Migration`) |

**DiffLoop.** None of the properties is inductive. The invariant is built in layers. `LoopInv` says where
the loops are: inside an iteration the table is declared, an altered one has been read, and the two index
lists are empty outside their stages. `ReadInv` says that what is left in `tableMap` is what the database
holds of the tables not dealt with: without it a change could be due to a table read wrongly.
`ListsInv` says that the gathered indexes belong to this table; with these a visit of `makeIndexes` is
due because a name is taken from one side and not found on the other (`IndexVisitsType`), and an index
has a column because it starts with one. That a key change is due rests on `SameKeyUnchanged`: where the sides list
the same columns the counts agree and every new key column is an old one; the converse, needed by `EverythingIsServed`, is
`UnchangedKey`: equal counts, membership and a new key without a repeated column make the two lists the same, since an
injection into a finite set of the same size is a bijection. `PhaseInv` says how far the statements of this table may have
got and that a table not visited has none. `OnceInv` says that an index still in a list has had no
statement of that kind, and that the lists have distinct names (`AddToIndexesDistinct`).
`NothingToDo` follows from `InSync => Quiet`: while the sides agree, nothing is emitted and the lists
stay empty. `ServedInv` is what `EverythingIsServed` says in the middle of the loops: each declared table that
is not pending is served (`TablesInv`); of the table of this iteration, the fields before position `i` are
(`ColumnsInv`), and an index a visited field asks for is in `addIndexes` or has been created (`IndexesInv`); a table of
the database that was read, and is not in `tableMap` nor declared, is dropped.

**The loops and the function.** `ComputedInv` says that `migrations` is, at every step, what `ChangesInOrder` says of
the declared tables that are done, in an order of theirs that the pending ones come after, followed by what was `Said`
since: of the table of this iteration the part of `TableChanges` up to `pc`, `i` and `j`, or the drops of the tables
that are no more in `tableMap`. `Said` also fixes `droppedColumn`, `dropIndexes` and `addIndexes`: the lists are
what `Gather` returns for the visits made so far, then what is left of that. Each step of a loop is then one more
element of a fold. This needs induction over sequences, which the library states with operator
parameters; `DiffFunctionTheorems` proves it from the least element of a set of numbers (`Least`, `Induction`),
shows that a function defined by recursion exists and has its equations (`RecursionExists`), and states what
`FlattenSeq` does in a form to cite (`FlattenNext`, `JoinedSteps`, `FlattenElements`, `FlattenChosen`).

**Plans.** `DiffIsPlanned`: whatever tables were read, a statement of a plan is about a declared table, unless none is
declared; `CHANGE` turns an old field into a declared one it shares a name with, and `DROP` is of an old field that is
declared under neither of its names. The safety of data needs no more of Diff than this.

`DiffPlans` is about the tables Diff can read as they are (`DiffOutside`): then a plan has a statement for each column, key
and index that is not as it is declared (`PlannedFor`, `PresentPlan`, `AbsentPlan`), only such statements, and creates no
index of a table before it drops the others. The part that is hard to see is the indexes. `makeIndexes` gathers the visits
of all fields by name, so that the columns of a new index are those of the fields that name it (`AddsDeclared`); that an
old index is either untouched, gone with its columns or dropped as a whole is what `Reshaped` and the reading leave of
the cases (`AllOrNone`, `IndexPlan`); and a `DROP INDEX` that is left out because of `droppedColumn` is for an index that goes
with its last column (`LostElsewhere`).

**MySQLSync.** `DeclaredDataKept` is not inductive: another run executes a plan that was made before. `Inv`
adds that whatever a run still has to execute is part of a plan made from a `Reading`: tables whose fields are read from
columns that are `Known`, that is, which the table had at the last edit or which are declared. It does not
matter which of the two states between the two queries a run read, how old the reading is, or what other runs did
since: `StatementKeeps` shows that a statement planned from *any* such reading, executed on *any* such tables, leaves
each declared column its data (`DropSpares`, `ModifyKeeps`), the other tables as they were, and the columns known. Trying
to prove it showed that `Crossed` was missing from the limits: with it absent the lemma about `CHANGE` is false, and the
case of three columns it comes from is now in the runs.

`SuccessMeansMatch` says what a plan adds up to when it has been executed to its end. It does not hold of runs that
overlap, so the theorem is for one process, with its failures, crashes and reruns. `AloneInv` adds to `Inv` that the tables are
`Pending` under what is left of the plan: each column, key and index of a declared table either is as declared or has the
statement that makes it so still ahead, and no statement ahead undoes what is done. `StatementServes` shows that each
statement keeps that, with one lemma for each kind (`AddServes` to `CreateIndexServes`); what holds with nothing ahead
is the match (`NothingPending`). That an index is created after the drops of its table is needed here: an index
is dropped by its name alone.

`MatchIsStable` is about a database that has come to match while statements are left. Nothing need be
pending then, and the plan was made from tables within the limits or not. `TracesInv` says where a plan came from, whatever it says:
each statement has the field, old or new, that it was planned for (`PlanFrom`, `PlannedAs`); a column that was read has gone only
where another is read under its name (`Traced`), so that, on tables that match, each column that is left was read under
its own (`ReadUnderOwnName`, by counting: a function onto a finite set permutes it); and until the first index of a
table is created those that are left have the columns they had (`IndexesHeld`). So a statement planned in error is
refused, does what is so already, or drops an index that is not there (`SettledStays`).

**SpannerSync.** The same argument for the data for one run at a time, whose statements are those of `SQL`: none, one or two for a
change, none of them a rename, so that a column keeps its name as well. What has to be shown in addition is
that statements of one change are each of a kind that keeps the data (`SQLType`, `PlannedType`), that rows of several
indexes for one column are read into fields of that column (`ColumnRowsType`), and that a table made anew column by
column keeps the others (`RedefinedDoes`).

`SuccessMeansMatch` rests on `OwnInv`, the like of `AloneInv`, where a change may be two statements: a column that was added
without its `NOT NULL` has the `ALTER COLUMN` still ahead (`DefAwaits`), and the definitions a column passes through
differ from the declared one in just what a statement ahead changes. Index names belong to the database here (`AllOwn`),
so that a `DROP INDEX` does not touch another table's.

**SpannerSession.** `Inv` adds to the types: which clients are open at which step (`ClientsInv`); that a
run that waits, waits for the statement that comes next in its plan (`WaitInv`); and why effects stay in
order (`OrderInv`): during a run what is not planned has taken effect, and for each operation the
server still has, all statements before its own have taken effect. So a statement is submitted only
when those before it are in the schema, and it does not matter which operations fail, are submitted
twice or outlive their run. The refinement rests on the same fact: `applied` changes only when the server ends an
operation, and then its statement is either in effect already, a stutter, or is the one `Migration` allows next.

**Left to TLC.** Liveness (`Converges`, `MigrationCompletes`, `Answers`), which is out of the prover's reach.
`SuccessMeansMatch` over MySQL and `MatchIsStable` are stated by `sync`, which has one process, and proved for one;
`OneSuccessSuffices` is about two that overlap, the statements of two plans mixed in any order, one of them to its
end: an invariant would have to say what each of two plans may have left undone or done twice. `Column`, `SourceFiles` and `Dump` read texts with RECURSIVE operators, which the provers cannot
enter; `GoType` extends the type tables, which are written with them.

## What is not modelled

- The command line (`cmd/migu/main.go`, `template.go`, `dialect/option.go`): flags, connection strings, help text, exit
  status. It keeps no state that changes.
- The Go parser: a file parses or not; what a file means is given with it. Names that make Go of another meaning are
  left out, such as a column `a,b`, which would be read as two fields.
- The servers are external: modelled as far as the SQL of the dialects and the code that reads their answers show.
  Duplicate key values and the failing conversion of data appear as failed statements.
- The place of a column in its table, which Diff does not compare, and the order of the fields of an index beyond what
  `makeIndexes` makes of it.
- In the models of whole databases a definition is one value that is read back as it was written; `Column` shows for
  which definitions that is so. Names of columns are in snake case there; `Dump` has the others.
- That FILE is truncated before the database is asked (`cmd/migu/dump.go` 65): nothing promises that it survives.
- Diff alone and `--dry-run` never close the Spanner data client (`spanner.go` 333): nothing promises that they do.

## Plan

Done: what Diff computes; what becomes of it over MySQL and over Spanner; the clients and operations of Spanner, as a
refinement of `Migration`; columns, tags, sources and dumps; the proofs about `DiffLoop`, all of its invariants, about
`DiffFunction`, about the safety of data over both databases, about what a run that succeeds leaves over both, about
a database that matches, and about `SpannerSession`. Left, in the order of importance:

1. `OneSuccessSuffices` as a theorem: two plans from one source, made from tables that differ by a prefix of one of them.
2. `GoType` as a theorem, with its tables written without RECURSIVE operators.
3. Two failures in one history of `MySQLSync`.
4. `SpannerSession` with the statements of `SpannerSync` in place of its opaque plan: operations that outlive their run
   under plans that differ from one run to the next.
