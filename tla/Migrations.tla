----------------------------- MODULE Migrations -----------------------------
(***************************************************************************)
(* Bringing a database to the newest schema (src/sql/migrations.rs,        *)
(* run_migrations of src/sql.rs).  Most steps write the version in the     *)
(* transaction that does the work; some work statement by statement and    *)
(* write the version at the end, and some do a little more after it.  The  *)
(* process may end between any two statements.                             *)
(***************************************************************************)
EXTENDS Integers, Sequences, SequencesExt

CONSTANTS Steps,        \* the steps in their order, see MigrationSteps
          Latest,       \* the version of the last one
          CreatedAt,    \* the version of a new database
          Created,      \* its tables
          Undisturbed,  \* versions whose step is not interrupted
          MaxStops      \* how often the process ends

VARIABLES version,    \* config.dbversion, -1: there is no database
          tables,     \* the tables that exist
          column,     \* msgs.mime_modified exists
          pc,         \* closed, step, after, end, open, failed
          dbversion,  \* the version read when the database was opened
          at,         \* position in Steps
          sub,        \* statements of the step that are done
          recode,     \* recode_avatar
          ran,        \* history: steps that were carried out
          again,      \* history: a step was carried out twice
          loose,      \* history: <<version, n>>, statements outside of transactions
          origin,     \* history: the version the database was found with or created with
          stops
vars == <<version, tables, column, pc, dbversion, at, sub, recode, ran, again, loose, origin,
          stops>>

----------------------------------------------------------------------------
Set == "set"   \* a statement that sets a configuration value
\* The tables that a step makes, in or outside of its transaction.
Makes(s) == s.make \union (ToSet(s.before) \ {Set})
MadeBetween(from, to) == UNION {Makes(s) : s \in {t \in ToSet(Steps) : from < t.v /\ t.v <= to}}
\* The tables of a database that an older program left at version v.
TablesAt(v) == IF v < CreatedAt THEN Created \ MadeBetween(v, CreatedAt)
                                ELSE Created \union MadeBetween(CreatedAt, v)

(* What the upgrade relies on in the list of steps. *)
StepRecords == [v : Nat, tx : BOOLEAN, use : SUBSET STRING, make : SUBSET STRING,
                before : Seq(STRING), after : {0, 1}]
\* Versions go up; steps 72 and 77 are what the program takes them for.
InOrder ==
  /\ Steps \in Seq(StepRecords) /\ Len(Steps) > 0 /\ Latest = Steps[Len(Steps)].v
  /\ \A i, j \in DOMAIN Steps : i < j => Steps[i].v < Steps[j].v
  /\ CreatedAt \in Nat /\ CreatedAt < 72 /\ 72 < Latest
  /\ \E s \in ToSet(Steps) : s.v = 72
  /\ \A s \in ToSet(Steps) :
       /\ s.v > 0
       /\ s.tx => s.before = << >>
       /\ ~s.tx => s.after = 0 /\ s.use = {} /\ s.make = {}
       /\ s.v = 72 => s.tx /\ s.make = {} /\ s.after = 0
       /\ s.v = 77 => ~s.tx /\ s.before = << >>
\* Every table is made once, before it is used, and tables.sql has those of the early steps.
TablesFit ==
  /\ Set \notin TablesAt(Latest)
  /\ \A s \in ToSet(Steps) :
       /\ IF s.v <= CreatedAt THEN Makes(s) \subseteq Created ELSE Makes(s) \cap Created = {}
       /\ s.use \subseteq TablesAt(Latest)
       /\ \A i, j \in DOMAIN s.before : s.before[i] = s.before[j] => i = j \/ s.before[i] = Set
       /\ \A t \in ToSet(Steps) : /\ s.v < t.v => Makes(s) \cap Makes(t) = {}
                                  /\ s.v <= t.v => s.use \cap Makes(t) = {}
\* What cannot be repeated is not interrupted.
Spared ==
  /\ 77 \in Undisturbed
  /\ \A s \in ToSet(Steps) : s.after > 0 \/ (ToSet(s.before) \ {Set} # {}) => s.v \in Undisturbed
WellFormed == InOrder /\ TablesFit /\ Spared

----------------------------------------------------------------------------
Init == /\ version \in {-1, 0} \union {s.v : s \in ToSet(Steps)}
        /\ tables = IF version = -1 THEN {} ELSE TablesAt(version)
        /\ column \in IF 0 <= version /\ version < 72 THEN BOOLEAN ELSE {version >= 72}
        /\ pc = "closed" /\ dbversion = 0 /\ at = 0 /\ sub = 0 /\ recode = FALSE
        /\ ran = {} /\ again = FALSE /\ loose = {} /\ stops = 0
        /\ origin = IF version = -1 THEN CreatedAt ELSE version

Step == Steps[at]
\* The first position from k on whose step is still to be done.
FirstAfter(k, v) == CHOOSE j \in k..(Len(Steps) + 1) : /\ j <= Len(Steps) => Steps[j].v > v
                                                       /\ \A i \in k..(j - 1) : Steps[i].v <= v
\* A plausible bug: a step whose version follows at once is taken for done.
FirstAfterNext(k, v) == FirstAfter(k, v + 1)
Pending(k, v) == FirstAfter(k, v)

GoTo(k) == at' = k /\ sub' = 0 /\ pc' = IF k > Len(Steps) THEN "end" ELSE "step"
Advance == GoTo(Pending(at + 1, dbversion))

(* There is no database: its tables and its version are one transaction. *)
Create ==
  /\ pc = "closed" /\ version = -1
  /\ version' = CreatedAt /\ tables' = Created /\ dbversion' = CreatedAt
  /\ GoTo(Pending(1, CreatedAt)) /\ recode' = FALSE
  /\ UNCHANGED <<column, ran, again, loose, origin, stops>>
(* The version is read once, before the first step. *)
Open ==
  /\ pc = "closed" /\ version >= 0
  /\ dbversion' = version /\ GoTo(Pending(1, version)) /\ recode' = FALSE
  /\ UNCHANGED <<version, tables, column, ran, again, loose, origin, stops>>

Fails == pc' = "failed"
         /\ UNCHANGED <<version, tables, column, dbversion, at, sub, recode, ran, again, loose, origin,
                        stops>>

(* execute_migration and execute_migration_transaction *)
Transaction ==
  /\ pc = "step" /\ Step.tx /\ ~(Step.v = 72 /\ column)
  /\ IF Step.v <= version \/ ~(Step.use \subseteq tables) \/ Step.make \cap tables # {}
     THEN Fails
     ELSE /\ version' = Step.v /\ tables' = tables \union Step.make
          /\ column' = (column \/ Step.v = 72)
          /\ ran' = ran \union {Step.v} /\ again' = (again \/ Step.v \in ran)
          /\ IF Step.after > 0 THEN pc' = "after" /\ UNCHANGED <<at, sub>> ELSE Advance
          /\ UNCHANGED <<dbversion, recode, loose, origin, stops>>
(* The column is there already; the version is left to the next step. *)
ColumnExists ==
  /\ pc = "step" /\ Step.v = 72 /\ column /\ Advance
  /\ UNCHANGED <<version, tables, column, dbversion, recode, ran, again, loose, origin, stops>>

(* One statement of a step that works without a transaction. *)
Statement ==
  /\ pc = "step" /\ ~Step.tx /\ sub < Len(Step.before)
  /\ LET what == Step.before[sub + 1]
     IN IF what \in tables THEN Fails
        ELSE /\ tables' = tables \union ({what} \ {Set})
             /\ sub' = sub + 1 /\ loose' = loose \union {<<Step.v, sub + 1>>}
             /\ UNCHANGED <<version, column, pc, dbversion, at, recode, ran, again, origin, stops>>
SetDbVersion ==
  /\ pc = "step" /\ ~Step.tx /\ sub = Len(Step.before)
  /\ version' = Step.v /\ recode' = (recode \/ Step.v = 77)
  /\ ran' = ran \union {Step.v} /\ again' = (again \/ Step.v \in ran)
  /\ Advance
  /\ UNCHANGED <<tables, column, dbversion, loose, origin, stops>>
(* What a step does when its version is written. *)
After ==
  /\ pc = "after" /\ loose' = loose \union {<<Step.v, 1>>} /\ Advance
  /\ UNCHANGED <<version, tables, column, dbversion, recode, ran, again, origin, stops>>
(* run_migrations goes on with what needs the finished tables. *)
Finish ==
  /\ pc = "end" /\ pc' = "open" /\ recode' = FALSE
  /\ loose' = IF recode THEN loose \union {<<77, 1>>} ELSE loose
  /\ UNCHANGED <<version, tables, column, dbversion, at, sub, ran, again, origin, stops>>

(* The process ends, or a statement fails (then the profile stays open with *)
(* the tables it has, see try_open, and the next start tries again).        *)
HalfDone == pc = "after" \/ (pc = "step" /\ sub > 0)
Stop ==
  /\ pc \in {"step", "after", "end", "open"} /\ stops < MaxStops
  /\ HalfDone => Step.v \notin Undisturbed
  /\ recode => 77 \notin Undisturbed
  /\ pc' = "closed" /\ stops' = stops + 1
  /\ UNCHANGED <<version, tables, column, dbversion, at, sub, recode, ran, again, loose, origin>>

Next == Create \/ Open \/ Transaction \/ ColumnExists \/ Statement \/ SetDbVersion \/ After \/ Finish
        \/ Stop
Spec == Init /\ [][Next]_vars

----------------------------------------------------------------------------
TypeOK ==
  /\ version \in -1..Latest /\ tables \subseteq TablesAt(Latest) /\ column \in BOOLEAN
  /\ pc \in {"closed", "step", "after", "end", "open", "failed"} /\ at \in 0..(Len(Steps) + 1)

(* Whatever version a database comes from, and wherever its upgrades were  *)
(* interrupted, no step fails because of what an interrupted one left; and *)
(* an open database has the newest version and the tables of every other   *)
(* one, each later step was carried out once and none of the statements    *)
(* that belong to a step is missing.                                       *)
Upgraded ==
  /\ pc # "failed"
  /\ pc = "open" =>
       /\ version = Latest /\ tables = TablesAt(Latest) /\ column /\ ~again
       /\ \A s \in ToSet(Steps) : s.v > origin =>
            /\ s.v \in ran \/ s.v = 72
            /\ \A k \in 1..(IF s.v = 77 THEN 1 ELSE s.after + Len(s.before)) : <<s.v, k>> \in loose

(* "Opens the provided database and runs any necessary migrations"         *)
(* (src/sql.rs): an interrupted upgrade is taken up again.  Does not hold, *)
(* see the README: step 73 cannot be repeated once its table exists.       *)
Resumes == pc # "failed"
=============================================================================
