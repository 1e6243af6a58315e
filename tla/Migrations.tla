----------------------------- MODULE Migrations -----------------------------
(***************************************************************************)
(* Who migrates the database, and when: the api container, whose command   *)
(* is `alembic upgrade head && uvicorn` under restart: unless-stopped, and *)
(* operators who run `alembic upgrade` or `alembic downgrade` from a       *)
(* shell.  alembic/env.py makes each run one transaction, which reads the  *)
(* version first and computes its plan from it; its DDL is serialised with *)
(* that of the other runs by the locks on the catalogue, so that the plan  *)
(* of a run that waited is executed on the schema the others left.         *)
(***************************************************************************)
EXTENDS Revisions

CONSTANTS
    Operators,
    Api,            \* the api container
    Nothing,        \* no command under way
    MaxCommands,    \* bound: commands operators give
    MaxCrashes      \* bound: processes killed

ASSUME RunnersApart == Api \notin Operators
ASSUME BoundsAssumption == MaxCommands \in Nat /\ MaxCrashes \in Nat

VARIABLES
    version,    \* the row of alembic_version, 0 when there is none
    schema,     \* the committed schema
    command,    \* [Runners -> Nothing or a run with the version it read]
    serving,    \* uvicorn runs in the container
    commands, crashes

vars == <<version, schema, command, serving, commands, crashes>>

Runners == Operators \cup {Api}
Versions == 0..Latest

Init ==
    /\ version = 0
    /\ schema = Empty
    /\ command = [r \in Runners |-> Nothing]
    /\ serving = FALSE
    /\ commands = 0
    /\ crashes = 0

\* begin_transaction: the version is read, the plan fixed
Begin(r, to) ==
    /\ command[r] = Nothing
    /\ command' = [command EXCEPT ![r] = [from |-> version, to |-> to]]

\* a container that is left down once it was killed
StartOnce ==
    /\ ~serving
    /\ crashes = 0
    /\ Begin(Api, Latest)
    /\ UNCHANGED <<version, schema, serving, commands, crashes>>

\* the container starts, or docker restarts it
Start ==
    /\ ~serving
    /\ Begin(Api, Latest)
    /\ UNCHANGED <<version, schema, serving, commands, crashes>>

Operate(o, to) ==
    /\ commands < MaxCommands
    /\ Begin(o, to)
    /\ commands' = commands + 1
    /\ UNCHANGED <<version, schema, serving, crashes>>

Result(r) == RunOn(schema, Path(command[r].from, command[r].to))

\* Every revision UPDATEs the row from its predecessor's version and fails when
\* no row matches; the first one INSERTs it.
RowMatches(r) == command[r].from \in {0, command[r].to, version}

Succeeds(r) == Result(r).ok /\ RowMatches(r)

\* the statements ran and the transaction committed; with nothing to run the
\* version is as it was
Commit(r) ==
    /\ command[r] # Nothing
    /\ Succeeds(r)
    /\ schema' = Result(r).schema
    /\ version' = IF command[r].from = command[r].to THEN version ELSE command[r].to
    /\ command' = [command EXCEPT ![r] = Nothing]
    /\ serving' = (serving \/ r = Api)
    /\ UNCHANGED <<commands, crashes>>

\* a statement failed: the process exits with an error and nothing is kept
Refuse(r) ==
    /\ command[r] # Nothing
    /\ ~Succeeds(r)
    /\ command' = [command EXCEPT ![r] = Nothing]
    /\ UNCHANGED <<version, schema, serving, commands, crashes>>

\* the process is killed, or loses the database, before it commits
Crash(r) ==
    /\ crashes < MaxCrashes
    /\ command[r] # Nothing \/ (r = Api /\ serving)
    /\ command' = [command EXCEPT ![r] = Nothing]
    /\ serving' = (serving /\ r # Api)
    /\ crashes' = crashes + 1
    /\ UNCHANGED <<version, schema, commands>>

Next ==
    \/ Start
    \/ \E o \in Operators, to \in Versions : Operate(o, to)
    \/ \E r \in Runners : Commit(r) \/ Refuse(r) \/ Crash(r)

Spec == Init /\ [][Next]_vars

\* the run of r is over, however it ended
Ends(r) == command[r] # Nothing /\ command' = [command EXCEPT ![r] = Nothing]

\* restart: unless-stopped starts the container again whenever it is down, and
\* the run in it comes to an end; nothing obliges an operator.
FairSpec == Spec /\ WF_vars(Start) /\ WF_command(Ends(Api))

-----------------------------------------------------------------------------
\* The schema an empty database gets when it is upgraded to each version.
Fresh == [v \in Versions |-> RunOn(Empty, Path(0, v)).schema]

Document == <<"moderated_item_type", "DOCUMENT">>

\* However upgrades, downgrades, refusals and crashes have followed each other,
\* every version can be reached from here: no downgrade leaves a type, a table
\* or an index behind that a later upgrade would trip over, and none drops what
\* another table still uses (versions/*.py; only `upgrade head` from an empty
\* database is ever run by CI).
NoDeadEnd == \A to \in Versions : RunOn(schema, Path(version, to)).ok

\* The schema is the one the version row names: the path that led to a version
\* does not matter, except that revision 0005 is not undone and leaves the
\* label DOCUMENT behind at version 4 (0005:31-39).
SameByAnyPath ==
    \/ schema = Fresh[version]
    \/ version = 4 /\ [schema EXCEPT !.labels = @ \ {Document}] = Fresh[4]

ModelSchema == RunOn(Empty, CreateAll).schema

\* At the newest version, however it was reached, the database has every
\* column, unique constraint, index, foreign key and enum label the ORM models
\* expect, and no enum label or column besides.  The tests build their tables
\* from the models (conftest.py:41) and would not see the two part.
ModelsServed ==
    version = Latest =>
        /\ \A part \in DOMAIN schema : ModelSchema[part] \subseteq schema[part]
        /\ schema.columns = ModelSchema.columns
        /\ schema.labels = ModelSchema.labels

\* Once operators have stopped and nothing is killed any more, the container
\* comes up and stays up, whatever they left behind: its restarts run into no
\* schema that refuses the upgrade for ever.
Settles == <>[]serving
=============================================================================
