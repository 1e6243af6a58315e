------------------------------- MODULE Schema -------------------------------
(***************************************************************************)
(* What a sequence of DDL statements does to a PostgreSQL schema, as far   *)
(* as the migrations of the service use it, and when one is refused.       *)
(*                                                                         *)
(* This is the behaviour of PostgreSQL, of Alembic's op.* and of           *)
(* SQLAlchemy's native enums, none of which is part of the repository: a   *)
(* table's enum types are created before it, once per Alembic run however  *)
(* many tables name them, and nothing drops them with the table.  Column   *)
(* types, lengths, defaults and nullability are left out.                  *)
(***************************************************************************)
EXTENDS Naturals, Sequences, SequencesExt

Empty == [columns |-> {}, keys |-> {}, indexes |-> {}, parents |-> {},
          uses |-> {}, labels |-> {}]

\* op.create_table; keys are the unique constraints, parents the tables its
\* foreign keys point to, enums the native types of its columns
CreateTable(t, columns, keys, parents, enums) ==
    [do |-> "create_table", table |-> t, columns |-> columns, keys |-> keys,
     parents |-> parents, enums |-> enums]
DropTable(t)       == [do |-> "drop_table", table |-> t]
AddColumn(t, c)    == [do |-> "add_column", table |-> t, column |-> c]
DropColumn(t, c)   == [do |-> "drop_column", table |-> t, column |-> c]
CreateIndex(t, cs) == [do |-> "create_index", table |-> t, on |-> cs, unique |-> FALSE]
UniqueIndex(t, c)  == [do |-> "create_index", table |-> t, on |-> <<c>>, unique |-> TRUE]
DropIndex(t, cs)   == [do |-> "drop_index", table |-> t, on |-> cs]
DropType(e)        == [do |-> "drop_type", type |-> e]           \* IF EXISTS
AddLabel(e, label) == [do |-> "add_label", type |-> e, label |-> label]  \* IF NOT EXISTS

Indexes(t, columns) == SetToSeq({CreateIndex(t, <<c>>) : c \in columns})

Enum(e, labels) == [name |-> e, labels |-> labels]

Tables(s) == {c[1] : c \in s.columns}
Types(s)  == {l[1] : l \in s.labels}

\* The server accepts statement m on schema s in a run that has created the
\* types in made.
Accepted(m, s, made) ==
    CASE m.do = "create_table" ->
            /\ m.table \notin Tables(s)
            /\ m.parents \subseteq Tables(s)
            /\ \A e \in m.enums : e.name \in Types(s) <=> e.name \in made
      [] m.do = "drop_table" ->
            /\ m.table \in Tables(s)
            /\ \A p \in s.parents : p[2] = m.table => p[1] = m.table
      [] m.do = "add_column" ->
            m.table \in Tables(s) /\ <<m.table, m.column>> \notin s.columns
      [] m.do = "drop_column" -> <<m.table, m.column>> \in s.columns
      [] m.do = "create_index" ->
            /\ \A i \in DOMAIN m.on : <<m.table, m.on[i]>> \in s.columns
            /\ \A x \in s.indexes : <<x[1], x[2]>> # <<m.table, m.on>>
      [] m.do = "drop_index" ->
            \E x \in s.indexes : <<x[1], x[2]>> = <<m.table, m.on>>
      [] m.do = "drop_type" -> \A u \in s.uses : u[2] # m.type
      [] m.do = "add_label" -> m.type \in Types(s)

LabelsOf(enums) == UNION {{<<e.name, l>> : l \in e.labels} : e \in enums}

Without(set, t) == {x \in set : x[1] # t}

\* the schema after an accepted statement; what belongs to a table or a column
\* goes with it
Effect(m, s, made) ==
    CASE m.do = "create_table" ->
            [s EXCEPT !.columns = @ \cup {<<m.table, c>> : c \in m.columns},
                      !.keys    = @ \cup {<<m.table, k>> : k \in m.keys},
                      !.parents = @ \cup {<<m.table, p>> : p \in m.parents},
                      !.uses    = @ \cup {<<m.table, e.name>> : e \in m.enums},
                      !.labels  = @ \cup LabelsOf({e \in m.enums : e.name \notin made})]
      [] m.do = "drop_table" ->
            [s EXCEPT !.columns = Without(@, m.table), !.keys = Without(@, m.table),
                      !.indexes = Without(@, m.table), !.parents = Without(@, m.table),
                      !.uses = Without(@, m.table)]
      [] m.do = "add_column" -> [s EXCEPT !.columns = @ \cup {<<m.table, m.column>>}]
      [] m.do = "drop_column" ->
            [s EXCEPT !.columns = @ \ {<<m.table, m.column>>},
                      !.indexes = {x \in @ : x[1] = m.table => m.column \notin ToSet(x[2])}]
      [] m.do = "create_index" ->
            [s EXCEPT !.indexes = @ \cup {<<m.table, m.on, m.unique>>}]
      [] m.do = "drop_index" ->
            [s EXCEPT !.indexes = {x \in @ : <<x[1], x[2]>> # <<m.table, m.on>>}]
      [] m.do = "drop_type" -> [s EXCEPT !.labels = Without(@, m.type)]
      [] m.do = "add_label" -> [s EXCEPT !.labels = @ \cup {<<m.type, m.label>>}]

MadeBy(m) == IF m.do = "create_table" THEN {e.name : e \in m.enums} ELSE {}

Step(state, m) ==
    IF ~state.ok \/ ~Accepted(m, state.schema, state.made)
    THEN [state EXCEPT !.ok = FALSE]
    ELSE [ok |-> TRUE, schema |-> Effect(m, state.schema, state.made),
          made |-> state.made \cup MadeBy(m)]

\* Step(state, m); bound as a member of a set, state is evaluated only once
Execute(state, m) == CHOOSE end \in {Step(s, m) : s \in {state}} : TRUE

RunRevision(state, revision) ==
    IF state.ok THEN FoldLeft(Execute, state, revision) ELSE state

\* One run: the revisions in order, in one transaction.  If a statement is
\* refused the run is not ok, and nothing of it is kept.
RunOn(s, revisions) ==
    LET end == FoldLeft(RunRevision, [ok |-> TRUE, schema |-> s, made |-> {}], revisions)
    IN [ok |-> end.ok, schema |-> IF end.ok THEN end.schema ELSE s]
=============================================================================
