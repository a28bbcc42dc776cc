----------------------------- MODULE Relational -----------------------------
(***************************************************************************)
(* What the drivers of relational databases share: the helpers of          *)
(* grannos/drivers/base.py about foreign keys, and the shape of what       *)
(* explore.list and explore.describe return.                               *)
(*                                                                         *)
(* A table is named by <<schema, table>>.  A database is a record:         *)
(*   schemas : its schemas, in the order they are listed                   *)
(*   order   : its tables, in the order of their names                     *)
(*   tab     : each table's columns, primary key, unique constraints,      *)
(*             indexes and foreign keys, every constraint with its name    *)
(* Column types, defaults and comments are left out: every description of  *)
(* a column copies them from the same row of the catalog.  A foreign key's *)
(* columns of the other table are as the catalog has them: NoColumn where  *)
(* SQLite's REFERENCES names none (the "to" of PRAGMA foreign_key_list is  *)
(* NULL), and the key's columns where the catalog resolves it.             *)
(***************************************************************************)
EXTENDS Naturals, FiniteSets, SequencesExt

\* describe resolves to nothing, a reference that names no column, and a table the
\* catalog does not hold: the queries about it return no rows.
None == [kind |-> "none"]
NoColumn == "no column"
NoTable ==
  [kind |-> "none", cols |-> <<>>, pk |-> [name |-> "", cols |-> <<>>],
   uniq |-> <<>>, idx |-> <<>>, fk |-> <<>>]
TableOf(db, id) == IF id \in DOMAIN db.tab THEN db.tab[id] ELSE NoTable

\* A path matches a pattern of the drivers' match statements: "*" captures.
Is(path, pattern) ==
  /\ Len(path) = Len(pattern)
  /\ \A i \in DOMAIN path : pattern[i] = "*" \/ pattern[i] = path[i]

Item(name, type, expandable) ==
  [name |-> name, type |-> type, expandable |-> expandable]
Items(names, type, expandable) ==
  [i \in DOMAIN names |-> Item(names[i], type, expandable)]

\* A set of names, sorted: order lists every name in its place.
InOrder(names, order) ==
  LET Among[i \in 0..Len(order)] ==
        IF i = 0 THEN <<>>
        ELSE IF order[i] \in names THEN Append(Among[i - 1], order[i]) ELSE Among[i - 1]
  IN  Among[Len(order)]

\* One TableReference for each pair of columns of a foreign key.
References(id, fk, unique) ==
  [i \in DOMAIN fk.cols |->
     [table |-> id, column |-> fk.cols[i], ref_table |-> fk.ref,
      ref_column |-> fk.refCols[i], unique |-> fk.cols[i] \in unique,
      constraint |-> fk.name]]

\* The references of a table's foreign keys, in their order.
ReferencesOf(db, id, unique) ==
  LET fks == TableOf(db, id).fk
  IN  FlattenSeq([i \in DOMAIN fks |-> References(id, fks[i], unique)])

\* The mutant of GroupByRefColumn: the owner's column for the one referred to.
GroupByRefColumnOwner(refs, c) == SelectSeq(refs, LAMBDA r : r.column = c)

FindReference(refs, c) ==
  LET found == SelectSeq(refs, LAMBDA r : r.column = c)
  IN  IF found = <<>> THEN None ELSE [kind |-> "reference", ref |-> Head(found)]
GroupByColumn(refs, c) == SelectSeq(refs, LAMBDA r : r.column = c)
GroupByRefColumn(refs, c) == SelectSeq(refs, LAMBDA r : r.ref_column = c)

\* What describing an entity collects for a column: each index with a key of
\* one column, or of several, once for every place the column has in it.
Collected(indices, c, alone) ==
  FlattenSeq([i \in DOMAIN indices |->
    IF (Len(indices[i].fields) = 1) = alone
    THEN [k \in 1..Cardinality({j \in DOMAIN indices[i].fields :
                                  indices[i].fields[j] = c}) |-> indices[i]]
    ELSE <<>>])

\* What describing one column selects: the indexes it is in.  The mutant of
\* Exclusive forgets that they are to have no other.
ExclusiveAny(indices, c) == SelectSeq(indices, LAMBDA x : c \in Range(x.fields))
Exclusive(indices, c) ==
  SelectSeq(indices, LAMBDA x : c \in Range(x.fields) /\ Len(x.fields) = 1)
Composite(indices, c) ==
  SelectSeq(indices, LAMBDA x : c \in Range(x.fields) /\ Len(x.fields) # 1)

FieldDescription(c, pk, excl, comp, out, in) ==
  [kind |-> "field", name |-> c, pk |-> pk, exclusive_indices |-> excl,
   composite_indices |-> comp, outgoing_references |-> out,
   incoming_references |-> in]
EntityDescription(id, properties) ==
  [kind |-> "entity", name |-> id, properties |-> properties]
IndexDescription(name, fields, unique, tables) ==
  [kind |-> "index", name |-> name, fields |-> fields, unique |-> unique,
   tables |-> tables]
GroupDescription(kind, members) == [kind |-> kind, members |-> members]
=============================================================================
