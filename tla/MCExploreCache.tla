--------------------------- MODULE MCExploreCache ---------------------------
(* ExploreCache on a table, the group of its columns, and a column. *)
EXTENDS ExploreCache
CONSTANTS s1, s2, r1, r2, f1

Root == <<>>
Table == <<"t">>
Group == <<"t", "columns">>
Column == <<"t", "columns", "c">>

OnlyRoot == {Root}
OnlyTable == {Table}
OnlyGroup == {Group}
RootAndTable == {Root, Table}
TableAndParts == {Table, Group, Column}
EmbeddedColumn == [p \in TableAndParts |-> IF p = Column THEN {} ELSE {Column}]
NothingEmbedded == [p \in OnlyTable |-> {}]

None == {}
OneSearch == {f1}
OneSession == {s1}
TwoSessions == {s1, s2}
OneSlot == {r1}
TwoSlots == {r1, r2}
SessionSymmetry == Permutations(TwoSessions)
=============================================================================
