----------------------------- MODULE TableAlter -----------------------------
(***************************************************************************)
(* Table.AlterColumn (table_columns.go) and Table.SetChangeTracking        *)
(* (change_tracking.go): the statements that change one attribute of a     *)
(* column or a table by restating, or taking away and giving back, the     *)
(* rest of it.                                                             *)
(*                                                                         *)
(* AlterColumn reads the column a round trip before it alters it, so a     *)
(* column here is read as it was and altered as another session left it.   *)
(***************************************************************************)
None == ""
DatabaseDefault == "database default"

collatable(type) == type = "string"
Takes(type, mask) == mask = "string mask" => type = "string"

\* A column there may be.  A string mask is one no other type takes; nulls says
\* that a row has no value there.
Possible(column) ==
    /\ collatable(column.type) <=> column.collation # None
    /\ column.sparse \/ column.nulls => column.nullable
    /\ Takes(column.type, column.mask)

-----------------------------------------------------------------------------
(* The server.                                                                 *)

\* ALTER COLUMN resets what the statement does not restate.
Alter(column, s) ==
    [column EXCEPT !.type = s.type, !.nullable = s.nullable, !.sparse = s.sparse, !.mask = None,
        !.collation = IF s.collation # None THEN s.collation
                      ELSE IF collatable(s.type) THEN DatabaseDefault ELSE None]

\* ADD MASKED; 2016 clears SPARSE there.
AddMasked(column, mask, version) ==
    [column EXCEPT !.mask = mask, !.sparse = @ /\ version # "2016"]

Ran(column) == [column |-> column, refused |-> FALSE]
Refused(column) == [column |-> column, refused |-> TRUE]

\* The statements, in one transaction.
Accepts(column, s, mask) ==
    /\ column.nulls \/ s.sparse => s.nullable
    /\ Takes(s.type, mask)
Execute(column, s, mask, version) ==
    IF ~Accepts(column, s, mask) THEN Refused(column)
    ELSE Ran(IF mask = None THEN Alter(column, s)
             ELSE AddMasked(Alter(column, s), mask, version))

-----------------------------------------------------------------------------
(* AlterColumn.                                                                *)

\* colTypeSQL, COLLATE, SPARSE, NULL: what the definition says and what was read.
RestatedType(read, definition) ==                                   \* a fault
    [type |-> definition.type, nullable |-> definition.nullable, sparse |-> read.sparse,
     collation |-> definition.collation]
Restated(read, definition) ==
    [type |-> definition.type, nullable |-> definition.nullable, sparse |-> read.sparse,
     collation |-> IF definition.collation = None /\ collatable(definition.type)
                   THEN read.collation ELSE definition.collation]

\* What is refused before anything is sent.
checkColumnDefinition(definition) == definition.collation # None => collatable(definition.type)
Refuses(read, definition, version) ==
    \/ ~checkColumnDefinition(definition)
    \/ read.sparse /\ ~definition.nullable
    \/ read.sparse /\ read.mask # None /\ version = "2016"

AlterColumn(read, column, definition, version) ==
    IF Refuses(read, definition, version) THEN Refused(column)
    ELSE Execute(column, Restated(read, definition), read.mask, version)

\* Nothing the definition does not say is lost that was read: not the collation of
\* a string column, SPARSE, or the mask, whatever the type becomes; and a refused
\* change has changed nothing.  What another session does to the column meanwhile is
\* undone, but refuses nothing by itself (columnAttributes).
Kept(read, definition, after) ==
    /\ after.type = definition.type
    /\ after.nullable = definition.nullable
    /\ after.sparse = read.sparse
    /\ after.mask = read.mask
    /\ after.collation =
         IF definition.collation # None \/ ~collatable(definition.type) THEN definition.collation
         ELSE IF read.collation = None THEN DatabaseDefault ELSE read.collation

AltersOnly(read, column, definition, version) ==
    LET done == AlterColumn(read, column, definition, version)
    IN  IF done.refused
        THEN /\ done.column = column
             /\ \/ ~checkColumnDefinition(definition)
                \/ ~definition.nullable /\ (read.sparse \/ column.nulls)
                \/ ~Takes(definition.type, read.mask)
                \/ version = "2016" /\ read.sparse /\ read.mask # None
        ELSE Kept(read, definition, done.column)

-----------------------------------------------------------------------------
(* SetChangeTracking.  A table is tracked for the rows changed, or for their    *)
(* columns too, since it was last enabled; it can be if it has a primary key    *)
(* and its database is tracked.                                                *)

Tracking == {"off", "rows", "columns"}
Tracked(tracking, since) == [tracking |-> tracking, since |-> since, refused |-> FALSE]

\* ENABLE and DISABLE: Msg 4996, and its opposite, where there is nothing to do.
Disable(table) ==
    IF table.tracking = "off" THEN [table EXCEPT !.refused = TRUE]
    ELSE Tracked("off", "never")
Enable(table, tracking, can) ==
    IF table.tracking # "off" \/ ~can THEN [table EXCEPT !.refused = TRUE]
    ELSE Tracked(tracking, "now")

\* The batch sees its own DISABLE.
enableTableChangeTracking(table, tracking, can) ==
    LET other == CHOOSE t \in Tracking \ {"off"} : t # tracking
        off == IF table.tracking = other THEN Disable(table) ELSE table
        on == IF off.tracking = "off" THEN Enable(off, tracking, can) ELSE off
    IN  IF on.refused THEN [table EXCEPT !.refused = TRUE] ELSE on

SetChangeTracking(table, tracking, can) ==
    IF tracking = "off" THEN Disable(table)
    ELSE enableTableChangeTracking(table, tracking, can)

\* A table comes out tracked as asked, or as it was; and what was recorded so far
\* is given up only where the two differ ("already tracked ... is a no-op").
Tracks(table, tracking, can) ==
    LET after == SetChangeTracking(table, tracking, can)
    IN  IF after.refused
        THEN /\ [after EXCEPT !.refused = FALSE] = table
             /\ table.tracking = "off" /\ (tracking = "off" \/ ~can)
        ELSE /\ after.tracking = tracking
             /\ tracking = table.tracking => after = table
=============================================================================
