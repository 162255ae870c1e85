------------------------ MODULE AlgorithmProperties ------------------------
(* What is asked of the other algorithms: the order and the script of a        *)
(* database's objects, the script of a database itself, a batch of changes of  *)
(* a server's configuration, and the alterations of a table.                   *)
EXTENDS DatabaseScript, Inputs

Config == INSTANCE ServerConfiguration
Altering == INSTANCE TableAlter
Settings == INSTANCE DatabaseSettings

\* orderObjects: each object is scripted once, and after what it names, except
\* where a warning says otherwise; nothing schema-bound is ever excepted; and it
\* gives up, or excepts anything, only where no order exists.
ObjectsOrdered ==
    input.of = "objects" =>
        /\ Ordered(input.objects, input.references)
        /\ GivesUpOnlyInNeed(input.objects, input.references)

\* ScriptDatabaseObjectList: an empty database takes the script, but for what
\* needs an object behind a broken cycle, a table's history or a synonym; but for
\* the permissions on the history of a table that was left out, which should be
\* comments and are not; and but for a constraint on a table the script has taken
\* offline.
ScriptAccepted ==
    input.of = "database" => RefusesOnlyOverlooked(input.source, Replayed(input.source))

\* ScriptDatabaseObjectList: only what depends on an object that cannot be scripted
\* is left out, and what is left out is said to be.
ScriptComplete ==
    input.of = "database" => LeavesOutOnlyInNeed(input.source, Replayed(input.source))

\* ScriptDatabase: the database comes out as it was, as far as it can be said.
SettingsRecreated ==
    input.of = "settings" =>
        Settings!Recreated(input.source, input.verb, input.start, input.guarded, input.rival)

\* ApplyConfiguration: the options asked for are set, and whether advanced ones are
\* shown is as it was, or as it was asked to be.
ConfigurationApplied ==
    input.of = "configuration" =>
        Config!Configured(input.server, input.changes, input.override)

\* AlterColumn and SetChangeTracking: what the change does not name is as it was
\* read, and the table is as it was if the change is refused.
TableAltered ==
    /\ input.of = "column" =>
          Altering!AltersOnly(input.read, input.column, input.definition, input.version)
    /\ input.of = "tracking" => Altering!Tracks(input.table, input.tracking, input.can)
=============================================================================
