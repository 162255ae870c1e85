------------------------------ MODULE MCScripts ------------------------------
(* The databases TLC has scripted and replayed: every mix of kinds of three    *)
(* objects with every set of references SQL Server lets them have, and         *)
(* the histories and disabled indexes of tables; and the tables scripted alone.  *)
EXTENDS DatabaseScript, TableScript, TLC

Modules == {"function", "inlineFunction", "view", "procedure"}
Compiled == {"inlineFunction", "view"}

\* What an object of each kind names, of those the script orders.
CanName ==
    [kind \in {"type", "droppedTable"} |-> {}]
    @@ [kind \in {"table"} |-> {"type", "function"}]
    @@ [kind \in Compiled |-> {"table", "function", "synonym"} \cup Compiled]
    @@ [kind \in {"function"} |-> {"type", "table", "function", "synonym"} \cup Compiled]
    @@ [kind \in {"procedure"} |-> {"type", "table", "synonym"} \cup Modules]
    @@ [kind \in {"synonym"} |-> {"table"} \cup Modules]

rank ==
    [kind \in {"type"} |-> 1] @@ [kind \in {"table", "droppedTable"} |-> 4]
    @@ [kind \in {"function", "inlineFunction"} |-> 5] @@ [kind \in {"view"} |-> 6]
    @@ [kind \in {"procedure"} |-> 7] @@ [kind \in {"synonym"} |-> 8]

InOrder(n, kinds) ==
    {f \in [1..n -> kinds] : \A i \in 2..n : rank[f[i - 1]] <= rank[f[i]]}

\* The pairs that can be schema-bound, and those that always are (a computed
\* column, a default or a check that calls a function).
Bindable(kind, pairs) ==
    {p \in pairs : kind[p[1]] \in {"table", "function"} \cup Compiled
                   /\ kind[p[2]] \notin {"type", "synonym"}}
Always(kind, pairs) == {p \in Bindable(kind, pairs) : kind[p[1]] = "table"}

\* A synonym has one base; nothing that is resolved when it is created leads back
\* to itself but through a module whose body is resolved later.
Possible(n, kind, pairs, bound) ==
    /\ \A i \in 1..n : kind[i] = "synonym" => Cardinality({p \in pairs : p[1] = i}) = 1
    /\ LET hard == bound \cup {p \in pairs : kind[p[1]] \in Compiled \cup {"table", "synonym"}}
       IN  \A i \in 1..n : ~Reaches(hard, i, i)

Named3(kind, pairs, bound) ==
    {[from |-> p[1], to |-> p[2], bound |-> p \in bound] : p \in pairs}

Tables(kind) == {i \in DOMAIN kind : kind[i] = "table"}

\* Whatever can be on its tables and views is: a constraint from every table to
\* every other, a trigger on each, a permission on everything.
Database(kind, references, hidden, versioned, disabled) ==
    LET n == DOMAIN kind
        tables == {i \in n : kind[i] \in {"table", "droppedTable"}}
    IN  [objects |-> n, kind |-> kind,
         references |-> references,
         hidden |-> hidden \cup (tables \ Tables(kind)),
         versioned |-> versioned \cup (tables \ Tables(kind)), disabled |-> disabled,
         constraints |-> {[on |-> i, names |-> {j}] : i \in Tables(kind), j \in Tables(kind)},
         triggers |-> Tables(kind) \cup {i \in n : kind[i] = "view"},
         grants |-> n \cup {History(i) : i \in versioned \cup (tables \ Tables(kind))}
                      \cup {Unlisted}]

AllKinds == DOMAIN CanName

\* Only one reference is schema-bound besides those that always are, and only one
\* object hidden.
Databases(n, kinds) ==
    UNION {LET pairs == {p \in (1..n) \X (1..n) :
                           p[1] # p[2] /\ kind[p[2]] \in CanName[kind[p[1]]]}
           IN UNION {LET always == Always(kind, named)
                         boundTo == {always} \cup {always \cup {p} : p \in Bindable(kind, named)}
                     IN {Database(kind, Named3(kind, named, bound), hidden, {}, {}) :
                           bound \in {b \in boundTo : Possible(n, kind, named, b)},
                           hidden \in {{}} \cup {{i} : i \in 1..n}}
                     : named \in SUBSET pairs}
           : kind \in InOrder(n, kinds)}

\* Tables with a history or a disabled clustered index, and what names either table.
Historied(n) ==
    UNION {LET tables == Tables(kind)
               dropped == {i \in 1..n : kind[i] = "droppedTable"}
               modules == (1..n) \ (tables \cup dropped)
           IN UNION {LET pairs == modules \X (tables \cup {History(i) : i \in versioned \cup dropped})
                     IN {Database(kind, Named3(kind, named, {}), hidden, versioned, disabled) :
                           named \in SUBSET pairs,
                           hidden \in {{}} \cup {{i} : i \in tables},
                           disabled \in SUBSET tables}
                     : versioned \in SUBSET tables}
           : kind \in InOrder(n, {"table", "droppedTable", "view", "procedure"})}

\* Functions that name each other, none schema-bound or hidden.
Functions ==
    UNION {{Database(kind, Named3(kind, named, {}), {}, {}, {}) :
              named \in {p \in SUBSET ((1..3) \X (1..3)) :
                            (\A q \in p : q[1] # q[2]) /\ Possible(3, kind, p, {})}}
           : kind \in [1..3 -> {"function", "inlineFunction"}]}

-----------------------------------------------------------------------------
(* Tables of up to three indexes and one key, with one check that is disabled. *)

IndexKinds == {"key", "unique", "rowstore", "xml", "over xml", "hypothetical"}
IndexOf(indexes, kind) == {i \in DOMAIN indexes : indexes[i].kind = kind}

\* One primary key, one XML index and one over it; the clustered index is the first,
\* and what it takes down with it, or a primary XML index does, is disabled too.
CanHave(indexes) ==
    LET over == IndexOf(indexes, "over xml")
        xml == IndexOf(indexes, "xml")
        off == {i \in DOMAIN indexes : indexes[i].disabled}
    IN  /\ Cardinality(IndexOf(indexes, "key")) <= 1
        /\ Cardinality(xml) <= 1
        /\ over # {} => xml # {}
        /\ xml # {} => indexes[1].kind = "key" /\ indexes[1].clustered
        /\ \A i \in DOMAIN indexes : indexes[i].clustered =>
              i = 1 /\ indexes[i].kind \in {"key", "unique", "rowstore"}
        /\ 1 \in off /\ indexes[1].clustered =>
              DOMAIN indexes \ off \subseteq IndexOf(indexes, "hypothetical")
        /\ xml \cap off # {} => over \subseteq off

IndexLists ==
    UNION {{list \in [1..n -> [kind : IndexKinds, clustered : BOOLEAN, disabled : BOOLEAN]] :
              CanHave(list)} : n \in 0..3}

TableDefinitions ==
    {table \in [indexes : IndexLists,
                keys : {<<>>, <<"trusted">>, <<"not trusted">>, <<"disabled">>},
                checks : {<<"disabled">>},
                filestream : BOOLEAN, versioned : BOOLEAN, settings : {TRUE}] :
        table.filestream => IndexOf(table.indexes, "unique") # {}}

Create == [verb : {"create"}, guarded : BOOLEAN, deferred : BOOLEAN]
DropAndCreate == [verb : {"drop and create"}, guarded : BOOLEAN, deferred : {FALSE}]

\* Only what is dropped can be kept from it.
TableScripts ==
    [of : {"table"}, table : TableDefinitions, options : Create \cup DropAndCreate,
     there : {FALSE}, blocks : {"no"}]
    \cup [of : {"table"}, table : TableDefinitions, options : Create,
          there : {TRUE}, blocks : {"no"}]
    \cup [of : {"table"}, table : TableDefinitions, options : DropAndCreate,
          there : {TRUE}, blocks : {"no", "keys", "bound"}]
=============================================================================
