------------------------------- MODULE MCCatalog -------------------------------
(* Three families of catalogs: every view over the joins of four datasets; *)
(* every join of one or two pairs of columns; and catalogs with faults in  *)
(* their private fields, datasets and lists.  Only the last have fields    *)
(* that live events may or may not have.                                   *)
EXTENDS Catalog, FiniteSets

CONSTANTS id, day, note, device, user,      \* names of fields
          stream, a, b, c, ghost, wiki, internal

MCNames == {id, day, note, device, user}

MCIds == {stream, a, b, c, ghost, wiki, internal}

MCForbidden == {user}

MCDerived == {day}

MCValues == {0, 1}

Field(type, nullable) == [type |-> type, nullable |-> nullable]

Schema(extra) ==
    [n \in {id, day} \cup extra |->
        IF n = day THEN Field("date", FALSE) ELSE Field("string", n = device)]

Dataset(extra, key) == [schema |-> Schema(extra), key |-> key,
                        partition |-> {day}, sources |-> {internal}]

Simple == Dataset({}, {id})

View(inputs, joins) == [inputs |-> inputs, joins |-> joins, fields |-> {id}]

Join(i, left, right, cardinality) ==
    [id |-> i, left |-> left, right |-> right, cardinality |-> cardinality]

Document(private, datasets, joins, views) ==
    [private |-> private, sources |-> {wiki}, datasets |-> datasets,
     joins |-> joins, views |-> views]

OnId(i, l, r) == Join(i, <<<<l, id>>>>, <<<<r, id>>>>, "one_to_one")

Four == {stream, a, b, c}

Six == <<OnId(1, stream, a), OnId(2, a, b), OnId(3, b, stream),
         OnId(4, b, c), OnId(5, c, stream), OnId(6, a, c)>>

Graphs ==
    {Document({user}, [d \in Four |-> Simple], Six,
              <<View(inputs, joins), View({a, b}, {2})>>) :
        inputs \in SUBSET Four, joins \in SUBSET (1..6)}

Sides(columns) == {<<x>> : x \in columns} \cup {<<x, y>> : x, y \in columns}

Shapes ==
    {Document({user},
              [d \in {stream, a} |-> IF d = a THEN Dataset({note}, key) ELSE Simple],
              <<Join(1, left, right, cardinality)>>, <<View({a}, {})>>) :
        key \in {{id}, {id, note}},
        left \in Sides({<<stream, id>>, <<stream, day>>, <<a, id>>}),
        right \in Sides({<<a, id>>, <<a, note>>, <<a, day>>, <<ghost, id>>}),
        cardinality \in Cardinalities \cup {"many_to_many"}}

Faulty(d) == Document({user}, [x \in {stream, a} |-> IF x = a THEN d ELSE Simple],
                      <<OnId(1, stream, a)>>, <<View({stream, a}, {1})>>)

Private(fields, private) ==
    Document(private, [x \in {stream, a} |-> IF x = a THEN Simple ELSE Dataset(fields, {id})],
             <<OnId(1, stream, a)>>, <<View({stream, a}, {1})>>)

Faults ==
    {Faulty([Dataset({note, device}, key) EXCEPT !.partition = partition, !.sources = sources]) :
        key \in SUBSET {id, device, user}, partition \in SUBSET {day, id},
        sources \in {{}, {internal}, {wiki}, {ghost}, {stream}}}
    \cup {Private(fields, private) :
             fields \in SUBSET {note, device, user}, private \in SUBSET {device, user}}
    \cup {Faulty([Simple EXCEPT !.schema = NoFields]),
          Document({user}, NoFields, <<>>, <<>>),
          Document({user}, [d \in {a} |-> Simple], <<>>, <<>>),
          Document({user}, [d \in {stream} |-> Simple], <<>>, <<>>),
          Document({user}, [d \in {stream, wiki} |-> Simple], <<>>, <<>>),
          Document({user}, [d \in {stream, a} |-> Simple],
                   <<OnId(1, stream, a), OnId(1, a, stream)>>, <<>>),
          Document({user}, [d \in {stream, a} |-> Simple], <<OnId(1, stream, a)>>, <<>>),
          Document({user}, [d \in {stream, a} |-> Simple], <<OnId(1, stream, a)>>,
                   <<[View({a}, {}) EXCEPT !.fields = {note}]>>)}

MCCatalogs == Graphs \cup Shapes \cup Faults

Event(names, kind, others, inner) ==
    [fields |-> [n \in names \cup {id} |-> IF n = id THEN kind ELSE others], inner |-> inner]

MCEvents ==
    {Event(names, "string", others, inner) :
        names \in SUBSET {note, device, user}, others \in {"null", "string", "other"},
        inner \in {{}, {user}}}
    \cup {Event({}, kind, "null", {}) : kind \in Kinds}
=============================================================================
