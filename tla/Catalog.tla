-------------------------------- MODULE Catalog --------------------------------
(***************************************************************************)
(* The contract every stage of the batch pipeline derives its datasets     *)
(* from: validate_catalog of data/catalog/validator.py, one check after    *)
(* the other over one catalog, and the projection of a live event by       *)
(* project_recentchange_event of data/samples/wikimedia_fixtures.py, which *)
(* reads its fields from the same catalog without validating it.           *)
(*                                                                         *)
(*   privacy -> datasets -> stream -> joins -> views -> accepted           *)
(*                                            |   ^                        *)
(*                              (inputs) walk -> fields                    *)
(*                                                                         *)
(* A refusal sets "code" and leaves "stage" where it happened.  A catalog  *)
(* is what its JSON document says of identifiers, fields, keys and joins.  *)
(***************************************************************************)
EXTENDS Integers, Sequences, Functions

CONSTANTS Names,     \* names of fields
          Ids,       \* identifiers of sources and datasets
          JoinIds,   \* identifiers of joins
          Forbidden, \* REQUIRED_PRIVATE_FIELDS and FORBIDDEN_STREAM_FIELDS
          Derived,   \* DERIVED_STREAM_FIELDS: names no event has
          Stream,    \* the dataset "recentchange_events"
          Internal,  \* the source "internal"
          Values,    \* what a field of a row may hold
          Catalogs,  \* the documents that may be validated
          Events     \* the live events that may be projected

Types == {"string", "integer", "boolean", "timestamp", "date", "array_string"}

(* What a field of an event holds: null, a value of a scalar type, or      *)
(* something else.  A timestamp is a string that parses as one.            *)
Kinds == {"null", "string", "integer", "boolean", "timestamp", "other"}

Cardinalities == {"one_to_zero_or_one", "many_to_one", "one_to_one"}

Columns == Ids \X Names

IsDataset(d) ==
    /\ d.schema \in [DOMAIN d.schema -> [type : Types, nullable : BOOLEAN]]
    /\ DOMAIN d.schema \subseteq Names
    /\ d.key \subseteq Names
    /\ d.partition \subseteq Names
    /\ d.sources \subseteq Ids

IsJoin(j) ==
    /\ j.id \in JoinIds
    /\ j.left \in Seq(Columns) \ {<<>>}
    /\ j.right \in Seq(Columns) \ {<<>>}

IsView(v) ==
    /\ v.inputs \subseteq Ids
    /\ v.joins \subseteq JoinIds
    /\ v.fields \subseteq Names

IsCatalog(c) ==
    /\ c.private \subseteq Names
    /\ c.sources \subseteq Ids
    /\ DOMAIN c.datasets \subseteq Ids
    /\ \A d \in DOMAIN c.datasets : IsDataset(c.datasets[d])
    /\ Len(c.joins) \in Nat /\ DOMAIN c.joins = 1..Len(c.joins)
    /\ \A i \in DOMAIN c.joins : IsJoin(c.joins[i])
    /\ Len(c.views) \in Nat /\ DOMAIN c.views = 1..Len(c.views)
    /\ \A i \in DOMAIN c.views : IsView(c.views[i])

ASSUME CatalogsAssumption == \A c \in Catalogs : IsCatalog(c)

ASSUME EventsAssumption ==
    \A e \in Events : /\ DOMAIN e.fields \subseteq Names
                      /\ e.fields \in [DOMAIN e.fields -> Kinds]
                      /\ e.inner \subseteq Names

VARIABLES catalog,  \* the document
          stage,    \* the check that is next
          index,    \* the join or the view that is next
          visited,  \* the inputs of the view the walk has visited ...
          pending,  \* ... and those it is to visit
          code,     \* why the catalog is refused, or "none"
          stored    \* the fields of the last event projected

vars == <<catalog, stage, index, visited, pending, code, stored>>

NoFields == [n \in {} |-> "null"]

Init == /\ catalog \in Catalogs
        /\ stage = "privacy"
        /\ index = 1
        /\ visited = {}
        /\ pending = {}
        /\ code = "none"
        /\ stored = NoFields

-----------------------------------------------------------------------------
At(s) == stage = s /\ code = "none"

Goto(s, i) == /\ stage' = s
              /\ index' = i
              /\ UNCHANGED <<catalog, visited, pending, code, stored>>

Refuse(c) == /\ code' = c
             /\ UNCHANGED <<catalog, stage, index, visited, pending, stored>>

PrivacyDeclared == Forbidden \subseteq catalog.private

CheckPrivacy == At("privacy") /\ PrivacyDeclared /\ Goto("datasets", 1)

PrivacyMissing ==
    At("privacy") /\ ~PrivacyDeclared /\ Refuse("invalid_security_contract")

-----------------------------------------------------------------------------
(* No two objects share an id, and there is a dataset.                     *)
Distinct == DOMAIN catalog.datasets \cap catalog.sources = {}

Sourced(d) ==
    /\ d.sources # {}
    /\ d.sources \subseteq catalog.sources \cup DOMAIN catalog.datasets \cup {Internal}

Keyed(d) == /\ d.key # {}
            /\ d.key \subseteq DOMAIN d.schema
            /\ \A n \in d.key : ~d.schema[n].nullable

Partitioned(d) ==
    /\ d.partition # {}
    /\ d.partition \subseteq DOMAIN d.schema
    /\ \A n \in d.partition : /\ d.schema[n].type \in {"date", "integer"}
                              /\ ~d.schema[n].nullable

WellDefined(d) == DOMAIN d.schema # {} /\ Sourced(d) /\ Keyed(d) /\ Partitioned(d)

CheckDatasets ==
    /\ At("datasets")
    /\ Distinct
    /\ DOMAIN catalog.datasets # {}
    /\ \A d \in DOMAIN catalog.datasets : WellDefined(catalog.datasets[d])
    /\ Goto("stream", 1)

(* A dataset at fault is reported, by its first fault.  The document lists *)
(* its datasets in an order that decides which; here any may be.           *)
Fault(d) ==
    CASE DOMAIN d.schema = {} -> "invalid_schema"
      [] ~Sourced(d) -> "invalid_source_reference"
      [] d.key \ DOMAIN d.schema # {} -> "missing_field"
      [] ~Keyed(d) -> "invalid_key"
      [] OTHER -> "invalid_partition_metadata"

RefuseDatasets ==
    /\ At("datasets")
    /\ \/ ~Distinct /\ Refuse("duplicate_identifier")
       \/ DOMAIN catalog.datasets = {} /\ Refuse("invalid_datasets")
       \/ /\ Distinct
          /\ \E d \in DOMAIN catalog.datasets :
                /\ ~WellDefined(catalog.datasets[d])
                /\ Refuse(Fault(catalog.datasets[d]))

-----------------------------------------------------------------------------
StreamFields == DOMAIN catalog.datasets[Stream].schema

(* Mutant: the names the code has are looked for, not the catalog's.       *)
NothingLeaksOfTheCode == Forbidden \cap StreamFields = {}

(* _validate_stream_projection                                             *)
NothingLeaks == catalog.private \cap StreamFields = {}

CheckStream ==
    /\ At("stream")
    /\ Stream \in DOMAIN catalog.datasets
    /\ NothingLeaks
    /\ Goto("joins", 1)

RefuseStream ==
    /\ At("stream")
    /\ \/ Stream \notin DOMAIN catalog.datasets /\ Refuse("missing_field")
       \/ /\ Stream \in DOMAIN catalog.datasets
          /\ ~NothingLeaks
          /\ Refuse("invalid_security_contract")

-----------------------------------------------------------------------------
(* The datasets a join is between.                                         *)
Participants(j) == {j.left[1][1], j.right[1][1]}

OneDataset(columns) == \A i \in DOMAIN columns : columns[i][1] = columns[1][1]

NoDuplicates(columns) ==
    \A i, k \in DOMAIN columns : columns[i] = columns[k] => i = k

(* Cardinality, _join_columns, equal counts, _single_join_dataset.         *)
WellFormed(j) ==
    /\ j.cardinality \in Cardinalities
    /\ NoDuplicates(j.left)
    /\ NoDuplicates(j.right)
    /\ Len(j.left) = Len(j.right)
    /\ OneDataset(j.left)
    /\ OneDataset(j.right)
    /\ j.left[1][1] # j.right[1][1]

Known(column) ==
    /\ column[1] \in DOMAIN catalog.datasets
    /\ column[2] \in DOMAIN catalog.datasets[column[1]].schema

TypeOf(column) == catalog.datasets[column[1]].schema[column[2]].type

PairKnown(j, i) == Known(j.left[i]) /\ Known(j.right[i])

PairFits(j, i) == PairKnown(j, i) /\ TypeOf(j.left[i]) = TypeOf(j.right[i])

(* The columns of one side cover the primary key of its dataset.           *)
FieldsOf(columns) == {columns[i][2] : i \in DOMAIN columns}

(* Mutant: the key covers the columns, instead of the reverse.             *)
UniqueReversed(columns) ==
    FieldsOf(columns) \subseteq catalog.datasets[columns[1][1]].key

Unique(columns) == catalog.datasets[columns[1][1]].key \subseteq FieldsOf(columns)

CardinalityHolds(j) ==
    /\ Unique(j.right)
    /\ j.cardinality # "many_to_one" => Unique(j.left)

IdFree(i) == \A k \in 1..(i - 1) : catalog.joins[k].id # catalog.joins[i].id

PairsFit(j) == \A i \in DOMAIN j.left : PairFits(j, i)

NextJoin == At("joins") /\ index <= Len(catalog.joins)

CheckJoin ==
    LET j == catalog.joins[index]
    IN  /\ NextJoin
        /\ IdFree(index)
        /\ WellFormed(j)
        /\ PairsFit(j)
        /\ CardinalityHolds(j)
        /\ Goto("joins", index + 1)

(* Of the pairs of columns, the first that does not fit is reported.       *)
RefuseJoin ==
    LET j == catalog.joins[index]
    IN  /\ NextJoin
        /\ \/ ~IdFree(index) /\ Refuse("duplicate_identifier")
           \/ IdFree(index) /\ ~WellFormed(j) /\ Refuse("invalid_join")
           \/ /\ IdFree(index)
              /\ WellFormed(j)
              /\ \E i \in DOMAIN j.left :
                    /\ ~PairFits(j, i)
                    /\ \A k \in 1..(i - 1) : PairFits(j, k)
                    /\ Refuse(IF PairKnown(j, i) THEN "invalid_join"
                                                 ELSE "invalid_join_reference")
           \/ /\ IdFree(index)
              /\ WellFormed(j)
              /\ PairsFit(j)
              /\ ~CardinalityHolds(j)
              /\ Refuse("invalid_join")

(* Mutant: the views are counted from zero.                                *)
JoinsCheckedFromZero ==
    /\ At("joins")
    /\ catalog.joins # <<>>
    /\ index > Len(catalog.joins)
    /\ Goto("views", 0)

JoinsChecked ==
    /\ At("joins")
    /\ catalog.joins # <<>>
    /\ index > Len(catalog.joins)
    /\ Goto("views", 1)

NoJoins == At("joins") /\ catalog.joins = <<>> /\ Refuse("invalid_joins")

-----------------------------------------------------------------------------
TheView == catalog.views[index]

(* The joins a view declares; ids are distinct once they are checked.      *)
JoinsOf(v) == {j \in Range(catalog.joins) : j.id \in v.joins}

Single(v) == \E d \in v.inputs : v.inputs = {d}

Declared(v) ==
    /\ v.inputs # {}
    /\ v.fields # {}
    /\ v.inputs \subseteq DOMAIN catalog.datasets
    /\ v.joins \subseteq {j.id : j \in Range(catalog.joins)}
    /\ Single(v) => v.joins = {}
    /\ ~Single(v) => v.joins # {}
    /\ \A j \in JoinsOf(v) : Participants(j) \subseteq v.inputs

NextView == At("views") /\ index <= Len(catalog.views)

OpenSingle ==
    /\ NextView
    /\ Declared(TheView)
    /\ Single(TheView)
    /\ Goto("fields", index)

(* _validate_view_join_graph walks from an input of the set's choice, ...  *)
OpenGraph ==
    /\ NextView
    /\ Declared(TheView)
    /\ ~Single(TheView)
    /\ \E d \in TheView.inputs : pending' = {d}
    /\ visited' = {}
    /\ stage' = "walk"
    /\ UNCHANGED <<catalog, index, code, stored>>

ViewUndeclared ==
    NextView /\ ~Declared(TheView) /\ Refuse("undocumented_logical_view")

(* Mutant: a join is an edge in one direction only.                        *)
AdjacentOneWay(v, d) ==
    {e \in v.inputs : \E j \in JoinsOf(v) : j.left[1][1] = d /\ j.right[1][1] = e}

Adjacent(v, d) ==
    {e \in v.inputs : \E j \in JoinsOf(v) : d # e /\ Participants(j) = {d, e}}

(* ... in no order of note: an input that is on the list twice is skipped  *)
(* the second time.                                                        *)
Visit ==
    /\ At("walk")
    /\ \E d \in pending :
          /\ visited' = visited \cup {d}
          /\ pending' = (pending \ {d}) \cup (Adjacent(TheView, d) \ visited')
    /\ UNCHANGED <<catalog, stage, index, code, stored>>

Connects ==
    /\ At("walk")
    /\ pending = {}
    /\ visited = TheView.inputs
    /\ Goto("fields", index)

DoesNotConnect ==
    /\ At("walk")
    /\ pending = {}
    /\ visited # TheView.inputs
    /\ Refuse("undocumented_logical_view")

FieldsDeclared(v) ==
    v.fields \subseteq UNION {DOMAIN catalog.datasets[d].schema : d \in v.inputs}

CheckFields ==
    At("fields") /\ FieldsDeclared(TheView) /\ Goto("views", index + 1)

FieldsUndeclared ==
    /\ At("fields")
    /\ ~FieldsDeclared(TheView)
    /\ Refuse("undocumented_logical_view")

Accept ==
    /\ At("views")
    /\ catalog.views # <<>>
    /\ index > Len(catalog.views)
    /\ Goto("accepted", index)

NoViews ==
    At("views") /\ catalog.views = <<>> /\ Refuse("undocumented_logical_view")

-----------------------------------------------------------------------------
(* _stream_field_contract                                                  *)
Contract == StreamFields \ Derived

Required ==
    {n \in Contract : ~catalog.datasets[Stream].schema[n].nullable}

(* _validate_stream_scalar                                                 *)
Fits(kind, field) ==
    \/ kind = "null" /\ field.nullable
    \/ kind \in {"string", "integer", "boolean", "timestamp"} /\ kind = field.type
    \/ kind = "timestamp" /\ field.type = "string"

(* A live event is projected, or refused with nothing to store.            *)
Project(e) ==
    /\ Stream \in DOMAIN catalog.datasets
    /\ (DOMAIN e.fields \cup e.inner) \cap Forbidden = {}
    /\ DOMAIN e.fields \subseteq Contract
    /\ Required \subseteq DOMAIN e.fields
    /\ \A n \in DOMAIN e.fields :
          Fits(e.fields[n], catalog.datasets[Stream].schema[n])
    /\ stored' = e.fields
    /\ UNCHANGED <<catalog, stage, index, visited, pending, code>>

-----------------------------------------------------------------------------
Check == \/ CheckPrivacy \/ PrivacyMissing
         \/ CheckDatasets \/ RefuseDatasets
         \/ CheckStream \/ RefuseStream
         \/ CheckJoin \/ RefuseJoin \/ JoinsChecked \/ NoJoins
         \/ OpenSingle \/ OpenGraph \/ ViewUndeclared
         \/ Visit \/ Connects \/ DoesNotConnect
         \/ CheckFields \/ FieldsUndeclared \/ Accept \/ NoViews

Next == Check \/ \E e \in Events : Project(e)

Spec == Init /\ [][Next]_vars

-----------------------------------------------------------------------------
Codes == {"none", "invalid_security_contract", "duplicate_identifier",
          "invalid_datasets", "invalid_schema", "invalid_source_reference",
          "missing_field", "invalid_key", "invalid_partition_metadata",
          "invalid_join", "invalid_join_reference", "invalid_joins",
          "undocumented_logical_view"}

TypeOK ==
    /\ IsCatalog(catalog)
    /\ stage \in {"privacy", "datasets", "stream", "joins", "views", "walk",
                  "fields", "accepted"}
    /\ index \in Nat \ {0}
    /\ visited \subseteq Ids
    /\ pending \subseteq Ids
    /\ code \in Codes
    /\ stored \in [DOMAIN stored -> Kinds]
    /\ DOMAIN stored \subseteq Names

(* The declared joins leave no group of inputs apart.                      *)
Connected(v) ==
    \A S \in (SUBSET v.inputs) \ {{}, v.inputs} :
        \E j \in JoinsOf(v) : Participants(j) \cap S # {} /\ Participants(j) \ S # {}

(* Wherever the walk over a view's joins starts and whatever order it      *)
(* takes, it accepts the view exactly when its joins leave no group of     *)
(* inputs apart.                                                           *)
WalkDecidesConnectivity ==
    /\ stage = "fields" => Connected(TheView)
    /\ stage = "walk" /\ code # "none" => ~Connected(TheView)

(* The rows a dataset may hold, the rows of a join that meet, and those    *)
(* that its primary key does not tell apart.                               *)
Rows(d) == [DOMAIN catalog.datasets[d].schema -> Values]

Meet(j, l, r) == \A i \in DOMAIN j.left : l[j.left[i][2]] = r[j.right[i][2]]

SameKey(d, r, s) == \A n \in catalog.datasets[d].key : r[n] = s[n]

AtMostOneRight(j) ==
    LET right == j.right[1][1]
    IN  \A l \in Rows(j.left[1][1]), r, s \in Rows(right) :
            Meet(j, l, r) /\ Meet(j, l, s) => SameKey(right, r, s)

AtMostOneLeft(j) ==
    LET left == j.left[1][1]
    IN  \A r \in Rows(j.right[1][1]), l, m \in Rows(left) :
            Meet(j, l, r) /\ Meet(j, m, r) => SameKey(left, l, m)

(* No join of an accepted catalog multiplies rows: the right rows a left   *)
(* row meets have one primary key and so are one row, and where the        *)
(* cardinality says one_to, the left rows a right row meets as well.       *)
JoinsKeepRows ==
    stage = "accepted" =>
        \A j \in Range(catalog.joins) :
            /\ AtMostOneRight(j)
            /\ j.cardinality # "many_to_one" => AtMostOneLeft(j)

(* What the projection keeps of an event has no private field, however     *)
(* deep: neither one of the list the code has, nor, once the catalog is    *)
(* accepted, one of the list the catalog has, although the projection      *)
(* never reads that.                                                       *)
PrivateFieldsStayOut ==
    /\ DOMAIN stored \cap Forbidden = {}
    /\ stage = "accepted" => DOMAIN stored \cap catalog.private = {}
    /\ \A n \in DOMAIN stored : stored[n] # "other"

=============================================================================
