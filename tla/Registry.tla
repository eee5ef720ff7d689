------------------------------- MODULE Registry -------------------------------
(***************************************************************************)
(* ComponentRegistry, the component types of the process: every world of   *)
(* the process uses this one.  Types are registered by scripts, one at a   *)
(* time or from the rows of a CSV table, and are never removed; a type is  *)
(* found by its name or by its id, its place in the list plus one.         *)
(*                                                                         *)
(* A field is what the caller gave: a name, a type, a count of elements    *)
(* and whether it is networked.  Registering lays the fields out in bytes, *)
(* with the sizes and alignments the build has for their types.            *)
(***************************************************************************)
EXTENDS Integers, Sequences, FiniteSets, Functions, SequencesExt

CONSTANTS
  CompName,     \* names of component types
  NoName,       \* an empty cell of the table
  NoArray,      \* a schema cell that is not a JSON array
  FieldType,    \* the names parse_field_type() knows
  ByteBuffer,   \* those of them whose count is a length in bytes
  SizeOf,       \* [FieldType -> the size of an element]
  AlignOf,      \* [FieldType -> its alignment]
  Declarations, \* what scripts register: [name, fields]
  CsvFiles      \* the tables they load: [columns, rows]

\* A list of fields as scripts may give it: any names, types and counts.
Declared(fields) ==
  /\ fields \in Seq(Range(fields))
  /\ \A fd \in Range(fields) :
       DOMAIN fd = {"name", "type", "count", "networked"} /\ fd.count \in Int

\* Alignments are powers of two: of any two the smaller divides the other.
ASSUME RegistryAssumption ==
  /\ NoName \notin CompName
  /\ ByteBuffer \subseteq FieldType
  /\ SizeOf \in [FieldType -> Nat] /\ AlignOf \in [FieldType -> Nat \ {0}]
  /\ \A t \in FieldType \ ByteBuffer : SizeOf[t] > 0
  /\ \A t \in ByteBuffer : AlignOf[t] = 1
  /\ \A t, u \in FieldType : AlignOf[t] <= AlignOf[u] => AlignOf[u] % AlignOf[t] = 0
  /\ \A d \in Declarations : d.name \in CompName /\ Declared(d.fields)
  /\ \A file \in CsvFiles :
       /\ file.rows \in Seq(Range(file.rows))
       /\ \A row \in Range(file.rows) :
            /\ {row.name, row.id} \subseteq CompName \cup {NoName}
            /\ row.schema = NoArray \/ Declared(row.schema)

VARIABLES
  schemas,     \* schemas_, indexed by type id
  idByName     \* id_by_name_: [the names registered -> type id]

registry == <<schemas, idByName>>

RegistryInit ==
  /\ schemas = <<>>
  /\ idByName = [n \in {} |-> 0]

Registered(n) == n \in DOMAIN idByName
SchemaOf(n) == schemas[idByName[n]]
HasField(n, f) == \E i \in DOMAIN SchemaOf(n).fields : SchemaOf(n).fields[i].name = f

(***************************************************************************)
(* The layout of a component.                                              *)
(***************************************************************************)

AlignUp(v, a) == ((v + a - 1) \div a) * a

ByteSize(fd) == IF fd.type \in ByteBuffer THEN fd.count ELSE SizeOf[fd.type] * fd.count

\* Where a field is placed if the one before it ends at `end`.
Offset(end, fd) == AlignUp(end, AlignOf[fd.type])

\* Where the first i fields end, for each i.
Ends(fields) ==
  LET end[i \in 0..Len(fields)] ==
        IF i = 0 THEN 0 ELSE Offset(end[i - 1], fields[i]) + ByteSize(fields[i])
  IN  end

MaxAlign(fields) == Max({1} \cup {AlignOf[fields[i].type] : i \in DOMAIN fields})

Placed(fields) ==
  [i \in DOMAIN fields |->
     [name |-> fields[i].name, type |-> fields[i].type,
      offset |-> Offset(Ends(fields)[i - 1], fields[i]), bytes |-> ByteSize(fields[i])]]

\* Mutant: the size is where the last field ends.
LayoutUnpadded(name, fields) ==
  [name |-> name, fields |-> Placed(fields), alignment |-> MaxAlign(fields),
   size |-> Ends(fields)[Len(fields)],
   networked |-> \E i \in DOMAIN fields : fields[i].networked]

Layout(name, fields) ==
  [name |-> name, fields |-> Placed(fields), alignment |-> MaxAlign(fields),
   size |-> AlignUp(Ends(fields)[Len(fields)], MaxAlign(fields)),
   networked |-> \E i \in DOMAIN fields : fields[i].networked]

(***************************************************************************)
(* Registering.  A registry is a record here, so that the rows of a table  *)
(* can be registered one after the other.                                  *)
(***************************************************************************)

Current == [schemas |-> schemas, ids |-> idByName]

\* What VECSWorld::register_component() takes: names that differ, known types.
WellFormed(fields) ==
  /\ \A i \in DOMAIN fields : fields[i].type \in FieldType
  /\ \A i, j \in DOMAIN fields : fields[i].name = fields[j].name => i = j

Counted(fields) ==
  [i \in DOMAIN fields |->
     IF fields[i].count > 0 THEN fields[i] ELSE [fields[i] EXCEPT !.count = 1]]

\* Mutant: a name that is taken is given to the new type.
WithTypeAgain(reg, name, fields) ==
  [schemas |-> Append(reg.schemas, Layout(name, Counted(fields))),
   ids     |-> [n \in DOMAIN reg.ids \cup {name} |->
                  IF n = name THEN Len(reg.schemas) + 1 ELSE reg.ids[n]]]

\* A name that is taken keeps its type, whatever the fields are now.
WithType(reg, name, fields) ==
  IF name \in DOMAIN reg.ids THEN reg
  ELSE [schemas |-> Append(reg.schemas, Layout(name, Counted(fields))),
        ids     |-> [n \in DOMAIN reg.ids \cup {name} |->
                       IF n = name THEN Len(reg.schemas) + 1 ELSE reg.ids[n]]]

Set(reg) == schemas' = reg.schemas /\ idByName' = reg.ids

RegisterComponent(name, fields) ==
  Set(IF WellFormed(fields) THEN WithType(Current, name, fields) ELSE Current)

\* The name column, or the last segment of the id column.
NameOf(row) == IF row.name # NoName THEN row.name ELSE row.id

RowRegistered(reg, row) ==
  IF NameOf(row) = NoName \/ row.schema = NoArray THEN reg
  ELSE IF WellFormed(row.schema) THEN WithType(reg, NameOf(row), row.schema)
  ELSE reg

\* register_components_from_csv(), of a table with the columns it needs
RegisterFromCsv(file) ==
  LET after[i \in 0..Len(file.rows)] ==
        IF i = 0 THEN Current ELSE RowRegistered(after[i - 1], file.rows[i])
  IN  Set(IF file.columns THEN after[Len(file.rows)] ELSE Current)

RegistryNext ==
  \/ \E d \in Declarations : RegisterComponent(d.name, d.fields)
  \/ \E file \in CsvFiles : RegisterFromCsv(file)

(***************************************************************************)
(* Property.                                                               *)
(***************************************************************************)

\* A column is an array of components of `size` bytes: in any two rows of it,
\* every field is where its type may be, no field reaches into another or into
\* the next row, and no field could be placed lower (component_registry.cpp:132).
LayoutSound ==
  \A n \in DOMAIN idByName : LET s == SchemaOf(n) IN
    /\ \A i \in DOMAIN s.fields, row \in {0, 1} :
         (row * s.size + s.fields[i].offset) % AlignOf[s.fields[i].type] = 0
    /\ \A i, j \in DOMAIN s.fields : i < j =>
         LET end == s.fields[i].offset + s.fields[i].bytes IN
         /\ end <= s.fields[j].offset
         /\ j = i + 1 => s.fields[j].offset - end < AlignOf[s.fields[j].type]
    /\ \A i \in DOMAIN s.fields : s.fields[i].offset + s.fields[i].bytes <= s.size
=============================================================================
