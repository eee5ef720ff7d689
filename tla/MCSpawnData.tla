----------------------------- MODULE MCSpawnData ------------------------------
(***************************************************************************)
(* SpawnData with a component that links to a parent, one whose link is in *)
(* a field too narrow for some ids, and one without data.                  *)
(***************************************************************************)
EXTENDS SpawnData

CONSTANTS w1, w2
MCWorld == {w1, w2}
Worlds == Permutations(MCWorld)

MCCompName == {"Link", "Narrow", "Tag"}
MCFieldType == {"Bool", "I32", "I64", "Vector3", "Blob"}
MCByteBuffer == {"Blob"}
MCNumber == {"I32", "I64"}
MCSize == [t \in MCFieldType |->
             CASE t = "Bool" -> 1 [] t = "I32" -> 4 [] t = "I64" -> 8
               [] t = "Vector3" -> 12 [] t = "Blob" -> 0]
MCAlign == [t \in MCFieldType |->
              CASE t \in {"Bool", "Blob"} -> 1 [] t \in {"I32", "Vector3"} -> 4
                [] t = "I64" -> 8]
\* I32 keeps the ids below 4
MCWidth == [t \in MCNumber |-> IF t = "I32" THEN 4 ELSE 16]

Field(n, t, c) == [name |-> n, type |-> t, count |-> c, networked |-> TRUE]
Parent == <<Field("flag", "Bool", 1), Field("parent", "I64", 0), Field("tail", "Blob", 3)>>
NarrowParent == <<Field("pos", "Vector3", 1), Field("on", "Bool", 3), Field("parent", "I32", 1)>>

MCDeclarations ==
  {[name |-> "Link", fields |-> Parent], [name |-> "Link", fields |-> NarrowParent],
   [name |-> "Tag", fields |-> <<>>],
   [name |-> "Tag", fields |-> <<Field("flag", "Bool", 1), Field("flag", "Bool", 1)>>]}

Row(n, i, s) == [name |-> n, id |-> i, schema |-> s]
MCCsvFiles ==
  {[columns |-> TRUE, rows |->
      <<Row(NoName, "Link", Parent), Row(NoName, NoName, Parent), Row("Tag", "Link", NoArray),
        Row("Narrow", NoName, NarrowParent), Row("Link", NoName, NarrowParent),
        Row("Tag", NoName, <<Field("what", "String", 1)>>)>>],
   [columns |-> FALSE, rows |-> <<Row("Tag", NoName, <<>>)>>]}

Link(p) == [n \in {"Link"} |-> p]
Narrow(p) == [n \in {"Narrow"} |-> p]
Tag == [n \in {"Tag"} |-> 0]
Record(i, p, c) == [id |-> i, parent |-> p, components |-> c]

MCBundles == {[n \in {"Link", "Tag"} |-> 2]}
MCBatches ==
  {<<Record(NoKey, NoKey, Link(0)), Record(NoKey, 0, Link(0))>>,
   <<Record(NoKey, 1, Link(1)), Record(NoKey, NoKey, Link(0))>>,
   <<Record(2, NoKey, Narrow(1)), Record(1, 2, Narrow(2)), Record(NoKey, 1, Link(1))>>,
   <<Record(1, NoKey, Tag), Record(0, NoKey, Link(1)), Record(NoKey, 1, Link(1))>>}
===============================================================================
