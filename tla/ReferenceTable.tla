--------------------------- MODULE ReferenceTable ---------------------------
(***************************************************************************)
(* openrs::cache::ReferenceTable: the table of an index read field by      *)
(* field.  A file holds the fields a table of its kind has, up to where it *)
(* is cut off; a field is named by what it is and whose.                   *)
(***************************************************************************)
EXTENDS Integers, Sequences, SequencesExt, FiniteSets, FiniteSetsExt

CONSTANTS
  Protocols,     \* what the first byte holds
  MaxIds,        \* bound: ids in a table
  kIdSpan,       \* numbers an id can have: 2^32
  kDigestFields  \* a digest, in fields of four bytes: 16

ASSUME TableAssumption ==
  Protocols \subseteq 0 .. 255 /\ MaxIds \in Nat /\ kIdSpan \in Nat \ {0} /\ kDigestFields \in Nat \ {0}

VARIABLES
  table,       \* as it was written: protocol, flags and differences of the ids
  held,        \* fields of it that are there
  fields_read, \* fields that have been read
  ids, largest_archive_id,
  filled,      \* entries that have the field of the current phase
  archive_references,
  phase

tableVars == <<table, held, fields_read, ids, largest_archive_id, filled, archive_references, phase>>

Unset == <<"none", 0>>
Blank == [name |-> Unset, digest |-> Unset, crc |-> Unset, revision |-> Unset]
NoReferences == [id \in {} |-> Blank]

\* Protocol, revision, flags and count.
HeaderFields == 4

Each(what, width) ==
  [n \in 1 .. Len(table.deltas) * width |-> <<what, (n + width - 1) \div width>>]

\* The fields behind the ids, as they are written.
Written ==
  (IF table.named THEN Each("name", 1) ELSE <<>>)
  \o (IF table.whirlpooled THEN Each("digest", kDigestFields) ELSE <<>>)
  \o Each("crc", 1) \o Each("revision", 1)

\* The differences: none, some, and the -1 a big smart stands for.
Deltas == {0, 1, 2, kIdSpan - 1}

TableInit ==
  /\ table \in [protocol : Protocols, named : BOOLEAN, whirlpooled : BOOLEAN,
                deltas : UNION {[1 .. n -> Deltas] : n \in 0 .. MaxIds}]
  /\ table.protocol < 7 => \A i \in DOMAIN table.deltas : table.deltas[i] # kIdSpan - 1
  /\ held \in 0 .. HeaderFields + Len(table.deltas) + Len(Written)
  /\ fields_read = 0
  /\ ids = <<>> /\ largest_archive_id = 0 /\ filled = 0
  /\ archive_references = NoReferences
  /\ phase = "header"

Refuse == phase' = "refused" /\ UNCHANGED <<table, held, fields_read, ids, largest_archive_id, filled, archive_references>>

\* GetData of so many fields.
Take(n) == fields_read + n <= held /\ fields_read' = fields_read + n

\* The revision of a table of protocol 5 is read through a null pointer.
ReadHeader ==
  /\ phase = "header"
  /\ IF held = 0 \/ table.protocol \notin 5 .. 7 \/ (table.protocol # 5 /\ held < HeaderFields) THEN Refuse
     ELSE IF table.protocol = 5
     THEN phase' = "crashed" /\ UNCHANGED <<table, held, fields_read, ids, largest_archive_id, filled, archive_references>>
     ELSE /\ fields_read' = HeaderFields /\ phase' = "ids"
          /\ UNCHANGED <<table, held, ids, largest_archive_id, filled, archive_references>>

LastId == IF ids = <<>> THEN 0 ELSE ids[Len(ids)]

\* (Seeded defect.) The last id is taken for the largest.
LargestIsLast(id) == id

Larger(id) == IF id > largest_archive_id THEN id ELSE largest_archive_id

ReadId ==
  /\ phase = "ids" /\ Len(ids) < Len(table.deltas)
  /\ \/ /\ Take(1)
        /\ LET id == (LastId + table.deltas[Len(ids) + 1]) % kIdSpan
           IN  ids' = Append(ids, id) /\ largest_archive_id' = Larger(id)
        /\ UNCHANGED <<table, held, filled, archive_references, phase>>
     \/ fields_read = held /\ Refuse

\* The phases a table goes through after the ids.
Phases ==
  (IF table.named THEN <<"name">> ELSE <<>>)
  \o (IF table.whirlpooled THEN <<"digest">> ELSE <<>>)
  \o <<"crc", "revision", "done">>
After(p) == Phases[(CHOOSE i \in DOMAIN Phases : Phases[i] = p) + 1]

\* One more than the largest id may be none at all: the table stays empty.
BuildArchiveReferences ==
  /\ phase = "ids" /\ Len(ids) = Len(table.deltas)
  /\ LET size == (largest_archive_id + 1) % kIdSpan
     IN  /\ archive_references' = [id \in 0 .. size - 1 |-> Blank]
         /\ phase' = IF size = 0 THEN "done" ELSE Phases[1]
  /\ UNCHANGED <<table, held, fields_read, ids, largest_archive_id, filled>>

Field(p) ==
  LET n == p - HeaderFields - Len(ids)
  IN  IF p <= held THEN Written[n] ELSE <<"beyond", 0>>

Copying == phase \in {"name", "digest", "crc", "revision"} /\ filled < Len(ids)

Set(p, field) ==
  /\ archive_references' =
       [archive_references EXCEPT ![ids[filled + 1]] =
         [what \in DOMAIN Blank |-> IF what = p THEN field ELSE @[what]]]
  /\ filled' = filled + 1
  /\ UNCHANGED <<table, held, ids, largest_archive_id, phase>>

CopyField ==
  /\ Copying /\ phase # "digest"
  /\ \/ Take(1) /\ Set(phase, Field(fields_read + 1))
     \/ fields_read = held /\ Refuse

\* The digest is copied from the position, which stays where it is.
CopyDigest ==
  /\ Copying /\ phase = "digest"
  /\ \/ /\ fields_read + kDigestFields <= held
        /\ Set(phase, Field(fields_read + 1))
        /\ UNCHANGED fields_read
     \/ fields_read + kDigestFields > held /\ Refuse

NextPhase ==
  /\ phase \in {"name", "digest", "crc", "revision"} /\ filled = Len(ids)
  /\ phase' = After(phase) /\ filled' = 0
  /\ UNCHANGED <<table, held, fields_read, ids, largest_archive_id, archive_references>>

TableNext == ReadHeader \/ ReadId \/ BuildArchiveReferences \/ CopyField \/ CopyDigest \/ NextPhase

-----------------------------------------------------------------------------
(* Properties *)

\* Every id has a reference while fields are copied, however the differences
\* wrap: the array is never stored to outside of its size.
IdsHaveReferences ==
  phase \in {"name", "digest", "crc", "revision"} => \A i \in 1 .. Len(ids) : ids[i] \in DOMAIN archive_references

LastWith(id) == Max({i \in 1 .. Len(ids) : ids[i] = id})
Own(what, id) == archive_references[id][what] = <<what, LastWith(id)>>

\* In a table that is accepted every reference has its own fields, not those
\* of another. In one with digests only the names are: the sums and revisions
\* are read from the digests, but none from beyond the end.
ReferencesHaveTheirFields ==
  phase = "done" /\ archive_references # NoReferences =>
    \A id \in ToSet(ids) :
      /\ table.named => Own("name", id)
      /\ ~table.whirlpooled => Own("crc", id) /\ Own("revision", id)
      /\ \A what \in DOMAIN Blank : archive_references[id][what][1] # "beyond"

\* Every field goes to the reference it belongs to, which is there.
TableIsRead == IdsHaveReferences /\ ReferencesHaveTheirFields
=============================================================================
