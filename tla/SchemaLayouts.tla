----------------------------- MODULE SchemaLayouts -----------------------------
(***************************************************************************)
(* What the structure of a SQLite file says it is: schema.py.              *)
(*                                                                         *)
(* "Objects" stands for the tables, triggers, indexes and views of a file  *)
(* and the SQL that made them.  It is one of the published layouts when    *)
(* every one of them is canonical, "altered" when some known table is not  *)
(* and "foreign" when no table is known.  "v02_early" is the layout that   *)
(* v0.2 had before event evidence, with unique snapshot hashes.            *)
(***************************************************************************)
EXTENDS Integers, Sequences

SCHEMA_VERSION == 3

(* The version that the absent row of schema_metadata has. *)
NoMetadata == -1

Published(objects, version, metadata, kind) ==
    [objects |-> objects, user_version |-> version, metadata |-> metadata,
     kind |-> kind]

(* The structures a release has left, and their kinds. *)
PublishedLayouts ==
    {Published("none", 0, NoMetadata, "EMPTY"),
     Published("v01", 0, NoMetadata, "V01"),
     Published("v02_early", 2, 2, "V02"),
     Published("v02", 2, 2, "V02"),
     Published("v03_alpha2", 3, 3, "V03_ALPHA2"),
     Published("v03_alpha3", 3, 3, "V03_ALPHA3"),
     Published("v03", 3, 3, "V03")}

Objects == {p.objects : p \in PublishedLayouts} \cup {"altered", "foreign"}

SchemaKinds == {p.kind : p \in PublishedLayouts} \cup {"PARTIAL", "UNKNOWN"}

LegacyKinds == {"V01", "V02", "V03_ALPHA2", "V03_ALPHA3"}

(* ALLOWED_MIGRATIONS, all to V03. *)
AllowedMigrations == LegacyKinds

(* PRAGMA table_info of each table in a list of tables.  Layouts of a family
   have the same columns in the tables they share. *)
Columns(objects) ==
    CASE objects \in {"none", "altered", "foreign"} -> objects
      [] objects = "v01"                            -> "v1_columns"
      [] OTHER                                      -> "v2_columns"

HasMetadata(objects) == Columns(objects) = "v2_columns"
-----------------------------------------------------------------------------
(* fingerprint_schema runs a query at a time: the objects, the user version,
   the metadata version when the objects have that table, and in _classify
   the columns of the tables it saw.  A fingerprint is what they returned.  *)
Queries == <<"objects", "user_version", "metadata", "columns">>

(* The answer to the next query, of a file `file`, after `seen`. *)
Answer(seen, file) ==
    CASE Queries[Len(seen) + 1] = "objects"      -> file.objects
      [] Queries[Len(seen) + 1] = "user_version" -> file.user_version
      [] Queries[Len(seen) + 1] = "metadata"     ->
             IF HasMetadata(seen[1]) THEN file.metadata ELSE NoMetadata
      [] Queries[Len(seen) + 1] = "columns"      ->
             IF seen[1] = "none" THEN "none" ELSE Columns(file.objects)

(* A fingerprint of a file that nobody changes meanwhile. *)
Fingerprint(file) ==
    <<file.objects, file.user_version,
      IF HasMetadata(file.objects) THEN file.metadata ELSE NoMetadata,
      Columns(file.objects)>>

(* The structural digest binds all but the columns. *)
Digest(seen) == SubSeq(seen, 1, 3)

Matches(p, seen) ==
    /\ Digest(seen) = <<p.objects, p.user_version, p.metadata>>
    /\ seen[4] = Columns(p.objects)

(* _classify: fail closed on anything but a whole published structure. *)
Classify(seen) ==
    IF \E p \in PublishedLayouts : Matches(p, seen)
    THEN (CHOOSE p \in PublishedLayouts : Matches(p, seen)).kind
    ELSE IF seen[1] = "foreign" THEN "UNKNOWN" ELSE "PARTIAL"

KindOf(file) == Classify(Fingerprint(file))
=============================================================================
