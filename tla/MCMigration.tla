------------------------------ MODULE MCMigration ------------------------------
(* Small repositories of each release, and the ways to ask for one. *)
EXTENDS Migration

Text(path, content, place, sound) ==
    [id |-> "text", path |-> path, continuity |-> "main", content |-> content,
     place |-> place, sound |-> sound]

Claim(id, snapshot, line, sound) ==
    [id |-> id, snapshot |-> snapshot, continuity |-> "main", end_line |-> line,
     sound |-> sound, plain |-> TRUE]

(* One source went from A to B and back; another has a damaged text.  The id of
   p, which may repeat s2, has spaces around it; c5's object is a BLOB. *)
MCSnapshots == {"s1", "s2", "p", "s3", "s4", "t"}
MCClaims == {"c1", "c2", "c3", "c4", "c5"}
MCLineCount == [A |-> 1, B |-> 2]

MCRow ==
    [s1 |-> Text("s", "A", 1, TRUE), s2 |-> Text("s", "B", 2, TRUE),
     p |-> [Text("s", "B", 3, TRUE) EXCEPT !.id = "padded"],
     s3 |-> Text("s", "B", 4, TRUE), s4 |-> Text("s", "A", 5, TRUE),
     t |-> Text("t", "A", 6, FALSE),
     c1 |-> Claim("text", "s3", 2, TRUE), c2 |-> Claim("text", "t", 1, TRUE),
     c3 |-> Claim("text", "s1", 2, TRUE), c4 |-> Claim("text", "p", 2, TRUE),
     c5 |-> [Claim("text", "s1", 1, TRUE) EXCEPT !.plain = FALSE]]

(* c1's id is the empty text. *)
BlankRow == [MCRow EXCEPT !.c1.id = "blank"]

MCUnsettled == {"c1"}

File(objects, rows, births) ==
    LET p == CHOOSE p \in PublishedLayouts : p.objects = objects
    IN  [exists |-> objects # "none", objects |-> objects,
         user_version |-> p.user_version, metadata |-> p.metadata, rows |-> rows,
         retained |-> {}, accepted |-> {}, births |-> births]

MCRepositories ==
    {File("none", {}, <<>>),
     File("v01", {"s1", "s2", "p", "s4", "c4"}, <<>>),
     File("v01", {"s1", "t", "c2", "c3"}, <<>>),
     File("v01", {"s1", "p", "c4", "c5"}, <<>>),
     File("v02_early", {"s1", "s2"}, <<"schema.initialized">>),
     File("v03_alpha3", {"s1", "s3", "c1"}, <<"schema.initialized">>)}

BlankRepositories == {File("v01", {"s1", "s3", "c1"}, <<>>)}

Asked(lifecycle, mode, backup, accept) ==
    [lifecycle |-> lifecycle, mode |-> mode, backup |-> backup, accept |-> accept]

MCAsks ==
    {Asked("library", "strict", FALSE, TRUE),
     Asked("migrate", "strict", TRUE, TRUE),
     Asked("migrate", "quarantine", TRUE, FALSE),
     Asked("create", "strict", FALSE, FALSE),
     Asked("write", "strict", FALSE, FALSE),
     Asked("readonly", "strict", FALSE, FALSE)}

MCLateRows == {"t"}

MCBackupNames == 1 .. 3
=============================================================================
