------------------------------ MODULE EventLedger ------------------------------
(***************************************************************************)
(* The hash chain of the event ledger: _append_ledger_in_transaction and   *)
(* verify_ledger (storage.py), as any operation uses them that appends one *)
(* or more entries in a transaction.  Sessions, the write lock and         *)
(* failures are those of Transactions.                                     *)
(*                                                                         *)
(* A content stands for an entry's id, type, aggregate, payload and time.  *)
(* SHA-256 is injective here: a digest is the tuple of what it digests.    *)
(***************************************************************************)
EXTENDS Transactions, Sequences

CONSTANTS
    Contents,     \* what entries say
    Batches,      \* the contents that one operation appends, in order
    MaxLedger     \* entries the disk has room for

ASSUME BatchesAssumption == Batches \subseteq Seq(Contents) \ {<<>>}
ASSUME MaxLedgerAssumption == MaxLedger \in Nat
-----------------------------------------------------------------------------
(* Mutant of Digest: the payload is left out. *)
DigestOfPlace(sequence, content, previous) == <<sequence, previous>>

Digest(sequence, content, previous) == <<sequence, content, previous>>

Genesis == <<>>

(* The table event_ledger by its primary key.  Links are digests. *)
IsImage(image) ==
    /\ DOMAIN image \subseteq Nat \ {0}
    /\ \A n \in DOMAIN image : image[n].content \in Contents

Row(content, previous, hash) ==
    [content |-> content, previous |-> previous, hash |-> hash]

EmptyImage == [n \in {} |-> Row(n, n, n)]

(* SELECT ... ORDER BY sequence DESC LIMIT 1 *)
IsTail(image, n) ==
    n \in DOMAIN image /\ \A m \in DOMAIN image : m <= n

TailOf(image) ==
    IF DOMAIN image = {} THEN 0 ELSE CHOOSE n \in DOMAIN image : IsTail(image, n)

HashAt(image, n) == IF n = 0 THEN Genesis ELSE image[n].hash

(* verify_ledger: the sequence starts at 1 and has no gap, every entry links to
   the one before it, and every digest is right.                            *)
Verifies(image) ==
    \A n \in DOMAIN image :
        /\ n - 1 \in {0} \cup DOMAIN image
        /\ image[n].previous = HashAt(image, n - 1)
        /\ image[n].hash = Digest(n, image[n].content, image[n].previous)
-----------------------------------------------------------------------------
(* Calls.  batch is what is left to append; sequence and previous are what the
   call has decided from the tail it read.                                  *)
Labels == {"idle", "enter", "read_tail", "insert_entry", "exit", "broken"}

(* Committed and uncommitted entries have a number and a content, and a session
   has something left to append exactly until its last insert. *)
TypeOK ==
    /\ IsImage(db)
    /\ IsImage(work)
    /\ lock \in Sessions \cup {NoSession}
    /\ depth \in [Sessions -> {0, 1}]
    /\ pc \in [Sessions -> Labels]
    /\ \A s \in Sessions :
           /\ call[s] = NoCall <=> pc[s] \in {"idle", "broken"}
           /\ call[s] # NoCall =>
                  /\ call[s].batch \in Seq(Contents)
                  /\ call[s].batch = <<>> <=> pc[s] = "exit"

Init == StartIn(EmptyImage)

CallOperation(s, batch) ==
    /\ pc[s] = "idle"
    /\ call' = [call EXCEPT ![s] =
                   [op |-> "operation", batch |-> batch, sequence |-> 0,
                    previous |-> Genesis]]
    /\ Goto(s, "enter")
    /\ UNCHANGED <<db, work, lock, depth>>

Enter(s) ==
    /\ pc[s] = "enter"
    /\ EnterTransaction(s)
    /\ Goto(s, "read_tail")
    /\ UNCHANGED call

Exit(s) ==
    /\ pc[s] = "exit"
    /\ ExitTransaction(s)
    /\ Goto(s, "idle")

CommitBusy(s) == pc[s] = "exit" /\ CommitFails(s)

BusyTimeout(s) == pc[s] = "enter" /\ GiveUpWaiting(s)
-----------------------------------------------------------------------------
(* Mutant of Seen: the tail of the committed ledger. *)
SeenCommitted(s) == db

Seen(s) == View(s)

NextSequence(image) == TailOf(image) + 1

(* Mutant of LinkToTail: the tail's own link is copied. *)
LinkOfTail(image) ==
    IF DOMAIN image = {} THEN Genesis ELSE image[TailOf(image)].previous

LinkToTail(image) == HashAt(image, TailOf(image))

ReadTail(s) ==
    /\ pc[s] = "read_tail"
    /\ call' = [call EXCEPT ![s].sequence = NextSequence(Seen(s)),
                            ![s].previous = LinkToTail(Seen(s))]
    /\ Goto(s, "insert_entry")
    /\ UNCHANGED <<db, work, lock, depth>>

Entry(k) ==
    LET content == Head(k.batch)
    IN  Row(content, k.previous, Digest(k.sequence, content, k.previous))

(* PRIMARY KEY, UNIQUE (entry_hash) *)
CanInsertEntry(image, k) ==
    /\ k.sequence \notin DOMAIN image
    /\ \A n \in DOMAIN image : image[n].hash # Entry(k).hash

HasRoom(k) == k.sequence <= MaxLedger

WithEntry(image, k) ==
    [n \in DOMAIN image \cup {k.sequence} |->
        IF n = k.sequence THEN Entry(k) ELSE image[n]]

InsertEntry(s) ==
    /\ pc[s] = "insert_entry"
    /\ CanInsertEntry(work, call[s])
    /\ HasRoom(call[s])
    /\ work' = WithEntry(work, call[s])
    /\ call' = [call EXCEPT ![s].batch = Tail(@)]
    /\ Goto(s, IF Tail(call[s].batch) = <<>> THEN "exit" ELSE "read_tail")
    /\ UNCHANGED <<db, lock, depth>>

Objection(s) ==
    pc[s] = "insert_entry" /\ ~CanInsertEntry(work, call[s])

NoSpace(s) == pc[s] = "insert_entry" /\ ~HasRoom(call[s])

Refuse(s) == (Objection(s) \/ NoSpace(s)) /\ Rollback(s)
-----------------------------------------------------------------------------
Session(s) ==
    \/ \E batch \in Batches : CallOperation(s, batch)
    \/ Enter(s)
    \/ ReadTail(s)
    \/ InsertEntry(s)
    \/ Refuse(s)
    \/ Exit(s)
    \/ CommitBusy(s)
    \/ BusyTimeout(s)
    \/ Interrupt(s)
    \/ Close(s)

Next == \E s \in Sessions : Session(s)

Spec == Init /\ [][Next]_vars
-----------------------------------------------------------------------------
Log == INSTANCE AppendOnlyLog WITH log <- [n \in DOMAIN db |-> db[n].content]

(* Whatever sessions do at once and however they fail, the committed ledger
   grows at its end by all the entries of one operation. *)
LogSpec == Log!Spec

(* verify_ledger accepts whatever a session may see, its own uncommitted
   entries included: a migration verifies before it commits. *)
ChainIntact == \A s \in Sessions : Verifies(View(s))

(* Two appenders never chain to the same entry: no key ever stops an insert
   (docs/V0_2_DESIGN.md:378). *)
ChainNeverForks == \A s \in Sessions : ~Objection(s)
-----------------------------------------------------------------------------
(* One row rewritten, moved or deleted behind the program's back, by somebody
   who can compute digests. *)
Links(image) == {Genesis} \cup {image[n].hash : n \in DOMAIN image}

RewrittenRows(image) ==
    {[image EXCEPT ![n] = Row(content, previous, hash)] :
        n \in DOMAIN image, content \in Contents, previous \in Links(image),
        hash \in Links(image)
            \cup {Digest(m, c, link) : m \in DOMAIN image, c \in Contents,
                                       link \in Links(image)}}

MovedRows(image) ==
    {[n \in (DOMAIN image \ {from}) \cup {to} |->
        IF n = to THEN image[from] ELSE image[n]] :
            from \in DOMAIN image, to \in 1 .. MaxLedger + 1}

DeletedRows(image) ==
    {[n \in DOMAIN image \ {gone} |-> image[n]] : gone \in DOMAIN image}

Rewrites(image) == RewrittenRows(image) \cup MovedRows(image) \cup DeletedRows(image)

(* verify_ledger notices every rewrite of one row but one: nothing is chained
   to the tail, which can be cut off or digested anew (README.md:76). *)
OnlyTheTailCanBeRewritten ==
    [][db' # db =>
          \A image \in Rewrites(db') :
              Verifies(image) =>
                  \A n \in DOMAIN db' \ {TailOf(db')} :
                      n \in DOMAIN image /\ image[n] = db'[n]]_vars
=============================================================================
