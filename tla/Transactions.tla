----------------------------- MODULE Transactions -----------------------------
(***************************************************************************)
(* Storage.transaction() over SQLite (storage.py).                         *)
(*                                                                         *)
(* Each session is one process with its own connection.  A public call     *)
(* runs statement by statement; sessions interleave between statements.    *)
(* BEGIN IMMEDIATE takes SQLite's single write lock and gives the session  *)
(* a working image of the committed repository; inner transaction() blocks *)
(* are savepoints; the outermost one commits the working image.  An        *)
(* exception anywhere leaves all blocks and discards the image, and so     *)
(* does the death of the process.                                          *)
(*                                                                         *)
(* What an image holds, which calls there are and at which labels they     *)
(* enter and leave blocks is up to the modules that extend this one.       *)
(***************************************************************************)
EXTENDS Naturals

CONSTANTS
    Sessions,     \* connections to the repository
    NoSession     \* the write lock is free

ASSUME SessionsAssumption == NoSession \notin Sessions

VARIABLES
    db,      \* the committed repository
    work,    \* what the lock holder's connection sees; db if there is none
    lock,    \* the session that holds the write lock
    depth,   \* transaction() blocks each session has entered
    pc,      \* the statement each session is about to run
    call     \* the public call each session is in

vars == <<db, work, lock, depth, pc, call>>

NoCall == [op |-> "none"]

(* What the session's connection reads: its own uncommitted writes while it
   holds the lock, the committed repository otherwise.                      *)
View(s) == IF lock = s THEN work ELSE db

Goto(s, label) == pc' = [pc EXCEPT ![s] = label]

StartIn(image) ==
    /\ db = image
    /\ work = image
    /\ lock = NoSession
    /\ depth = [s \in Sessions |-> 0]
    /\ pc = [s \in Sessions |-> "idle"]
    /\ call = [s \in Sessions |-> NoCall]
-----------------------------------------------------------------------------
(* The outermost block waits for the write lock, an inner one sets a
   savepoint.                                                               *)
EnterTransaction(s) ==
    /\ depth' = [depth EXCEPT ![s] = @ + 1]
    /\ \/ /\ depth[s] = 0
          /\ lock = NoSession
          /\ lock' = s
          /\ work' = db
       \/ /\ depth[s] > 0
          /\ UNCHANGED <<lock, work>>
    /\ UNCHANGED db

(* Mutant of ExitTransaction: inner blocks commit, too. *)
ExitCommitting(s) ==
    /\ depth' = [depth EXCEPT ![s] = @ - 1]
    /\ db' = work
    /\ IF depth[s] = 1
       THEN /\ lock' = NoSession
            /\ call' = [call EXCEPT ![s] = NoCall]
       ELSE UNCHANGED <<lock, call>>
    /\ UNCHANGED work

(* Leaving the outermost block commits and ends the call; leaving an inner one
   releases its savepoint.                                                  *)
ExitTransaction(s) ==
    /\ depth' = [depth EXCEPT ![s] = @ - 1]
    /\ IF depth[s] = 1
       THEN /\ db' = work
            /\ lock' = NoSession
            /\ call' = [call EXCEPT ![s] = NoCall]
       ELSE UNCHANGED <<db, lock, call>>
    /\ UNCHANGED work

(* s runs the statement at label from, if its guard holds. *)
Statement(s, from, to, guard, result) ==
    /\ pc[s] = from
    /\ guard
    /\ work' = result
    /\ Goto(s, to)
    /\ UNCHANGED <<db, lock, depth, call>>
-----------------------------------------------------------------------------
(* Mutant of Rollback: statements take effect one by one. *)
RollbackKeepingWork(s) ==
    /\ Goto(s, "idle")
    /\ call' = [call EXCEPT ![s] = NoCall]
    /\ depth' = [depth EXCEPT ![s] = 0]
    /\ IF lock = s
       THEN lock' = NoSession /\ db' = work
       ELSE UNCHANGED <<lock, db>>
    /\ UNCHANGED work

(* The call raises: every block rolls back and the lock is free again. *)
Rollback(s) ==
    /\ Goto(s, "idle")
    /\ call' = [call EXCEPT ![s] = NoCall]
    /\ depth' = [depth EXCEPT ![s] = 0]
    /\ IF lock = s
       THEN lock' = NoSession /\ work' = db
       ELSE UNCHANGED <<lock, work>>
    /\ UNCHANGED db

(* COMMIT fails while another connection reads.  transaction() has already
   decremented its depth and does not roll back: the caller gets the error
   and the connection keeps the lock and its uncommitted writes.            *)
CommitFails(s) ==
    /\ depth[s] = 1
    /\ Goto(s, "broken")
    /\ depth' = [depth EXCEPT ![s] = 0]
    /\ call' = [call EXCEPT ![s] = NoCall]
    /\ UNCHANGED <<db, work, lock>>

(* Mutant of Close: the open transaction is committed. *)
CloseCommitting(s) == pc[s] = "broken" /\ RollbackKeepingWork(s)

(* close() rolls an open transaction back, and the process may reopen.  A   *)
(* call on a broken connection raises at BEGIN IMMEDIATE: no step.          *)
Close(s) == pc[s] = "broken" /\ Rollback(s)

(* Mutant of GiveUpWaiting: a waiting call waits for good. *)
WaitForGood(s) ==
    /\ FALSE
    /\ Rollback(s)

(* BEGIN IMMEDIATE gives up when the busy timeout expires. *)
GiveUpWaiting(s) ==
    /\ depth[s] = 0
    /\ lock \notin {s, NoSession}
    /\ Rollback(s)

(* An exception nobody planned for, an interrupt or the death of the
   process; SQLite rolls a dead process's journal back.                     *)
Interrupt(s) == pc[s] \notin {"idle", "broken"} /\ Rollback(s)
-----------------------------------------------------------------------------
(* A connection whose COMMIT failed never makes its writes durable: the caller
   was told the call failed. *)
FailedCommitLeavesNoTrace ==
    [][\A s \in Sessions : pc[s] = "broken" /\ lock = s => db' = db]_vars

(* Every call comes to an end, also one that waits for the lock. *)
CallsEnd == \A s \in Sessions : pc[s] # "idle" ~> pc[s] = "idle"
=============================================================================
