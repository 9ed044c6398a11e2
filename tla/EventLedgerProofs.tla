--------------------------- MODULE EventLedgerProofs ---------------------------
(***************************************************************************)
(* EventLedger for any number of sessions, for batches of any length and a *)
(* disk of any size: the chain never forks, always verifies, and grows by  *)
(* whole operations, and a follower receives all of it.                    *)
(***************************************************************************)
EXTENDS LedgerFollower, SequenceTheorems, FiniteSetTheorems, TLAPS

HasColumns(image) ==
    \A n \in DOMAIN image :
        image[n] = Row(image[n].content, image[n].previous, image[n].hash)

(* What the ledger is like between any two statements. *)
Sound(image) ==
    /\ IsImage(image)
    /\ HasColumns(image)
    /\ Verifies(image)
    /\ \E n \in Nat : DOMAIN image = 1..n

ContentsOf(image) == [n \in DOMAIN image |-> image[n].content]

(* The call carries on from the tail. *)
AtTail(image, k) ==
    /\ k.sequence = TailOf(image) + 1
    /\ k.previous = HashAt(image, TailOf(image))

LEMMA TailFacts ==
    ASSUME NEW image, NEW n \in Nat, DOMAIN image = 1..n
    PROVE  TailOf(image) = n
<1>1. CASE n = 0
  BY <1>1 DEF TailOf
<1>2. CASE n # 0
  <2>1. n \in DOMAIN image /\ IsTail(image, n)
    BY <1>2 DEF IsTail
  <2>2. \A m \in DOMAIN image : IsTail(image, m) => m = n
    BY <2>1 DEF IsTail
  <2> QED
    BY <2>1, <2>2 DEF TailOf
<1> QED
  BY <1>1, <1>2

LEMMA ContentsTyped ==
    ASSUME NEW image, IsImage(image), NEW n \in Nat, DOMAIN image = 1..n
    PROVE  ContentsOf(image) \in Seq(Contents) /\ Len(ContentsOf(image)) = n
<1> DEFINE c == ContentsOf(image)
<1>1. c \in [1..n -> Contents]
  BY DEF ContentsOf, IsImage
<1>2. c \in Seq(Contents)
  BY <1>1, SeqDef
<1>3. DOMAIN c = 1..n /\ DOMAIN c = 1..Len(c) /\ Len(c) \in Nat
  BY <1>1, <1>2, LenProperties
<1> HIDE DEF c
<1>4. Len(c) = n
  BY <1>3
<1> QED
  BY <1>2, <1>4 DEF c

(* An entry at the tail neither collides nor breaks the chain. *)
LEMMA EntryFits ==
    ASSUME NEW image, Sound(image), NEW k, AtTail(image, k),
           k.batch \in Seq(Contents), k.batch # <<>>
    PROVE  /\ CanInsertEntry(image, k)
           /\ Sound(WithEntry(image, k))
           /\ ContentsOf(WithEntry(image, k))
                  = Append(ContentsOf(image), Head(k.batch))
<1> DEFINE new == WithEntry(image, k)
           content == Head(k.batch)
<1>1. PICK n \in Nat : DOMAIN image = 1..n
  BY DEF Sound
<1>2. k.sequence = n + 1 /\ k.previous = HashAt(image, n)
  BY <1>1, TailFacts DEF AtTail
<1>3. content \in Contents
  <2>1. Len(k.batch) \in Nat \ {0}
    BY EmptySeq
  <2> QED
    BY <2>1, ElementOfSeq
<1> HIDE DEF content
<1>4. /\ DOMAIN new = 1..(n + 1)
      /\ \A m \in 1..n : new[m] = image[m]
      /\ new[n + 1] = Row(content, HashAt(image, n),
                          Digest(n + 1, content, HashAt(image, n)))
  BY <1>1, <1>2 DEF WithEntry, Entry, content
<1> HIDE DEF new
<1>5. CanInsertEntry(image, k)
  <2>1. Entry(k).hash = Digest(n + 1, content, HashAt(image, n))
    BY <1>2 DEF Entry, Row, content
  <2>2. \A m \in 1..n : image[m].hash
                            = Digest(m, image[m].content, image[m].previous)
    BY <1>1 DEF Sound, Verifies
  <2> QED
    BY <1>1, <1>2, <2>1, <2>2 DEF CanInsertEntry, Digest
<1>6. IsImage(new) /\ HasColumns(new)
  BY <1>1, <1>3, <1>4 DEF Sound, IsImage, HasColumns, Row
<1>7. \A m \in 0..n : HashAt(new, m) = HashAt(image, m)
  BY <1>4 DEF HashAt
<1>8. Verifies(new)
  <2> SUFFICES ASSUME NEW m \in 1..(n + 1)
               PROVE  /\ m - 1 \in {0} \cup 1..(n + 1)
                      /\ new[m].previous = HashAt(new, m - 1)
                      /\ new[m].hash = Digest(m, new[m].content, new[m].previous)
    BY <1>4 DEF Verifies
  <2>1. m - 1 \in 0..n /\ HashAt(new, m - 1) = HashAt(image, m - 1)
    BY <1>7
  <2>2. CASE m \in 1..n
    BY <1>1, <1>4, <2>1, <2>2 DEF Sound, Verifies
  <2>3. CASE m = n + 1
    BY <1>4, <2>1, <2>3 DEF Row
  <2> QED
    BY <2>2, <2>3
<1>9. Sound(new)
  <2>1. n + 1 \in Nat
    OBVIOUS
  <2> QED
    BY <1>4, <1>6, <1>8, <2>1 DEF Sound
<1>10. ContentsOf(new) = Append(ContentsOf(image), content)
  <2> DEFINE c == ContentsOf(image)
             d == ContentsOf(new)
  <2>1. c \in Seq(Contents) /\ Len(c) = n
    BY <1>1, ContentsTyped DEF Sound
  <2>2. d \in Seq(Contents) /\ Len(d) = n + 1
    BY <1>4, <1>6, ContentsTyped
  <2>3. (\A m \in 1..n : d[m] = c[m]) /\ d[n + 1] = content
    BY <1>1, <1>4 DEF ContentsOf, Row
  <2> HIDE DEF c, d
  <2>4. /\ Append(c, content) \in Seq(Contents)
        /\ Len(Append(c, content)) = n + 1
        /\ \A m \in 1..n : Append(c, content)[m] = c[m]
        /\ Append(c, content)[n + 1] = content
    BY <1>3, <2>1, AppendProperties
  <2>5. d = Append(c, content)
    BY <2>2, <2>3, <2>4, SeqEqual
  <2> QED
    BY <2>5 DEF c, d
<1> QED
  BY <1>5, <1>9, <1>10 DEF new, content
-----------------------------------------------------------------------------
(* Sessions, the write lock and what the lock holder has done so far. *)
Resting == {"idle", "broken"}

Inside == {"read_tail", "insert_entry", "exit"}

CallFields == {"op", "batch", "sequence", "previous"}

IsCall(k) ==
    /\ k = [field \in CallFields |-> k[field]]
    /\ k.batch \in Seq(Contents)

SessionOK(s) ==
    /\ pc[s] \in Labels
    /\ depth[s] = IF pc[s] \in Resting \cup {"enter"} THEN 0 ELSE 1
    /\ lock = s <=> pc[s] \notin {"idle", "enter"}
    /\ pc[s] \in Resting => call[s] = NoCall
    /\ pc[s] \notin Resting => IsCall(call[s])
    /\ pc[s] \in {"read_tail", "insert_entry"} => call[s].batch # <<>>
    /\ pc[s] = "exit" => call[s].batch = <<>>
    /\ pc[s] = "enter" => call[s].batch \in Batches

Progressed(s) ==
    \E batch \in Batches :
        ContentsOf(work) \o call[s].batch = ContentsOf(db) \o batch

Stage(s) ==
    /\ pc[s] = "insert_entry" => AtTail(work, call[s])
    /\ pc[s] \in Inside => Progressed(s)

Shape ==
    /\ lock \in Sessions \cup {NoSession}
    /\ depth = [s \in Sessions |-> depth[s]]
    /\ pc = [s \in Sessions |-> pc[s]]
    /\ call = [s \in Sessions |-> call[s]]

IInv ==
    /\ Shape
    /\ Sound(db)
    /\ Sound(work)
    /\ \A s \in Sessions : SessionOK(s)
    /\ \A s \in Sessions : lock = s => Stage(s)

(* Session s and nobody else takes a step; it takes only a free lock and gives
   up only its own, and only with its own lock it touches the tables. *)
Moves(s) ==
    /\ pc' = [pc EXCEPT ![s] = pc'[s]]
    /\ call' = [call EXCEPT ![s] = call'[s]]
    /\ depth' = [depth EXCEPT ![s] = depth'[s]]
    /\ \/ UNCHANGED <<lock, work, db>>
       \/ lock \in {s, NoSession} /\ lock' \in {s, NoSession}

LEMMA CallsTyped ==
    ASSUME NEW k, IsCall(k)
    PROVE  k.batch \in Seq(Contents)
BY DEF IsCall

LEMMA NoCallIsNoCall == ~IsCall(NoCall)
<1>1. ASSUME NEW k, IsCall(k) PROVE "batch" \in DOMAIN k
  BY <1>1 DEF IsCall, CallFields
<1>2. "batch" \notin DOMAIN NoCall
  BY DEF NoCall
<1> QED
  BY <1>1, <1>2

LEMMA MoveKeepsInv ==
    ASSUME IInv, NEW s \in Sessions, Moves(s), Sound(db'), Sound(work'),
           SessionOK(s)', lock' = s => Stage(s)'
    PROVE  IInv'
<1>1. Shape'
  BY DEF IInv, Shape, Moves
<1>2. ASSUME NEW t \in Sessions, t # s
      PROVE  /\ pc'[t] = pc[t] /\ call'[t] = call[t] /\ depth'[t] = depth[t]
             /\ lock' = t <=> lock = t
  <2>1. pc'[t] = pc[t] /\ call'[t] = call[t] /\ depth'[t] = depth[t]
    BY <1>2 DEF IInv, Shape, Moves
  <2>2. lock' = t <=> lock = t
    BY <1>2, SessionsAssumption DEF Moves
  <2> QED
    BY <2>1, <2>2
<1>3. \A t \in Sessions : SessionOK(t)'
  BY <1>2 DEF IInv, SessionOK
<1>4. ASSUME NEW t \in Sessions, lock' = t, t # s PROVE Stage(t)'
  <2>1. UNCHANGED <<work, db>>
    BY <1>4, SessionsAssumption DEF Moves
  <2>2. pc'[t] = pc[t] /\ call'[t] = call[t] /\ Stage(t)
    BY <1>2, <1>4 DEF IInv
  <2> QED
    BY <2>1, <2>2 DEF Stage, Progressed
<1> QED
  BY <1>1, <1>3, <1>4 DEF IInv

LEMMA RollbackKeepsInv ==
    ASSUME IInv, NEW s \in Sessions, Rollback(s)
    PROVE  IInv'
<1>1. /\ pc' = [pc EXCEPT ![s] = "idle"] /\ pc'[s] = "idle"
      /\ call' = [call EXCEPT ![s] = NoCall] /\ call'[s] = NoCall
      /\ depth' = [depth EXCEPT ![s] = 0] /\ depth'[s] = 0
      /\ IF lock = s THEN lock' = NoSession /\ work' = db
         ELSE lock' = lock /\ work' = work
      /\ db' = db
  BY DEF Rollback, Goto, IInv, Shape
<1>2. Moves(s)
  BY <1>1 DEF Moves
<1>3. lock' # s /\ Sound(work') /\ Sound(db')
  BY <1>1, SessionsAssumption DEF IInv
<1>4. SessionOK(s)'
  BY <1>1, <1>3 DEF SessionOK, Resting, Labels
<1> QED
  BY <1>2, <1>3, <1>4, MoveKeepsInv

LEMMA CallKeepsInv ==
    ASSUME IInv, NEW s \in Sessions, NEW batch \in Batches,
           CallOperation(s, batch)
    PROVE  IInv'
<1> DEFINE k == [op |-> "operation", batch |-> batch, sequence |-> 0,
                 previous |-> Genesis]
<1>1. /\ pc[s] = "idle" /\ UNCHANGED <<db, work, lock, depth>>
      /\ pc' = [pc EXCEPT ![s] = "enter"] /\ pc'[s] = "enter"
      /\ call' = [call EXCEPT ![s] = k] /\ call'[s] = k
  BY DEF CallOperation, Goto, IInv, Shape
<1>2. batch \in Seq(Contents)
  BY BatchesAssumption
<1>3. IsCall(k) /\ k.batch \in Batches
  BY <1>2 DEF IsCall, CallFields
<1>4. Moves(s)
  BY <1>1 DEF Moves, IInv, Shape
<1>5. SessionOK(s)' /\ lock' # s
  BY <1>1, <1>3 DEF SessionOK, IInv, Resting, Labels
<1> QED
  BY <1>1, <1>4, <1>5, MoveKeepsInv DEF IInv

LEMMA EnterKeepsInv ==
    ASSUME IInv, NEW s \in Sessions, Enter(s)
    PROVE  IInv'
<1>1. pc[s] = "enter" /\ depth[s] = 0 /\ SessionOK(s)
  BY DEF Enter, IInv, SessionOK
<1>2. /\ lock = NoSession /\ lock' = s /\ work' = db /\ UNCHANGED <<db, call>>
      /\ pc' = [pc EXCEPT ![s] = "read_tail"] /\ pc'[s] = "read_tail"
      /\ depth' = [depth EXCEPT ![s] = 1] /\ depth'[s] = 1
  BY <1>1 DEF Enter, EnterTransaction, Goto, IInv, Shape
<1>3. Moves(s)
  BY <1>2 DEF Moves, IInv, Shape
<1>4. SessionOK(s)'
  BY <1>1, <1>2, BatchesAssumption DEF SessionOK, Resting, Labels
<1>5. Stage(s)'
  BY <1>1, <1>2 DEF Stage, Progressed, SessionOK
<1> QED
  BY <1>2, <1>3, <1>4, <1>5, MoveKeepsInv DEF IInv

LEMMA ReadKeepsInv ==
    ASSUME IInv, NEW s \in Sessions, ReadTail(s)
    PROVE  IInv'
<1> DEFINE k == [call[s] EXCEPT !.sequence = TailOf(work) + 1,
                                !.previous = HashAt(work, TailOf(work))]
<1>1. /\ pc[s] = "read_tail" /\ SessionOK(s) /\ lock = s /\ Stage(s)
      /\ UNCHANGED <<db, work, lock, depth>>
  BY DEF ReadTail, IInv, SessionOK
<1>2. /\ pc' = [pc EXCEPT ![s] = "insert_entry"] /\ pc'[s] = "insert_entry"
      /\ call' = [call EXCEPT ![s] = k] /\ call'[s] = k
  BY <1>1 DEF ReadTail, Goto, Seen, View, NextSequence, LinkToTail, IInv, Shape
<1>3. IsCall(call[s]) /\ call[s].batch # <<>>
  BY <1>1 DEF SessionOK, Resting
<1>4. IsCall(k) /\ k.batch = call[s].batch /\ AtTail(work, k)
  BY <1>3 DEF IsCall, CallFields, AtTail
<1> HIDE DEF k
<1>5. Moves(s)
  BY <1>1, <1>2 DEF Moves, IInv, Shape
<1>6. SessionOK(s)'
  BY <1>1, <1>2, <1>3, <1>4 DEF SessionOK, Resting, Labels
<1>7. Stage(s)'
  BY <1>1, <1>2, <1>4 DEF Stage, Progressed, Inside
<1> QED
  BY <1>1, <1>5, <1>6, <1>7, MoveKeepsInv DEF IInv

LEMMA InsertKeepsInv ==
    ASSUME IInv, NEW s \in Sessions, InsertEntry(s)
    PROVE  IInv'
<1> DEFINE k == call[s]
           next == [k EXCEPT !.batch = Tail(@)]
<1>1. /\ pc[s] = "insert_entry" /\ SessionOK(s) /\ lock = s /\ Stage(s)
      /\ UNCHANGED <<db, lock, depth>>
      /\ work' = WithEntry(work, k)
      /\ Sound(work) /\ Sound(db)
  BY DEF InsertEntry, IInv, SessionOK
<1>2. PICK to \in {"exit", "read_tail"} :
          /\ pc' = [pc EXCEPT ![s] = to] /\ pc'[s] = to
          /\ to = "exit" <=> Tail(k.batch) = <<>>
  BY DEF InsertEntry, Goto, IInv, Shape
<1>3. call' = [call EXCEPT ![s] = next] /\ call'[s] = next
  BY DEF InsertEntry, IInv, Shape
<1>4. IsCall(k) /\ k.batch \in Seq(Contents) /\ k.batch # <<>> /\ AtTail(work, k)
  BY <1>1, CallsTyped DEF SessionOK, Resting, Stage
<1>5. /\ Sound(work')
      /\ ContentsOf(work') = Append(ContentsOf(work), Head(k.batch))
  BY <1>1, <1>4, EntryFits
<1>6. /\ Head(k.batch) \in Contents /\ Tail(k.batch) \in Seq(Contents)
      /\ k.batch = <<Head(k.batch)>> \o Tail(k.batch)
  <2>1. Head(k.batch) \in Contents /\ Tail(k.batch) \in Seq(Contents)
    BY <1>4, HeadTailProperties
  <2>2. k.batch = <<Head(k.batch)>> \o Tail(k.batch)
    BY <1>4, <2>1
  <2> QED
    BY <2>1, <2>2
<1>7. IsCall(next) /\ next.batch = Tail(k.batch)
  BY <1>4, <1>6 DEF IsCall, CallFields
<1> HIDE DEF next
<1>8. Moves(s)
  BY <1>1, <1>2, <1>3 DEF Moves, IInv, Shape
<1>9. SessionOK(s)'
  BY <1>1, <1>2, <1>3, <1>7 DEF SessionOK, Resting, Labels
<1>10. Progressed(s)'
  <2> DEFINE c == ContentsOf(work)
             h == Head(k.batch)
             r == Tail(k.batch)
  <2>1. c \in Seq(Contents)
    BY <1>1, ContentsTyped DEF Sound
  <2>2. PICK batch \in Batches : c \o k.batch = ContentsOf(db) \o batch
    BY <1>1 DEF Stage, Progressed, Inside
  <2>3. <<h>> \in Seq(Contents) /\ r \in Seq(Contents)
    BY <1>6
  <2> HIDE DEF c, h, r
  <2>4. Append(c, h) = c \o <<h>>
    BY <1>6, <2>1, AppendIsConcat DEF h
  <2>5. Append(c, h) \o r = c \o (<<h>> \o r)
    BY <2>1, <2>3, <2>4, ConcatAssociative
  <2>6. ContentsOf(work') \o call'[s].batch = ContentsOf(db') \o batch
    BY <1>1, <1>3, <1>5, <1>6, <1>7, <2>2, <2>5 DEF c, h, r
  <2> QED
    BY <2>6 DEF Progressed
<1>11. Stage(s)'
  BY <1>2, <1>10 DEF Stage
<1> QED
  BY <1>1, <1>5, <1>8, <1>9, <1>11, MoveKeepsInv

(* What an operation that returns makes durable. *)
LEMMA ExitFacts ==
    ASSUME IInv, NEW s \in Sessions, Exit(s)
    PROVE  /\ db' = work /\ lock = s /\ lock' = NoSession /\ work' = work
           /\ pc' = [pc EXCEPT ![s] = "idle"] /\ pc'[s] = "idle"
           /\ call' = [call EXCEPT ![s] = NoCall] /\ call'[s] = NoCall
           /\ depth' = [depth EXCEPT ![s] = 0] /\ depth'[s] = 0
           /\ \E batch \in Batches : ContentsOf(work) = ContentsOf(db) \o batch
<1>1. /\ pc[s] = "exit" /\ lock = s /\ depth[s] = 1 /\ Stage(s)
      /\ call[s].batch = <<>>
  BY DEF Exit, IInv, SessionOK, Resting
<1>2. PICK batch \in Batches :
          ContentsOf(work) \o <<>> = ContentsOf(db) \o batch
  BY <1>1 DEF Stage, Progressed, Inside
<1>3. ContentsOf(work) \in Seq(Contents)
  BY ContentsTyped DEF IInv, Sound
<1>4. ContentsOf(work) = ContentsOf(db) \o batch
  BY <1>2, <1>3, ConcatEmptySeq
<1> QED
  BY <1>1, <1>4 DEF Exit, ExitTransaction, Goto, IInv, Shape

LEMMA ExitKeepsInv ==
    ASSUME IInv, NEW s \in Sessions, Exit(s)
    PROVE  IInv'
<1>1. Moves(s)
  BY ExitFacts DEF Moves
<1>2. SessionOK(s)' /\ lock' # s
  BY ExitFacts, SessionsAssumption DEF SessionOK, Resting, Labels
<1> QED
  BY <1>1, <1>2, ExitFacts, MoveKeepsInv DEF IInv

LEMMA CommitBusyKeepsInv ==
    ASSUME IInv, NEW s \in Sessions, CommitBusy(s)
    PROVE  IInv'
<1>1. pc[s] = "exit" /\ lock = s
  BY DEF CommitBusy, IInv, SessionOK
<1>2. /\ pc' = [pc EXCEPT ![s] = "broken"] /\ pc'[s] = "broken"
      /\ call' = [call EXCEPT ![s] = NoCall] /\ call'[s] = NoCall
      /\ depth' = [depth EXCEPT ![s] = 0] /\ depth'[s] = 0
      /\ UNCHANGED <<db, work, lock>>
  BY DEF CommitBusy, CommitFails, Goto, IInv, Shape
<1>3. Moves(s)
  BY <1>2 DEF Moves
<1>4. SessionOK(s)'
  BY <1>1, <1>2 DEF SessionOK, Resting, Labels
<1>5. Stage(s)'
  BY <1>2 DEF Stage, Inside
<1> QED
  BY <1>2, <1>3, <1>4, <1>5, MoveKeepsInv DEF IInv

LEMMA SessionKeepsInv ==
    ASSUME IInv, NEW s \in Sessions, Session(s)
    PROVE  IInv'
BY CallKeepsInv, EnterKeepsInv, ReadKeepsInv, InsertKeepsInv, ExitKeepsInv,
   CommitBusyKeepsInv, RollbackKeepsInv
   DEF Session, Refuse, BusyTimeout, GiveUpWaiting, Interrupt, Close

LEMMA EmptyImageSound == Sound(EmptyImage) /\ ContentsOf(EmptyImage) = <<>>
<1>1. DOMAIN EmptyImage = {} /\ DOMAIN EmptyImage = 1..0
  BY DEF EmptyImage
<1>2. Sound(EmptyImage)
  BY <1>1 DEF Sound, IsImage, HasColumns, Verifies
<1>3. /\ ContentsOf(EmptyImage) \in Seq(Contents)
      /\ Len(ContentsOf(EmptyImage)) = 0
  BY <1>1, <1>2, ContentsTyped DEF Sound
<1> QED
  BY <1>2, <1>3, EmptySeq

LEMMA InitInv == Init => IInv
<1> SUFFICES ASSUME Init PROVE IInv
  OBVIOUS
<1>1. /\ db = EmptyImage /\ work = EmptyImage /\ lock = NoSession
      /\ \A s \in Sessions : depth[s] = 0 /\ pc[s] = "idle" /\ call[s] = NoCall
  BY DEF Init, StartIn
<1>2. Shape
  BY DEF Init, StartIn, Shape
<1>3. \A s \in Sessions : SessionOK(s) /\ lock # s
  BY <1>1, SessionsAssumption DEF SessionOK, Resting, Labels
<1> QED
  BY <1>1, <1>2, <1>3, EmptyImageSound DEF IInv

LEMMA NextInv == IInv /\ [Next]_vars => IInv'
<1> SUFFICES ASSUME IInv, [Next]_vars PROVE IInv'
  OBVIOUS
<1>1. CASE Next
  BY <1>1, SessionKeepsInv DEF Next
<1>2. CASE UNCHANGED vars
  BY <1>2 DEF vars, IInv, Shape, SessionOK, Stage, Progressed
<1> QED
  BY <1>1, <1>2

LEMMA LedgerInvariant == Spec => []IInv
  BY InitInv, NextInv, PTL DEF Spec
-----------------------------------------------------------------------------
(* Entries keep their shape, and sessions their protocol with the lock. *)
THEOREM LedgerTypeOK == Spec => []TypeOK
<1>1. ASSUME IInv, NEW s \in Sessions
      PROVE  /\ call[s] = NoCall <=> pc[s] \in {"idle", "broken"}
             /\ call[s] # NoCall =>
                    /\ call[s].batch \in Seq(Contents)
                    /\ call[s].batch = <<>> <=> pc[s] = "exit"
             /\ pc[s] \in Labels /\ depth[s] \in {0, 1}
  <2>1. SessionOK(s)
    BY <1>1 DEF IInv
  <2>2. pc[s] = "enter" => call[s].batch # <<>>
    BY <2>1, BatchesAssumption DEF SessionOK
  <2> QED
    BY <2>1, <2>2, NoCallIsNoCall, CallsTyped DEF SessionOK, Resting, Labels
<1>2. IInv => TypeOK
  BY <1>1 DEF IInv, Shape, Sound, TypeOK
<1> QED
  BY <1>2, LedgerInvariant, PTL

(* verify_ledger accepts every state that a connection can see. *)
THEOREM ChainAlwaysVerifies == Spec => []ChainIntact
<1>1. IInv => ChainIntact
  BY DEF IInv, Sound, ChainIntact, View
<1> QED
  BY <1>1, LedgerInvariant, PTL

(* The tail that an appender read is still the tail when it inserts: neither
   the primary key nor the unique digest ever stops it. *)
THEOREM AppendersNeverFork == Spec => []ChainNeverForks
<1>1. ASSUME IInv, NEW s \in Sessions PROVE ~Objection(s)
  <2>1. CASE pc[s] = "insert_entry"
    <3>1. /\ AtTail(work, call[s]) /\ Sound(work)
          /\ call[s].batch \in Seq(Contents) /\ call[s].batch # <<>>
      BY <1>1, <2>1, CallsTyped DEF IInv, SessionOK, Stage, Resting
    <3> QED
      BY <3>1, EntryFits DEF Objection
  <2> QED
    BY <2>1 DEF Objection
<1>2. IInv => ChainNeverForks
  BY <1>1 DEF ChainNeverForks
<1> QED
  BY <1>2, LedgerInvariant, PTL

(* The ledger changes only when a transaction commits. *)
LEMMA OnlyExitsChange ==
    ASSUME [Next]_vars, db' # db
    PROVE  \E s \in Sessions : Exit(s)
  BY DEF Next, vars, Session, CallOperation, Enter, EnterTransaction, ReadTail,
         InsertEntry, Refuse, CommitBusy, CommitFails, BusyTimeout,
         GiveUpWaiting, Interrupt, Close, Rollback

(* Operations of any number of sessions, with failing statements and commits
   and dying processes, append all of their entries in one step or none. *)
THEOREM LedgerIsALog == Spec => LogSpec
<1> DEFINE contents == [n \in DOMAIN db |-> db[n].content]
<1>1. Init => Log!Init
  BY EmptyImageSound DEF Init, StartIn, Log!Init, ContentsOf
<1>2. IInv /\ [Next]_vars => [Log!Next]_contents
  <2> SUFFICES ASSUME IInv, [Next]_vars PROVE [Log!Next]_contents
    OBVIOUS
  <2>1. CASE db' = db
    BY <2>1
  <2>2. CASE db' # db
    <3>1. PICK s \in Sessions : Exit(s)
      BY <2>2, OnlyExitsChange
    <3>2. PICK batch \in Batches : ContentsOf(work) = ContentsOf(db) \o batch
      BY <3>1, ExitFacts
    <3>3. contents' = contents \o batch
      BY <3>1, <3>2, ExitFacts DEF ContentsOf
    <3> QED
      BY <3>3 DEF Log!Next
  <2> QED
    BY <2>1, <2>2
<1> QED
  BY <1>1, <1>2, LedgerInvariant, PTL DEF Spec, LogSpec, Log!Spec
-----------------------------------------------------------------------------
(* Rows of a ledger of n entries, the last of them apart, are as they were. *)
KeptBelow(image, kept, n) ==
    \A m \in 1..(n - 1) : m \in DOMAIN image /\ image[m] = kept[m]

(* A row that another one is chained to cannot be written anew: the other row
   has its digest, and the digest all of its columns. *)
LEMMA ChainedRowsStay ==
    ASSUME NEW kept, Sound(kept), NEW n \in Nat, DOMAIN kept = 1..n,
           NEW image \in RewrittenRows(kept), Verifies(image)
    PROVE  KeptBelow(image, kept, n)
<1>1. \E m \in 1..n, content \in Contents : \E previous, hash :
          image = [kept EXCEPT ![m] = Row(content, previous, hash)]
  BY DEF RewrittenRows
<1> PICK m \in 1..n, content \in Contents : \E previous, hash :
        image = [kept EXCEPT ![m] = Row(content, previous, hash)]
  BY <1>1
<1> PICK previous, hash :
        image = [kept EXCEPT ![m] = Row(content, previous, hash)]
  OBVIOUS
<1>2. /\ DOMAIN image = 1..n
      /\ image[m] = Row(content, previous, hash)
      /\ \A i \in 1..n : i # m => image[i] = kept[i]
  OBVIOUS
<1>3. ASSUME m < n PROVE image[m] = kept[m]
  <2>1. m + 1 \in 1..n /\ m + 1 # m /\ (m + 1) - 1 = m /\ m # 0
    BY <1>3
  <2>2. image[m + 1] = kept[m + 1]
    BY <1>2, <2>1
  <2>3. /\ image[m + 1].previous = image[m].hash
        /\ image[m].hash = Digest(m, image[m].content, image[m].previous)
    BY <1>2, <2>1 DEF Verifies, HashAt
  <2>4. /\ kept[m + 1].previous = kept[m].hash
        /\ kept[m].hash = Digest(m, kept[m].content, kept[m].previous)
    BY <2>1 DEF Sound, Verifies, HashAt
  <2>5. kept[m] = Row(kept[m].content, kept[m].previous, kept[m].hash)
    BY DEF Sound, HasColumns
  <2>6. /\ image[m].content = content /\ image[m].previous = previous
        /\ image[m].hash = hash
    BY <1>2 DEF Row
  <2>7. hash = kept[m].hash
    BY <2>2, <2>3, <2>4, <2>6
  <2>8. content = kept[m].content /\ previous = kept[m].previous
    BY <2>3, <2>4, <2>6, <2>7 DEF Digest
  <2> QED
    BY <1>2, <2>5, <2>7, <2>8
<1> QED
  BY <1>2, <1>3 DEF KeptBelow

(* Where a number is missing behind the first, the chain is seen to be broken,
   and a row in another place has a digest of its old number. *)
LEMMA NoGapBelowTail ==
    ASSUME NEW kept, NEW n \in Nat, DOMAIN kept = 1..n,
           NEW gone \in 1..n, NEW image, Verifies(image),
           gone \notin DOMAIN image,
           \A i \in 1..n : i # gone => i \in DOMAIN image
    PROVE  gone = n
<1> SUFFICES ASSUME gone # n PROVE FALSE
  OBVIOUS
<1>1. gone + 1 \in 1..n /\ gone + 1 # gone /\ (gone + 1) - 1 = gone /\ gone # 0
  OBVIOUS
<1>2. gone + 1 \in DOMAIN image
  BY <1>1
<1>3. (gone + 1) - 1 \in {0} \cup DOMAIN image
  BY <1>2 DEF Verifies
<1> QED
  BY <1>1, <1>3

MovesRow(image, kept, from, to) ==
    /\ DOMAIN image = (DOMAIN kept \ {from}) \cup {to}
    /\ \A n \in DOMAIN image :
           image[n] = IF n = to THEN kept[from] ELSE kept[n]

LEMMA MovedRow ==
    ASSUME NEW kept, NEW image \in MovedRows(kept)
    PROVE  \E from \in DOMAIN kept, to \in 1 .. MaxLedger + 1 :
               MovesRow(image, kept, from, to)
BY DEF MovedRows, MovesRow

LEMMA MovedRowsStay ==
    ASSUME NEW kept, Sound(kept), NEW n \in Nat, DOMAIN kept = 1..n,
           NEW image \in MovedRows(kept), Verifies(image)
    PROVE  KeptBelow(image, kept, n)
<1>1. PICK from \in 1..n, to \in 1 .. MaxLedger + 1 : MovesRow(image, kept, from, to)
  BY MovedRow
<1>2. /\ DOMAIN image = (1..n \ {from}) \cup {to}
      /\ image[to] = kept[from]
      /\ \A i \in 1..n : i # from /\ i # to => image[i] = kept[i]
  BY <1>1 DEF MovesRow
<1>3. CASE to = from
  BY <1>2, <1>3 DEF KeptBelow
<1>4. CASE to # from
  <2>1. from = n
    BY <1>2, <1>4, NoGapBelowTail
  <2>2. image[to].hash = Digest(to, image[to].content, image[to].previous)
    BY <1>2 DEF Verifies
  <2>3. kept[from].hash = Digest(from, kept[from].content, kept[from].previous)
    BY DEF Sound, Verifies
  <2>4. FALSE
    BY <1>2, <1>4, <2>2, <2>3 DEF Digest
  <2> QED
    BY <2>4
<1> QED
  BY <1>3, <1>4

LEMMA DeletedRowsStay ==
    ASSUME NEW kept, NEW n \in Nat, DOMAIN kept = 1..n,
           NEW image \in DeletedRows(kept), Verifies(image)
    PROVE  KeptBelow(image, kept, n)
<1>1. PICK gone \in 1..n : image = [i \in 1..n \ {gone} |-> kept[i]]
  BY DEF DeletedRows
<1>2. gone = n
  BY <1>1, NoGapBelowTail
<1> QED
  BY <1>1, <1>2 DEF KeptBelow

(* verify_ledger (storage.py) notices every row that is written anew, given
   another number or removed, by anybody and with any digest, but for the last:
   all the others are kept by the chain behind them (README.md:76). *)
THEOREM OnlyTheTailIsLoose == Spec => OnlyTheTailCanBeRewritten
<1> DEFINE Guarded(kept) ==
        \A image \in Rewrites(kept) :
            Verifies(image) =>
                \A n \in DOMAIN kept \ {TailOf(kept)} :
                    n \in DOMAIN image /\ image[n] = kept[n]
<1>1. ASSUME NEW kept, Sound(kept) PROVE Guarded(kept)
  <2> SUFFICES ASSUME NEW image \in Rewrites(kept), Verifies(image),
                      NEW m \in DOMAIN kept \ {TailOf(kept)}
               PROVE  m \in DOMAIN image /\ image[m] = kept[m]
    OBVIOUS
  <2>1. PICK n \in Nat : DOMAIN kept = 1..n
    BY <1>1 DEF Sound
  <2>2. m \in 1..(n - 1)
    BY <2>1, TailFacts
  <2>3. KeptBelow(image, kept, n)
    BY <1>1, <2>1, ChainedRowsStay, MovedRowsStay, DeletedRowsStay DEF Rewrites
  <2> QED
    BY <2>2, <2>3 DEF KeptBelow
<1>2. IInv' => Guarded(db')
  BY <1>1 DEF IInv
<1>3. IInv /\ [Next]_vars =>
          [db' # db =>
              \A image \in Rewrites(db') :
                  Verifies(image) =>
                      \A n \in DOMAIN db' \ {TailOf(db')} :
                          n \in DOMAIN image /\ image[n] = db'[n]]_vars
  BY <1>2, NextInv
<1> QED
  BY <1>3, LedgerInvariant, PTL DEF Spec, OnlyTheTailCanBeRewritten
-----------------------------------------------------------------------------
(* The size entries after entry last. *)
EntriesAfter(image, last, size) ==
    [i \in 1..size |-> [sequence |-> last + i, content |-> image[last + i].content]]

(* What comes after entry last of a ledger without gaps, in order. *)
LEMMA PageFacts ==
    ASSUME NEW image, NEW n \in Nat, DOMAIN image = 1..n,
           NEW last \in 0..n, NEW limit \in Nat
    PROVE  \E size \in 0..n - last :
               Page(image, last, limit) = EntriesAfter(image, last, size)
<1> DEFINE numbers == After(image, last)
           count == n - last
           size == IF count < limit THEN count ELSE limit
<1>1. numbers = last + 1..n
  BY DEF After
<1>2. Cardinality(numbers) = count
  <2>1. Cardinality(last + 1..n)
            = IF last + 1 > n THEN 0 ELSE n - (last + 1) + 1
    BY FS_Interval
  <2> QED
    BY <1>1, <2>1
<1>3. ASSUME NEW k \in numbers
      PROVE  Cardinality({m \in numbers : m <= k}) = k - last
  <2>1. k \in Int /\ last + 1 \in Int /\ last + 1 <= k /\ k <= n
    BY <1>1, <1>3
  <2>2. {m \in numbers : m <= k} = last + 1..k
    BY <1>1, <2>1
  <2> HIDE DEF numbers
  <2>3. Cardinality(last + 1..k)
            = IF last + 1 > k THEN 0 ELSE k - (last + 1) + 1
    BY <2>1, FS_Interval
  <2>4. Cardinality(last + 1..k) = k - last
    BY <2>1, <2>3
  <2> QED
    BY <2>2, <2>4, Zenon
<1>4. ASSUME NEW i \in 1..size PROVE Nth(numbers, i) = last + i
  <2> DEFINE IsNth(k) == Cardinality({m \in numbers : m <= k}) = i
  <2>1. last + i \in numbers
    BY <1>1
  <2>2. \A k \in numbers : IsNth(k) <=> k = last + i
    <3> SUFFICES ASSUME NEW k \in numbers PROVE IsNth(k) <=> k = last + i
      OBVIOUS
    <3> QED
      BY <1>1, <1>3
  <2>3. Nth(numbers, i) = CHOOSE k \in numbers : IsNth(k)
    BY DEF Nth
  <2> HIDE DEF IsNth, numbers
  <2> QED
    BY <2>1, <2>2, <2>3
<1>5. size \in 0..n - last
  OBVIOUS
<1>6. Page(image, last, limit)
          = [i \in 1..size |->
                [sequence |-> Nth(numbers, i),
                 content |-> image[Nth(numbers, i)].content]]
  BY <1>2 DEF Page
<1>7. Page(image, last, limit) = EntriesAfter(image, last, size)
  BY <1>4, <1>6 DEF size, EntriesAfter
<1> QED
  BY <1>5, <1>7

Received == [sequence : Nat, content : Contents]

(* What the follower has is the beginning of the committed ledger. *)
FollowerInv ==
    /\ Sound(db)
    /\ followed \in Seq(Received)
    /\ FollowerMissesNothing

LEMMA SessionsKeepFollower ==
    ASSUME IInv, FollowerInv, [Next]_vars, Sound(db)', followed' = followed
    PROVE  FollowerInv'
<1>1. CASE db' = db
  BY <1>1 DEF FollowerInv, FollowerMissesNothing
<1>2. CASE db' # db
  <2>1. PICK s \in Sessions : Exit(s)
    BY <1>2, OnlyExitsChange
  <2>2. PICK batch \in Batches : ContentsOf(db') = ContentsOf(db) \o batch
    BY <2>1, ExitFacts
  <2>3. PICK n \in Nat : DOMAIN db = 1..n
    BY DEF FollowerInv, Sound
  <2>4. PICK m \in Nat : DOMAIN db' = 1..m
    BY DEF Sound
  <2>5. /\ ContentsOf(db) \in Seq(Contents) /\ Len(ContentsOf(db)) = n
        /\ ContentsOf(db') \in Seq(Contents) /\ Len(ContentsOf(db')) = m
    BY <2>3, <2>4, ContentsTyped DEF Sound, FollowerInv
  <2>6. batch \in Seq(Contents) /\ Len(batch) \in Nat
    BY BatchesAssumption
  <2>7. /\ m = n + Len(batch)
        /\ \A i \in 1..n + Len(batch) :
               ContentsOf(db')[i] = IF i <= n THEN ContentsOf(db)[i]
                                    ELSE batch[i - n]
    <3>1. /\ Len(ContentsOf(db) \o batch) = Len(ContentsOf(db)) + Len(batch)
          /\ \A i \in 1..Len(ContentsOf(db)) + Len(batch) :
                 (ContentsOf(db) \o batch)[i]
                     = IF i <= Len(ContentsOf(db)) THEN ContentsOf(db)[i]
                       ELSE batch[i - Len(ContentsOf(db))]
      BY <2>5, <2>6, ConcatProperties
    <3> QED
      BY <2>2, <2>5, <3>1
  <2>8. ASSUME NEW i \in DOMAIN db
        PROVE  i \in DOMAIN db' /\ db'[i].content = db[i].content
    <3>1. i \in 1..m /\ i <= n
      BY <2>3, <2>6, <2>7
    <3>2. ContentsOf(db')[i] = ContentsOf(db)[i]
      BY <2>6, <2>7, <3>1
    <3> QED
      BY <2>3, <2>4, <3>1, <3>2 DEF ContentsOf
  <2> QED
    BY <2>8 DEF FollowerInv, FollowerMissesNothing
<1> QED
  BY <1>1, <1>2

LEMMA PollKeepsFollower ==
    ASSUME FollowerInv, NEW limit \in 1..MaxLedger, Poll(limit)
    PROVE  FollowerInv'
<1>1. PICK n \in Nat : DOMAIN db = 1..n
  BY DEF FollowerInv, Sound
<1> DEFINE last == Len(followed)
<1>2. /\ followed \in Seq(Received) /\ last \in Nat
      /\ DOMAIN followed = 1..last
      /\ \A i \in 1..last :
             i \in 1..n
                 /\ followed[i] = [sequence |-> i, content |-> db[i].content]
  BY <1>1 DEF FollowerInv, FollowerMissesNothing
<1>3. last \in 0..n /\ LastFollowed = last
  <2>1. CASE last = 0
    BY <1>2, <2>1, EmptySeq DEF LastFollowed
  <2>2. CASE last # 0
    <3>1. last \in 1..last /\ followed # <<>>
      BY <1>2, <2>2
    <3>2. last \in 1..n /\ followed[last].sequence = last
      BY <1>2, <3>1
    <3> QED
      BY <3>1, <3>2 DEF LastFollowed
  <2> QED
    BY <2>1, <2>2
<1> DEFINE page == Page(db, last, limit)
<1>4. PICK size \in 0..n - last :
          page = [i \in 1..size |-> [sequence |-> last + i,
                                     content |-> db[last + i].content]]
  <2>1. limit \in Nat
    BY MaxLedgerAssumption
  <2>2. \E size \in 0..n - last :
            Page(db, last, limit) = EntriesAfter(db, last, size)
    <3> HIDE DEF last
    <3> QED
      BY <1>1, <1>3, <2>1, PageFacts, Zenon
  <2> QED
    BY <2>2 DEF EntriesAfter
<1>5. \A i \in 1..size : last + i \in 1..n
  BY <1>2, <1>3
<1>6. page \in Seq(Received) /\ Len(page) = size
  <2>1. page \in [1..size -> Received]
    BY <1>1, <1>4, <1>5 DEF Received, FollowerInv, Sound, IsImage
  <2>2. page \in Seq(Received)
    BY <2>1, SeqDef
  <2>3. DOMAIN page = 1..Len(page) /\ Len(page) \in Nat /\ DOMAIN page = 1..size
    BY <2>1, <2>2, LenProperties
  <2>4. size \in Nat
    BY <1>2, <1>3
  <2> DEFINE l == Len(page)
  <2>5. l = size
    <3>1. l \in Nat /\ 1..l = 1..size
      BY <2>3
    <3> HIDE DEF l
    <3> QED
      BY <2>4, <3>1
  <2> QED
    BY <2>2, <2>5
<1>7. followed' = followed \o page /\ db' = db
  BY <1>3 DEF Poll, vars
<1>8. /\ followed' \in Seq(Received)
      /\ Len(followed') = last + size
      /\ \A i \in 1..last + size :
             followed'[i] = IF i <= last THEN followed[i] ELSE page[i - last]
  <2> HIDE DEF page
  <2> QED
    BY <1>2, <1>6, <1>7, ConcatProperties
<1>9. ASSUME NEW i \in 1..last + size
      PROVE  i \in 1..n
                 /\ followed'[i] = [sequence |-> i, content |-> db[i].content]
  <2>1. CASE i <= last
    BY <1>2, <1>8, <2>1
  <2>2. CASE i > last
    <3>1. i - last \in 1..size /\ last + (i - last) = i
      BY <1>2, <2>2
    <3>2. page[i - last] = [sequence |-> i, content |-> db[i].content]
      BY <1>4, <3>1
    <3> HIDE DEF page
    <3> QED
      BY <1>2, <1>5, <1>8, <2>2, <3>1, <3>2
  <2> QED
    BY <1>2, <2>1, <2>2
<1>10. DOMAIN followed' = 1..last + size
  BY <1>8
<1> QED
  BY <1>1, <1>7, <1>8, <1>9, <1>10 DEF FollowerInv, FollowerMissesNothing

(* A follower misses no entry, whatever page sizes it asks for, however many
   sessions append and however long they wait for the lock. *)
THEOREM FollowerReceivesTheLedger == FollowerSpec => []FollowerMissesNothing
<1>1. FollowerInit => IInv /\ FollowerInv
  <2> SUFFICES ASSUME FollowerInit PROVE IInv /\ FollowerInv
    OBVIOUS
  <2>1. IInv /\ followed = <<>>
    BY InitInv DEF FollowerInit
  <2> QED
    BY <2>1 DEF FollowerInv, FollowerMissesNothing, IInv
<1>2. IInv /\ FollowerInv /\ [FollowerNext]_followerVars
          => IInv' /\ FollowerInv'
  <2> SUFFICES ASSUME IInv, FollowerInv, [FollowerNext]_followerVars
               PROVE  IInv' /\ FollowerInv'
    OBVIOUS
  <2>1. CASE [Next]_vars /\ followed' = followed
    <3>1. IInv'
      BY <2>1, NextInv
    <3> QED
      BY <2>1, <3>1, SessionsKeepFollower DEF IInv
  <2>2. ASSUME NEW limit \in 1..MaxLedger, Poll(limit)
        PROVE  IInv' /\ FollowerInv'
    <3>1. IInv'
      BY <2>2, NextInv DEF Poll
    <3> QED
      BY <2>2, <3>1, PollKeepsFollower
  <2> QED
    BY <2>1, <2>2 DEF FollowerNext, followerVars, Next
<1>3. FollowerInv => FollowerMissesNothing
  BY DEF FollowerInv
<1> QED
  BY <1>1, <1>2, <1>3, PTL DEF FollowerSpec
=============================================================================
