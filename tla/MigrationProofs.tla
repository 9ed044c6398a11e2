---------------------------- MODULE MigrationProofs ----------------------------
(***************************************************************************)
(* Migration for any number of openers, names and rows, and for any        *)
(* contents of them: a migration that promised a backup leaves one, and no *)
(* finished backup and no file of the operator's is ever touched.          *)
(***************************************************************************)
EXTENDS Migration, SequenceTheorems, FiniteSetTheorems, TLAPS

FileFields ==
    {"exists", "objects", "user_version", "metadata", "rows", "retained",
     "accepted", "births"}

IsFile(file) == file = [f \in FileFields |-> file[f]]

(* Every variable is a function on what it is about. *)
Shape ==
    /\ IsFile(repo)
    /\ lock \in Openers \cup {NoOpener}
    /\ step = [o \in Openers |-> step[o]]
    /\ ask = [o \in Openers |-> ask[o]]
    /\ seen = [o \in Openers |-> seen[o]]
    /\ temp = [o \in Openers |-> temp[o]]
    /\ copy = [o \in Openers |-> copy[o]]
    /\ flushed = [o \in Openers |-> flushed[o]]
    /\ name = [o \in Openers |-> name[o]]
    /\ backups = [n \in BackupNames |-> backups[n]]
    /\ synced = [n \in BackupNames |-> synced[n]]
    /\ \A o \in Openers : step[o] \in {"idle"} \cup Live \cup Ended
    /\ \A o \in Openers : name[o] \in BackupNames \cup {0}

LockHeld == \A o \in Openers : step[o] \in Locked <=> lock = o

Finishing == {"admit", "apply", "gate", "commit"}

Linked == {"sync", "unlink"}

Unnamed ==
    {"idle", "look", "open", "validate", "connect", "lock", "recheck",
     "preflight", "choose"}

(* A process waits for the lock only with the file there, and goes on only by
   what it saw of the file that it has locked. *)
Prepared(o) ==
    /\ step[o] = "open" => repo.exists \/ ask[o].lifecycle = "readonly"
    /\ step[o] \in {"lock"} \cup Locked => repo.exists
    /\ step[o] \in Locked \ {"recheck"} =>
           Digest(Fingerprint(repo)) = Digest(seen[o])

(* The backup as far as it is made. *)
Underway(o) ==
    /\ step[o] \in Unnamed => name[o] = 0
    /\ step[o] \in Backing \ {"choose"} => name[o] # 0
    /\ step[o] \in {"verify", "publish"} \cup Linked => flushed[o]
    /\ step[o] \in {"publish"} \cup Linked => copy[o] = {repo}
    /\ step[o] \in Linked => backups[name[o]] = o
    /\ step[o] = "unlink" => synced[name[o]] = o

(* The backup that is done. *)
Recoverable(o) ==
    /\ backups[name[o]] = o
    /\ synced[name[o]] = o
    /\ flushed[o]
    /\ copy[o] = {repo}

(* What a process has that is about to migrate. *)
Admitted(o) ==
    /\ step[o] \in Finishing =>
           /\ name[o] # 0 => Recoverable(o)
           /\ ask[o].backup /\ KindOf(repo) \in LegacyKinds => name[o] # 0
    /\ step[o] \in Finishing \ {"admit"} =>
           NeedAcceptance(repo) = {} \/ name[o] # 0

ProcessOK(o) == Prepared(o) /\ Underway(o) /\ Admitted(o)

(* Under a backup's name is a file that was flushed before. *)
NamesOK ==
    \A n \in BackupNames, o \in Openers :
        backups[n] = o \/ synced[n] = o =>
            flushed[o] /\ step[o] \in Linked \cup Finishing \cup Ended

(* Only the migration to the current layout accepts material. *)
NothingAccepted == repo.objects # "v03" => repo.accepted = {}

(* The promised backup belongs to a process that has ended. *)
PromiseKept ==
    origin.promised =>
        \E n \in BackupNames :
            /\ backups[n] = synced[n]
            /\ synced[n] \in Openers
            /\ flushed[synced[n]]
            /\ copy[synced[n]] = {origin.file}
            /\ step[synced[n]] \in Ended

IInv ==
    /\ Shape
    /\ LockHeld
    /\ \A o \in Openers : ProcessOK(o)
    /\ NamesOK
    /\ NothingAccepted
    /\ PromiseKept
-----------------------------------------------------------------------------
LEMMA StepFacts ==
    /\ Linked \subseteq Backing
    /\ Backing \subseteq Locked
    /\ Finishing \subseteq Locked
    /\ Backing \cap Finishing = {}
    /\ (Locked \cup Live) \cap (Ended \cup {"idle"}) = {}
    /\ Locked \subseteq Live
    /\ Reading \cap Locked = {}
  BY DEF Linked, Backing, Finishing, Locked, Live, Ended, Reading

(* Process o and nobody else takes a step. *)
Moves(o) ==
    /\ step' = [step EXCEPT ![o] = step'[o]]
    /\ ask' = [ask EXCEPT ![o] = ask'[o]]
    /\ seen' = [seen EXCEPT ![o] = seen'[o]]
    /\ temp' = [temp EXCEPT ![o] = temp'[o]]
    /\ copy' = [copy EXCEPT ![o] = copy'[o]]
    /\ flushed' = [flushed EXCEPT ![o] = flushed'[o]]
    /\ name' = [name EXCEPT ![o] = name'[o]]
    /\ backups' = [n \in BackupNames |-> backups'[n]]
    /\ synced' = [n \in BackupNames |-> synced'[n]]
    /\ \/ lock' = lock
       \/ lock \in {o, NoOpener} /\ lock' \in {o, NoOpener}

(* A variable that stays as it is does so at o. *)
LEMMA Unmoved ==
    ASSUME Shape, NEW o \in Openers
    PROVE  /\ step = [step EXCEPT ![o] = step[o]]
           /\ ask = [ask EXCEPT ![o] = ask[o]]
           /\ seen = [seen EXCEPT ![o] = seen[o]]
           /\ temp = [temp EXCEPT ![o] = temp[o]]
           /\ copy = [copy EXCEPT ![o] = copy[o]]
           /\ flushed = [flushed EXCEPT ![o] = flushed[o]]
           /\ name = [name EXCEPT ![o] = name[o]]
           /\ backups = [n \in BackupNames |-> backups[n]]
           /\ synced = [n \in BackupNames |-> synced[n]]
<1>1. ASSUME NEW f, f = [p \in Openers |-> f[p]]
      PROVE  f = [f EXCEPT ![o] = f[o]]
  BY <1>1
<1> QED
  BY <1>1, Zenon DEF Shape

(* What other processes have linked stays, and they link nothing. *)
KeepsNames(o) ==
    \A n \in BackupNames, p \in Openers \ {o} :
        /\ backups'[n] = p <=> backups[n] = p
        /\ synced'[n] = p => synced[n] = p \/ backups[n] = p
        /\ synced[n] = p /\ backups[n] = p => synced'[n] = p

LEMMA OtherProcess ==
    ASSUME IInv, NEW o \in Openers, Moves(o), KeepsNames(o),
           NEW p \in Openers, p # o,
           repo.exists => repo'.exists,
           step[p] \in Locked => repo' = repo
    PROVE  /\ step'[p] = step[p] /\ flushed'[p] = flushed[p]
           /\ copy'[p] = copy[p]
           /\ step'[p] \in Locked <=> lock' = p
           /\ ProcessOK(p)'
<1>1. /\ step'[p] = step[p] /\ ask'[p] = ask[p] /\ seen'[p] = seen[p]
      /\ copy'[p] = copy[p] /\ flushed'[p] = flushed[p] /\ name'[p] = name[p]
      /\ lock' = p <=> lock = p
  BY OpenersAssumption DEF IInv, Shape, Moves
<1>2. step[p] \in Locked <=> lock = p
  BY DEF IInv, LockHeld
<1>3. name[p] \in BackupNames \cup {0} /\ ProcessOK(p)
  BY DEF IInv, Shape
<1>4. CASE step[p] \notin Locked
  <2>1. Prepared(p)'
    BY <1>1, <1>3, <1>4 DEF ProcessOK, Prepared
  <2>2. Underway(p)'
    BY <1>1, <1>3, <1>4 DEF ProcessOK, Underway, Backing, Linked, Locked
  <2>3. Admitted(p)'
    BY <1>1, <1>4 DEF Admitted, Finishing, Locked
  <2> QED
    BY <1>1, <1>2, <2>1, <2>2, <2>3 DEF ProcessOK
<1>5. CASE step[p] \in Locked
  <2>1. repo' = repo
    BY <1>5
  <2>2. Prepared(p)'
    BY <1>1, <1>3, <2>1 DEF ProcessOK, Prepared
  <2>3. 0 \notin BackupNames
    BY OpenersAssumption
  <2>4. ASSUME name[p] # 0
        PROVE  /\ backups[name[p]] = p => backups'[name[p]] = p
               /\ backups[name[p]] = p /\ synced[name[p]] = p
                      => synced'[name[p]] = p
    BY <1>3, <2>4 DEF KeepsNames
  <2>5. Underway(p)'
    BY <1>1, <1>3, <2>1, <2>4 DEF ProcessOK, Underway, Linked, Backing
  <2>6. Admitted(p)'
    BY <1>1, <1>3, <2>1, <2>4 DEF ProcessOK, Admitted, Recoverable
  <2> QED
    BY <1>1, <1>2, <2>2, <2>5, <2>6 DEF ProcessOK
<1> QED
  BY <1>4, <1>5

(* What has been promised and kept is not disturbed by a process under way. *)
LEMMA PromiseStays ==
    ASSUME IInv, NEW o \in Openers, Moves(o), KeepsNames(o), origin' = origin,
           step[o] \notin Ended
    PROVE  PromiseKept'
<1> SUFFICES ASSUME origin.promised PROVE PromiseKept'
  BY DEF PromiseKept
<1>1. PICK n \in BackupNames :
          /\ backups[n] = synced[n]
          /\ synced[n] \in Openers
          /\ flushed[synced[n]]
          /\ copy[synced[n]] = {origin.file}
          /\ step[synced[n]] \in Ended
  BY DEF IInv, PromiseKept
<1> DEFINE q == synced[n]
<1>2. q \in Openers /\ q # o
  BY <1>1
<1>3. backups'[n] = q /\ synced'[n] = q
  BY <1>1, <1>2 DEF KeepsNames
<1>4. flushed'[q] = flushed[q] /\ copy'[q] = copy[q] /\ step'[q] = step[q]
  BY <1>2 DEF Moves, IInv, Shape
<1> QED
  BY <1>1, <1>2, <1>3, <1>4 DEF PromiseKept

LEMMA MoveKeepsInv ==
    ASSUME IInv, NEW o \in Openers, Moves(o), KeepsNames(o), IsFile(repo'),
           repo.exists => repo'.exists,
           \A p \in Openers \ {o} : step[p] \in Locked => repo' = repo,
           step'[o] \in {"idle"} \cup Live \cup Ended,
           name'[o] \in BackupNames \cup {0},
           step'[o] \in Locked <=> lock' = o,
           ProcessOK(o)',
           \A n \in BackupNames :
               backups'[n] = o \/ synced'[n] = o =>
                   flushed'[o] /\ step'[o] \in Linked \cup Finishing \cup Ended,
           NothingAccepted', PromiseKept'
    PROVE  IInv'
<1>1. Shape'
  BY DEF IInv, Shape, Moves
<1>2. LockHeld'
  BY OtherProcess DEF LockHeld
<1>3. \A p \in Openers : ProcessOK(p)'
  BY OtherProcess
<1>4. NamesOK'
  <2> SUFFICES ASSUME NEW n \in BackupNames, NEW p \in Openers, p # o,
                      backups'[n] = p \/ synced'[n] = p
               PROVE  /\ flushed'[p]
                      /\ step'[p] \in Linked \cup Finishing \cup Ended
    BY DEF NamesOK
  <2>1. backups[n] = p \/ synced[n] = p
    BY DEF KeepsNames
  <2> QED
    BY <2>1, OtherProcess DEF IInv, NamesOK
<1> QED
  BY <1>1, <1>2, <1>3, <1>4 DEF IInv
-----------------------------------------------------------------------------
(* A process that fails, with or without a backup's name to remove. *)
LEMMA FailKeepsInv ==
    ASSUME IInv, NEW o \in Openers, step[o] \in Live, Fail(o),
           UNCHANGED <<repo, ask, synced, copy, flushed, name, origin>>,
           temp' = [temp EXCEPT ![o] = temp'[o]],
           backups' = backups \/ backups' = Without(backups, o)
    PROVE  IInv'
<1>1. /\ step' = [step EXCEPT ![o] = "stopped"] /\ step'[o] = "stopped"
      /\ lock' = IF lock = o THEN NoOpener ELSE lock
      /\ seen' = [seen EXCEPT ![o] = <<>>] /\ seen'[o] = <<>>
  BY DEF Fail, Go, IInv, Shape
<1>2. Moves(o)
  <2>1. /\ ask' = [ask EXCEPT ![o] = ask'[o]]
        /\ copy' = [copy EXCEPT ![o] = copy'[o]]
        /\ flushed' = [flushed EXCEPT ![o] = flushed'[o]]
        /\ name' = [name EXCEPT ![o] = name'[o]]
    BY Unmoved DEF IInv
  <2>2. /\ backups' = [n \in BackupNames |-> backups'[n]]
        /\ synced' = [n \in BackupNames |-> synced'[n]]
    BY DEF IInv, Shape, Without
  <2> QED
    BY <1>1, <2>1, <2>2 DEF Moves
<1>3. /\ KeepsNames(o)
      /\ \A n \in BackupNames : backups'[n] = o => backups[n] = o
  BY OpenersAssumption DEF KeepsNames, Without
<1>4. step[o] \notin Ended
  BY StepFacts
<1>5. ProcessOK(o)' /\ step'[o] \notin Locked /\ step'[o] \in Ended
  BY <1>1 DEF ProcessOK, Prepared, Underway, Admitted, Unnamed, Backing, Linked,
              Finishing, Locked, Ended
<1>6. lock' # o
  BY <1>1, OpenersAssumption
<1>7. name'[o] \in BackupNames \cup {0} /\ NothingAccepted' /\ IsFile(repo')
  BY DEF IInv, Shape, NothingAccepted
<1>8. \A n \in BackupNames : backups'[n] = o \/ synced'[n] = o => flushed'[o]
  BY <1>3 DEF IInv, NamesOK
<1>9. PromiseKept'
  BY <1>2, <1>3, <1>4, PromiseStays
<1> QED
  BY <1>2, <1>3, <1>5, <1>6, <1>7, <1>8, <1>9, MoveKeepsInv

(* A process that goes on without touching the repository or a name. *)
LEMMA GoKeepsInv ==
    ASSUME IInv, NEW o \in Openers, Moves(o), step[o] \notin Ended,
           step'[o] \in Live \cup Ended, name'[o] \in BackupNames \cup {0},
           UNCHANGED <<repo, backups, synced, origin>>,
           flushed[o] => flushed'[o],
           step'[o] \in Locked <=> lock' = o,
           step[o] \in Linked \cup Finishing
               => step'[o] \in Linked \cup Finishing \cup Ended,
           ProcessOK(o)'
    PROVE  IInv'
<1>1. KeepsNames(o)
  BY DEF KeepsNames
<1>2. PromiseKept'
  BY <1>1, PromiseStays
<1>3. NothingAccepted' /\ IsFile(repo')
  BY DEF IInv, Shape, NothingAccepted
<1>4. \A n \in BackupNames :
          backups'[n] = o \/ synced'[n] = o =>
              flushed'[o] /\ step'[o] \in Linked \cup Finishing \cup Ended
  BY DEF IInv, NamesOK
<1> QED
  BY <1>1, <1>2, <1>3, <1>4, MoveKeepsInv
-----------------------------------------------------------------------------
LEMMA StartKeepsInv ==
    ASSUME IInv, NEW o \in Openers, Start(o)
    PROVE  IInv'
<1>1. PICK a \in Asks, next \in {"connect", "look", "stopped"} :
          /\ step[o] = "idle"
          /\ ask' = [ask EXCEPT ![o] = a]
          /\ step' = [step EXCEPT ![o] = next]
          /\ UNCHANGED <<repo, lock, seen, fileVars, origin>>
  <2>1. PICK a \in Asks :
            /\ ask' = [ask EXCEPT ![o] = a]
            /\ CASE a.lifecycle = "library" -> Go(o, "connect")
                 [] a.lifecycle = "migrate" ->
                        Go(o, IF repo.exists THEN "connect" ELSE "stopped")
                 [] a.lifecycle = "create"  ->
                        Go(o, IF repo.exists THEN "look" ELSE "connect")
                 [] OTHER ->
                        Go(o, IF repo.exists THEN "look" ELSE "stopped")
    BY DEF Start
  <2>2. \E next \in {"connect", "look", "stopped"} :
            step' = [step EXCEPT ![o] = next]
    BY <2>1 DEF Go
  <2> QED
    BY <2>1, <2>2 DEF Start
<1>2. step'[o] = next /\ name'[o] = 0
  BY <1>1 DEF IInv, Shape, ProcessOK, Underway, Unnamed, fileVars
<1>3. Moves(o)
  BY <1>1, <1>2, Unmoved DEF Moves, IInv, fileVars
<1>4. ProcessOK(o)' /\ next \notin Locked /\ next \in Live \cup Ended
  BY <1>1, <1>2 DEF ProcessOK, Prepared, Underway, Admitted, Unnamed, Backing,
              Linked, Finishing, Locked, Live, Reading, Ended
<1>5. lock' # o /\ step[o] \notin Linked \cup Finishing \cup Ended
  BY <1>1 DEF IInv, LockHeld, Locked, Linked, Finishing, Ended
<1> QED
  BY <1>1, <1>2, <1>3, <1>4, <1>5, GoKeepsInv DEF fileVars

(* The file is there for whoever waits for its lock. *)
LEMMA ConnectKeepsInv ==
    ASSUME IInv, NEW o \in Openers, Connect(o)
    PROVE  IInv'
<1>1. /\ step[o] = "connect"
      /\ repo' = [repo EXCEPT !.exists = @ \/ ask[o].lifecycle # "readonly"]
      /\ step' = [step EXCEPT ![o] = "open"] /\ step'[o] = "open"
      /\ UNCHANGED <<lock, ask, seen, backups, synced, temp, copy, flushed,
                     name, origin>>
  BY DEF Connect, Go, fileVars, IInv, Shape
<1>2. /\ IsFile(repo')
      /\ repo'.exists = (repo.exists \/ ask[o].lifecycle # "readonly")
      /\ repo'.objects = repo.objects /\ repo'.accepted = repo.accepted
      /\ repo.exists => repo' = repo
  BY <1>1 DEF IInv, Shape, IsFile, FileFields
<1>3. Moves(o)
  BY <1>1, Unmoved DEF Moves, IInv
<1>4. KeepsNames(o) /\ NothingAccepted'
  BY <1>1, <1>2 DEF KeepsNames, IInv, NothingAccepted
<1>5. PromiseKept'
  BY <1>1, <1>3, <1>4, PromiseStays DEF Ended
<1>6. \A p \in Openers : step[p] \in Locked => repo' = repo
  BY <1>2 DEF IInv, ProcessOK, Prepared
<1>7. name'[o] = 0
  BY <1>1 DEF IInv, ProcessOK, Underway, Unnamed
<1>8. ProcessOK(o)' /\ step'[o] \notin Locked /\ step'[o] \in Live
  BY <1>1, <1>2, <1>7
     DEF ProcessOK, Prepared, Underway, Admitted, Backing, Linked, Finishing,
         Locked, Live, Reading
<1>9. lock' # o
  BY <1>1 DEF IInv, LockHeld, Locked
<1>10. \A n \in BackupNames : ~(backups'[n] = o \/ synced'[n] = o)
  BY <1>1 DEF IInv, NamesOK, Linked, Finishing, Ended
<1> QED
  BY <1>2, <1>3, <1>4, <1>5, <1>6, <1>7, <1>8, <1>9, <1>10, MoveKeepsInv

LEMMA QueryKeepsInv ==
    ASSUME IInv, NEW o \in Openers, Query(o)
    PROVE  IInv'
<1>1. /\ step[o] \in Reading
      /\ seen' = [seen EXCEPT ![o] = seen'[o]]
      /\ UNCHANGED <<repo, lock, step, ask, backups, synced, temp, copy, flushed,
                     name, origin>>
  BY DEF Query, fileVars, IInv, Shape
<1>2. Moves(o)
  BY <1>1, Unmoved DEF Moves, IInv
<1>3. step'[o] \notin Locked /\ step'[o] \in Live /\ step[o] \notin Ended
  BY <1>1 DEF Reading, Locked, Live, Ended
<1>4. ProcessOK(o) /\ name[o] \in BackupNames \cup {0} /\ lock # o
  BY <1>1 DEF IInv, Shape, LockHeld, Reading, Locked
<1>5. ProcessOK(o)'
  BY <1>1, <1>3, <1>4 DEF ProcessOK, Prepared, Underway, Admitted, Finishing,
                          Locked, Linked, Backing
<1> QED
  BY <1>1, <1>2, <1>3, <1>4, <1>5, GoKeepsInv

LEMMA JudgedKeepsInv ==
    ASSUME IInv, NEW o \in Openers, Judged(o)
    PROVE  IInv'
<1>1. PICK next \in {"connect", "stopped", "validate", "done", "lock"} :
          /\ step[o] \in Reading
          /\ step' = [step EXCEPT ![o] = next]
          /\ next = "lock" =>
                 step[o] = "open" /\ ask[o].lifecycle # "readonly"
  <2> DEFINE kind == Classify(seen[o])
             current == ask[o].lifecycle = "readonly" \/ kind = "V03"
  <2>1. /\ step[o] \in Reading
        /\ CASE step[o] = "look" ->
                    Go(o, IF LooksCurrent(kind) THEN "connect" ELSE "stopped")
             [] step[o] = "open" ->
                    Go(o, IF current
                          THEN IF kind = "V03" THEN "validate" ELSE "stopped"
                          ELSE IF kind \in {"PARTIAL", "UNKNOWN"}
                          THEN "stopped" ELSE "lock")
             [] step[o] = "validate" ->
                    Go(o, IF kind = "V03" THEN "done" ELSE "stopped")
    BY DEF Judged
  <2> HIDE DEF kind
  <2>2. CASE step[o] = "look"
    BY <2>1, <2>2 DEF Go
  <2>3. CASE step[o] = "open"
    BY <2>1, <2>3 DEF Go
  <2>4. CASE step[o] = "validate"
    BY <2>1, <2>4 DEF Go
  <2> QED
    BY <2>1, <2>2, <2>3, <2>4 DEF Reading
<1>2. /\ seen' = [seen EXCEPT ![o] = seen'[o]]
      /\ UNCHANGED <<repo, lock, ask, backups, synced, temp, copy, flushed, name,
                     origin>>
  BY DEF Judged, fileVars, IInv, Shape
<1>3. step'[o] = next /\ name[o] = 0 /\ lock # o
  BY <1>1 DEF IInv, Shape, ProcessOK, Underway, Unnamed, Reading, LockHeld, Locked
<1>4. Moves(o)
  BY <1>1, <1>2, <1>3, Unmoved DEF Moves, IInv
<1>5. /\ next \notin Locked /\ next \in Live \cup Ended
      /\ step[o] \notin Linked \cup Finishing \cup Ended
  BY <1>1 DEF Reading, Locked, Live, Ended, Linked, Finishing
<1>6. next = "lock" => repo.exists
  BY <1>1 DEF IInv, ProcessOK, Prepared
<1>7. ProcessOK(o)'
  BY <1>1, <1>2, <1>3, <1>5, <1>6
     DEF ProcessOK, Prepared, Underway, Admitted, Finishing, Locked, Linked,
         Backing
<1> QED
  BY <1>2, <1>3, <1>4, <1>5, <1>7, GoKeepsInv
-----------------------------------------------------------------------------
(* Of a process that runs: what changes with its step alone. *)
LEMMA Running ==
    ASSUME IInv, NEW o \in Openers
    PROVE  /\ ProcessOK(o) /\ name[o] \in BackupNames \cup {0}
           /\ step[o] \in Locked <=> lock = o
           /\ lock = o => lock # NoOpener
  BY OpenersAssumption DEF IInv, Shape, LockHeld

LEMMA BeginImmediateKeepsInv ==
    ASSUME IInv, NEW o \in Openers, BeginImmediate(o)
    PROVE  IInv'
<1>1. /\ step[o] = "lock" /\ lock = NoOpener /\ lock' = o
      /\ step' = [step EXCEPT ![o] = "recheck"] /\ step'[o] = "recheck"
      /\ UNCHANGED <<repo, ask, seen, backups, synced, temp, copy, flushed, name,
                     origin>>
  BY DEF BeginImmediate, Go, fileVars, IInv, Shape
<1>2. Moves(o)
  BY <1>1, Unmoved DEF Moves, IInv
<1>3. ProcessOK(o)'
  BY <1>1, Running DEF ProcessOK, Prepared, Underway, Admitted, Finishing,
                       Locked, Linked, Backing, Unnamed
<1>4. step'[o] \in Locked /\ step'[o] \in Live
      /\ step[o] \notin Linked \cup Finishing \cup Ended
  BY <1>1 DEF Locked, Live, Linked, Finishing, Ended
<1> QED
  BY <1>1, <1>2, <1>3, <1>4, Running, GoKeepsInv

(* A step under the lock that changes neither the repository nor a name. *)
LEMMA LockedKeepsInv ==
    ASSUME IInv, NEW o \in Openers, step[o] \in Locked,
           step' = [step EXCEPT ![o] = step'[o]],
           temp' = [temp EXCEPT ![o] = temp'[o]],
           copy' = [copy EXCEPT ![o] = copy'[o]],
           flushed' = [flushed EXCEPT ![o] = flushed'[o]],
           name' = [name EXCEPT ![o] = name'[o]],
           UNCHANGED <<repo, lock, ask, seen, backups, synced, origin>>,
           step'[o] \in Locked, name'[o] \in BackupNames \cup {0},
           flushed[o] => flushed'[o],
           step[o] \in Linked \cup Finishing => step'[o] \in Linked \cup Finishing,
           ProcessOK(o)'
    PROVE  IInv'
<1>1. Moves(o)
  BY Unmoved DEF Moves, IInv
<1>2. step'[o] \in Live /\ step[o] \notin Ended
  BY StepFacts
<1>3. step'[o] \in Locked <=> lock' = o
  BY Running
<1> QED
  BY <1>1, <1>2, <1>3, GoKeepsInv

LEMMA RecheckKeepsInv ==
    ASSUME IInv, NEW o \in Openers, Recheck(o)
    PROVE  IInv'
<1>1. CASE ~Unchanged(o)
  <2>1. /\ Fail(o) /\ step[o] \in Live
        /\ UNCHANGED <<repo, ask, backups, synced, temp, copy, flushed, name, origin>>
    BY <1>1 DEF Recheck, fileVars, Live, Locked
  <2> QED
    BY <2>1, Unmoved, FailKeepsInv DEF IInv
<1>2. CASE Unchanged(o)
  <2>1. /\ step[o] = "recheck"
        /\ step' = [step EXCEPT ![o] = "preflight"] /\ step'[o] = "preflight"
        /\ UNCHANGED <<repo, lock, ask, seen, backups, synced, temp, copy,
                       flushed, name, origin>>
    BY <1>2 DEF Recheck, GoOn, Go, fileVars, IInv, Shape
  <2>2. Digest(Fingerprint(repo))' = Digest(seen[o])'
    BY <1>2, <2>1 DEF Unchanged
  <2>3. ProcessOK(o)'
    BY <2>1, <2>2, Running DEF ProcessOK, Prepared, Underway, Admitted, Finishing,
                               Locked, Linked, Backing, Unnamed
  <2>4. step[o] \in Locked /\ step'[o] \in Locked
        /\ step[o] \notin Linked \cup Finishing
    BY <2>1 DEF Locked, Linked, Finishing
  <2> QED
    BY <2>1, <2>3, <2>4, Running, Unmoved, LockedKeepsInv DEF IInv
<1> QED
  BY <1>1, <1>2

LEMMA PreflightKeepsInv ==
    ASSUME IInv, NEW o \in Openers, Preflight(o)
    PROVE  IInv'
<1>1. CASE ~IsReady(ask[o], repo)
  <2>1. /\ Fail(o) /\ step[o] \in Live
        /\ UNCHANGED <<repo, ask, backups, synced, temp, copy, flushed, name, origin>>
    BY <1>1 DEF Preflight, fileVars, Live, Locked
  <2> QED
    BY <2>1, Unmoved, FailKeepsInv DEF IInv
<1>2. CASE IsReady(ask[o], repo)
  <2> DEFINE next == IF ask[o].backup /\ KindOf(repo) \in LegacyKinds
                     THEN "choose" ELSE "admit"
  <2>1. /\ step[o] = "preflight"
        /\ step' = [step EXCEPT ![o] = next] /\ step'[o] = next
        /\ UNCHANGED <<repo, lock, ask, seen, backups, synced, temp, copy,
                       flushed, name, origin>>
    BY <1>2 DEF Preflight, GoOn, Go, fileVars, IInv, Shape
  <2>2. ProcessOK(o)'
    BY <2>1, Running DEF ProcessOK, Prepared, Underway, Admitted, Finishing,
                         Locked, Linked, Backing, Unnamed
  <2>3. step[o] \in Locked /\ step'[o] \in Locked
        /\ step[o] \notin Linked \cup Finishing
    BY <2>1 DEF Locked, Linked, Finishing
  <2> QED
    BY <2>1, <2>2, <2>3, Running, Unmoved, LockedKeepsInv DEF IInv
<1> QED
  BY <1>1, <1>2
-----------------------------------------------------------------------------
LEMMA ChooseNameKeepsInv ==
    ASSUME IInv, NEW o \in Openers, ChooseName(o)
    PROVE  IInv'
<1>1. PICK n \in BackupNames : name' = [name EXCEPT ![o] = n]
  BY DEF ChooseName
<1>2. /\ step[o] = "choose"
      /\ step' = [step EXCEPT ![o] = "create"] /\ step'[o] = "create"
      /\ name'[o] = n /\ n # 0
      /\ UNCHANGED <<repo, lock, ask, seen, backups, synced, temp, copy, flushed,
                     origin>>
  BY <1>1, OpenersAssumption DEF ChooseName, Go, IInv, Shape
<1>3. ProcessOK(o)'
  BY <1>2, Running DEF ProcessOK, Prepared, Underway, Admitted, Finishing,
                       Locked, Linked, Backing, Unnamed
<1>4. step[o] \in Locked /\ step'[o] \in Locked
      /\ step[o] \notin Linked \cup Finishing
  BY <1>2 DEF Locked, Linked, Finishing
<1> QED
  BY <1>1, <1>2, <1>3, <1>4, Unmoved, LockedKeepsInv DEF IInv

LEMMA MakeTemporaryKeepsInv ==
    ASSUME IInv, NEW o \in Openers, MakeTemporary(o)
    PROVE  IInv'
<1>1. /\ step[o] = "create"
      /\ step' = [step EXCEPT ![o] = "copy"] /\ step'[o] = "copy"
      /\ temp' = [temp EXCEPT ![o] = temp'[o]]
      /\ UNCHANGED <<repo, lock, ask, seen, backups, synced, copy, flushed, name,
                     origin>>
  BY DEF MakeTemporary, Go, IInv, Shape
<1>2. ProcessOK(o)'
  BY <1>1, Running DEF ProcessOK, Prepared, Underway, Admitted, Finishing,
                       Locked, Linked, Backing, Unnamed
<1>3. step[o] \in Locked /\ step'[o] \in Locked
      /\ step[o] \notin Linked \cup Finishing
  BY <1>1 DEF Locked, Linked, Finishing
<1> QED
  BY <1>1, <1>2, <1>3, Running, Unmoved, LockedKeepsInv DEF IInv

LEMMA CopyKeepsInv ==
    ASSUME IInv, NEW o \in Openers, Copy(o)
    PROVE  IInv'
<1>1. /\ step[o] = "copy"
      /\ step' = [step EXCEPT ![o] = "flush"] /\ step'[o] = "flush"
      /\ copy' = [copy EXCEPT ![o] = copy'[o]]
      /\ UNCHANGED <<repo, lock, ask, seen, backups, synced, temp, flushed, name,
                     origin>>
  BY DEF Copy, Go, IInv, Shape
<1>2. ProcessOK(o)'
  BY <1>1, Running DEF ProcessOK, Prepared, Underway, Admitted, Finishing,
                       Locked, Linked, Backing, Unnamed
<1>3. step[o] \in Locked /\ step'[o] \in Locked
      /\ step[o] \notin Linked \cup Finishing
  BY <1>1 DEF Locked, Linked, Finishing
<1> QED
  BY <1>1, <1>2, <1>3, Running, Unmoved, LockedKeepsInv DEF IInv

LEMMA FlushKeepsInv ==
    ASSUME IInv, NEW o \in Openers, Flush(o)
    PROVE  IInv'
<1>1. /\ step[o] = "flush"
      /\ step' = [step EXCEPT ![o] = "verify"] /\ step'[o] = "verify"
      /\ flushed' = [flushed EXCEPT ![o] = TRUE] /\ flushed'[o]
      /\ UNCHANGED <<repo, lock, ask, seen, backups, synced, temp, copy, name,
                     origin>>
  BY DEF Flush, Go, IInv, Shape
<1>2. ProcessOK(o)'
  BY <1>1, Running DEF ProcessOK, Prepared, Underway, Admitted, Finishing,
                       Locked, Linked, Backing, Unnamed
<1>3. step[o] \in Locked /\ step'[o] \in Locked
      /\ step[o] \notin Linked \cup Finishing
  BY <1>1 DEF Locked, Linked, Finishing
<1> QED
  BY <1>1, <1>2, <1>3, Running, Unmoved, LockedKeepsInv DEF IInv

LEMMA VerifyKeepsInv ==
    ASSUME IInv, NEW o \in Openers, Verify(o)
    PROVE  IInv'
<1>1. /\ step[o] = "verify" /\ copy[o] = {repo}
      /\ step' = [step EXCEPT ![o] = "publish"] /\ step'[o] = "publish"
      /\ UNCHANGED <<repo, lock, ask, seen, backups, synced, temp, copy, flushed,
                     name, origin>>
  BY DEF Verify, IsWhole, Go, fileVars, IInv, Shape
<1>2. ProcessOK(o)'
  BY <1>1, Running DEF ProcessOK, Prepared, Underway, Admitted, Finishing,
                       Locked, Linked, Backing, Unnamed
<1>3. step[o] \in Locked /\ step'[o] \in Locked
      /\ step[o] \notin Linked \cup Finishing
  BY <1>1 DEF Locked, Linked, Finishing
<1> QED
  BY <1>1, <1>2, <1>3, Running, Unmoved, LockedKeepsInv DEF IInv

LEMMA UnlinkKeepsInv ==
    ASSUME IInv, NEW o \in Openers, Unlink(o)
    PROVE  IInv'
<1>1. /\ step[o] = "unlink"
      /\ step' = [step EXCEPT ![o] = "admit"] /\ step'[o] = "admit"
      /\ temp' = [temp EXCEPT ![o] = temp'[o]]
      /\ UNCHANGED <<repo, lock, ask, seen, backups, synced, copy, flushed, name,
                     origin>>
  BY DEF Unlink, Go, IInv, Shape
<1>2. ProcessOK(o)'
  BY <1>1, Running DEF ProcessOK, Prepared, Underway, Admitted, Recoverable,
                       Finishing, Locked, Linked, Backing, Unnamed
<1>3. step[o] \in Locked /\ step'[o] \in Locked /\ step'[o] \in Finishing
  BY <1>1 DEF Locked, Finishing
<1> QED
  BY <1>1, <1>2, <1>3, Running, Unmoved, LockedKeepsInv DEF IInv

LEMMA AdmitKeepsInv ==
    ASSUME IInv, NEW o \in Openers, Admit(o)
    PROVE  IInv'
<1>1. CASE ~(NeedAcceptance(repo) = {} \/ HasBackup(o))
  <2>1. /\ Fail(o) /\ step[o] \in Live
        /\ UNCHANGED <<repo, ask, backups, synced, temp, copy, flushed, name, origin>>
    BY <1>1 DEF Admit, fileVars, Live, Locked
  <2> QED
    BY <2>1, Unmoved, FailKeepsInv DEF IInv
<1>2. CASE NeedAcceptance(repo) = {} \/ HasBackup(o)
  <2>1. /\ step[o] = "admit"
        /\ step' = [step EXCEPT ![o] = "apply"] /\ step'[o] = "apply"
        /\ UNCHANGED <<repo, lock, ask, seen, backups, synced, temp, copy,
                       flushed, name, origin>>
    BY <1>2 DEF Admit, GoOn, Go, fileVars, IInv, Shape
  <2>2. ProcessOK(o)'
    BY <1>2, <2>1, Running
       DEF HasBackup, ProcessOK, Prepared, Underway, Admitted, Recoverable,
           Finishing, Locked, Linked, Backing, Unnamed
  <2>3. step[o] \in Locked /\ step'[o] \in Locked /\ step'[o] \in Finishing
    BY <2>1 DEF Locked, Finishing
  <2> QED
    BY <2>1, <2>2, <2>3, Running, Unmoved, LockedKeepsInv DEF IInv
<1> QED
  BY <1>1, <1>2

LEMMA ApplyKeepsInv ==
    ASSUME IInv, NEW o \in Openers, Apply(o)
    PROVE  IInv'
<1>1. /\ step[o] = "apply"
      /\ step' = [step EXCEPT ![o] = "gate"] /\ step'[o] = "gate"
      /\ UNCHANGED <<repo, lock, ask, seen, backups, synced, temp, copy,
                     flushed, name, origin>>
  BY DEF Apply, Go, fileVars, IInv, Shape
<1>2. ProcessOK(o)'
  BY <1>1, Running DEF ProcessOK, Prepared, Underway, Admitted, Recoverable,
                       Finishing, Locked, Linked, Backing, Unnamed
<1>3. step[o] \in Locked /\ step'[o] \in Locked /\ step'[o] \in Finishing
  BY <1>1 DEF Locked, Finishing
<1> QED
  BY <1>1, <1>2, <1>3, Running, Unmoved, LockedKeepsInv DEF IInv

LEMMA GateKeepsInv ==
    ASSUME IInv, NEW o \in Openers, Gate(o)
    PROVE  IInv'
<1>1. CASE ~GatePasses(Work(o))
  <2>1. /\ Fail(o) /\ step[o] \in Live
        /\ UNCHANGED <<repo, ask, backups, synced, temp, copy, flushed, name, origin>>
    BY <1>1 DEF Gate, fileVars, Live, Locked
  <2> QED
    BY <2>1, Unmoved, FailKeepsInv DEF IInv
<1>2. CASE GatePasses(Work(o))
  <2>1. /\ step[o] = "gate"
        /\ step' = [step EXCEPT ![o] = "commit"] /\ step'[o] = "commit"
        /\ UNCHANGED <<repo, lock, ask, seen, backups, synced, temp, copy,
                       flushed, name, origin>>
    BY <1>2 DEF Gate, GoOn, Go, fileVars, IInv, Shape
  <2>2. ProcessOK(o)'
    BY <2>1, Running DEF ProcessOK, Prepared, Underway, Admitted, Recoverable,
                         Finishing, Locked, Linked, Backing, Unnamed
  <2>3. step[o] \in Locked /\ step'[o] \in Locked /\ step'[o] \in Finishing
    BY <2>1 DEF Locked, Finishing
  <2> QED
    BY <2>1, <2>2, <2>3, Running, Unmoved, LockedKeepsInv DEF IInv
<1> QED
  BY <1>1, <1>2
-----------------------------------------------------------------------------
(* A name in use is nobody else's to take. *)
LEMMA PublishKeepsInv ==
    ASSUME IInv, NEW o \in Openers, Publish(o)
    PROVE  IInv'
<1>1. /\ step[o] = "publish" /\ backups[name[o]] = NoFile
      /\ step' = [step EXCEPT ![o] = "sync"] /\ step'[o] = "sync"
      /\ backups' = [backups EXCEPT ![name[o]] = o]
      /\ UNCHANGED <<repo, lock, ask, seen, synced, temp, copy, flushed, name,
                     origin>>
  BY DEF Publish, IsUnused, Go, IInv, Shape
<1>2. /\ name[o] \in BackupNames /\ flushed[o] /\ copy[o] = {repo}
      /\ lock = o
  BY <1>1, Running DEF ProcessOK, Underway, Backing, Locked
<1>3. /\ backups' = [n \in BackupNames |-> backups'[n]]
      /\ backups'[name[o]] = o
      /\ \A n \in BackupNames : n # name[o] => backups'[n] = backups[n]
  BY <1>1, <1>2 DEF IInv, Shape
<1>4. Moves(o)
  BY <1>1, <1>3, Unmoved DEF Moves, IInv
<1>5. KeepsNames(o)
  BY <1>1, <1>2, <1>3, OpenersAssumption DEF KeepsNames
<1>6. ProcessOK(o)'
  BY <1>1, <1>2, <1>3, Running
     DEF ProcessOK, Prepared, Underway, Admitted, Finishing, Locked, Linked,
         Backing, Unnamed
<1>7. PromiseKept'
  BY <1>1, <1>4, <1>5, PromiseStays DEF Ended
<1>8. /\ step'[o] \in Locked /\ step'[o] \in Live /\ step'[o] \in Linked
      /\ IsFile(repo') /\ NothingAccepted'
  BY <1>1 DEF Locked, Live, Linked, IInv, Shape, NothingAccepted
<1> QED
  BY <1>1, <1>2, <1>4, <1>5, <1>6, <1>7, <1>8, Running, MoveKeepsInv

LEMMA SyncKeepsInv ==
    ASSUME IInv, NEW o \in Openers, Sync(o)
    PROVE  IInv'
<1>1. /\ step[o] = "sync" /\ synced' = backups
      /\ step' = [step EXCEPT ![o] = "unlink"] /\ step'[o] = "unlink"
      /\ UNCHANGED <<repo, lock, ask, seen, backups, temp, copy, flushed, name,
                     origin>>
  BY DEF Sync, DirectorySynced, Go, IInv, Shape
<1>2. Moves(o)
  BY <1>1, Unmoved DEF Moves, IInv
<1>3. KeepsNames(o)
  BY <1>1 DEF KeepsNames
<1>4. ProcessOK(o)' /\ flushed[o] /\ lock = o
  BY <1>1, Running
     DEF ProcessOK, Prepared, Underway, Admitted, Finishing, Locked, Linked,
         Backing, Unnamed
<1>5. PromiseKept'
  BY <1>1, <1>2, <1>3, PromiseStays DEF Ended
<1>6. /\ step'[o] \in Locked /\ step'[o] \in Live /\ step'[o] \in Linked
      /\ IsFile(repo') /\ NothingAccepted'
  BY <1>1 DEF Locked, Live, Linked, IInv, Shape, NothingAccepted
<1> QED
  BY <1>1, <1>2, <1>3, <1>4, <1>5, <1>6, Running, MoveKeepsInv
-----------------------------------------------------------------------------
(* The digest binds the objects, and those the kinds that accept nothing. *)
LEMMA DigestBindsObjects ==
    ASSUME NEW s, NEW file, Digest(Fingerprint(file)) = Digest(s),
           Classify(s) \in {"EMPTY", "V01"}
    PROVE  file.objects # "v03"
<1>1. PICK p \in PublishedLayouts : Matches(p, s) /\ p.kind \in {"EMPTY", "V01"}
  <2>1. \E p \in PublishedLayouts : Matches(p, s)
    BY DEF Classify
  <2>2. (CHOOSE p \in PublishedLayouts : Matches(p, s)).kind = Classify(s)
    BY <2>1 DEF Classify
  <2> QED
    BY <2>1, <2>2
<1>2. p.objects \in {"none", "v01"}
  BY <1>1 DEF PublishedLayouts, Published
<1>3. Digest(s)[1] = p.objects
  BY <1>1 DEF Matches
<1>4. Digest(Fingerprint(file))[1] = file.objects
  BY DEF Digest, Fingerprint
<1> QED
  BY <1>2, <1>3, <1>4

(* What a migration makes of a file. *)
LEMMA MigratedFile ==
    ASSUME NEW kind, NEW mode, NEW file, IsFile(file)
    PROVE  LET work == Migrated(kind, mode, file)
           IN  /\ IsFile(work)
               /\ work.exists = file.exists /\ work.objects = "v03"
               /\ work.user_version = 3 /\ work.metadata = 3
               /\ \/ kind \in {"EMPTY", "V01"} /\ work.accepted = file.accepted
                  \/ work.accepted = NeedAcceptance(file)
<1> DEFINE work == Migrated(kind, mode, file)
           need == NeedAcceptance(file)
<1> USE DEF SCHEMA_VERSION
<1>1. CASE kind = "EMPTY"
  BY <1>1 DEF Migrated, Current, IsFile, FileFields
<1>2. CASE kind = "V01"
  BY <1>2 DEF Migrated, Current, IsFile, FileFields
<1>3. CASE kind = "V02" /\ file.objects = "v02_early"
  <2> HIDE DEF need
  <2>1. work = [Current(file) EXCEPT
                   !.retained = file.rows \cap Snapshots,
                   !.accepted = need,
                   !.births = @ \o <<"schema.snapshot_hash_constraint_removed",
                                     "schema.event_evidence_enabled",
                                     "schema.migrated">>]
    BY <1>3 DEF Migrated, need
  <2> QED
    BY <2>1 DEF Current, IsFile, FileFields, need
<1>4. CASE kind = "V02" /\ file.objects # "v02_early"
  <2>1. work = [Current(file) EXCEPT
                   !.accepted = need, !.births = Append(@, "schema.migrated")]
    BY <1>4 DEF Migrated
  <2> QED
    BY <2>1 DEF Current, IsFile, FileFields
<1>5. CASE kind \notin {"EMPTY", "V01", "V02"}
  <2>1. work = [Current(file) EXCEPT !.accepted = need]
    BY <1>5 DEF Migrated
  <2> QED
    BY <2>1 DEF Current, IsFile, FileFields
<1> QED
  BY <1>1, <1>2, <1>3, <1>4, <1>5

LEMMA CommitKeepsInv ==
    ASSUME IInv, NEW o \in Openers, Commit(o)
    PROVE  IInv'
<1> DEFINE work == Work(o)
<1>1. /\ step[o] = "commit"
      /\ repo' = work
      /\ origin' = [file |-> repo,
                    promised |-> \/ ask[o].backup /\ KindOf(repo) \in LegacyKinds
                                 \/ work.accepted # {}]
  BY DEF Commit
<1>2. /\ lock' = NoOpener
      /\ step' = [step EXCEPT ![o] = "done"] /\ step'[o] = "done"
      /\ seen' = [seen EXCEPT ![o] = <<>>] /\ seen'[o] = <<>>
      /\ UNCHANGED <<ask, backups, synced, temp, copy, flushed, name>>
  BY DEF Commit, Go, fileVars, IInv, Shape
<1>3. /\ lock = o
      /\ Digest(Fingerprint(repo)) = Digest(seen[o])
      /\ repo.exists
      /\ name[o] # 0 => Recoverable(o)
      /\ ask[o].backup /\ KindOf(repo) \in LegacyKinds => name[o] # 0
      /\ NeedAcceptance(repo) = {} \/ name[o] # 0
  BY <1>1, Running DEF ProcessOK, Prepared, Admitted, Finishing, Locked
<1>4. /\ IsFile(work)
      /\ work.exists = repo.exists /\ work.objects = "v03"
      /\ \/ /\ Classify(seen[o]) \in {"EMPTY", "V01"}
            /\ work.accepted = repo.accepted
         \/ work.accepted = NeedAcceptance(repo)
  BY MigratedFile DEF Work, IInv, Shape
<1> HIDE DEF work
<1>5. work.accepted # {} => name[o] # 0
  BY <1>3, <1>4, DigestBindsObjects DEF IInv, NothingAccepted
<1>6. /\ Moves(o) /\ KeepsNames(o)
      /\ \A p \in Openers \ {o} : step[p] \notin Locked
  <2>1. Moves(o)
    BY <1>2, <1>3, Unmoved DEF Moves, IInv
  <2>2. \A p \in Openers \ {o} : step[p] \notin Locked
    BY <1>3 DEF IInv, LockHeld
  <2> QED
    BY <1>2, <2>1, <2>2 DEF KeepsNames
<1>7. PromiseKept'
  <2> SUFFICES ASSUME origin'.promised PROVE PromiseKept'
    BY DEF PromiseKept
  <2>1. name[o] # 0 /\ Recoverable(o)
    BY <1>1, <1>3, <1>5
  <2>2. name[o] \in BackupNames
    BY <2>1, Running
  <2> QED
    BY <1>1, <1>2, <2>1, <2>2 DEF PromiseKept, Recoverable, Ended
<1>8. /\ ProcessOK(o)' /\ step'[o] \notin Locked /\ step'[o] \in Ended
      /\ lock' # o
  BY <1>2, OpenersAssumption
     DEF ProcessOK, Prepared, Underway, Admitted, Unnamed, Backing, Linked,
         Finishing, Locked, Ended
<1>9. /\ NothingAccepted' /\ IsFile(repo') /\ repo'.exists
      /\ name'[o] \in BackupNames \cup {0}
      /\ \A n \in BackupNames : backups'[n] = o \/ synced'[n] = o => flushed'[o]
  BY <1>1, <1>2, <1>3, <1>4, Running DEF NothingAccepted, IInv, NamesOK
<1> QED
  BY <1>6, <1>7, <1>8, <1>9, MoveKeepsInv
-----------------------------------------------------------------------------
(* The surroundings. *)

LEMMA ClearTemporaryKeepsInv ==
    ASSUME IInv, NEW o \in Openers, ClearTemporary(o)
    PROVE  IInv'
<1>1. /\ temp' = [temp EXCEPT ![o] = FALSE]
      /\ UNCHANGED <<repo, lock, step, ask, seen, backups, synced, copy, flushed,
                     name, origin>>
  BY DEF ClearTemporary
<1>2. Shape'
  BY <1>1 DEF IInv, Shape
<1>3. LockHeld' /\ NamesOK' /\ NothingAccepted' /\ PromiseKept'
  BY <1>1 DEF IInv, LockHeld, NamesOK, NothingAccepted, PromiseKept
<1>4. \A p \in Openers : ProcessOK(p)'
  BY <1>1 DEF IInv, ProcessOK, Prepared, Underway, Admitted, Recoverable
<1> QED
  BY <1>2, <1>3, <1>4 DEF IInv

(* A program of an old release writes when nobody has the lock. *)
LEMMA LegacyWriteKeepsInv ==
    ASSUME IInv, LegacyWrite
    PROVE  IInv'
<1>1. /\ lock = NoOpener
      /\ \E r : repo' = [repo EXCEPT !.rows = @ \cup {r}]
      /\ UNCHANGED <<lock, step, ask, seen, backups, synced, temp, copy, flushed,
                     name, origin>>
  BY DEF LegacyWrite, fileVars
<1>2. /\ IsFile(repo') /\ repo'.exists = repo.exists
      /\ repo'.objects = repo.objects /\ repo'.accepted = repo.accepted
  BY <1>1 DEF IInv, Shape, IsFile, FileFields
<1>3. \A p \in Openers : step[p] \notin Locked
  BY <1>1, OpenersAssumption DEF IInv, LockHeld
<1>4. Shape' /\ LockHeld' /\ NamesOK' /\ NothingAccepted' /\ PromiseKept'
  BY <1>1, <1>2 DEF IInv, Shape, LockHeld, NamesOK, NothingAccepted, PromiseKept
<1>5. ASSUME NEW p \in Openers PROVE ProcessOK(p)'
  <2>1. ProcessOK(p) /\ step'[p] \notin Locked
    BY <1>1, <1>3 DEF IInv
  <2> QED
    BY <1>1, <1>2, <2>1
       DEF ProcessOK, Prepared, Underway, Admitted, Finishing, Linked, Backing, Locked
<1> QED
  BY <1>4, <1>5 DEF IInv

(* The operator's file takes a name without a file; the disk may know it by a
   backup's file that was removed. *)
LEMMA OperatorFileKeepsInv ==
    ASSUME IInv, OperatorFile
    PROVE  IInv'
<1>1. PICK n \in BackupNames :
          /\ backups[n] = NoFile
          /\ backups' = [backups EXCEPT ![n] = Foreign]
          /\ synced' = [synced EXCEPT ![n] = Foreign]
          /\ UNCHANGED <<repo, lock, step, ask, seen, temp, copy, flushed, name,
                         origin>>
  BY DEF OperatorFile
<1>2. /\ backups' = [m \in BackupNames |-> backups'[m]]
      /\ synced' = [m \in BackupNames |-> synced'[m]]
      /\ backups'[n] = Foreign /\ synced'[n] = Foreign
      /\ \A m \in BackupNames \ {n} :
             backups'[m] = backups[m] /\ synced'[m] = synced[m]
  BY <1>1 DEF IInv, Shape
<1>3. /\ \A m \in BackupNames, p \in Openers :
             /\ backups'[m] = p => backups[m] = p
             /\ synced'[m] = p => synced[m] = p
      /\ \A m \in BackupNames :
             backups[m] \in Openers =>
                 backups'[m] = backups[m] /\ synced'[m] = synced[m]
  BY <1>1, <1>2, OpenersAssumption
<1>4. Shape' /\ LockHeld' /\ NothingAccepted'
  BY <1>1, <1>2 DEF IInv, Shape, LockHeld, NothingAccepted
<1>5. NamesOK'
  BY <1>1, <1>3 DEF IInv, NamesOK
<1>6. PromiseKept'
  BY <1>1, <1>3 DEF IInv, PromiseKept
<1>7. ASSUME NEW p \in Openers PROVE ProcessOK(p)'
  <2>1. ProcessOK(p) /\ name[p] \in BackupNames \cup {0}
    BY DEF IInv, Shape
  <2>2. name[p] # 0 /\ backups[name[p]] = p =>
            backups'[name[p]] = p /\ synced'[name[p]] = synced[name[p]]
    BY <1>3, <2>1
  <2>3. Prepared(p)'
    BY <1>1, <2>1 DEF ProcessOK, Prepared
  <2>4. Underway(p)'
    BY <1>1, <2>1, <2>2 DEF ProcessOK, Underway, Linked, Backing
  <2>5. Admitted(p)'
    BY <1>1, <2>1, <2>2 DEF ProcessOK, Admitted, Recoverable
  <2> QED
    BY <2>3, <2>4, <2>5 DEF ProcessOK
<1> QED
  BY <1>4, <1>5, <1>6, <1>7 DEF IInv

(* Both states of a name, the one on disk and the one that is not, are of files
   flushed before; who migrated has ended and his name is the same in both. *)
LEMMA PowerLossKeepsInv ==
    ASSUME IInv, PowerLoss
    PROVE  IInv'
<1>1. PICK lost \in SUBSET {n \in BackupNames : backups[n] # synced[n]} :
          backups' = [n \in BackupNames |->
                         IF n \in lost THEN synced[n] ELSE backups[n]]
  BY DEF PowerLoss
<1>2. /\ step' = [o \in Openers |-> IF step[o] \in Live THEN "stopped" ELSE step[o]]
      /\ lock' = NoOpener
      /\ seen' = [o \in Openers |-> <<>>]
      /\ synced' = backups'
      /\ copy' = [o \in Openers |-> IF flushed[o] THEN copy[o] ELSE {}]
      /\ UNCHANGED <<repo, ask, temp, flushed, name, origin>>
  BY DEF PowerLoss
<1>3. \A o \in Openers :
          /\ step'[o] \in {"idle"} \cup Ended
          /\ step'[o] = "idle" <=> step[o] = "idle"
          /\ step[o] \in Ended => step'[o] = step[o]
          /\ flushed[o] => copy'[o] = copy[o]
  <2> SUFFICES ASSUME NEW o \in Openers
               PROVE  /\ step'[o] \in {"idle"} \cup Ended
                      /\ step'[o] = "idle" <=> step[o] = "idle"
                      /\ step[o] \in Ended => step'[o] = step[o]
                      /\ flushed[o] => copy'[o] = copy[o]
    OBVIOUS
  <2>1. step[o] \in {"idle"} \cup Live \cup Ended
    BY DEF IInv, Shape
  <2> QED
    BY <1>2, <2>1 DEF Live, Reading, Locked, Ended
<1>4. \A n \in BackupNames :
          /\ backups'[n] \in {backups[n], synced[n]}
          /\ backups[n] = synced[n] => backups'[n] = backups[n]
          /\ synced'[n] = backups'[n]
  BY <1>1, <1>2
<1>5. Shape'
  <2>1. IsFile(repo') /\ lock' \in Openers \cup {NoOpener}
    BY <1>2 DEF IInv, Shape
  <2>2. /\ step' = [o \in Openers |-> step'[o]]
        /\ seen' = [o \in Openers |-> seen'[o]]
        /\ copy' = [o \in Openers |-> copy'[o]]
        /\ backups' = [n \in BackupNames |-> backups'[n]]
    BY <1>1, <1>2
  <2> QED
    BY <1>2, <1>3, <2>1, <2>2 DEF IInv, Shape
<1>6. LockHeld'
  BY <1>2, <1>3, OpenersAssumption DEF LockHeld, Locked, Ended
<1>7. NothingAccepted'
  BY <1>2 DEF IInv, NothingAccepted
<1>8. NamesOK'
  <2> SUFFICES ASSUME NEW n \in BackupNames, NEW o \in Openers, backups'[n] = o
               PROVE  flushed'[o] /\ step'[o] \in Ended
    BY <1>4 DEF NamesOK
  <2>1. flushed[o] /\ step[o] # "idle"
    BY <1>4 DEF IInv, NamesOK, Linked, Finishing, Ended
  <2> QED
    BY <1>2, <1>3, <2>1
<1>9. PromiseKept'
  <2> SUFFICES ASSUME origin.promised PROVE PromiseKept'
    BY <1>2 DEF PromiseKept
  <2>1. PICK n \in BackupNames :
            /\ backups[n] = synced[n]
            /\ synced[n] \in Openers
            /\ flushed[synced[n]]
            /\ copy[synced[n]] = {origin.file}
            /\ step[synced[n]] \in Ended
    BY DEF IInv, PromiseKept
  <2>2. backups'[n] = synced[n] /\ synced'[n] = synced[n]
    BY <1>4, <2>1
  <2> QED
    BY <1>2, <1>3, <2>1, <2>2 DEF PromiseKept
<1>10. ASSUME NEW o \in Openers PROVE ProcessOK(o)'
  BY <1>2, <1>3 DEF IInv, ProcessOK, Prepared, Underway, Admitted, Unnamed,
                    Backing, Linked, Finishing, Locked, Ended
<1> QED
  BY <1>5, <1>6, <1>7, <1>8, <1>9, <1>10 DEF IInv
-----------------------------------------------------------------------------
LEMMA InitEstablishesInv == Init => IInv
<1> SUFFICES ASSUME Init PROVE IInv
  OBVIOUS
<1>1. /\ repo \in Files /\ repo.accepted = {}
  BY OpenersAssumption DEF Init
<1>2. IsFile(repo)
  BY <1>1 DEF Files, IsFile, FileFields
<1>3. \A o \in Openers :
          step[o] = "idle" /\ name[o] = 0
  BY DEF Init
<1>4. Shape
  <2>1. ask = [o \in Openers |-> ask[o]]
    BY DEF Init
  <2> QED
    BY <1>2, <1>3, <2>1 DEF Init, Shape
<1>5. LockHeld
  BY <1>3, OpenersAssumption DEF Init, LockHeld, Locked
<1>6. \A o \in Openers : ProcessOK(o)
  BY <1>3 DEF ProcessOK, Prepared, Underway, Admitted, Unnamed, Backing, Linked,
              Finishing, Locked
<1>7. NamesOK
  BY OpenersAssumption DEF Init, NamesOK
<1>8. NothingAccepted /\ PromiseKept
  BY <1>1 DEF Init, NothingAccepted, PromiseKept
<1> QED
  BY <1>4, <1>5, <1>6, <1>7, <1>8 DEF IInv

LEMMA ProcessKeepsInv ==
    ASSUME IInv, NEW o \in Openers, Start(o) \/ Progress(o) \/ Mishap(o)
    PROVE  IInv'
<1>1. CASE Start(o) \/ Connect(o) \/ Query(o) \/ Judged(o) \/ BeginImmediate(o)
  BY <1>1, StartKeepsInv, ConnectKeepsInv, QueryKeepsInv, JudgedKeepsInv,
     BeginImmediateKeepsInv
<1>2. CASE \/ Recheck(o) \/ Preflight(o) \/ Admit(o) \/ Apply(o) \/ Gate(o)
           \/ Commit(o)
  BY <1>2, RecheckKeepsInv, PreflightKeepsInv, AdmitKeepsInv, ApplyKeepsInv,
     GateKeepsInv, CommitKeepsInv
<1>3. CASE \/ ChooseName(o) \/ MakeTemporary(o) \/ Copy(o) \/ Flush(o)
           \/ Verify(o) \/ Publish(o) \/ Sync(o) \/ Unlink(o)
  BY <1>3, ChooseNameKeepsInv, MakeTemporaryKeepsInv, CopyKeepsInv,
     FlushKeepsInv, VerifyKeepsInv, PublishKeepsInv, SyncKeepsInv,
     UnlinkKeepsInv
<1>4. CASE AbandonBackup(o)
  <2>1. /\ Fail(o) /\ step[o] \in Live
        /\ UNCHANGED <<repo, ask, synced, copy, flushed, name, origin>>
        /\ temp' = [temp EXCEPT ![o] = temp'[o]]
        /\ backups' = backups \/ backups' = Without(backups, o)
    BY <1>4, StepFacts DEF AbandonBackup, IInv, Shape
  <2> QED
    BY <2>1, FailKeepsInv
<1>5. CASE Busy(o) \/ Trouble(o)
  <2>1. /\ Fail(o) /\ step[o] \in Live
        /\ UNCHANGED <<repo, ask, backups, synced, temp, copy, flushed, name, origin>>
    BY <1>5 DEF Busy, Trouble, fileVars, Live
  <2> QED
    BY <2>1, Unmoved, FailKeepsInv DEF IInv
<1>6. CASE ClearTemporary(o)
  BY <1>6, ClearTemporaryKeepsInv
<1> QED
  BY <1>1, <1>2, <1>3, <1>4, <1>5, <1>6 DEF Progress, Backup, Mishap

LEMMA StutterKeepsInv ==
    ASSUME IInv, UNCHANGED vars
    PROVE  IInv'
<1>1. UNCHANGED <<repo, lock, step, ask, seen, backups, synced, temp, copy, flushed,
                  name, origin>>
  BY DEF vars, fileVars
<1> QED
  BY <1>1 DEF IInv, Shape, LockHeld, ProcessOK, Prepared, Underway, Admitted,
              Recoverable, NamesOK, NothingAccepted, PromiseKept

LEMMA NextKeepsInv ==
    ASSUME IInv, [Next]_vars
    PROVE  IInv'
<1>1. CASE \E o \in Openers : Start(o) \/ Progress(o) \/ Mishap(o)
  BY <1>1, ProcessKeepsInv
<1>2. CASE LegacyWrite \/ OperatorFile \/ PowerLoss
  BY <1>2, LegacyWriteKeepsInv, OperatorFileKeepsInv, PowerLossKeepsInv
<1>3. CASE UNCHANGED vars
  BY <1>3, StutterKeepsInv
<1> QED
  BY <1>1, <1>2, <1>3 DEF Next

LEMMA InvHolds == Spec => []IInv
<1>1. Init => IInv
  BY InitEstablishesInv
<1>2. IInv /\ [Next]_vars => IInv'
  BY NextKeepsInv
<1> QED
  BY <1>1, <1>2, PTL DEF Spec

(* Whoever migrated with a backup, or had material accepted, has a whole copy
   of the file as it was when the migration committed, under a name that is on
   disk: preflight_migration's promise, for any processes, asks and files. *)
THEOREM MigrationsAreRecoverable == Spec => []MigratedIsRecoverable
<1>1. IInv => MigratedIsRecoverable
  BY DEF IInv, PromiseKept, MigratedIsRecoverable
<1> QED
  BY <1>1, InvHolds, PTL
-----------------------------------------------------------------------------
LEMMA NextKeepsFiles ==
    ASSUME IInv, [Next]_vars, NEW n \in BackupNames, Settled(n)
    PROVE  /\ backups'[n] = backups[n]
           /\ synced'[n] = synced[n]
           /\ backups[n] \in Openers => copy'[backups[n]] = copy[backups[n]]
<1> DEFINE Stays == /\ backups'[n] = backups[n]
                    /\ synced'[n] = synced[n]
                    /\ backups[n] \in Openers => copy'[backups[n]] = copy[backups[n]]
<1> SUFFICES Stays
  OBVIOUS
<1>1. ASSUME UNCHANGED <<backups, synced, copy>> PROVE Stays
  BY <1>1
<1>2. CASE \E o \in Openers : Progress(o)
  <2> PICK o \in Openers : Progress(o)
    BY <1>2
  <2>1. CASE \/ Connect(o) \/ Query(o) \/ Judged(o) \/ BeginImmediate(o)
             \/ Recheck(o) \/ Preflight(o) \/ Admit(o) \/ Apply(o) \/ Gate(o)
             \/ Commit(o) \/ ChooseName(o) \/ MakeTemporary(o) \/ Flush(o)
             \/ Verify(o) \/ Unlink(o)
    <3>1. UNCHANGED <<backups, synced, copy>>
      BY <2>1 DEF Connect, Query, Judged, BeginImmediate, Recheck, Preflight,
                  Admit, Apply, Gate, Commit, ChooseName, MakeTemporary, Flush,
                  Verify, Unlink, fileVars
    <3> QED
      BY <3>1, <1>1
  <2>2. CASE Copy(o)
    <3>1. backups[n] # o
      BY <2>2 DEF Copy, IInv, NamesOK, Linked, Finishing, Ended
    <3>2. UNCHANGED <<backups, synced>> /\ copy' = [copy EXCEPT ![o] = copy'[o]]
      BY <2>2 DEF Copy, IInv, Shape
    <3> QED
      BY <3>1, <3>2 DEF IInv, Shape
  <2>3. CASE Publish(o)
    <3>1. n # name[o]
      BY <2>3 DEF Publish, IsUnused, Settled
    <3>2. backups'[n] = backups[n] /\ UNCHANGED <<synced, copy>>
      BY <2>3, <3>1 DEF Publish, IInv, Shape
    <3> QED
      BY <3>2
  <2>4. CASE Sync(o)
    BY <2>4 DEF Sync, DirectorySynced, Settled
  <2>5. CASE AbandonBackup(o)
    <3>1. backups'[n] = backups[n] /\ UNCHANGED <<synced, copy>>
      BY <2>5 DEF AbandonBackup, Without, Settled
    <3> QED
      BY <3>1
  <2> QED
    BY <2>1, <2>2, <2>3, <2>4, <2>5 DEF Progress, Backup
<1>3. CASE \E o \in Openers : AbandonBackup(o)
  <2>1. backups'[n] = backups[n] /\ UNCHANGED <<synced, copy>>
    BY <1>3 DEF AbandonBackup, Without, Settled
  <2> QED
    BY <2>1
<1>4. CASE \E o \in Openers : Start(o) \/ Busy(o) \/ Trouble(o) \/ ClearTemporary(o)
  <2>1. UNCHANGED <<backups, synced, copy>>
    BY <1>4 DEF Start, Busy, Trouble, ClearTemporary, fileVars
  <2> QED
    BY <2>1, <1>1
<1>5. CASE LegacyWrite
  BY <1>1, <1>5 DEF LegacyWrite, fileVars
<1>6. CASE OperatorFile
  <2>1. PICK m \in BackupNames :
            /\ backups[m] = NoFile
            /\ backups' = [backups EXCEPT ![m] = Foreign]
            /\ synced' = [synced EXCEPT ![m] = Foreign]
            /\ UNCHANGED copy
    BY <1>6 DEF OperatorFile
  <2> QED
    BY <2>1 DEF Settled
<1>7. CASE PowerLoss
  <2>1. backups'[n] = backups[n] /\ synced'[n] = synced[n]
    BY <1>7 DEF PowerLoss, Settled
  <2>2. ASSUME backups[n] \in Openers
        PROVE  copy'[backups[n]] = copy[backups[n]]
    BY <1>7, <2>2 DEF PowerLoss, IInv, NamesOK
  <2> QED
    BY <2>1, <2>2
<1>8. CASE UNCHANGED vars
  BY <1>1, <1>8 DEF vars, fileVars
<1> QED
  BY <1>2, <1>3, <1>4, <1>5, <1>6, <1>7, <1>8 DEF Next, Mishap

(* No step of a migration, of its cleaning up or of a loss of power replaces,
   removes or changes a finished backup or the operator's file. *)
THEOREM SettledFilesAreKept == Spec => KeptFiles
<1>1. IInv /\ [Next]_vars
          => [\A n \in BackupNames :
                 Settled(n) =>
                     /\ backups'[n] = backups[n]
                     /\ synced'[n] = synced[n]
                     /\ backups[n] \in Openers
                            => copy'[backups[n]] = copy[backups[n]]]_vars
  BY NextKeepsFiles
<1> QED
  BY <1>1, InvHolds, PTL DEF Spec, KeptFiles
-----------------------------------------------------------------------------
(* Who may change the layout.  What a process has read of a file whose objects
   were current is what the file still says; a process that waits for the lock
   saw a published layout that is not current; and a process asked to write or
   to create is past its first look only with a file it may open. *)

Answers == Objects \cup Int \cup {"v1_columns", "v2_columns"}

TypesOfRepo ==
    repo.objects \in Objects /\ repo.user_version \in Int /\ repo.metadata \in Int

AbsentIsEmpty == ~repo.exists => KindOf(repo) = "EMPTY"

SeenCurrent(o) ==
    /\ seen[o] \in Seq(Answers) /\ Len(seen[o]) <= 4
    /\ Len(seen[o]) > 0 /\ seen[o][1] = "v03" =>
           /\ repo.objects = "v03"
           /\ \A i \in 1 .. Len(seen[o]) : seen[o][i] = Fingerprint(repo)[i]

Opening == {"connect", "open", "lock"} \cup Locked

MayOpen(o) ==
    /\ step[o] # "idle" => ask[o] \in Asks
    /\ step[o] \in Opening /\ ask[o].lifecycle = "write" => KindOf(repo) = "V03"
    /\ step[o] \in Opening /\ ask[o].lifecycle = "create" =>
           KindOf(repo) \in {"EMPTY", "V03"}

MayMigrate(o) ==
    step[o] \in {"lock"} \cup Locked =>
        /\ Classify(seen[o]) \in AllowedMigrations \cup {"EMPTY"}
        /\ ask[o].lifecycle # "readonly"

LayoutInv ==
    /\ TypesOfRepo
    /\ AbsentIsEmpty
    /\ \A o \in Openers : SeenCurrent(o) /\ MayOpen(o) /\ MayMigrate(o)

(* The digest and the objects in it decide the kind. *)
LEMMA KindIsSeen ==
    ASSUME NEW s, NEW file, Digest(Fingerprint(file)) = Digest(s),
           Classify(s) \notin {"PARTIAL", "UNKNOWN"}
    PROVE  KindOf(file) = Classify(s)
<1>1. PICK p \in PublishedLayouts : Matches(p, s)
  BY DEF Classify
<1>2. Digest(s) = <<p.objects, p.user_version, p.metadata>>
  BY <1>1 DEF Matches
<1>3. Digest(Fingerprint(file))[1] = file.objects
  BY DEF Digest, Fingerprint
<1>4. file.objects = p.objects
  BY <1>2, <1>3
<1>5. Matches(p, Fingerprint(file))
  BY <1>2, <1>4 DEF Matches, Fingerprint
<1>6. ASSUME NEW t, Matches(p, t) PROVE Classify(t) = p.kind
  <2>1. ASSUME NEW q \in PublishedLayouts, Matches(q, t) PROVE q = p
    <3>1. q.objects = p.objects
      BY <1>6, <2>1 DEF Matches
    <3> QED
      BY <3>1, <2>1, <1>1 DEF PublishedLayouts, Published
  <2>2. (CHOOSE q \in PublishedLayouts : Matches(q, t)) = p
    BY <2>1, <1>6
  <2> QED
    BY <2>2, <1>6 DEF Classify
<1> QED
  BY <1>1, <1>5, <1>6 DEF KindOf

LEMMA KindsOfLayouts ==
    ASSUME NEW file
    PROVE  /\ KindOf(file) \in SchemaKinds
           /\ file.objects = "v03" =>
                  KindOf(file) \notin AllowedMigrations \cup {"EMPTY"}
           /\ KindOf(file) = "V03" => file.objects = "v03"
<1> DEFINE s == Fingerprint(file)
           p == CHOOSE q \in PublishedLayouts : Matches(q, s)
<1>1. s[1] = file.objects /\ Digest(s)[1] = file.objects
  BY DEF Fingerprint, Digest
<1>2. CASE ~\E q \in PublishedLayouts : Matches(q, s)
  <2>1. KindOf(file) \in {"UNKNOWN", "PARTIAL"}
    BY <1>2 DEF KindOf, Classify
  <2> QED
    BY <2>1 DEF SchemaKinds, AllowedMigrations, LegacyKinds
<1>3. CASE \E q \in PublishedLayouts : Matches(q, s)
  <2>1. p \in PublishedLayouts /\ Matches(p, s)
    BY <1>3
  <2>2. KindOf(file) = p.kind
    BY <1>3 DEF KindOf, Classify
  <2> HIDE DEF p
  <2>3. p.objects = file.objects
    BY <2>1, <1>1 DEF Matches
  <2> QED
    BY <2>1, <2>2, <2>3
       DEF PublishedLayouts, Published, SchemaKinds, AllowedMigrations, LegacyKinds
<1> QED
  BY <1>2, <1>3

LEMMA CurrentKind ==
    ASSUME NEW file, file.objects = "v03", file.user_version = 3, file.metadata = 3
    PROVE  KindOf(file) = "V03"
<1> DEFINE s == Fingerprint(file)
           p == Published("v03", 3, 3, "V03")
<1>1. s = <<"v03", 3, 3, "v2_columns">>
  BY DEF Fingerprint, HasMetadata, Columns
<1>2. Digest(s) = <<"v03", 3, 3>>
  <2>1. /\ SubSeq(s, 1, 3) \in Seq({"v03", 3}) /\ Len(SubSeq(s, 1, 3)) = 3
        /\ \A i \in 1 .. 3 : SubSeq(s, 1, 3)[i] = s[i]
    <3>1. \A i \in 1 .. 3 : s[i] \in {"v03", 3}
      BY <1>1
    <3> HIDE DEF s
    <3> QED
      BY <3>1, SubSeqProperties, Z3
  <2> DEFINE d == SubSeq(s, 1, 3)
  <2>2. d[1] = "v03" /\ d[2] = 3 /\ d[3] = 3
    BY <1>1, <2>1
  <2>3. d \in Seq({"v03", 3}) /\ Len(d) = 3
    BY <2>1
  <2> HIDE DEF d, s
  <2>4. d = <<"v03", 3, 3>>
    <3>1. \A i \in 1 .. 3 : d[i] = <<"v03", 3, 3>>[i]
      BY <2>2
    <3> QED
      BY <3>1, <2>3, SeqEqual
  <2> QED
    BY <2>4 DEF d, Digest
<1>3. p \in PublishedLayouts /\ Matches(p, s)
  BY <1>1, <1>2 DEF PublishedLayouts, Published, Matches, Columns
<1>4. ASSUME NEW q \in PublishedLayouts, Matches(q, s) PROVE q = p
  <2>1. q.objects = "v03"
    BY <1>2, <1>4 DEF Matches
  <2> QED
    BY <2>1, <1>4 DEF PublishedLayouts, Published
<1>5. (CHOOSE q \in PublishedLayouts : Matches(q, s)) = p
  BY <1>3, <1>4
<1>6. p.kind = "V03"
  BY DEF Published
<1> HIDE DEF p
<1> QED
  BY <1>3, <1>5, <1>6 DEF KindOf, Classify

(* A commit finds an old or an empty file and leaves a current one, at the
   hands of a process asked to do so. *)
LEMMA CommitFacts ==
    ASSUME IInv, LayoutInv, NEW o \in Openers, Commit(o)
    PROVE  /\ KindOf(repo) \in AllowedMigrations \cup {"EMPTY"}
           /\ repo.objects # "v03"
           /\ repo'.objects = "v03" /\ repo'.exists
           /\ repo'.user_version = 3 /\ repo'.metadata = 3
           /\ KindOf(repo') = "V03"
           /\ lock = o
           /\ \/ ask[o].lifecycle \in {"library", "migrate"}
              \/ ask[o].lifecycle = "create" /\ KindOf(repo) = "EMPTY"
<1>1. step[o] = "commit" /\ repo' = Work(o)
  BY DEF Commit
<1>2. /\ lock = o /\ repo.exists /\ Digest(Fingerprint(repo)) = Digest(seen[o])
  BY <1>1, Running DEF ProcessOK, Prepared, Locked
<1>3. /\ Classify(seen[o]) \in AllowedMigrations \cup {"EMPTY"}
      /\ ask[o].lifecycle # "readonly"
      /\ ask[o] \in Asks
      /\ ask[o].lifecycle = "write" => KindOf(repo) = "V03"
      /\ ask[o].lifecycle = "create" => KindOf(repo) \in {"EMPTY", "V03"}
  BY <1>1 DEF LayoutInv, MayMigrate, MayOpen, Opening, Locked
<1>4. KindOf(repo) = Classify(seen[o])
  BY <1>2, <1>3, KindIsSeen DEF AllowedMigrations, LegacyKinds
<1>5. ask[o].lifecycle \in Lifecycles
  BY <1>3, OpenersAssumption DEF AskRows
<1>6. /\ repo'.objects = "v03" /\ repo'.exists = repo.exists
      /\ repo'.user_version = 3 /\ repo'.metadata = 3
  BY <1>1, MigratedFile DEF Work, IInv, Shape
<1>7. KindOf(repo') = "V03"
  BY <1>6, CurrentKind
<1>8. \/ ask[o].lifecycle \in {"library", "migrate"}
      \/ ask[o].lifecycle = "create" /\ KindOf(repo) = "EMPTY"
  BY <1>3, <1>4, <1>5 DEF Lifecycles, AllowedMigrations, LegacyKinds
<1>9. KindOf(repo) \in AllowedMigrations \cup {"EMPTY"} /\ repo.objects # "v03"
  BY <1>3, <1>4, KindsOfLayouts
<1> QED
  BY <1>2, <1>6, <1>7, <1>8, <1>9

(* Nothing else changes what a fingerprint sees, nor the birth certificates. *)
LEMMA OnlyCommitsShow ==
    ASSUME IInv, LayoutInv, [Next]_vars, ~\E o \in Openers : Commit(o)
    PROVE  /\ repo'.objects = repo.objects
           /\ repo'.user_version = repo.user_version
           /\ repo'.metadata = repo.metadata
           /\ repo'.births = repo.births
           /\ Fingerprint(repo') = Fingerprint(repo)
           /\ KindOf(repo') = KindOf(repo)
           /\ repo.exists => repo'.exists
<1>1. \/ repo' = repo
      \/ \E o \in Openers :
            repo' = [repo EXCEPT !.exists = @ \/ ask[o].lifecycle # "readonly"]
      \/ \E r : repo' = [repo EXCEPT !.rows = @ \cup {r}]
  <2>1. CASE UNCHANGED vars
    BY <2>1 DEF vars
  <2>2. CASE LegacyWrite
    BY <2>2 DEF LegacyWrite
  <2>3. CASE OperatorFile \/ PowerLoss
    BY <2>3 DEF OperatorFile, PowerLoss
  <2>4. CASE \E o \in Openers : Start(o) \/ Mishap(o)
    BY <2>4 DEF Start, Mishap, Busy, AbandonBackup, Trouble, ClearTemporary
  <2>5. CASE \E o \in Openers : Connect(o)
    BY <2>5 DEF Connect
  <2>6. CASE \E o \in Openers : Progress(o) /\ ~Connect(o)
    BY <2>6 DEF Progress, Backup, Query, Judged, BeginImmediate, Recheck,
                Preflight, Admit, Apply, Gate, ChooseName, MakeTemporary, Copy,
                Flush, Verify, Publish, Sync, Unlink, AbandonBackup
  <2> QED
    BY <2>1, <2>2, <2>3, <2>4, <2>5, <2>6 DEF Next
<1>2. /\ repo'.objects = repo.objects
      /\ repo'.user_version = repo.user_version
      /\ repo'.metadata = repo.metadata
      /\ repo'.births = repo.births
      /\ repo.exists => repo'.exists
  BY <1>1 DEF IInv, Shape, IsFile, FileFields
<1>3. Fingerprint(repo') = Fingerprint(repo)
  BY <1>2 DEF Fingerprint
<1> QED
  BY <1>2, <1>3 DEF KindOf

LEMMA ClassifyKinds ==
    ASSUME NEW s
    PROVE  Classify(s) \in SchemaKinds
<1>1. CASE \E p \in PublishedLayouts : Matches(p, s)
  <2>1. (CHOOSE p \in PublishedLayouts : Matches(p, s)) \in PublishedLayouts
    BY <1>1
  <2> QED
    BY <1>1, <2>1 DEF Classify, SchemaKinds
<1>2. CASE ~\E p \in PublishedLayouts : Matches(p, s)
  BY <1>2 DEF Classify, SchemaKinds
<1> QED
  BY <1>1, <1>2

LayoutOK(p) == SeenCurrent(p) /\ MayOpen(p) /\ MayMigrate(p)

(* What the repository does under a process that goes on as before. *)
RepoOK ==
    /\ repo.exists => repo'.exists
    /\ \/ Fingerprint(repo') = Fingerprint(repo) /\ repo'.objects = repo.objects
          /\ KindOf(repo') = KindOf(repo)
       \/ repo.objects # "v03" /\ KindOf(repo') = "V03"

LEMMA NextRepoOK ==
    ASSUME IInv, LayoutInv, [Next]_vars
    PROVE  RepoOK /\ TypesOfRepo' /\ AbsentIsEmpty'
<1>1. CASE \E o \in Openers : Commit(o)
  <2>1. /\ repo.objects # "v03" /\ repo'.objects = "v03" /\ repo'.exists
        /\ repo'.user_version = 3 /\ repo'.metadata = 3
        /\ KindOf(repo') = "V03"
    BY <1>1, CommitFacts
  <2>2. "v03" \in Objects
    BY DEF Objects, PublishedLayouts, Published
  <2> QED
    BY <2>1, <2>2 DEF RepoOK, TypesOfRepo, AbsentIsEmpty
<1>2. CASE ~\E o \in Openers : Commit(o)
  <2>1. /\ repo'.objects = repo.objects
        /\ repo'.user_version = repo.user_version
        /\ repo'.metadata = repo.metadata
        /\ Fingerprint(repo') = Fingerprint(repo)
        /\ KindOf(repo') = KindOf(repo)
        /\ repo.exists => repo'.exists
    BY <1>2, OnlyCommitsShow
  <2> QED
    BY <2>1 DEF RepoOK, TypesOfRepo, AbsentIsEmpty, LayoutInv
<1> QED
  BY <1>1, <1>2

LEMMA SeenKept ==
    ASSUME RepoOK, NEW p, SeenCurrent(p), seen'[p] \in {seen[p], <<>>}
    PROVE  SeenCurrent(p)'
<1>1. CASE seen'[p] = <<>>
  BY <1>1 DEF SeenCurrent
<1>2. CASE seen'[p] = seen[p]
  BY <1>2 DEF SeenCurrent, RepoOK
<1> QED
  BY <1>1, <1>2

(* A process that reads on, or goes on by what it read, or has stopped. *)
LEMMA QuietStep ==
    ASSUME RepoOK, NEW p, LayoutOK(p), ask'[p] = ask[p],
           step'[p] # "idle" => step[p] # "idle",
           step'[p] \in Opening => step[p] \in Opening,
           step'[p] \in {"lock"} \cup Locked =>
               step[p] \in {"lock"} \cup Locked /\ seen'[p] = seen[p],
           seen'[p] \in {seen[p], <<>>}
    PROVE  LayoutOK(p)'
<1>1. SeenCurrent(p)'
  BY SeenKept DEF LayoutOK
<1>2. KindOf(repo) = "V03" => KindOf(repo') = "V03"
  BY DEF RepoOK
<1>3. KindOf(repo') = KindOf(repo) \/ KindOf(repo') = "V03"
  BY DEF RepoOK
<1>4. MayOpen(p)'
  BY <1>2, <1>3 DEF LayoutOK, MayOpen
<1>5. MayMigrate(p)'
  BY DEF LayoutOK, MayMigrate
<1> QED
  BY <1>1, <1>4, <1>5 DEF LayoutOK

LEMMA StartLayout ==
    ASSUME IInv, LayoutInv, RepoOK, NEW o \in Openers, Start(o)
    PROVE  LayoutOK(o)'
<1>1. PICK a \in Asks, next \in {"connect", "look", "stopped"} :
          /\ step[o] = "idle"
          /\ ask' = [ask EXCEPT ![o] = a]
          /\ step' = [step EXCEPT ![o] = next]
          /\ next = "connect" =>
                 \/ a.lifecycle \in {"library", "migrate"}
                 \/ a.lifecycle = "create" /\ ~repo.exists
          /\ UNCHANGED <<repo, lock, seen, fileVars, origin>>
  <2>1. PICK a \in Asks :
            /\ ask' = [ask EXCEPT ![o] = a]
            /\ CASE a.lifecycle = "library" -> Go(o, "connect")
                 [] a.lifecycle = "migrate" ->
                        Go(o, IF repo.exists THEN "connect" ELSE "stopped")
                 [] a.lifecycle = "create"  ->
                        Go(o, IF repo.exists THEN "look" ELSE "connect")
                 [] OTHER ->
                        Go(o, IF repo.exists THEN "look" ELSE "stopped")
    BY DEF Start
  <2>2. a.lifecycle \in Lifecycles
    BY OpenersAssumption DEF AskRows
  <2>3. CASE a.lifecycle = "library"
    BY <2>1, <2>3 DEF Go, Start
  <2>4. CASE a.lifecycle = "migrate"
    BY <2>1, <2>4 DEF Go, Start
  <2>5. CASE a.lifecycle = "create"
    BY <2>1, <2>5 DEF Go, Start
  <2>6. CASE a.lifecycle \in {"write", "readonly"}
    BY <2>1, <2>6 DEF Go, Start
  <2> QED
    BY <2>2, <2>3, <2>4, <2>5, <2>6 DEF Lifecycles
<1>2. ask'[o] = a /\ step'[o] = next /\ repo' = repo /\ seen' = seen
  BY <1>1 DEF IInv, Shape
<1>3. SeenCurrent(o)'
  BY <1>2 DEF LayoutInv, SeenCurrent
<1>4. MayOpen(o)'
  BY <1>1, <1>2 DEF MayOpen, LayoutInv, AbsentIsEmpty, Opening, Locked
<1>5. MayMigrate(o)'
  BY <1>2 DEF MayMigrate, Locked
<1> QED
  BY <1>3, <1>4, <1>5 DEF LayoutOK

(* The answer to the next query of a file whose objects are current is what its
   fingerprint says. *)
LEMMA AnswersOfCurrent ==
    ASSUME NEW file, NEW s \in Seq(Answers), Len(s) < 4,
           file.objects \in Objects, file.user_version \in Int, file.metadata \in Int
    PROVE  /\ Answer(s, file) \in Answers
           /\ Len(s) = 0 => Answer(s, file) = Fingerprint(file)[1]
           /\ s[1] = "v03" /\ file.objects = "v03" =>
                  Answer(s, file) = Fingerprint(file)[Len(s) + 1]
<1>1. Len(s) \in 0 .. 3
  <2> DEFINE n == Len(s)
  <2>1. n \in Nat
    BY LenProperties, Zenon
  <2>2. n < 4
    OBVIOUS
  <2> HIDE DEF n
  <2>3. n \in 0 .. 3
    BY <2>1, <2>2
  <2> QED
    BY <2>3 DEF n
<1>2. NoMetadata \in Answers /\ "none" \in Answers
      /\ Columns(file.objects) \in Answers
  BY DEF NoMetadata, Answers, Columns, Objects, PublishedLayouts, Published
<1>3. CASE Len(s) = 0
  <2>1. Answer(s, file) = file.objects
    BY <1>3 DEF Answer, Queries
  <2> QED
    BY <2>1, <1>3 DEF Fingerprint, Answers
<1>4. CASE Len(s) = 1
  <2>1. Answer(s, file) = file.user_version
    BY <1>4 DEF Answer, Queries
  <2> QED
    BY <2>1, <1>4 DEF Fingerprint, Answers
<1>5. CASE Len(s) = 2
  <2>1. Answer(s, file) = IF HasMetadata(s[1]) THEN file.metadata ELSE NoMetadata
    BY <1>5 DEF Answer, Queries
  <2> QED
    BY <2>1, <1>2, <1>5 DEF Fingerprint, Answers
<1>6. CASE Len(s) = 3
  <2>1. Answer(s, file) = IF s[1] = "none" THEN "none" ELSE Columns(file.objects)
    BY <1>6 DEF Answer, Queries
  <2> QED
    BY <2>1, <1>2, <1>6 DEF Fingerprint
<1> QED
  BY <1>1, <1>3, <1>4, <1>5, <1>6

LEMMA QueryLayout ==
    ASSUME IInv, LayoutInv, RepoOK, NEW o \in Openers, Query(o)
    PROVE  LayoutOK(o)'
<1> DEFINE answer == Answer(seen[o], repo)
<1>1. /\ step[o] \in Reading /\ Len(seen[o]) < 4
      /\ seen'[o] = Append(seen[o], answer)
      /\ repo' = repo /\ step' = step /\ ask' = ask
  BY DEF Query, Queries, IInv, Shape
<1>2. LayoutOK(o) /\ seen[o] \in Seq(Answers)
  BY DEF LayoutInv, LayoutOK, SeenCurrent
<1>3. /\ answer \in Answers
      /\ Len(seen[o]) = 0 => answer = Fingerprint(repo)[1]
      /\ seen[o][1] = "v03" /\ repo.objects = "v03" =>
             answer = Fingerprint(repo)[Len(seen[o]) + 1]
  BY <1>1, <1>2, AnswersOfCurrent DEF LayoutInv, TypesOfRepo
<1> HIDE DEF answer
<1>4. /\ seen'[o] \in Seq(Answers) /\ Len(seen'[o]) = Len(seen[o]) + 1
      /\ \A i \in 1 .. Len(seen[o]) : seen'[o][i] = seen[o][i]
      /\ seen'[o][Len(seen[o]) + 1] = answer
  BY <1>1, <1>2, <1>3, AppendProperties
<1>5. SeenCurrent(o)'
  <2> SUFFICES ASSUME seen'[o][1] = "v03"
               PROVE  /\ repo.objects = "v03"
                      /\ \A i \in 1 .. Len(seen'[o]) : seen'[o][i] = Fingerprint(repo)[i]
    BY <1>1, <1>4 DEF SeenCurrent
  <2>1. CASE Len(seen[o]) = 0
    <3>1. answer = "v03" /\ Fingerprint(repo)[1] = repo.objects
      BY <1>4, <2>1 DEF Fingerprint
    <3> QED
      BY <1>3, <1>4, <2>1, <3>1
  <2>2. CASE Len(seen[o]) > 0
    <3>1. seen[o][1] = "v03"
      BY <1>2, <1>4, <2>2
    <3>2. /\ repo.objects = "v03"
          /\ \A i \in 1 .. Len(seen[o]) : seen[o][i] = Fingerprint(repo)[i]
      BY <1>2, <2>2, <3>1 DEF LayoutOK, SeenCurrent
    <3> QED
      BY <1>2, <1>3, <1>4, <3>1, <3>2
  <2> QED
    BY <1>2, <2>1, <2>2
<1>6. MayOpen(o)'
  BY <1>1, <1>2 DEF LayoutOK, MayOpen
<1>7. MayMigrate(o)'
  BY <1>1 DEF MayMigrate, Reading, Locked
<1> QED
  BY <1>5, <1>6, <1>7 DEF LayoutOK

(* What looks current is. *)
LEMMA LookedCurrent ==
    ASSUME LayoutInv, NEW o \in Openers, Len(seen[o]) = 4,
           Classify(seen[o]) = "V03"
    PROVE  KindOf(repo) = "V03"
<1>1. PICK p \in PublishedLayouts : Matches(p, seen[o]) /\ p.kind = "V03"
  <2>1. \E p \in PublishedLayouts : Matches(p, seen[o])
    BY DEF Classify
  <2>2. (CHOOSE p \in PublishedLayouts : Matches(p, seen[o])).kind = Classify(seen[o])
    BY <2>1 DEF Classify
  <2> QED
    BY <2>1, <2>2
<1>2. p.objects = "v03"
  BY <1>1 DEF PublishedLayouts, Published
<1>3. seen[o] \in Seq(Answers)
  BY DEF LayoutInv, SeenCurrent
<1>4. Digest(seen[o])[1] = seen[o][1]
  BY <1>3 DEF Digest
<1>5. seen[o][1] = "v03"
  BY <1>1, <1>2, <1>4 DEF Matches
<1>6. \A i \in 1 .. 4 : seen[o][i] = Fingerprint(repo)[i]
  BY <1>5 DEF LayoutInv, SeenCurrent
<1>7. Digest(Fingerprint(repo)) = Digest(seen[o])
  BY <1>6 DEF Digest
<1> QED
  BY <1>7, KindIsSeen

LEMMA JudgedLayout ==
    ASSUME IInv, LayoutInv, RepoOK, NEW o \in Openers, Judged(o)
    PROVE  LayoutOK(o)'
<1> DEFINE kind == Classify(seen[o])
           current == ask[o].lifecycle = "readonly" \/ kind = "V03"
<1>1. /\ step[o] \in Reading /\ Len(seen[o]) = 4
      /\ CASE step[o] = "look" ->
                  Go(o, IF LooksCurrent(kind) THEN "connect" ELSE "stopped")
           [] step[o] = "open" ->
                  Go(o, IF current
                        THEN IF kind = "V03" THEN "validate" ELSE "stopped"
                        ELSE IF kind \in {"PARTIAL", "UNKNOWN"}
                        THEN "stopped" ELSE "lock")
           [] step[o] = "validate" ->
                  Go(o, IF kind = "V03" THEN "done" ELSE "stopped")
      /\ seen' = IF step'[o] = "lock" THEN seen ELSE [seen EXCEPT ![o] = <<>>]
      /\ repo' = repo /\ ask' = ask
  BY DEF Judged, Queries
<1>2. LayoutOK(o) /\ step[o] # "idle"
  BY <1>1 DEF LayoutInv, LayoutOK, Reading
<1>3. /\ seen'[o] \in {seen[o], <<>>}
      /\ step'[o] = "lock" => seen'[o] = seen[o]
  BY <1>1 DEF IInv, Shape
<1>4. kind = "V03" => KindOf(repo) = "V03"
  BY <1>1, LookedCurrent
<1>5. kind \in SchemaKinds
  BY ClassifyKinds
<1> HIDE DEF kind
<1>6. CASE step[o] = "look"
  <2>1. \/ kind = "V03" /\ step'[o] = "connect"
        \/ step'[o] = "stopped"
    BY <1>1, <1>6 DEF Go, LooksCurrent, IInv, Shape
  <2>2. SeenCurrent(o)'
    BY <1>2, <1>3, SeenKept DEF LayoutOK
  <2>3. MayOpen(o)'
    BY <1>1, <1>2, <1>4, <2>1 DEF LayoutOK, MayOpen, Opening, Locked
  <2>4. MayMigrate(o)'
    BY <2>1 DEF MayMigrate, Locked
  <2> QED
    BY <2>2, <2>3, <2>4 DEF LayoutOK
<1>7. CASE step[o] = "open"
  <2>1. \/ step'[o] \in {"validate", "stopped"}
        \/ /\ step'[o] = "lock"
           /\ kind \notin {"V03", "PARTIAL", "UNKNOWN"}
           /\ ask[o].lifecycle # "readonly"
    BY <1>1, <1>7 DEF Go, IInv, Shape
  <2>2. SeenCurrent(o)'
    BY <1>2, <1>3, SeenKept DEF LayoutOK
  <2>3. MayOpen(o)'
    BY <1>1, <1>2, <1>7, <2>1 DEF LayoutOK, MayOpen, Opening, Locked
  <2>4. MayMigrate(o)'
    BY <1>1, <1>3, <1>5, <2>1
       DEF MayMigrate, Locked, kind, SchemaKinds, PublishedLayouts, Published,
           AllowedMigrations, LegacyKinds
  <2> QED
    BY <2>2, <2>3, <2>4 DEF LayoutOK
<1>8. CASE step[o] = "validate"
  <2>1. step'[o] \in {"done", "stopped"}
    BY <1>1, <1>8 DEF Go, IInv, Shape
  <2> QED
    BY <1>1, <1>2, <1>3, <2>1, QuietStep DEF Opening, Locked
<1> QED
  BY <1>1, <1>6, <1>7, <1>8 DEF Reading

(* A process that takes a step under the lock, or fails. *)
LEMMA OtherStepLayout ==
    ASSUME IInv, LayoutInv, RepoOK, NEW o \in Openers,
           \/ Connect(o) \/ BeginImmediate(o) \/ Recheck(o) \/ Preflight(o)
           \/ Backup(o) \/ Admit(o) \/ Apply(o) \/ Gate(o) \/ Commit(o)
           \/ Mishap(o)
    PROVE  LayoutOK(o)'
<1>1. LayoutOK(o)
  BY DEF LayoutInv, LayoutOK
<1>2. ASSUME Fail(o), ask' = ask, step[o] \in Live PROVE LayoutOK(o)'
  <2>1. step'[o] = "stopped" /\ seen'[o] = <<>> /\ step[o] # "idle"
    BY <1>2, StepFacts DEF Fail, Go, IInv, Shape
  <2> QED
    BY <1>1, <1>2, <2>1, QuietStep DEF Opening, Locked
<1>3. ASSUME step[o] \in {"connect", "lock"} \cup Locked, ask' = ask, seen' = seen,
             \/ step[o] = "connect" /\ step'[o] = "open"
             \/ step[o] # "connect" /\ step'[o] \in Locked
      PROVE  LayoutOK(o)'
  <2>1. /\ step[o] # "idle" /\ step[o] \in Opening
        /\ step'[o] \in {"lock"} \cup Locked => step[o] \in {"lock"} \cup Locked
    BY <1>3 DEF Opening, Locked
  <2> QED
    BY <1>1, <1>3, <2>1, QuietStep
<1>4. CASE Connect(o)
  BY <1>3, <1>4 DEF Connect, Go, IInv, Shape
<1>5. CASE BeginImmediate(o)
  BY <1>3, <1>5 DEF BeginImmediate, Go, Locked, IInv, Shape
<1>6. CASE Recheck(o)
  <2>1. CASE Unchanged(o)
    BY <1>3, <1>6, <2>1 DEF Recheck, GoOn, Go, Locked, IInv, Shape
  <2>2. CASE ~Unchanged(o)
    BY <1>2, <1>6, <2>2 DEF Recheck, Live, Locked
  <2> QED
    BY <2>1, <2>2
<1>7. CASE Preflight(o)
  <2>1. CASE IsReady(ask[o], repo)
    BY <1>3, <1>7, <2>1 DEF Preflight, GoOn, Go, Locked, IInv, Shape
  <2>2. CASE ~IsReady(ask[o], repo)
    BY <1>2, <1>7, <2>2 DEF Preflight, Live, Locked
  <2> QED
    BY <2>1, <2>2
<1>8. CASE \/ ChooseName(o) \/ MakeTemporary(o) \/ Copy(o) \/ Flush(o)
           \/ Verify(o) \/ Publish(o) \/ Sync(o) \/ Unlink(o)
  <2>1. /\ step[o] \in Locked /\ step[o] # "connect"
        /\ step'[o] \in Locked /\ ask' = ask /\ seen' = seen
    BY <1>8 DEF ChooseName, MakeTemporary, Copy, Flush, Verify, Publish, Sync,
                Unlink, Go, Locked, IInv, Shape
  <2> QED
    BY <1>3, <2>1
<1>9. CASE AbandonBackup(o)
  BY <1>2, <1>9, StepFacts DEF AbandonBackup
<1>10. CASE Admit(o)
  <2>1. CASE NeedAcceptance(repo) = {} \/ HasBackup(o)
    BY <1>3, <1>10, <2>1 DEF Admit, GoOn, Go, Locked, IInv, Shape
  <2>2. CASE ~(NeedAcceptance(repo) = {} \/ HasBackup(o))
    BY <1>2, <1>10, <2>2 DEF Admit, Live, Locked
  <2> QED
    BY <2>1, <2>2
<1>11. CASE Apply(o)
  BY <1>3, <1>11 DEF Apply, Go, Locked, IInv, Shape
<1>12. CASE Gate(o)
  <2>1. CASE GatePasses(Work(o))
    BY <1>3, <1>12, <2>1 DEF Gate, GoOn, Go, Locked, IInv, Shape
  <2>2. CASE ~GatePasses(Work(o))
    BY <1>2, <1>12, <2>2 DEF Gate, Live, Locked
  <2> QED
    BY <2>1, <2>2
<1>13. CASE Commit(o)
  <2>1. /\ step[o] = "commit" /\ step'[o] = "done" /\ seen'[o] = <<>>
        /\ ask' = ask
    BY <1>13 DEF Commit, Go, IInv, Shape
  <2> QED
    BY <1>1, <2>1, QuietStep DEF Opening, Locked
<1>14. CASE Busy(o) \/ Trouble(o)
  BY <1>2, <1>14 DEF Busy, Trouble, Live
<1>15. CASE ClearTemporary(o)
  BY <1>1, <1>15, QuietStep DEF ClearTemporary
<1> QED
  BY <1>4, <1>5, <1>6, <1>7, <1>8, <1>9, <1>10, <1>11, <1>12, <1>13, <1>14, <1>15
     DEF Backup, Mishap

(* Nobody changes another process, but for a loss of power. *)
LEMMA OthersStay ==
    ASSUME IInv, NEW o \in Openers, Start(o) \/ Progress(o) \/ Mishap(o),
           NEW p \in Openers, p # o
    PROVE  step'[p] = step[p] /\ ask'[p] = ask[p] /\ seen'[p] = seen[p]
<1> USE DEF Go, GoOn, Fail, IInv, Shape
<1>1. CASE Start(o)
  BY <1>1 DEF Start
<1>2. CASE Connect(o) \/ Query(o) \/ BeginImmediate(o)
  BY <1>2 DEF Connect, Query, BeginImmediate
<1>3. CASE Judged(o)
  BY <1>3 DEF Judged, Reading
<1>4. CASE Recheck(o) \/ Preflight(o) \/ Admit(o)
  BY <1>4 DEF Recheck, Preflight, Admit
<1>5. CASE Apply(o) \/ Gate(o) \/ Commit(o)
  BY <1>5 DEF Apply, Gate, Commit
<1>6. CASE \/ ChooseName(o) \/ MakeTemporary(o) \/ Copy(o) \/ Flush(o)
           \/ Verify(o) \/ Publish(o) \/ Sync(o) \/ Unlink(o)
  BY <1>6 DEF ChooseName, MakeTemporary, Copy, Flush, Verify, Publish, Sync, Unlink
<1>7. CASE AbandonBackup(o) \/ Busy(o) \/ Trouble(o) \/ ClearTemporary(o)
  BY <1>7 DEF AbandonBackup, Busy, Trouble, ClearTemporary
<1> QED
  BY <1>1, <1>2, <1>3, <1>4, <1>5, <1>6, <1>7 DEF Progress, Backup, Mishap

LEMMA NextKeepsLayoutInv ==
    ASSUME IInv, LayoutInv, [Next]_vars
    PROVE  LayoutInv'
<1>1. RepoOK /\ TypesOfRepo' /\ AbsentIsEmpty'
  BY NextRepoOK
<1>2. ASSUME NEW p \in Openers PROVE LayoutOK(p)'
  <2>1. LayoutOK(p)
    BY DEF LayoutInv, LayoutOK
  <2>2. CASE \E o \in Openers : Start(o) \/ Progress(o) \/ Mishap(o)
    <3> PICK o \in Openers : Start(o) \/ Progress(o) \/ Mishap(o)
      BY <2>2
    <3>1. CASE p = o
      BY <1>1, <3>1, StartLayout, QueryLayout, JudgedLayout, OtherStepLayout
         DEF Progress
    <3>2. CASE p # o
      BY <1>1, <2>1, <3>2, OthersStay, QuietStep
    <3> QED
      BY <3>1, <3>2
  <2>3. CASE PowerLoss
    <3>1. /\ step'[p] = IF step[p] \in Live THEN "stopped" ELSE step[p]
          /\ step[p] \in {"idle"} \cup Live \cup Ended
          /\ seen'[p] = <<>> /\ ask' = ask
      BY <2>3 DEF PowerLoss, IInv, Shape
    <3>2. /\ step'[p] # "idle" => step[p] # "idle"
          /\ step'[p] \notin Opening
      BY <3>1 DEF Live, Reading, Locked, Ended, Opening
    <3>3. {"lock"} \cup Locked \subseteq Opening
      BY DEF Opening
    <3> QED
      BY <1>1, <2>1, <3>1, <3>2, <3>3, QuietStep
  <2>4. CASE LegacyWrite \/ OperatorFile \/ UNCHANGED vars
    <3>1. step' = step /\ ask' = ask /\ seen' = seen
      BY <2>4 DEF LegacyWrite, OperatorFile, vars
    <3> QED
      BY <1>1, <2>1, <3>1, QuietStep
  <2> QED
    BY <2>2, <2>3, <2>4 DEF Next
<1> QED
  BY <1>1, <1>2 DEF LayoutInv, LayoutOK

LEMMA InitEstablishesLayoutInv == Init => LayoutInv
<1> SUFFICES ASSUME Init PROVE LayoutInv
  OBVIOUS
<1>1. repo \in Files /\ (~repo.exists => KindOf(repo) = "EMPTY")
  BY OpenersAssumption DEF Init
<1>2. TypesOfRepo /\ AbsentIsEmpty
  BY <1>1 DEF Files, TypesOfRepo, AbsentIsEmpty
<1>3. \A o \in Openers : step[o] = "idle" /\ seen[o] = <<>>
  BY DEF Init
<1>4. ASSUME NEW o \in Openers PROVE SeenCurrent(o)
  <2>1. <<>> \in Seq(Answers) /\ Len(<<>>) = 0
    OBVIOUS
  <2>2. seen[o] = <<>>
    BY <1>3
  <2> QED
    BY <2>1, <2>2 DEF SeenCurrent
<1>5. \A o \in Openers : MayOpen(o) /\ MayMigrate(o)
  BY <1>3 DEF MayOpen, MayMigrate, Opening, Locked
<1> QED
  BY <1>2, <1>4, <1>5 DEF LayoutInv

(* The layout and the birth certificates change once, to the current layout,
   under the lock, at the hands of a process asked to migrate, or to create
   from nothing: the recheck in initialize and the first look in _run, for any
   processes, asks and files. *)
THEOREM LayoutChangesOnce == Spec => LayoutChanges
<1>1. IInv /\ LayoutInv /\ [Next]_vars => LayoutInv'
  BY NextKeepsLayoutInv
<1>2. IInv /\ LayoutInv /\ [Next]_vars
          => [<<repo'.objects, repo'.births>> # <<repo.objects, repo.births>> =>
                 /\ KindOf(repo) \in AllowedMigrations \cup {"EMPTY"}
                 /\ KindOf(repo') = "V03"
                 /\ \E o \in Openers :
                       /\ lock = o
                       /\ \/ ask[o].lifecycle \in {"library", "migrate"}
                          \/ ask[o].lifecycle = "create" /\ KindOf(repo) = "EMPTY"]_vars
  BY CommitFacts, OnlyCommitsShow
<1> QED
  BY <1>1, <1>2, InitEstablishesLayoutInv, InvHolds, PTL DEF Spec, LayoutChanges
-----------------------------------------------------------------------------
(***************************************************************************)
(* The rows: what preflight lets through passes the gate, and what passed  *)
(* the gate is a whole history of the old repository's rows.  First about  *)
(* the rows of v0.1 alone.                                                 *)
(***************************************************************************)
(* A set of numbers has a least one. *)
LEMMA LeastNumber ==
    ASSUME NEW T \in SUBSET Nat, T # {}
    PROVE  \E n \in T : \A m \in T : n <= m
<1> DEFINE Less == {ss \in Nat \X Nat : ss[1] < ss[2]}
<1>1. IsWellFoundedOn(Less, Nat)
  BY NatLessThanWellFounded DEF OpToRel
<1> HIDE DEF Less
<1>2. PICK n \in T : \A m \in T : <<m, n>> \notin Less
  BY <1>1, WFMin
<1>3. \A m \in T : m < n => <<m, n>> \in Less
  BY DEF Less
<1>4. \A m \in T : ~(m < n)
  BY <1>2, <1>3
<1>5. \A m \in T : n <= m
  BY <1>4
<1> QED
  BY <1>5

LEMMA SnapshotTypes ==
    ASSUME NEW s \in Snapshots
    PROVE  /\ Row[s].place \in Nat
           /\ \A t \in Snapshots : Row[s].place = Row[t].place => s = t
  BY RowsAssumption DEF SnapshotRows

(* Snapshots before another one have a last one. *)
LEMMA LastExists ==
    ASSUME NEW set \in SUBSET Snapshots, set # {}, NEW b \in Nat,
           \A t \in set : Row[t].place <= b
    PROVE  /\ LastOf(set) \in set
           /\ \A t \in set : Row[t].place <= Row[LastOf(set)].place
<1> DEFINE T == {b - Row[t].place : t \in set}
<1>1. T \in SUBSET Nat /\ T # {}
  BY SnapshotTypes
<1>2. PICK n \in T : \A m \in T : n <= m
  BY <1>1, LeastNumber
<1>3. PICK s \in set : n = b - Row[s].place
  OBVIOUS
<1>4. \A t \in set : b - Row[s].place <= b - Row[t].place
  BY <1>2, <1>3
<1>5. \A t \in set : Row[t].place <= Row[s].place
  BY <1>4, SnapshotTypes
<1> QED
  BY <1>5 DEF LastOf

(* The last one is the only one at its place. *)
LEMMA LastIs ==
    ASSUME NEW set \in SUBSET Snapshots, NEW s \in set,
           \A t \in set : Row[t].place <= Row[s].place
    PROVE  LastOf(set) = s
<1>1. /\ LastOf(set) \in set
      /\ \A t \in set : Row[t].place <= Row[LastOf(set)].place
  BY DEF LastOf
<1> QED
  BY <1>1, SnapshotTypes

Upto(kept, s) == Before(kept, s) \cup {s}

LEMMA UptoFacts ==
    ASSUME NEW kept, NEW s \in kept \cap Snapshots
    PROVE  /\ Upto(kept, s) \subseteq kept \cap Snapshots
           /\ \A t \in Upto(kept, s) :
                 Row[t].place <= Row[s].place /\ SourceOf(t) = SourceOf(s)
           /\ \A t \in Before(kept, s) : Row[t].place < Row[s].place
           /\ \A t \in kept \cap Snapshots :
                 SourceOf(t) = SourceOf(s) /\ Row[t].place <= Row[s].place
                     => t \in Upto(kept, s)
           /\ s \notin Before(kept, s)
  BY SnapshotTypes DEF Upto, Before

(* Between a snapshot and the last one before it nothing happened. *)
LEMMA LastBefore ==
    ASSUME NEW kept, NEW s \in kept \cap Snapshots, Before(kept, s) # {}
    PROVE  LET t == LastOf(Before(kept, s))
           IN  /\ t \in Before(kept, s)
               /\ t \in kept \cap Snapshots
               /\ Row[t].place < Row[s].place
               /\ SourceOf(t) = SourceOf(s)
               /\ Upto(kept, t) = Before(kept, s)
<1> DEFINE t == LastOf(Before(kept, s))
<1>1. Before(kept, s) \in SUBSET Snapshots /\ Row[s].place \in Nat
      /\ \A r \in Before(kept, s) : Row[r].place <= Row[s].place
  BY SnapshotTypes DEF Before
<1>2. /\ t \in Before(kept, s)
      /\ \A r \in Before(kept, s) : Row[r].place <= Row[t].place
  BY <1>1, LastExists
<1> HIDE DEF t
<1>3. t \in kept \cap Snapshots /\ Row[t].place < Row[s].place
      /\ SourceOf(t) = SourceOf(s)
  BY <1>2 DEF Before
<1>4. Upto(kept, t) \subseteq Before(kept, s)
  BY <1>2, <1>3, SnapshotTypes DEF Upto, Before
<1>5. Before(kept, s) \subseteq Upto(kept, t)
  BY <1>2, <1>3, UptoFacts DEF Before
<1> QED
  BY <1>2, <1>3, <1>4, <1>5 DEF t

(* The revision that stands for a snapshot. *)
RevisionFor(kept, s) == LastOf(Revisions(kept) \cap Upto(kept, s))

(* What stands for a snapshot is a revision of its source, with its content. *)
LEMMA RevisionHolds ==
    ASSUME NEW kept
    PROVE  \A s \in kept \cap Snapshots :
               LET r == RevisionFor(kept, s)
               IN  /\ r \in Revisions(kept) \cap Upto(kept, s)
                   /\ \A t \in Revisions(kept) \cap Upto(kept, s) :
                         Row[t].place <= Row[r].place
                   /\ Row[r].content = Row[s].content
<1> DEFINE Holds(s) == LET r == RevisionFor(kept, s)
                       IN  /\ r \in Revisions(kept) \cap Upto(kept, s)
                           /\ \A t \in Revisions(kept) \cap Upto(kept, s) :
                                 Row[t].place <= Row[r].place
                           /\ Row[r].content = Row[s].content
           Failing == {s \in kept \cap Snapshots : ~Holds(s)}
           Places == {Row[s].place : s \in Failing}
<1> HIDE DEF Holds
<1> SUFFICES ASSUME Failing # {} PROVE FALSE
  BY DEF Holds
<1>1. Places \in SUBSET Nat /\ Places # {}
  BY SnapshotTypes
<1>2. PICK s \in Failing : \A t \in Failing : Row[s].place <= Row[t].place
  <2>1. PICK n \in Places : \A m \in Places : n <= m
    BY <1>1, LeastNumber
  <2> QED
    BY <2>1
<1> HIDE DEF Failing
<1>3. s \in kept \cap Snapshots /\ ~Holds(s)
  BY DEF Failing
<1>4. \A t \in kept \cap Snapshots : Row[t].place < Row[s].place => Holds(t)
  BY <1>2, <1>3, SnapshotTypes DEF Failing
<1>5. CASE s \in Revisions(kept)
  <2>1. Revisions(kept) \cap Upto(kept, s) \in SUBSET Snapshots
        /\ s \in Revisions(kept) \cap Upto(kept, s)
    BY <1>3, <1>5 DEF Revisions, Upto
  <2>2. \A t \in Revisions(kept) \cap Upto(kept, s) : Row[t].place <= Row[s].place
    BY <1>3, UptoFacts
  <2>3. RevisionFor(kept, s) = s
    BY <2>1, <2>2, LastIs DEF RevisionFor
  <2> QED
    BY <1>3, <2>1, <2>2, <2>3 DEF Holds
<1>6. CASE s \notin Revisions(kept)
  <2> DEFINE t == LastOf(Before(kept, s))
  <2>1. Before(kept, s) # {} /\ Row[t].content = Row[s].content
    BY <1>3, <1>6 DEF Revisions, StartsRevision
  <2>2. /\ t \in kept \cap Snapshots /\ Row[t].place < Row[s].place
        /\ Upto(kept, t) = Before(kept, s)
    BY <1>3, <2>1, LastBefore
  <2>3. Holds(t)
    BY <1>4, <2>2
  <2>4. Revisions(kept) \cap Upto(kept, s) = Revisions(kept) \cap Upto(kept, t)
    BY <1>6, <2>2 DEF Upto
  <2> HIDE DEF t
  <2> QED
    BY <1>3, <2>1, <2>3, <2>4 DEF Holds, RevisionFor
<1> QED
  BY <1>5, <1>6

LEMMA RevisionsUptoAreFinite ==
    ASSUME NEW kept, NEW s \in kept \cap Snapshots
    PROVE  IsFiniteSet(Revisions(kept) \cap Upto(kept, s))
<1> DEFINE set == Revisions(kept) \cap Upto(kept, s)
           f == [t \in set |-> Row[t].place]
<1>1. \A t \in set : t \in Snapshots /\ Row[t].place \in 0 .. Row[s].place
  BY SnapshotTypes, UptoFacts
<1>2. f \in Injection(set, 0 .. Row[s].place)
  BY <1>1, SnapshotTypes DEF Injection, IsInjective
<1>3. IsFiniteSet(0 .. Row[s].place)
  <2>1. 0 \in Int /\ Row[s].place \in Int
    BY SnapshotTypes
  <2> QED
    BY <2>1, FS_Interval
<1> QED
  BY <1>2, <1>3, FS_Injection

(* The migrated history says what the old one said. *)
LEMMA HistoryIsKept ==
    ASSUME NEW kept
    PROVE  HistoryKept(kept)
<1> DEFINE revision == RevisionOf(kept)
           version == VersionOf(kept)
           Counted(s) == Revisions(kept) \cap Upto(kept, s)
<1>1. ASSUME NEW s \in kept \cap Snapshots
      PROVE  /\ revision[s] = RevisionFor(kept, s)
             /\ version[s] = Cardinality(Counted(s))
  BY DEF RevisionOf, VersionOf, RevisionFor, Upto
<1> HIDE DEF revision, version
<1>2. ASSUME NEW s \in kept \cap Snapshots
      PROVE  /\ Row[revision[s]].content = Row[s].content
             /\ SourceOf(revision[s]) = SourceOf(s)
             /\ version[revision[s]] = version[s]
  <2> DEFINE r == RevisionFor(kept, s)
  <2>1. /\ r \in Counted(s) /\ Row[r].content = Row[s].content
        /\ \A t \in Counted(s) : Row[t].place <= Row[r].place
    BY RevisionHolds
  <2> HIDE DEF r
  <2>2. r \in kept \cap Snapshots /\ SourceOf(r) = SourceOf(s)
        /\ Row[r].place <= Row[s].place
    BY <2>1, UptoFacts
  <2>3. Counted(s) \subseteq Counted(r)
    <3> SUFFICES ASSUME NEW t \in Counted(s) PROVE t \in Upto(kept, r)
      OBVIOUS
    <3>1. t \in kept \cap Snapshots /\ SourceOf(t) = SourceOf(r)
          /\ Row[t].place <= Row[r].place
      BY <2>1, <2>2, UptoFacts
    <3> QED
      BY <2>2, <3>1, UptoFacts
  <2>4. Counted(r) \subseteq Counted(s)
    <3> SUFFICES ASSUME NEW t \in Counted(r) PROVE t \in Upto(kept, s)
      OBVIOUS
    <3>1. t \in kept \cap Snapshots /\ SourceOf(t) = SourceOf(s)
          /\ Row[t].place <= Row[r].place
      BY <2>2, UptoFacts
    <3>2. Row[t].place <= Row[s].place
      BY <2>2, <3>1, SnapshotTypes
    <3> QED
      BY <3>1, <3>2, UptoFacts
  <2>5. Counted(r) = Counted(s)
    BY <2>3, <2>4
  <2> HIDE DEF Counted
  <2> QED
    BY <1>1, <2>1, <2>2, <2>5 DEF r
<1>3. ASSUME NEW s \in kept \cap Snapshots, Before(kept, s) # {}
      PROVE  LET t == LastOf(Before(kept, s))
             IN  version[s]
                   = version[t] + (IF Row[t].content = Row[s].content THEN 0 ELSE 1)
  <2> DEFINE t == LastOf(Before(kept, s))
  <2>1. /\ t \in kept \cap Snapshots
        /\ Upto(kept, t) = Before(kept, s)
    BY <1>3, LastBefore
  <2>2. s \in Revisions(kept) <=> Row[t].content # Row[s].content
    BY <1>3 DEF Revisions, StartsRevision
  <2>3. Counted(s) = IF s \in Revisions(kept) THEN Counted(t) \cup {s} ELSE Counted(t)
    BY <2>1 DEF Upto
  <2>4. s \notin Counted(t)
    BY <2>1, UptoFacts
  <2>5. IsFiniteSet(Counted(t))
    BY <2>1, RevisionsUptoAreFinite
  <2>6. /\ Cardinality(Counted(t)) \in Nat
        /\ Cardinality(Counted(t) \cup {s}) = Cardinality(Counted(t)) + 1
    BY <2>4, <2>5, FS_CardinalityType, FS_AddElement
  <2>7. version[s] = Cardinality(Counted(s)) /\ version[t] = Cardinality(Counted(t))
    BY <1>1, <2>1
  <2> HIDE DEF t, Counted
  <2>8. version[s]
          = version[t] + (IF Row[t].content = Row[s].content THEN 0 ELSE 1)
    BY <2>2, <2>3, <2>6, <2>7
  <2> QED
    BY <2>8 DEF t
<1> QED
  BY <1>2, <1>3 DEF HistoryKept, revision, version

(* Rows of which each claim cites a snapshot that is there pass the replays,
   when no claim and no revision has spaces around its id. *)
LEMMA CitedRowsValidate ==
    ASSUME NEW kept, Misread(kept) = {},
           \A c \in kept \cap Claims : NamesSnapshot(kept, c) /\ CitesItsSnapshot(c)
    PROVE  AuditsReplay(kept) /\ ClaimsValidate(kept)
<1> DEFINE revision == RevisionOf(kept)
<1>0. AuditsReplay(kept)
  BY DEF AuditsReplay, Misread
<1>1. ASSUME NEW c \in kept \cap Claims
      PROVE  /\ HasEvidence(kept, revision, c)
             /\ FoundById(revision[Row[c].snapshot])
             /\ Row[revision[Row[c].snapshot]].continuity = Row[c].continuity
  <2> DEFINE s == Row[c].snapshot
  <2>1. s \in kept \cap Snapshots
    BY <1>1, RowsAssumption DEF ClaimRows, NamesSnapshot
  <2>2. /\ Row[revision[s]].content = Row[s].content
        /\ SourceOf(revision[s]) = SourceOf(s)
    BY <2>1, HistoryIsKept DEF HistoryKept
  <2>3. Row[revision[s]].continuity = Row[s].continuity
    BY <2>2 DEF SourceOf
  <2>4. FoundById(revision[s])
    <3>1. revision[s] = RevisionFor(kept, s)
      BY <2>1 DEF RevisionOf, RevisionFor, Upto
    <3> QED
      BY <1>0, <2>1, <3>1, RevisionHolds DEF AuditsReplay
  <2> QED
    BY <1>1, <2>2, <2>3, <2>4 DEF HasEvidence, CitesItsSnapshot
<1> QED
  BY <1>0, <1>1 DEF ClaimsValidate

(* Where no id is misread, quarantine leaves rows that pass. *)
LEMMA AdmissibleRowsValidate ==
    ASSUME NEW rows \in SUBSET (Snapshots \cup Claims),
           NEW mode \in {"strict", "quarantine"}, Admissible(mode, rows),
           Misread(Kept(QuarantinedIn(mode, rows), rows)) = {}
    PROVE  LET kept == Kept(QuarantinedIn(mode, rows), rows)
           IN  AuditsReplay(kept) /\ ClaimsValidate(kept)
<1> DEFINE kept == Kept(QuarantinedIn(mode, rows), rows)
<1>0. \A c \in rows \cap Claims : HasId(c) \/ Row[c].id = "null"
  <2>1. ASSUME NEW c \in rows \cap Claims, Row[c].id = "blank"
        PROVE  FALSE
    BY <2>1 DEF Kept, Isolated, HasId, Misread
  <2> QED
    BY <2>1, RowsAssumption DEF ClaimRows, Ids, HasId
<1>1. \A c \in Refused(rows) : c \in QuarantinedIn(mode, rows) /\ Row[c].id # "null"
  BY DEF Admissible, Refused
<1>2. \A c \in (rows \cap Claims) \ Refused(rows) : HasId(c)
  BY DEF Refused, Sound
<1>3. /\ kept \subseteq rows
      /\ \A c \in kept \cap Claims : c \notin QuarantinedIn(mode, rows)
      /\ rows \ QuarantinedIn(mode, rows) \subseteq kept
  BY <1>0, <1>1, <1>2 DEF Kept, Isolated, HasId
<1>4. ASSUME NEW c \in kept \cap Claims
      PROVE  NamesSnapshot(kept, c) /\ CitesItsSnapshot(c)
  <2>1. c \in rows /\ c \notin Refused(rows)
    BY <1>1, <1>3
  <2>2. NamesSnapshot(rows, c) /\ CitesItsSnapshot(c)
    BY <2>1 DEF Refused
  <2>3. Row[c].snapshot \notin QuarantinedIn(mode, rows)
    <3>1. CASE mode = "strict"
      BY <3>1 DEF QuarantinedIn
    <3>2. CASE mode = "quarantine"
      <4>1. Row[c].snapshot \in Snapshots
        BY RowsAssumption DEF ClaimRows
      <4>2. Row[c].snapshot \notin Claims
        BY <4>1, RowsAssumption
      <4> QED
        BY <1>3, <2>1, <3>2, <4>2 DEF QuarantinedIn, Quarantined
    <3> QED
      BY <3>1, <3>2
  <2> QED
    BY <1>3, <2>2, <2>3 DEF NamesSnapshot
<1> QED
  BY <1>4, CitedRowsValidate
-----------------------------------------------------------------------------
(* Behind preflight. *)
ReadySteps == Locked \ {"recheck", "preflight"}

RowsTyped ==
    /\ repo.rows \subseteq Snapshots \cup Claims
    /\ KindOf(repo) = "EMPTY" => repo.rows = {}

FoundReady(o) ==
    /\ step[o] \in ReadySteps => IsReady(ask[o], repo)
    /\ step[o] = "commit" => GatePasses(Work(o))

RowsInv ==
    /\ RowsTyped
    /\ \A o \in Openers : FoundReady(o)
    /\ RowsAccountedFor

(* The rows of what a migration is about to commit. *)
LEMMA MigratedRows ==
    ASSUME NEW kind, NEW mode, NEW file, IsFile(file)
    PROVE  LET work == Migrated(kind, mode, file)
           IN  IF kind = "V01"
               THEN /\ work.rows = Kept(QuarantinedIn(mode, file.rows), file.rows)
                    /\ work.retained = file.rows
               ELSE work.rows = file.rows
<1> DEFINE work == Migrated(kind, mode, file)
           need == NeedAcceptance(file)
           kept == Kept(QuarantinedIn(mode, file.rows), file.rows)
<1>1. CASE kind = "EMPTY"
  BY <1>1 DEF Migrated, Current, IsFile, FileFields
<1>2. CASE kind = "V01"
  <2> HIDE DEF kept
  <2>1. work = [Current(file) EXCEPT
                   !.rows = kept, !.retained = file.rows,
                   !.births = Append(@, "schema.migrated")]
    BY <1>2 DEF Migrated, Current, IsFile, FileFields, kept
  <2>2. work.rows = kept /\ work.retained = file.rows
    BY <2>1 DEF Current, IsFile, FileFields
  <2> QED
    BY <1>2, <2>2 DEF kept
<1>3. CASE kind = "V02" /\ file.objects = "v02_early"
  <2> HIDE DEF need
  <2>1. work = [Current(file) EXCEPT
                   !.retained = file.rows \cap Snapshots,
                   !.accepted = need,
                   !.births = @ \o <<"schema.snapshot_hash_constraint_removed",
                                     "schema.event_evidence_enabled",
                                     "schema.migrated">>]
    BY <1>3 DEF Migrated, need
  <2> QED
    BY <1>3, <2>1 DEF Current, IsFile, FileFields
<1>4. CASE kind = "V02" /\ file.objects # "v02_early"
  <2> HIDE DEF need
  <2>1. work = [Current(file) EXCEPT
                   !.accepted = need, !.births = Append(@, "schema.migrated")]
    BY <1>4 DEF Migrated, need
  <2> QED
    BY <1>4, <2>1 DEF Current, IsFile, FileFields
<1>5. CASE kind \notin {"EMPTY", "V01", "V02"}
  <2> HIDE DEF need
  <2>1. work = [Current(file) EXCEPT !.accepted = need]
    BY <1>5 DEF Migrated, need
  <2> QED
    BY <1>5, <2>1 DEF Current, IsFile, FileFields
<1> QED
  BY <1>1, <1>2, <1>3, <1>4, <1>5

(* The kind that was seen before the lock is that of the locked file. *)
LEMMA LockedKind ==
    ASSUME IInv, LayoutInv, NEW o \in Openers, step[o] \in ReadySteps
    PROVE  /\ KindOf(repo) = Classify(seen[o])
           /\ KindOf(repo) \in AllowedMigrations \cup {"EMPTY"}
           /\ ask[o] \in Asks
           /\ KindOf(Work(o)) = "V03"
<1>1. step[o] \in Locked \ {"recheck"} /\ step[o] # "idle"
  BY DEF ReadySteps, Locked
<1>2. Digest(Fingerprint(repo)) = Digest(seen[o])
  BY <1>1, Running DEF ProcessOK, Prepared
<1>3. Classify(seen[o]) \in AllowedMigrations \cup {"EMPTY"} /\ ask[o] \in Asks
  BY <1>1 DEF LayoutInv, MayMigrate, MayOpen
<1>4. KindOf(repo) = Classify(seen[o])
  BY <1>2, <1>3, KindIsSeen DEF AllowedMigrations, LegacyKinds
<1>5. KindOf(Work(o)) = "V03"
  BY MigratedFile, CurrentKind DEF Work, IInv, Shape
<1> QED
  BY <1>3, <1>4, <1>5

(* What the gate is shown. *)
LEMMA WorkRows ==
    ASSUME IInv, LayoutInv, NEW o \in Openers, step[o] \in ReadySteps
    PROVE  IF KindOf(repo) = "V01"
           THEN /\ Work(o).rows
                     = Kept(QuarantinedIn(ask[o].mode, repo.rows), repo.rows)
                /\ Work(o).retained = repo.rows
           ELSE Work(o).rows = repo.rows
  BY LockedKind, MigratedRows DEF Work, IInv, Shape

(* Where no id is misread, what preflight found ready passes. *)
LEMMA ReadyPasses ==
    ASSUME IInv, LayoutInv, RowsInv, NEW o \in Openers, step[o] = "gate",
           Misread(Work(o).rows) = {}
    PROVE  GatePasses(Work(o))
<1>1. step[o] \in ReadySteps
  BY DEF ReadySteps, Locked
<1>2. /\ IsReady(ask[o], repo)
      /\ repo.rows \subseteq Snapshots \cup Claims
      /\ KindOf(repo) = "EMPTY" => repo.rows = {}
  BY <1>1 DEF RowsInv, RowsTyped, FoundReady
<1>3. /\ KindOf(repo) \in AllowedMigrations \cup {"EMPTY"}
      /\ KindOf(Work(o)) = "V03" /\ ask[o].mode \in {"strict", "quarantine"}
  BY <1>1, LockedKind, OpenersAssumption DEF AskRows
<1>4. Work(o).rows \subseteq Snapshots \cup Claims
  BY <1>1, <1>2, WorkRows DEF Kept
<1>5. CASE KindOf(repo) = "V01"
  <2>1. Work(o).rows = Kept(QuarantinedIn(ask[o].mode, repo.rows), repo.rows)
    BY <1>1, <1>5, WorkRows
  <2>2. AuditsReplay(Work(o).rows) /\ ClaimsValidate(Work(o).rows)
    BY <1>2, <1>3, <1>5, <2>1, AdmissibleRowsValidate DEF IsReady
  <2> QED
    BY <1>3, <1>4, <2>2 DEF GatePasses, Replaying
<1>6. CASE KindOf(repo) # "V01"
  <2>1. Refused(repo.rows) = {}
    BY <1>2, <1>3, <1>6 DEF IsReady, AllowedMigrations, Refused
  <2>2. Work(o).rows = repo.rows
    BY <1>1, <1>6, WorkRows
  <2>3. AuditsReplay(Work(o).rows) /\ ClaimsValidate(Work(o).rows)
    BY <2>1, <2>2, CitedRowsValidate DEF Refused
  <2> QED
    BY <1>3, <1>4, <2>3 DEF GatePasses, Replaying
<1> QED
  BY <1>5, <1>6

(* Under another process's lock the file stays as it is. *)
LEMMA LockedFileStays ==
    ASSUME IInv, LayoutInv, [Next]_vars, NEW o \in Openers, step[o] \in Locked,
           ~Commit(o)
    PROVE  repo' = repo
<1>1. lock = o /\ repo.exists /\ IsFile(repo) /\ lock # NoOpener
  BY Running DEF ProcessOK, Prepared, IInv, Shape
<1>2. ASSUME NEW p \in Openers, Connect(p) PROVE repo' = repo
  BY <1>1, <1>2 DEF Connect, IsFile, FileFields
<1>3. ASSUME NEW p \in Openers, Commit(p) PROVE p = o
  BY <1>1, <1>3, CommitFacts
<1>4. CASE LegacyWrite
  BY <1>1, <1>4 DEF LegacyWrite
<1>5. CASE OperatorFile \/ PowerLoss \/ UNCHANGED vars
  BY <1>5 DEF OperatorFile, PowerLoss, vars
<1>6. CASE \E p \in Openers : Start(p) \/ Mishap(p)
  BY <1>6 DEF Start, Mishap, Busy, AbandonBackup, Trouble, ClearTemporary
<1>7. ASSUME NEW p \in Openers, Progress(p) PROVE repo' = repo
  <2>1. CASE Connect(p) \/ Commit(p)
    BY <1>2, <1>3, <2>1
  <2>2. CASE ~Connect(p) /\ ~Commit(p)
    BY <1>7, <2>2 DEF Progress, Backup, Query, Judged, BeginImmediate, Recheck,
                Preflight, Admit, Apply, Gate, ChooseName, MakeTemporary, Copy,
                Flush, Verify, Publish, Sync, Unlink, AbandonBackup
  <2> QED
    BY <2>1, <2>2
<1> QED
  BY <1>4, <1>5, <1>6, <1>7 DEF Next

(* How a process comes to be behind preflight and before its commit. *)
LEMMA ComesReady ==
    ASSUME IInv, NEW o \in Openers, Start(o) \/ Progress(o) \/ Mishap(o),
           step'[o] \in ReadySteps
    PROVE  /\ step[o] \in Locked /\ ~Commit(o)
           /\ ask'[o] = ask[o] /\ seen'[o] = seen[o]
           /\ step[o] \in ReadySteps \/ IsReady(ask[o], repo)
           /\ step'[o] = "commit" => step[o] = "commit" \/ GatePasses(Work(o))
<1> USE DEF Go, GoOn, Fail, IInv, Shape
<1>0. /\ {"idle", "look", "open", "validate", "connect", "lock", "stopped", "done",
           "recheck", "preflight"} \cap ReadySteps = {}
      /\ ReadySteps \subseteq Locked
  BY DEF ReadySteps, Locked
<1>1. CASE Start(o)
  <2>1. step'[o] \in {"connect", "look", "stopped"}
    <3>1. PICK a \in Asks :
             CASE a.lifecycle = "library" -> Go(o, "connect")
               [] a.lifecycle = "migrate" ->
                      Go(o, IF repo.exists THEN "connect" ELSE "stopped")
               [] a.lifecycle = "create"  ->
                      Go(o, IF repo.exists THEN "look" ELSE "connect")
               [] OTHER ->
                      Go(o, IF repo.exists THEN "look" ELSE "stopped")
      BY <1>1 DEF Start
    <3> QED
      BY <3>1
  <2> QED
    BY <1>0, <2>1
<1>2. CASE Connect(o) \/ Query(o) \/ BeginImmediate(o)
  BY <1>0, <1>2 DEF Connect, Query, BeginImmediate, Reading
<1>3. CASE Judged(o)
  <2>1. step'[o] \in {"connect", "stopped", "validate", "lock", "done"}
    BY <1>3 DEF Judged, Reading
  <2> QED
    BY <1>0, <2>1
<1>4. CASE Recheck(o)
  BY <1>0, <1>4 DEF Recheck
<1>5. CASE Preflight(o)
  <2>1. IsReady(ask[o], repo)
    BY <1>0, <1>5 DEF Preflight
  <2> QED
    BY <1>0, <1>5, <2>1 DEF Preflight, Locked, Commit
<1>6. CASE Admit(o) \/ Apply(o)
  BY <1>0, <1>6 DEF Admit, Apply, Commit, ReadySteps, Locked
<1>7. CASE Gate(o)
  BY <1>0, <1>7 DEF Gate, Commit, ReadySteps, Locked
<1>8. CASE Commit(o)
  BY <1>0, <1>8 DEF Commit
<1>9. CASE \/ ChooseName(o) \/ MakeTemporary(o) \/ Copy(o) \/ Flush(o)
           \/ Verify(o) \/ Publish(o) \/ Sync(o) \/ Unlink(o)
  BY <1>9 DEF ChooseName, MakeTemporary, Copy, Flush, Verify, Publish, Sync, Unlink,
              Commit, ReadySteps, Locked
<1>10. CASE AbandonBackup(o) \/ Busy(o) \/ Trouble(o)
  BY <1>0, <1>10 DEF AbandonBackup, Busy, Trouble
<1>11. CASE ClearTemporary(o)
  BY <1>0, <1>11 DEF ClearTemporary, Commit
<1> QED
  BY <1>1, <1>2, <1>3, <1>4, <1>5, <1>6, <1>7, <1>8, <1>9, <1>10, <1>11
     DEF Progress, Backup, Mishap
-----------------------------------------------------------------------------
(* What becomes of the rows when nobody commits. *)
LEMMA OnlyLateRows ==
    ASSUME IInv, LayoutInv, [Next]_vars, ~\E o \in Openers : Commit(o)
    PROVE  /\ KindOf(repo') = KindOf(repo) /\ repo'.retained = repo.retained
           /\ \/ repo'.rows = repo.rows
              \/ /\ KindOf(repo) \in LegacyKinds
                 /\ \E r \in LateRows : repo'.rows = repo.rows \cup {r}
           /\ origin' = origin
<1>0. KindOf(repo') = KindOf(repo)
  BY OnlyCommitsShow
<1>1. /\ origin' = origin
      /\ \/ repo' = repo
         \/ \E o \in Openers :
               repo' = [repo EXCEPT !.exists = @ \/ ask[o].lifecycle # "readonly"]
         \/ /\ KindOf(repo) \in LegacyKinds
            /\ \E r \in LateRows : repo' = [repo EXCEPT !.rows = @ \cup {r}]
  <2>1. CASE UNCHANGED vars
    BY <2>1 DEF vars
  <2>2. CASE LegacyWrite
    BY <2>2 DEF LegacyWrite
  <2>3. CASE OperatorFile \/ PowerLoss
    BY <2>3 DEF OperatorFile, PowerLoss
  <2>4. CASE \E o \in Openers : Start(o) \/ Mishap(o)
    BY <2>4 DEF Start, Mishap, Busy, AbandonBackup, Trouble, ClearTemporary
  <2>5. CASE \E o \in Openers : Connect(o)
    BY <2>5 DEF Connect
  <2>6. CASE \E o \in Openers : Progress(o) /\ ~Connect(o)
    BY <2>6 DEF Progress, Backup, Query, Judged, BeginImmediate, Recheck,
                Preflight, Admit, Apply, Gate, ChooseName, MakeTemporary, Copy,
                Flush, Verify, Publish, Sync, Unlink, AbandonBackup
  <2> QED
    BY <2>1, <2>2, <2>3, <2>4, <2>5, <2>6 DEF Next
<1> QED
  BY <1>0, <1>1 DEF IInv, Shape, IsFile, FileFields

(* A commit makes the file that the gate has passed. *)
LEMMA CommitKeepsRows ==
    ASSUME IInv, LayoutInv, RowsInv, NEW o \in Openers, Commit(o)
    PROVE  RowsTyped' /\ RowsAccountedFor'
<1>1. /\ step[o] = "commit" /\ repo' = Work(o) /\ origin'.file = repo
  BY DEF Commit
<1>2. step[o] \in ReadySteps
  BY <1>1 DEF ReadySteps, Locked
<1>3. GatePasses(Work(o)) /\ RowsTyped
  BY <1>1 DEF RowsInv, FoundReady
<1>4. /\ KindOf(repo') = "V03" /\ repo'.rows \subseteq Snapshots \cup Claims
      /\ ClaimsValidate(repo'.rows)
  BY <1>1, <1>3 DEF GatePasses, Replaying
<1>5. \A c \in repo'.rows \cap Claims : NamesSnapshot(repo'.rows, c)
  BY <1>4 DEF ClaimsValidate, HasEvidence
<1>6. /\ origin'.file.rows \subseteq repo'.rows \cup repo'.retained
      /\ repo'.rows \subseteq origin'.file.rows
  BY <1>1, <1>2, WorkRows DEF Kept
<1>7. HistoryKept(repo'.rows)
  BY HistoryIsKept
<1>8. RowsTyped'
  BY <1>4 DEF RowsTyped
<1>9. RowsAccountedFor'
  BY <1>5, <1>6, <1>7 DEF RowsAccountedFor
<1> QED
  BY <1>8, <1>9

LEMMA InitEstablishesRowsInv == Init => RowsInv
<1> SUFFICES ASSUME Init PROVE RowsInv
  OBVIOUS
<1>1. /\ repo \in Files /\ KindOf(repo) # "V03"
      /\ KindOf(repo) = "EMPTY" => repo.rows = {}
  BY OpenersAssumption DEF Init
<1>2. RowsTyped /\ RowsAccountedFor
  BY <1>1 DEF RowsTyped, RowsAccountedFor, Files
<1>3. \A o \in Openers : FoundReady(o)
  BY DEF Init, FoundReady, ReadySteps, Locked
<1> QED
  BY <1>2, <1>3 DEF RowsInv

LEMMA NextKeepsRowsInv ==
    ASSUME IInv, LayoutInv, RowsInv, [Next]_vars
    PROVE  RowsInv'
<1>1. ASSUME \E o \in Openers : Commit(o)
      PROVE  RowsTyped' /\ RowsAccountedFor'
  BY <1>1, CommitKeepsRows
<1>2. ASSUME ~\E o \in Openers : Commit(o)
      PROVE  RowsTyped' /\ RowsAccountedFor'
  <2>1. /\ KindOf(repo') = KindOf(repo) /\ repo'.retained = repo.retained
        /\ \/ repo'.rows = repo.rows
           \/ /\ KindOf(repo) \in LegacyKinds
              /\ \E r \in LateRows : repo'.rows = repo.rows \cup {r}
        /\ origin' = origin
    BY <1>2, OnlyLateRows
  <2>2. RowsTyped'
    BY <2>1, OpenersAssumption DEF RowsInv, RowsTyped, LegacyKinds
  <2>3. RowsAccountedFor'
    BY <2>1 DEF RowsInv, RowsAccountedFor, LegacyKinds
  <2> QED
    BY <2>2, <2>3
<1>3. ASSUME NEW o \in Openers, step'[o] \in ReadySteps
      PROVE  FoundReady(o)'
  <2>1. CASE /\ step[o] \in Locked /\ ~Commit(o)
             /\ ask'[o] = ask[o] /\ seen'[o] = seen[o]
             /\ step[o] \in ReadySteps \/ IsReady(ask[o], repo)
             /\ step'[o] = "commit" => step[o] = "commit" \/ GatePasses(Work(o))
    <3>1. repo' = repo
      BY <2>1, LockedFileStays
    <3>2. IsReady(ask[o], repo)
      BY <2>1 DEF RowsInv, FoundReady
    <3>3. step'[o] = "commit" => GatePasses(Work(o))
      BY <2>1 DEF RowsInv, FoundReady
    <3>4. Work(o)' = Work(o)
      BY <2>1, <3>1 DEF Work
    <3> QED
      BY <2>1, <3>1, <3>2, <3>3, <3>4 DEF FoundReady
  <2>2. ASSUME NEW p \in Openers, Start(p) \/ Progress(p) \/ Mishap(p)
        PROVE  FoundReady(o)'
    <3>1. CASE p = o
      BY <1>3, <2>1, <2>2, <3>1, ComesReady
    <3>2. CASE p # o
      <4>1. step'[o] = step[o] /\ ask'[o] = ask[o] /\ seen'[o] = seen[o]
        BY <2>2, <3>2, OthersStay
      <4>2. step[o] \in Locked
        BY <1>3, <4>1 DEF ReadySteps
      <4>3. ~Commit(o)
        BY <4>1, <4>2 DEF Commit, Go, IInv, Shape
      <4> QED
        BY <1>3, <2>1, <4>1, <4>2, <4>3
    <3> QED
      BY <3>1, <3>2
  <2>3. CASE PowerLoss
    <3>1. step'[o] \notin Locked
      BY <2>3, StepFacts DEF PowerLoss, Ended
    <3> QED
      BY <1>3, <3>1 DEF ReadySteps
  <2>4. CASE LegacyWrite \/ OperatorFile \/ UNCHANGED vars
    <3>1. step' = step /\ ask' = ask /\ seen' = seen
      BY <2>4 DEF LegacyWrite, OperatorFile, vars
    <3>2. step[o] \in Locked
      BY <1>3, <3>1 DEF ReadySteps
    <3>3. ~Commit(o)
      BY <3>1, <3>2 DEF Commit, Go, IInv, Shape
    <3> QED
      BY <1>3, <2>1, <3>1, <3>2, <3>3
  <2> QED
    BY <2>2, <2>3, <2>4 DEF Next
<1>4. \A o \in Openers : FoundReady(o)'
  <2>1. ASSUME NEW o \in Openers, step'[o] \notin ReadySteps
        PROVE  FoundReady(o)'
    BY <2>1 DEF FoundReady, ReadySteps, Locked
  <2> QED
    BY <1>3, <2>1
<1> QED
  BY <1>1, <1>2, <1>4 DEF RowsInv

(* What preflight found ready, of the rows that the lock has kept from others
   ever since, and the whole account of the rows once they are committed. *)
LEMMA RowsInvHolds == Spec => []RowsInv
<1>1. IInv /\ LayoutInv /\ [Next]_vars => LayoutInv'
  BY NextKeepsLayoutInv
<1>2. IInv /\ LayoutInv /\ RowsInv /\ [Next]_vars => RowsInv'
  BY NextKeepsRowsInv
<1> QED
  BY <1>1, <1>2, InitEstablishesLayoutInv, InitEstablishesRowsInv, InvHolds, PTL
     DEF Spec

(* No row of an old repository is lost, what is active stands on active rows,
   and the revisions tell the history the old snapshots told: the copies of
   _migrate_legacy_v1 and the gate of initialize, for any rows of any number of
   sources, any openers, and rows that old programs add until the lock. *)
THEOREM RowsAreAccountedFor == Spec => []RowsAccountedFor
<1>1. RowsInv => RowsAccountedFor
  BY DEF RowsInv
<1> QED
  BY <1>1, RowsInvHolds, PTL

(* What preflight_migration finds ready passes the replays at the end of the
   transaction, for any rows, unless it carries an id that they read differently:
   a claim with an empty id may be kept though its snapshot is not, and a claim
   or a revision with spaces around its id is not found by it. *)
THEOREM ReadyMigrationsFinish == Spec => []ReadyMigrates
<1>1. IInv /\ LayoutInv /\ RowsInv => ReadyMigrates
  BY ReadyPasses DEF ReadyMigrates
<1>2. IInv /\ LayoutInv /\ [Next]_vars => LayoutInv'
  BY NextKeepsLayoutInv
<1> QED
  BY <1>1, <1>2, InitEstablishesLayoutInv, RowsInvHolds, InvHolds, PTL DEF Spec
=============================================================================
