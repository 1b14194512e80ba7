---------------------------- MODULE IngestProofs ----------------------------
(* What Ingest promises for every set of uploads, students and workbooks.   *)
(* An upload that has its import row written holds the row until it ends,   *)
(* so no two of a message are past `_upsert_import`; an upload that met no  *)
(* other of its message still has the status it loaded.                     *)
EXTENDS Ingest, FiniteSetTheorems, SequenceTheorems, TLAPS

-----------------------------------------------------------------------------
(* The invariant.                                                           *)
Reports(r) == req[r].phase \in {"guard", "sweep", "land"}
Books(r) == req[r].phase \in {"flip", "insert"}
Loaded(r) == req[r].phase \notin {"idle", "find"}

(* An upload past `_upsert_import` has the uncommitted row of its message.  *)
Writers ==
  \A r \in Request :
    /\ At(r, "idle") <=> req[r].message = 0
    /\ Reports(r) => Book(r).type = "membership"
    /\ Books(r) => Book(r).type = "pnl"
    /\ Reports(r) \/ Books(r) => writing[req[r].message] = r /\ Book(r).parses

(* What the two histories of overlapping uploads record.                    *)
Overlaps ==
  \A q, r \in Request : q # r /\ ~ At(q, "idle") /\ ~ At(r, "idle") =>
    /\ overlapped
    /\ req[q].message = req[r].message => req[r].message \in raced

(* The status an upload loaded is the status there is, unless another       *)
(* upload of the message came; of a snapshot it is "none" in any case.      *)
FoundStill ==
  /\ \A m \in Message :
       Workbook[m].parses /\ Workbook[m].type = "pnl" => imports[m] \in {"none", "ok"}
  /\ \A r \in Request : Loaded(r) =>
       /\ req[r].found # "ok"
       /\ req[r].message \notin raced => imports[req[r].message] = req[r].found
       /\ Book(r).parses /\ Book(r).type = "pnl" => req[r].found = "none"
       /\ Books(r) => imports[req[r].message] = "none"

(* What landed is recorded as ingested, unless a later upload of a roster   *)
(* was refused on what it had loaded before.                                *)
LandedIsOk ==
  \A i \in DOMAIN landed :
    LET m == landed[i] IN
    /\ Workbook[m].parses
    /\ m \notin raced \/ Workbook[m].type = "pnl" => imports[m] = "ok"

(* With no other upload at work, nothing changes between two statements.    *)
Snapshots ==
  \/ overlapped
  \/ \A r \in Request :
       /\ At(r, "land") => req[r].students = rows
       /\ At(r, "insert") => req[r].reports = DOMAIN ledger
       /\ At(r, "sweep") \/ At(r, "land") => req[r].override \/ 10 * Total(r) >= 8 * baseline

(* The newest snapshot is current, and with no overlap it alone.            *)
NewestIsCurrent ==
  /\ ledger # <<>> => ledger[Len(ledger)].current
  /\ overlapped \/ \A i \in DOMAIN ledger : ledger[i].current => i = Len(ledger)

IInv == /\ TypeOK /\ Writers /\ Overlaps /\ FoundStill /\ LandedIsOk /\ LandsOnce
        /\ Snapshots /\ RosterIsLastReport /\ NewestIsCurrent

-----------------------------------------------------------------------------
(* The operators.                                                           *)
LEMMA TotalIsNat ==
  ASSUME TypeOK, NEW r \in Request, req[r].message \in Message
  PROVE  Total(r) \in Nat
<1>1. Book(r) \in Parsed /\ IsFiniteSet(Book(r).members) /\ IsFiniteSet(Book(r).doubled)
  BY WorkbookAssumption DEF Book
<1>2. Cardinality(Book(r).members) \in Nat /\ Cardinality(Book(r).doubled) \in Nat
  BY <1>1, FS_CardinalityType
<1>3. Book(r).unnamed \in Nat
  BY <1>1 DEF Parsed
<1> QED  BY <1>2, <1>3 DEF Total

(* A busy upload has a message.                                             *)
LEMMA BusyHasMessage ==
  ASSUME TypeOK, Writers, NEW r \in Request, ~ At(r, "idle")
  PROVE  req[r].message \in Message
BY DEF TypeOK, Writers, Local, At

(* An upload that ends: the others keep what they have.                     *)
LEMMA EndFrees ==
  ASSUME TypeOK, NEW r \in Request, End(r)
  PROVE  /\ req' \in [Request -> Local] /\ req'[r] = Idle
         /\ \A q \in Request : q # r => req'[q] = req[q]
         /\ writing' \in [Message -> Request \cup {Nil}]
         /\ \A m \in Message : writing[m] # r => writing'[m] = writing[m]
         /\ \A m \in Message : writing'[m] # Nil => writing[m] = writing'[m] /\ writing[m] # r
<1>1. Idle \in Local
  BY DEF Idle, Local, Phase, Status
<1> QED  BY <1>1 DEF End, TypeOK

LEMMA EndKeeps ==
  ASSUME TypeOK, Writers, Overlaps, NEW r \in Request, End(r), UNCHANGED <<overlapped, raced>>
  PROVE  /\ \A m \in Message : writing'[m] # Nil => req'[writing'[m]].message = m
         /\ Writers' /\ Overlaps'
<1>1. /\ req'[r] = Idle
      /\ \A q \in Request : q # r => req'[q] = req[q]
      /\ \A m \in Message : writing[m] # r => writing'[m] = writing[m]
      /\ \A m \in Message : writing'[m] # Nil => writing[m] = writing'[m] /\ writing[m] # r
  BY EndFrees
<1>2. \A m \in Message : writing'[m] # Nil => req'[writing'[m]].message = m
  BY <1>1 DEF TypeOK
<1>3. Writers'
  <2> SUFFICES ASSUME NEW q \in Request
               PROVE  (/\ At(q, "idle") <=> req[q].message = 0
                       /\ Reports(q) => Book(q).type = "membership"
                       /\ Books(q) => Book(q).type = "pnl"
                       /\ Reports(q) \/ Books(q) =>
                            writing[req[q].message] = q /\ Book(q).parses)'
    BY DEF Writers
  <2>1. CASE q = r
    BY <1>1, <2>1 DEF Idle, At, Reports, Books
  <2>2. CASE q # r
    <3>1. ~ At(q, "idle") => req[q].message \in Message
      BY BusyHasMessage
    <3> QED  BY <1>1, <2>2, <3>1 DEF Writers, At, Reports, Books, Book
  <2> QED  BY <2>1, <2>2
<1>4. Overlaps'
  BY <1>1 DEF Overlaps, At, Idle
<1> QED  BY <1>2, <1>3, <1>4

(* What an upload that ends leaves true when it changed no table.           *)
LEMMA EndKeepsRest ==
  ASSUME IInv, NEW r \in Request, End(r), UNCHANGED <<tables, overlapped, raced>>
  PROVE  FoundStill' /\ LandedIsOk' /\ LandsOnce' /\ Snapshots' /\ RosterIsLastReport' /\ NewestIsCurrent'
<1>1. /\ req'[r] = Idle
      /\ \A q \in Request : q # r => req'[q] = req[q]
  BY EndFrees DEF IInv
<1>2. FoundStill'
  BY <1>1 DEF IInv, FoundStill, tables, Loaded, Books, Book, Idle
<1>3. LandedIsOk' /\ LandsOnce'
  BY DEF IInv, LandedIsOk, LandsOnce, tables
<1>4. Snapshots'
  BY <1>1 DEF IInv, Snapshots, tables, At, Idle, Total, Book
<1>5. RosterIsLastReport' /\ NewestIsCurrent'
  BY DEF IInv, RosterIsLastReport, Rosters, Newest, NewestIsCurrent, tables
<1> QED  BY <1>2, <1>3, <1>4, <1>5

(* An upload that changed no table and did not end.                         *)
LEMMA MoveKeepsTables ==
  ASSUME IInv, UNCHANGED <<tables, overlapped>>, raced \subseteq raced'
  PROVE  LandedIsOk' /\ LandsOnce' /\ RosterIsLastReport' /\ NewestIsCurrent'
<1>1. LandedIsOk' /\ LandsOnce'
  BY DEF IInv, LandedIsOk, LandsOnce, tables
<1>2. RosterIsLastReport' /\ NewestIsCurrent'
  BY DEF IInv, RosterIsLastReport, Rosters, Newest, NewestIsCurrent, tables
<1> QED  BY <1>1, <1>2

-----------------------------------------------------------------------------
(* The steps.                                                               *)
LEMMA UploadKeeps ==
  ASSUME IInv, NEW r \in Request, NEW m \in Message, Upload(r, m)
  PROVE  IInv'
<1> DEFINE new == [Idle EXCEPT !.phase = "find", !.message = m, !.override = override]
<1>1. /\ new \in Local /\ new.phase = "find" /\ new.message = m
  BY DEF IInv, TypeOK, Idle, Local, Phase, Status
<1> HIDE DEF new
<1>2. /\ req' = [req EXCEPT ![r] = new] /\ At(r, "idle")
      /\ req' \in [Request -> Local]
      /\ req'[r] = new /\ \A q \in Request : q # r => req'[q] = req[q]
  BY <1>1 DEF Upload, IInv, TypeOK, new
<1>3. TypeOK'
  BY <1>1, <1>2 DEF Upload, IInv, TypeOK, tables, Writers, At, Message
<1>4. Writers'
  BY <1>1, <1>2 DEF Upload, IInv, Writers, At, Reports, Books, Book, tables, Message
<1>5. Overlaps'
  <2>1. \A q \in Request : q # r /\ ~ At(q, "idle") =>
          overlapped' /\ (req[q].message = m => m \in raced')
    BY DEF Upload
  <2>2. raced \subseteq raced' /\ (overlapped => overlapped')
    BY DEF Upload
  <2>3. \A q \in Request : q # r => (At(q, "idle")' <=> At(q, "idle"))
    BY <1>2 DEF At
  <2> QED  BY <1>1, <1>2, <2>1, <2>2, <2>3 DEF IInv, Overlaps
<1>6. raced \subseteq raced' /\ (overlapped => overlapped')
  BY DEF Upload
<1>7. FoundStill'
  BY <1>1, <1>2, <1>6 DEF Upload, IInv, FoundStill, tables, Loaded, Books, Book
<1>8. Snapshots'
  BY <1>1, <1>2, <1>6 DEF Upload, IInv, Snapshots, tables, At, Total, Book
<1>9. LandedIsOk' /\ LandsOnce'
  BY <1>6 DEF Upload, IInv, LandedIsOk, LandsOnce, tables
<1>10. RosterIsLastReport' /\ NewestIsCurrent'
  BY <1>6 DEF Upload, IInv, RosterIsLastReport, Rosters, Newest, NewestIsCurrent, tables
<1> QED  BY <1>3, <1>4, <1>5, <1>7, <1>8, <1>9, <1>10 DEF IInv

LEMMA FindImportKeeps ==
  ASSUME IInv, NEW r \in Request, FindImport(r)
  PROVE  IInv'
<1>1. CASE End(r)
  <2>1. UNCHANGED <<tables, environment>>
    BY DEF FindImport
  <2>2. TypeOK'
    BY <1>1, <2>1, EndFrees, EndKeeps DEF IInv, TypeOK, tables, environment
  <2> QED  BY <1>1, <2>1, <2>2, EndKeeps, EndKeepsRest DEF IInv, environment
<1>2. CASE ~ End(r)
  <2>1. /\ At(r, "find") /\ imports[req[r].message] # "ok"
        /\ req' = [req EXCEPT ![r].phase = "flush", ![r].found = imports[req[r].message]]
        /\ UNCHANGED <<tables, writing, environment>>
    BY <1>2 DEF FindImport
  <2>2. req[r].message \in Message
    BY <2>1, BusyHasMessage DEF IInv, At
  <2> DEFINE new == [req[r] EXCEPT !.phase = "flush", !.found = imports[req[r].message]]
  <2>3. /\ new \in Local /\ new.phase = "flush" /\ new.message = req[r].message
        /\ new.found = imports[req[r].message] /\ new.override = req[r].override
        /\ req' = [req EXCEPT ![r] = new]
    BY <2>1, <2>2 DEF IInv, TypeOK, Local, Phase
  <2> HIDE DEF new
  <2>4. /\ req' \in [Request -> Local] /\ req'[r] = new
        /\ \A q \in Request : q # r => req'[q] = req[q]
    BY <2>3 DEF IInv, TypeOK
  <2>5. TypeOK'
    BY <2>1, <2>3, <2>4 DEF IInv, TypeOK, tables, environment
  <2>6. Writers' /\ Overlaps'
    BY <2>1, <2>2, <2>3, <2>4
    DEF IInv, Writers, Overlaps, At, Reports, Books, Book, environment, Message
  <2>7. FoundStill'
    BY <2>1, <2>2, <2>3, <2>4 DEF IInv, FoundStill, tables, environment, Loaded, Books, Book
  <2>8. Snapshots'
    BY <2>1, <2>3, <2>4 DEF IInv, Snapshots, tables, environment, At, Total, Book
  <2> QED  BY <2>1, <2>5, <2>6, <2>7, <2>8, MoveKeepsTables DEF IInv, environment
<1> QED  BY <1>1, <1>2

(* What an upload r does to the import row of a message nobody else writes. *)
LEMMA RecordKeepsFound ==
  ASSUME IInv, NEW r \in Request, End(r), UNCHANGED raced, ~ At(r, "idle"),
         writing[req[r].message] \in {Nil, r},
         NEW s \in Status, imports' = [imports EXCEPT ![req[r].message] = s],
         Book(r).parses /\ Book(r).type = "pnl" => s = "ok"
  PROVE  FoundStill'
<1>1. req[r].message \in Message
  BY BusyHasMessage DEF IInv
<1>2. /\ req'[r] = Idle
      /\ \A q \in Request : q # r => req'[q] = req[q]
  BY EndFrees DEF IInv
<1>3. \A m \in Message :
        Workbook[m].parses /\ Workbook[m].type = "pnl" => imports'[m] \in {"none", "ok"}
  BY <1>1 DEF IInv, FoundStill, TypeOK, Book
<1>4. ASSUME NEW q \in Request, Loaded(q)'
      PROVE  (/\ req[q].found # "ok"
              /\ req[q].message \notin raced => imports[req[q].message] = req[q].found
              /\ Book(q).parses /\ Book(q).type = "pnl" => req[q].found = "none"
              /\ Books(q) => imports[req[q].message] = "none")'
  <2>1. q # r /\ req'[q] = req[q] /\ Loaded(q) /\ ~ At(q, "idle")
    BY <1>2, <1>4 DEF Loaded, Idle, At
  <2>2. req[q].message \in Message
    BY <2>1, BusyHasMessage DEF IInv
  <2>3. CASE req[q].message # req[r].message
    BY <1>1, <2>1, <2>2, <2>3 DEF IInv, FoundStill, TypeOK, Books, Book
  <2>4. CASE req[q].message = req[r].message
    <3>1. req[q].message \in raced
      BY <2>1, <2>4 DEF IInv, Overlaps
    <3>2. ~ Books(q)
      BY <2>1, <2>4, NilAssumption DEF IInv, Writers
    <3> QED  BY <2>1, <3>1, <3>2 DEF IInv, FoundStill, Books, Book
  <2> QED  BY <2>3, <2>4
<1> QED  BY <1>3, <1>4 DEF FoundStill

LEMMA RecordImportKeeps ==
  ASSUME IInv, NEW r \in Request, RecordImport(r)
  PROVE  IInv'
<1> DEFINE m == req[r].message
<1>1. /\ At(r, "flush") /\ ~ At(r, "idle") /\ writing[m] = Nil /\ Loaded(r)
      /\ UNCHANGED <<rows, current, baseline, ledger, landed, environment>>
  BY DEF RecordImport, At, Loaded
<1>2. m \in Message
  BY <1>1, BusyHasMessage DEF IInv
<1>3. CASE req[r].found = "none" /\ imports[m] # "none"
  <2>1. End(r) /\ UNCHANGED imports
    BY <1>3 DEF RecordImport
  <2>2. UNCHANGED <<tables, environment>>
    BY <1>1, <2>1 DEF tables
  <2>3. TypeOK'
    BY <2>1, <2>2, EndFrees, EndKeeps DEF IInv, TypeOK, tables, environment
  <2> QED  BY <2>1, <2>2, <2>3, EndKeeps, EndKeepsRest DEF IInv, environment
<1>4. CASE ~ (req[r].found = "none" /\ imports[m] # "none") /\ ~ Book(r).parses
  <2>1. End(r) /\ imports' = [imports EXCEPT ![m] = "failed"]
    BY <1>4 DEF RecordImport
  <2>2. /\ req'[r] = Idle
        /\ \A q \in Request : q # r => req'[q] = req[q]
    BY <2>1, EndFrees DEF IInv
  <2>3. TypeOK'
    BY <1>1, <2>1, EndFrees, EndKeeps DEF IInv, TypeOK, environment, Status
  <2>4. Writers' /\ Overlaps'
    BY <1>1, <2>1, EndKeeps DEF IInv, environment
  <2>5. FoundStill'
    <3>1. "failed" \in Status /\ UNCHANGED raced
      BY <1>1 DEF Status, environment
    <3> QED  BY <1>1, <1>4, <2>1, <3>1, RecordKeepsFound
  <2>6. LandedIsOk'
    BY <1>1, <1>4, <2>1 DEF IInv, LandedIsOk, TypeOK, Book, environment
  <2>7. Snapshots'
    BY <1>1, <2>2 DEF IInv, Snapshots, At, Idle, Total, Book, environment
  <2>8. LandsOnce' /\ RosterIsLastReport' /\ NewestIsCurrent'
    BY <1>1 DEF IInv, LandsOnce, RosterIsLastReport, Rosters, Newest, NewestIsCurrent, environment
  <2> QED  BY <2>3, <2>4, <2>5, <2>6, <2>7, <2>8 DEF IInv
<1>5. CASE ~ (req[r].found = "none" /\ imports[m] # "none") /\ Book(r).parses
  <2> DEFINE p == IF Book(r).type = "membership" THEN "guard" ELSE "flip"
  <2>1. /\ writing' = [writing EXCEPT ![m] = r]
        /\ req' = [req EXCEPT ![r].phase = p]
        /\ UNCHANGED <<tables, environment>>
    BY <1>1, <1>5 DEF RecordImport, Go, tables
  <2>2. p \in {"guard", "flip"} /\ (p = "guard" <=> Book(r).type = "membership")
    OBVIOUS
  <2>3. Book(r).type \in {"membership", "pnl"}
    BY <1>2, WorkbookAssumption DEF Book, Parsed
  <2> HIDE DEF p
  <2>4. /\ req' \in [Request -> Local]
        /\ req'[r].phase = p /\ req'[r].message = m /\ req'[r].found = req[r].found
        /\ \A q \in Request : q # r => req'[q] = req[q]
        /\ writing'[m] = r /\ \A x \in Message : x # m => writing'[x] = writing[x]
    BY <1>2, <2>1, <2>2 DEF IInv, TypeOK, Local, Phase
  <2>5. TypeOK'
    BY <1>2, <2>1, <2>4, NilAssumption DEF IInv, TypeOK, tables, environment
  <2>6. Writers'
    <3>1. \A q \in Request : q # r /\ (Reports(q) \/ Books(q)) => req[q].message # m
      BY <1>1, NilAssumption DEF IInv, Writers
    <3>2. \A q \in Request : ~ At(q, "idle") => req[q].message \in Message
      BY BusyHasMessage DEF IInv
    <3> QED  BY <1>2, <1>5, <2>1, <2>2, <2>3, <2>4, <3>1, <3>2
             DEF IInv, Writers, At, Reports, Books, Book, Message
  <2>7. Overlaps'
    BY <1>1, <2>1, <2>2, <2>4 DEF IInv, Overlaps, At, environment
  <2>8. FoundStill'
    BY <1>1, <1>2, <1>5, <2>1, <2>2, <2>3, <2>4
    DEF IInv, FoundStill, tables, environment, Loaded, Books, Book
  <2>9. Snapshots'
    BY <2>1, <2>2, <2>4 DEF IInv, Snapshots, tables, environment, At, Total, Book
  <2> QED  BY <2>1, <2>5, <2>6, <2>7, <2>8, <2>9, MoveKeepsTables DEF IInv, environment
<1> QED  BY <1>3, <1>4, <1>5

(* The next statement of an upload that has its import row written.         *)
LEMMA NextStatementKeeps ==
  ASSUME IInv, NEW r \in Request, NEW new \in Local, req' = [req EXCEPT ![r] = new],
         new.message = req[r].message, new.found = req[r].found,
         new.override = req[r].override,
         \/ Reports(r) /\ new.phase \in {"sweep", "land"}
         \/ Books(r) /\ new.phase = "insert",
         new.phase = "land" => new.students = rows,
         new.phase = "insert" => new.reports = DOMAIN ledger,
         new.phase \in {"sweep", "land"} /\ ~ overlapped =>
           req[r].override \/ 10 * Total(r) >= 8 * baseline,
         UNCHANGED <<tables, writing, environment>>
  PROVE  IInv'
<1>1. /\ req' \in [Request -> Local] /\ req'[r] = new
      /\ \A q \in Request : q # r => req'[q] = req[q]
  BY DEF IInv, TypeOK
<1>2. TypeOK'
  BY <1>1 DEF IInv, TypeOK, tables, environment
<1>3. Writers' /\ Overlaps'
  BY <1>1 DEF IInv, Writers, Overlaps, At, Reports, Books, Book, environment
<1>4. FoundStill'
  BY <1>1 DEF IInv, FoundStill, tables, environment, Loaded, Reports, Books, Book
<1>5. Snapshots'
  <2>1. UNCHANGED <<rows, ledger, baseline, overlapped>>
    BY DEF tables, environment
  <2>2. \A q \in Request : Total(q)' = Total(q)
    BY <1>1 DEF Total, Book
  <2> QED  BY <1>1, <2>1, <2>2 DEF IInv, Snapshots, At
<1> QED  BY <1>2, <1>3, <1>4, <1>5, MoveKeepsTables DEF IInv, environment

LEMMA PassKeeps ==
  ASSUME IInv, NEW r \in Request, Pass(r)
  PROVE  IInv'
<1> DEFINE new == [req[r] EXCEPT !.phase = "sweep"]
<1>1. new \in Local /\ new.phase = "sweep"
  BY DEF IInv, TypeOK, Local, Phase
<1>2. /\ new.message = req[r].message /\ new.found = req[r].found
      /\ new.override = req[r].override
      /\ req' = [req EXCEPT ![r] = new]
  BY DEF Pass, Go, IInv, TypeOK, Local
<1> HIDE DEF new
<1>3. Reports(r) /\ UNCHANGED <<tables, writing, environment>>
  BY DEF Pass, At, Reports
<1>4. req[r].message \in Message
  BY <1>3, BusyHasMessage DEF IInv, Reports, At
<1>5. Total(r) \in Nat /\ baseline \in Nat
  BY <1>4, TotalIsNat DEF IInv, TypeOK
<1>6. req[r].override \/ 10 * Total(r) >= 8 * baseline
  BY <1>5 DEF Pass, GuardRefuses
<1> QED  BY <1>1, <1>2, <1>3, <1>6, NextStatementKeeps

LEMMA SweepKeeps ==
  ASSUME IInv, NEW r \in Request, Sweep(r)
  PROVE  IInv'
<1> DEFINE new == [req[r] EXCEPT !.phase = "land", !.students = rows]
<1>1. new \in Local /\ new.phase = "land" /\ new.students = rows
  BY DEF IInv, TypeOK, Local, Phase
<1>2. /\ new.message = req[r].message /\ new.found = req[r].found
      /\ new.override = req[r].override
      /\ req' = [req EXCEPT ![r] = new]
  BY DEF Sweep, IInv, TypeOK, Local
<1> HIDE DEF new
<1>3. At(r, "sweep") /\ Reports(r) /\ UNCHANGED <<tables, writing, environment>>
  BY DEF Sweep, At, Reports
<1>4. overlapped \/ req[r].override \/ 10 * Total(r) >= 8 * baseline
  BY <1>3 DEF IInv, Snapshots
<1> QED  BY <1>1, <1>2, <1>3, <1>4, NextStatementKeeps

LEMMA FlipKeeps ==
  ASSUME IInv, NEW r \in Request, Flip(r)
  PROVE  IInv'
<1> DEFINE new == [req[r] EXCEPT !.phase = "insert", !.reports = DOMAIN ledger]
<1>1. DOMAIN ledger \subseteq Nat
  BY DEF IInv, TypeOK
<1>2. new \in Local /\ new.phase = "insert" /\ new.reports = DOMAIN ledger
  BY <1>1 DEF IInv, TypeOK, Local, Phase
<1>3. /\ new.message = req[r].message /\ new.found = req[r].found
      /\ new.override = req[r].override
      /\ req' = [req EXCEPT ![r] = new]
  BY DEF Flip, IInv, TypeOK, Local
<1> HIDE DEF new
<1>4. Books(r) /\ UNCHANGED <<tables, writing, environment>>
  BY DEF Flip, At, Books
<1> QED  BY <1>2, <1>3, <1>4, NextStatementKeeps

(* A refused report: had it landed, it would not have been loaded as it was *)
(* unless another upload of it came.                                        *)
LEMMA RefuseKeeps ==
  ASSUME IInv, NEW r \in Request, Refuse(r)
  PROVE  IInv'
<1> DEFINE m == req[r].message
<1>1. /\ At(r, "guard") /\ End(r) /\ imports' = [imports EXCEPT ![m] = "needs_review"]
      /\ UNCHANGED <<rows, current, baseline, ledger, landed, environment>>
  BY DEF Refuse
<1>2. /\ Reports(r) /\ Loaded(r) /\ ~ At(r, "idle")
      /\ Book(r).type = "membership" /\ writing[m] = r
  BY <1>1 DEF IInv, Writers, At, Reports, Loaded
<1>3. m \in Message
  BY <1>2, BusyHasMessage DEF IInv
<1>4. TypeOK'
  BY <1>1, EndFrees, EndKeeps DEF IInv, TypeOK, environment, Status
<1>5. Writers' /\ Overlaps'
  BY <1>1, EndKeeps DEF IInv, environment
<1>6. FoundStill'
  <2>1. "needs_review" \in Status /\ UNCHANGED raced
    BY <1>1 DEF Status, environment
  <2> QED  BY <1>1, <1>2, <2>1, RecordKeepsFound
<1>7. LandedIsOk'
  <2>1. m \notin raced => imports[m] # "ok"
    BY <1>2 DEF IInv, FoundStill
  <2> QED  BY <1>1, <1>2, <1>3, <2>1 DEF IInv, LandedIsOk, TypeOK, Book, environment
<1>8. Snapshots'
  <2>1. /\ req'[r] = Idle
        /\ \A q \in Request : q # r => req'[q] = req[q]
    BY <1>1, EndFrees DEF IInv
  <2> QED  BY <1>1, <2>1 DEF IInv, Snapshots, At, Idle, Total, Book, environment
<1>9. LandsOnce' /\ RosterIsLastReport' /\ NewestIsCurrent'
  BY <1>1 DEF IInv, LandsOnce, RosterIsLastReport, Rosters, Newest, NewestIsCurrent, environment
<1> QED  BY <1>4, <1>5, <1>6, <1>7, <1>8, <1>9 DEF IInv

(* A message that lands: it had not landed before.                          *)
LEMMA LandingKeeps ==
  ASSUME IInv, NEW r \in Request, End(r), At(r, "land") \/ At(r, "insert"),
         imports' = [imports EXCEPT ![req[r].message] = "ok"],
         landed' = Append(landed, req[r].message),
         UNCHANGED environment
  PROVE  /\ req[r].message \in Message
         /\ imports' \in [Message -> Status] /\ landed' \in Seq(Message)
         /\ Writers' /\ Overlaps' /\ FoundStill' /\ LandedIsOk' /\ LandsOnce'
<1> DEFINE m == req[r].message
<1>1. /\ ~ At(r, "idle") /\ Loaded(r) /\ (Reports(r) \/ Books(r))
      /\ writing[m] = r /\ Book(r).parses
      /\ (Book(r).type = "pnl" => Books(r))
  BY DEF IInv, Writers, At, Loaded, Reports, Books
<1>2. m \in Message
  BY <1>1, BusyHasMessage DEF IInv
<1>3. imports' \in [Message -> Status] /\ landed' \in Seq(Message)
  BY <1>2 DEF IInv, TypeOK, Status
<1>4. Writers' /\ Overlaps'
  BY EndKeeps DEF IInv, environment
<1>5. FoundStill'
  <2>1. "ok" \in Status /\ UNCHANGED raced
    BY DEF Status, environment
  <2> QED  BY <1>1, <2>1, RecordKeepsFound
<1>6. m \notin raced \/ Book(r).type = "pnl" => imports[m] # "ok"
  BY <1>1 DEF IInv, FoundStill
<1>7. /\ DOMAIN landed = 1 .. Len(landed) /\ Len(landed) \in Nat
      /\ DOMAIN landed' = 1 .. Len(landed) + 1
      /\ landed'[Len(landed) + 1] = m
      /\ \A i \in DOMAIN landed : landed'[i] = landed[i] /\ landed[i] \in Message
  BY <1>2 DEF IInv, TypeOK
<1>8. \A i \in DOMAIN landed : landed[i] = m => m \in raced /\ Book(r).type # "pnl"
  BY <1>6 DEF IInv, LandedIsOk, Book
<1>9. LandedIsOk'
  <2>1. \A x \in Message : imports[x] = "ok" => imports'[x] = "ok"
    BY DEF IInv, TypeOK
  <2>2. imports'[m] = "ok"
    BY <1>2 DEF IInv, TypeOK
  <2>3. ASSUME NEW i \in DOMAIN landed'
        PROVE  (LET x == landed[i] IN
                /\ Workbook[x].parses
                /\ x \notin raced \/ Workbook[x].type = "pnl" => imports[x] = "ok")'
    <3>1. CASE i \in DOMAIN landed
      BY <1>7, <2>1, <3>1 DEF IInv, LandedIsOk, environment
    <3>2. CASE i = Len(landed) + 1
      BY <1>1, <1>7, <2>2, <3>2 DEF Book
    <3> QED  BY <1>7, <3>1, <3>2
  <2> QED  BY <2>3 DEF LandedIsOk
<1>10. LandsOnce'
  <2>1. Book(r).type \in {"membership", "pnl"}
    BY <1>2, WorkbookAssumption DEF Book, Parsed
  <2>2. \A i \in DOMAIN landed : landed[i] = m =>
          m \in raced /\ Workbook[m].type = "membership"
    BY <1>8, <2>1 DEF Book
  <2>3. UNCHANGED raced
    BY DEF environment
  <2> QED  BY <1>7, <2>2, <2>3 DEF IInv, LandsOnce
<1> QED  BY <1>2, <1>3, <1>4, <1>5, <1>9, <1>10

LEMMA LandRosterKeeps ==
  ASSUME IInv, NEW r \in Request, LandRoster(r)
  PROVE  IInv'
<1> DEFINE m == req[r].message  members == Book(r).members
<1>1. /\ At(r, "land") /\ End(r) /\ baseline' = Total(r)
      /\ rows' = rows \cup members
      /\ current' = (current \ req[r].students) \cup members
      /\ imports' = [imports EXCEPT ![m] = "ok"] /\ landed' = Append(landed, m)
      /\ UNCHANGED <<ledger, environment>>
  BY DEF LandRoster
<1>2. /\ m \in Message /\ imports' \in [Message -> Status] /\ landed' \in Seq(Message)
      /\ Writers' /\ Overlaps' /\ FoundStill' /\ LandedIsOk' /\ LandsOnce'
  BY <1>1, LandingKeeps
<1>3. /\ req'[r] = Idle
      /\ \A q \in Request : q # r => req'[q] = req[q]
  BY <1>1, EndFrees DEF IInv
<1>4. TypeOK'
  <2>1. members \subseteq Student
    BY <1>2, WorkbookAssumption DEF Book, Parsed
  <2>2. Total(r) \in Nat
    BY <1>2, TotalIsNat DEF IInv
  <2>3. rows' \subseteq Student /\ current' \subseteq rows'
    BY <1>1, <2>1 DEF IInv, TypeOK
  <2>4. \A x \in Message : writing'[x] # Nil => req'[writing'[x]].message = x
    BY <1>1, EndKeeps DEF IInv, environment
  <2> QED  BY <1>1, <1>2, <2>2, <2>3, <2>4, EndFrees DEF IInv, TypeOK, environment
<1>5. overlapped \/ \A q \in Request : q # r => At(q, "idle")
  BY <1>1 DEF IInv, Overlaps, At
<1>6. Snapshots'
  <2>1. CASE overlapped
    BY <1>1, <2>1 DEF Snapshots, environment
  <2>2. CASE \A q \in Request : q # r => At(q, "idle")
    BY <1>3, <2>2 DEF Snapshots, At, Idle
  <2> QED  BY <1>5, <2>1, <2>2
<1>7. RosterIsLastReport'
  <2>1. /\ Len(landed) \in Nat /\ DOMAIN landed = 1 .. Len(landed)
        /\ DOMAIN landed' = 1 .. Len(landed) + 1
        /\ landed'[Len(landed) + 1] = m
    BY <1>1, <1>2 DEF IInv, TypeOK
  <2>2. Len(landed) + 1 \in Rosters'
    BY <1>1, <2>1 DEF Rosters, IInv, Writers, Reports, At, Book
  <2>3. \A i \in Rosters' : Newest(i)' => i = Len(landed) + 1
    BY <2>1, <2>2 DEF Newest, Rosters
  <2>4. members \subseteq current'
    BY <1>1
  <2>5. current' \subseteq members \/ overlapped
    <3>1. overlapped \/ req[r].students = rows
      BY <1>1 DEF IInv, Snapshots
    <3> QED  BY <1>1, <3>1 DEF IInv, TypeOK
  <2> QED  BY <1>1, <2>1, <2>2, <2>3, <2>4, <2>5 DEF RosterIsLastReport, Book, environment
<1>8. NewestIsCurrent'
  BY <1>1 DEF IInv, NewestIsCurrent, environment
<1> QED  BY <1>2, <1>4, <1>6, <1>7, <1>8 DEF IInv

LEMMA LandLedgerKeeps ==
  ASSUME IInv, NEW r \in Request, LandLedger(r)
  PROVE  IInv'
<1> DEFINE m == req[r].message
           old == [i \in DOMAIN ledger |-> [ledger[i] EXCEPT !.current = @ /\ i \notin req[r].reports]]
           new == [message |-> m, current |-> TRUE]
<1>1. /\ At(r, "insert") /\ End(r)
      /\ ledger' = Append(old, new)
      /\ imports' = [imports EXCEPT ![m] = "ok"] /\ landed' = Append(landed, m)
      /\ UNCHANGED <<rows, current, baseline, environment>>
  BY DEF LandLedger
<1>2. /\ m \in Message /\ imports' \in [Message -> Status] /\ landed' \in Seq(Message)
      /\ Writers' /\ Overlaps' /\ FoundStill' /\ LandedIsOk' /\ LandsOnce'
  BY <1>1, LandingKeeps
<1>3. /\ req'[r] = Idle
      /\ \A q \in Request : q # r => req'[q] = req[q]
  BY <1>1, EndFrees DEF IInv
<1> DEFINE Row == [message : Message, current : BOOLEAN]
<1>4. /\ Len(ledger) \in Nat /\ DOMAIN ledger = 1 .. Len(ledger)
      /\ \A i \in DOMAIN ledger : ledger[i] \in Row
  <2>1. ledger \in Seq(Row)
    BY DEF IInv, TypeOK
  <2> HIDE DEF Row
  <2> QED  BY <2>1
<1>5. /\ old \in Seq(Row) /\ Len(old) = Len(ledger)
      /\ \A i \in DOMAIN ledger :
           old[i].current <=> ledger[i].current /\ i \notin req[r].reports
  <2>1. \A i \in DOMAIN ledger : old[i] \in Row
    BY <1>4
  <2>2. old \in [1 .. Len(ledger) -> Row]
    BY <1>4, <2>1
  <2>3. old \in Seq(Row) /\ Len(old) = Len(ledger)
    BY <1>4, <2>2
  <2>4. \A i \in DOMAIN ledger :
           old[i].current <=> ledger[i].current /\ i \notin req[r].reports
    BY <1>4
  <2> QED  BY <2>3, <2>4
<1> HIDE DEF old
<1>6. /\ ledger' \in Seq(Row) /\ Len(ledger') = Len(ledger) + 1
      /\ ledger'[Len(ledger')].current
      /\ \A i \in DOMAIN ledger : ledger'[i] = old[i]
  BY <1>1, <1>2, <1>4, <1>5
<1>7. TypeOK'
  <2>1. \A x \in Message : writing'[x] # Nil => req'[writing'[x]].message = x
    BY <1>1, EndKeeps DEF IInv, environment
  <2> QED  BY <1>1, <1>2, <1>6, <2>1, EndFrees DEF IInv, TypeOK, environment
<1>8. overlapped \/ \A q \in Request : q # r => At(q, "idle")
  BY <1>1 DEF IInv, Overlaps, At
<1>9. Snapshots'
  <2>1. CASE overlapped
    BY <1>1, <2>1 DEF Snapshots, environment
  <2>2. CASE \A q \in Request : q # r => At(q, "idle")
    BY <1>3, <2>2 DEF Snapshots, At, Idle
  <2> QED  BY <1>8, <2>1, <2>2
<1>10. RosterIsLastReport'
  <2>1. /\ Len(landed) \in Nat /\ DOMAIN landed = 1 .. Len(landed)
        /\ DOMAIN landed' = 1 .. Len(landed) + 1
        /\ landed'[Len(landed) + 1] = m
        /\ \A i \in DOMAIN landed : landed'[i] = landed[i]
    BY <1>1, <1>2 DEF IInv, TypeOK
  <2>2. Workbook[m].type # "membership"
    BY <1>1 DEF IInv, Writers, Books, At, Book
  <2>3. Rosters' = Rosters
    BY <2>1, <2>2 DEF Rosters
  <2>4. \A i \in Rosters : landed'[i] = landed[i] /\ (Newest(i)' <=> Newest(i))
    BY <2>1, <2>3 DEF Newest, Rosters
  <2> QED  BY <1>1, <2>3, <2>4 DEF IInv, RosterIsLastReport, environment
<1>11. NewestIsCurrent'
  <2>1. ASSUME ~ overlapped, NEW i \in DOMAIN ledger', ledger'[i].current
        PROVE  i = Len(ledger')
    <3>1. req[r].reports = DOMAIN ledger
      BY <1>1, <2>1 DEF IInv, Snapshots
    <3>2. DOMAIN ledger' = 1 .. Len(ledger')
      BY <1>6
    <3>3. i \notin DOMAIN ledger
      BY <1>5, <1>6, <2>1, <3>1
    <3> QED  BY <1>4, <1>6, <2>1, <3>2, <3>3
  <2> QED  BY <1>1, <1>6, <2>1 DEF NewestIsCurrent, environment
<1> QED  BY <1>2, <1>7, <1>9, <1>10, <1>11 DEF IInv

LEMMA RollbackKeeps ==
  ASSUME IInv, NEW r \in Request, End(r), UNCHANGED <<tables, override, overlapped, raced>>,
         failures' \in Nat, sends' \in Nat
  PROVE  IInv'
<1>1. TypeOK'
  BY EndFrees, EndKeeps DEF IInv, TypeOK, tables
<1> QED  BY <1>1, EndKeeps, EndKeepsRest DEF IInv

LEMMA SetOverrideKeeps ==
  ASSUME IInv, SetOverride
  PROVE  IInv'
<1>1. UNCHANGED <<tables, writing, failures, sends, overlapped, raced, req>>
  BY DEF SetOverride
<1>2. TypeOK'
  BY <1>1 DEF SetOverride, IInv, TypeOK, tables
<1>3. Writers' /\ Overlaps' /\ FoundStill' /\ Snapshots'
  BY <1>1 DEF IInv, Writers, Overlaps, FoundStill, Snapshots, At, Reports, Books, Loaded, Book,
              Total, tables
<1> QED  BY <1>1, <1>2, <1>3, MoveKeepsTables DEF IInv

LEMMA IInvHolds == Spec => []IInv
<1>1. Init => IInv
  <2> SUFFICES ASSUME Init PROVE IInv
    OBVIOUS
  <2>1. TypeOK
    <3>1. Idle \in Local
      BY DEF Idle, Local, Phase, Status
    <3>2. ledger \in Seq([message : Message, current : BOOLEAN]) /\ landed \in Seq(Message)
      BY DEF Init
    <3>3. /\ imports \in [Message -> Status] /\ req \in [Request -> Local]
          /\ writing \in [Message -> Request \cup {Nil}]
          /\ \A m \in Message : writing[m] = Nil
      BY <3>1 DEF Init, Status
    <3> QED  BY <3>2, <3>3 DEF Init, TypeOK
  <2>2. Writers /\ Overlaps /\ FoundStill /\ Snapshots
    BY DEF Init, Writers, Overlaps, FoundStill, Snapshots, Idle, At, Reports, Books, Loaded
  <2>3. LandedIsOk /\ LandsOnce /\ RosterIsLastReport /\ NewestIsCurrent
    BY DEF Init, LandedIsOk, LandsOnce, RosterIsLastReport, Rosters, NewestIsCurrent
  <2> QED  BY <2>1, <2>2, <2>3 DEF IInv
<1>2. IInv /\ [Next]_vars => IInv'
  <2> SUFFICES ASSUME IInv, [Next]_vars PROVE IInv'
    OBVIOUS
  <2>1. ASSUME NEW r \in Request, NEW m \in Message, Upload(r, m) PROVE IInv'
    BY <2>1, UploadKeeps
  <2>2. ASSUME NEW r \in Request, Step(r) PROVE IInv'
    <3>1. CASE RefuseTwice(r)
      <4>1. End(r) /\ UNCHANGED <<tables, environment>>
        BY <3>1 DEF RefuseTwice
      <4> QED  BY <4>1, RollbackKeeps DEF environment, IInv, TypeOK
    <3> QED  BY <2>2, <3>1, FindImportKeeps, RecordImportKeeps, RefuseKeeps, PassKeeps,
                SweepKeeps, LandRosterKeeps, FlipKeeps, LandLedgerKeeps DEF Step
  <2>3. ASSUME NEW r \in Request, Abort(r) PROVE IInv'
    <3>1. /\ End(r) /\ UNCHANGED <<tables, override, overlapped, raced>>
          /\ failures' = failures + 1 /\ sends' = sends
      BY <2>3 DEF Abort
    <3>2. failures' \in Nat /\ sends' \in Nat
      BY <3>1 DEF IInv, TypeOK
    <3> QED  BY <3>1, <3>2, RollbackKeeps
  <2>4. CASE SetOverride
    BY <2>4, SetOverrideKeeps
  <2>5. CASE UNCHANGED vars
    <3>1. TypeOK'
      BY <2>5 DEF IInv, TypeOK, vars
    <3>2. Writers' /\ Overlaps' /\ FoundStill' /\ Snapshots'
      BY <2>5 DEF IInv, Writers, Overlaps, FoundStill, Snapshots, At, Reports, Books, Loaded,
                  Book, Total, vars
    <3> QED  BY <2>5, <3>1, <3>2, MoveKeepsTables DEF IInv, vars, tables
  <2> QED  BY <2>1, <2>2, <2>3, <2>4, <2>5 DEF Next
<1> QED  BY <1>1, <1>2, PTL DEF Spec

-----------------------------------------------------------------------------
(* The tables and the local variables of every upload have their types, the *)
(* current roster is rows there are, and an uncommitted import row belongs  *)
(* to the upload of that message.                                           *)
THEOREM TypeCorrect == Spec => []TypeOK
BY IInvHolds, PTL DEF IInv

(* A message lands at most once however often it is sent, killed half way   *)
(* and sent again: a profit and loss report always, a membership report     *)
(* unless two uploads of it overlapped (`handle_dusa_upload`).              *)
THEOREM MessagesLandOnce == Spec => []LandsOnce
BY IInvHolds, PTL DEF IInv

(* The current roster is the membership report that landed last, exactly if *)
(* no uploads overlapped and at least if they did (`_ingest_membership`).   *)
THEOREM RosterHolds == Spec => []RosterIsLastReport
BY IInvHolds, PTL DEF IInv

(* There is a current finance snapshot once there is one at all, and one    *)
(* only unless uploads overlapped (`_ingest_pnl`).                          *)
THEOREM LedgerHolds == Spec => []OneCurrentLedger
<1>1. IInv => OneCurrentLedger
  <2> SUFFICES ASSUME IInv PROVE OneCurrentLedger
    OBVIOUS
  <2> DEFINE now == {i \in DOMAIN ledger : ledger[i].current}
  <2>1. ledger # <<>> => Len(ledger) \in now
    BY DEF IInv, TypeOK, NewestIsCurrent
  <2>2. overlapped \/ now \subseteq {Len(ledger)}
    BY DEF IInv, NewestIsCurrent
  <2>3. Cardinality({}) = 0 /\ Cardinality({Len(ledger)}) = 1
    BY FS_EmptySet, FS_Singleton
  <2>4. overlapped \/ now = {} \/ now = {Len(ledger)}
    BY <2>2
  <2>5. Cardinality(now) <= 1 \/ overlapped
    <3>1. CASE now = {}
      BY <2>3, <3>1
    <3>2. CASE now = {Len(ledger)}
      <4> HIDE DEF now
      <4> QED  BY <2>3, <3>2
    <3> QED  BY <2>4, <3>1, <3>2
  <2> QED  BY <2>1, <2>5 DEF OneCurrentLedger
<1> QED  BY <1>1, IInvHolds, PTL

(* A roster that has shrunk below 80 % of the one before it is not taken    *)
(* over without the override, and a report that is refused or does not      *)
(* parse changes nothing but its own import row (`_roster_guard_reason`).   *)
THEOREM RosterIsGuarded == Spec => GuardHolds
<1> DEFINE
      Guarded ==
        /\ current' # current \/ baseline' # baseline =>
             \E r \in Request :
               /\ At(r, "land")
               /\ landed' = Append(landed, req[r].message)
               /\ req[r].override \/ 10 * baseline' >= 8 * baseline \/ overlapped
        /\ \A m \in Message :
             imports'[m] # imports[m] /\ imports'[m] # "ok" =>
               UNCHANGED <<current, rows, baseline, ledger, landed>>
<1>1. IInv /\ [Next]_vars => [Guarded]_vars
  <2> SUFFICES ASSUME IInv, Next PROVE Guarded
    BY DEF vars
  <2>1. CASE \E r \in Request : LandRoster(r)
    <3>1. PICK r \in Request : LandRoster(r)
      BY <2>1
    <3>2. /\ At(r, "land") /\ landed' = Append(landed, req[r].message) /\ baseline' = Total(r)
          /\ imports' = [imports EXCEPT ![req[r].message] = "ok"]
      BY <3>1 DEF LandRoster
    <3>3. req[r].override \/ 10 * baseline' >= 8 * baseline \/ overlapped
      BY <3>2 DEF IInv, Snapshots
    <3>4. \A m \in Message : imports'[m] # imports[m] => imports'[m] = "ok"
      BY <3>2 DEF IInv, TypeOK
    <3> QED  BY <3>2, <3>3, <3>4
  <2>2. CASE \E r \in Request : LandLedger(r)
    <3>1. PICK r \in Request : LandLedger(r)
      BY <2>2
    <3>2. UNCHANGED <<current, baseline>> /\ imports' = [imports EXCEPT ![req[r].message] = "ok"]
      BY <3>1 DEF LandLedger
    <3>3. \A m \in Message : imports'[m] # imports[m] => imports'[m] = "ok"
      BY <3>2 DEF IInv, TypeOK
    <3> QED  BY <3>2, <3>3
  <2>3. CASE ~ \E r \in Request : LandRoster(r) \/ LandLedger(r)
    <3>1. UNCHANGED <<current, rows, baseline, ledger, landed>>
      BY <2>3 DEF Next, Step, Upload, FindImport, RecordImport, Refuse, Pass, Sweep, RefuseTwice,
                  Flip, Abort, SetOverride, tables
    <3> QED  BY <3>1
  <2> QED  BY <2>1, <2>2, <2>3
<1> QED  BY <1>1, IInvHolds, PTL DEF Spec, GuardHolds

============================================================================
