--------------------------- MODULE GatewayProofs ----------------------------
(* For any number of requests, buckets and windows: the limiter loses no    *)
(* increment of the current window and implements the quota.  And for every *)
(* set of keys, logins and handlers and every cap: what TriggerBudget       *)
(* promises of a day.                                                       *)
EXTENDS Gateway, FiniteLemmas, TLAPS

(* The window of a request is never ahead of the clock, and the row that    *)
(* made an insert fail is still there, unless its minute is over.           *)
WindowOK(r) ==
  /\ ~ At(r, "idle") => req[r].window <= now
  /\ At(r, "retry") /\ req[r].window = now => RowOf(r) # 0

IInv ==
  /\ TypeOK
  /\ \A r \in Request : WindowOK(r)
  /\ NoLostIncrement

(* The steps of one request, apart from its arrival.                        *)
Statement(r) ==
  Select(r) \/ Update(r) \/ Insert(r) \/ Retry(r) \/ Answer(r) \/ Abort(r)

LEMMA Windows == Window \subseteq Nat /\ \A w \in Window : w <= MaxWindow
  BY WindowAssumption DEF Window

(* A statement ends in one of four ways.                                    *)
Moves(r, phase) ==
  /\ ~ At(r, "idle") /\ ~ At(r, "counted")
  /\ phase \in {"update", "insert", "retry"}
  /\ phase = "retry" => RowOf(r) # 0
  /\ req' = [req EXCEPT ![r].phase = phase]
  /\ UNCHANGED <<now, count>>

Counts(r) ==
  /\ ~ At(r, "idle") /\ ~ At(r, "counted")
  /\ Write(r, RowOf(r) + 1)

CountsLate(r) ==
  /\ At(r, "retry") /\ RowOf(r) = 0
  /\ req' = [req EXCEPT ![r].phase = "counted", ![r].got = 1]
  /\ UNCHANGED <<now, count>>

Leaves(r) == ~ At(r, "idle") /\ Leave(r)

LEMMA StatementCases ==
  ASSUME TypeOK, NEW r \in Request, Statement(r)
  PROVE  \/ \E phase \in {"update", "insert", "retry"} : Moves(r, phase)
         \/ Counts(r) \/ CountsLate(r) \/ Leaves(r)
<1>1. CASE Select(r)
  BY <1>1 DEF Select, Moves, At
<1>2. CASE Update(r)
  BY <1>2 DEF Update, Counts, Leaves, At
<1>3. CASE Insert(r)
  <2>1. CASE RowOf(r) = 0 /\ Write(r, 1)
    <3>1. RowOf(r) + 1 = 1
      BY <2>1
    <3> QED  BY <1>3, <2>1, <3>1 DEF Insert, Counts, At
  <2>2. CASE RowOf(r) # 0 /\ req' = [req EXCEPT ![r].phase = "retry"] /\ UNCHANGED <<now, count>>
    BY <1>3, <2>2 DEF Insert, Moves, At
  <2> QED  BY <1>3, <2>1, <2>2 DEF Insert
<1>4. CASE Retry(r)
  BY <1>4 DEF Retry, Counts, CountsLate, At
<1>5. CASE Answer(r)
  BY <1>5 DEF Answer, Leaves, At
<1>6. CASE Abort(r)
  BY <1>6 DEF Abort, Leaves
<1> QED  BY <1>1, <1>2, <1>3, <1>4, <1>5, <1>6 DEF Statement

LEMMA CountedLocal ==
  ASSUME NEW l \in Local, NEW n \in Nat
  PROVE  /\ [l EXCEPT !.phase = "counted", !.got = n] \in Local
         /\ [l EXCEPT !.phase = "counted", !.got = n].phase = "counted"
         /\ [l EXCEPT !.phase = "counted", !.got = n].got = n
         /\ [l EXCEPT !.phase = "counted", !.got = n].bucket = l.bucket
         /\ [l EXCEPT !.phase = "counted", !.got = n].window = l.window
  BY DEF Local, Phase

(* What a write leaves of the rows and of the other requests.               *)
LEMMA CountsEffect ==
  ASSUME TypeOK, NEW r \in Request, Counts(r)
  PROVE  /\ req[r].bucket \in Bucket /\ req[r].window \in Window
         /\ RowOf(r) \in Nat
         /\ count' \in [Bucket -> [Window -> Nat]]
         /\ count'[req[r].bucket][req[r].window] = RowOf(r) + 1
         /\ \A b \in Bucket, w \in Window :
              b # req[r].bucket \/ w # req[r].window => count'[b][w] = count[b][w]
         /\ req' \in [Request -> Local]
         /\ req'[r].phase = "counted" /\ req'[r].got = RowOf(r) + 1
         /\ req'[r].bucket = req[r].bucket /\ req'[r].window = req[r].window
         /\ \A q \in Request \ {r} : req'[q] = req[q]
<1>1. req[r].bucket \in Bucket /\ req[r].window \in Window
  BY DEF Counts, TypeOK, Local
<1>2. RowOf(r) \in Nat
  BY <1>1 DEF TypeOK, RowOf
<1>3. /\ count' \in [Bucket -> [Window -> Nat]]
      /\ count'[req[r].bucket][req[r].window] = RowOf(r) + 1
      /\ \A b \in Bucket, w \in Window :
           b # req[r].bucket \/ w # req[r].window => count'[b][w] = count[b][w]
  BY <1>1, <1>2 DEF Counts, Write, TypeOK
<1> DEFINE l == [req[r] EXCEPT !.phase = "counted", !.got = RowOf(r) + 1]
<1>4. /\ l \in Local /\ l.phase = "counted" /\ l.got = RowOf(r) + 1
      /\ l.bucket = req[r].bucket /\ l.window = req[r].window
  <2>1. req[r] \in Local /\ RowOf(r) + 1 \in Nat
    BY <1>2 DEF TypeOK
  <2> QED  BY <2>1, CountedLocal
<1>5. req' = [req EXCEPT ![r] = l]
  BY DEF Counts, Write
<1> HIDE DEF l
<1>6. req' \in [Request -> Local] /\ req'[r] = l /\ \A q \in Request \ {r} : req'[q] = req[q]
  BY <1>4, <1>5 DEF TypeOK
<1> QED  BY <1>1, <1>2, <1>3, <1>4, <1>6

-----------------------------------------------------------------------------
LEMMA InitIInv == Init => IInv
<1> SUFFICES ASSUME Init PROVE IInv
  OBVIOUS
<1>1. Idle \in Local /\ 0 \in Window
  BY WindowAssumption DEF Idle, Local, Phase, Window
<1>2. TypeOK
  BY <1>1 DEF Init, TypeOK, Idle, At
<1>3. \A r \in Request : WindowOK(r)
  BY DEF Init, WindowOK, Idle, At
<1>4. NoLostIncrement
  BY DEF Init, NoLostIncrement, Counted, Idle, At
<1> QED  BY <1>2, <1>3, <1>4 DEF IInv

LEMMA ArriveKeeps ==
  ASSUME IInv, NEW r \in Request, NEW b \in Bucket, Arrive(r, b)
  PROVE  IInv'
<1> DEFINE l == [phase |-> "select", bucket |-> b, window |-> now, got |-> 0]
<1>1. l \in Local /\ l.phase = "select" /\ l.window = now /\ l.bucket = b
  BY DEF IInv, TypeOK, Local, Phase
<1>2. req' = [req EXCEPT ![r] = l] /\ now' = now /\ count' = count
  BY DEF Arrive
<1> HIDE DEF l
<1>3. /\ req' \in [Request -> Local] /\ req'[r] = l
      /\ \A q \in Request \ {r} : req'[q] = req[q]
  BY <1>1, <1>2 DEF IInv, TypeOK
<1>4. TypeOK'
  BY <1>1, <1>2, <1>3 DEF IInv, TypeOK, At
<1>5. \A q \in Request : WindowOK(q)'
  BY <1>1, <1>2, <1>3, <1>4, Windows DEF IInv, TypeOK, WindowOK, At, RowOf
<1>6. NoLostIncrement'
  BY <1>1, <1>2, <1>3 DEF IInv, NoLostIncrement, Counted, At, RowOf
<1> QED  BY <1>4, <1>5, <1>6 DEF IInv

(* A step of r that writes no row and does not count it afresh in this      *)
(* minute.                                                                  *)
LEMMA QuietKeeps ==
  ASSUME IInv, NEW r \in Request, NEW l \in Local,
         req' = [req EXCEPT ![r] = l], now' = now, count' = count,
         l.phase # "idle" => l.bucket = req[r].bucket /\ l.window = req[r].window,
         l.phase # "idle" => ~ At(r, "idle"),
         l.phase = "counted" => l.got \in Nat \ {0} /\ l.window # now,
         l.phase = "retry" => (l.window = now => RowOf(r) # 0)
  PROVE  IInv'
<1>1. /\ req' \in [Request -> Local] /\ req'[r] = l
      /\ \A q \in Request \ {r} : req'[q] = req[q]
  BY DEF IInv, TypeOK
<1>2. TypeOK'
  BY <1>1 DEF IInv, TypeOK, At
<1>3. \A q \in Request : WindowOK(q)'
  BY <1>1 DEF IInv, WindowOK, At, RowOf
<1>4. NoLostIncrement'
  BY <1>1 DEF IInv, NoLostIncrement, Counted, At, RowOf
<1> QED  BY <1>2, <1>3, <1>4 DEF IInv

LEMMA CountsKeeps ==
  ASSUME IInv, NEW r \in Request, Counts(r)
  PROVE  IInv'
<1> DEFINE n == RowOf(r) + 1
           b == req[r].bucket
           w == req[r].window
<1>1. /\ b \in Bucket /\ w \in Window
      /\ n \in Nat \ {0}
      /\ count' \in [Bucket -> [Window -> Nat]]
      /\ count[b][w] + 1 = n /\ count[b][w] \in Nat
      /\ count'[b][w] = n
      /\ \A c \in Bucket, v \in Window : c # b \/ v # w => count'[c][v] = count[c][v]
  <2>1. TypeOK /\ count[b][w] = RowOf(r)
    BY DEF IInv, RowOf
  <2>2. /\ b \in Bucket /\ w \in Window /\ RowOf(r) \in Nat
        /\ count' \in [Bucket -> [Window -> Nat]]
        /\ count'[b][w] = RowOf(r) + 1
        /\ \A c \in Bucket, v \in Window : c # b \/ v # w => count'[c][v] = count[c][v]
    BY <2>1, CountsEffect
  <2> QED  BY <2>1, <2>2
<1>2. /\ req' \in [Request -> Local]
      /\ req'[r].phase = "counted" /\ req'[r].got = n
      /\ req'[r].bucket = b /\ req'[r].window = w
      /\ \A q \in Request \ {r} : req'[q] = req[q]
  BY CountsEffect DEF IInv
<1>3. now' = now /\ ~ At(r, "idle") /\ w <= now
  BY DEF Counts, Write, IInv, WindowOK
<1>4. \A q \in Request : ~ At(q, "idle") => req[q].bucket \in Bucket /\ req[q].window \in Window
  BY DEF IInv, TypeOK, Local
<1> HIDE DEF n, b, w
<1>5. TypeOK'
  BY <1>1, <1>2, <1>3 DEF IInv, TypeOK, At
<1>6. \A q \in Request : WindowOK(q)'
  <2> SUFFICES ASSUME NEW q \in Request PROVE WindowOK(q)'
    OBVIOUS
  <2>1. CASE q = r
    BY <2>1, <1>2, <1>3 DEF WindowOK, At
  <2>2. CASE q # r
    <3>1. req'[q] = req[q] /\ WindowOK(q)
      BY <2>2, <1>2 DEF IInv
    <3>2. ~ At(q, "idle") /\ count[req[q].bucket][req[q].window] # 0
                             => count'[req[q].bucket][req[q].window] # 0
      BY <1>1, <1>4
    <3> QED  BY <3>1, <3>2, <1>3 DEF WindowOK, At, RowOf
  <2> QED  BY <2>1, <2>2
<1>7. NoLostIncrement'
  <2>1. \A q \in Request \ {r} : Counted(q)' =>
          /\ Counted(q) /\ req'[q] = req[q]
          /\ req[q].got \in 1 .. count'[req[q].bucket][req[q].window]
          /\ req[q].bucket = b /\ w = now => req[q].got <= count[b][w]
    <3> SUFFICES ASSUME NEW q \in Request \ {r}, Counted(q)'
                 PROVE  /\ Counted(q) /\ req'[q] = req[q]
                        /\ req[q].got \in 1 .. count'[req[q].bucket][req[q].window]
                        /\ req[q].bucket = b /\ w = now => req[q].got <= count[b][w]
      OBVIOUS
    <3>1. Counted(q) /\ req'[q] = req[q]
      BY <1>2, <1>3 DEF Counted, At
    <3>2. req[q].got \in 1 .. count[req[q].bucket][req[q].window] /\ req[q].window = now
      BY <3>1 DEF IInv, NoLostIncrement, RowOf, Counted
    <3>3. req[q].bucket \in Bucket /\ req[q].window \in Window
      BY <3>1, <1>4 DEF Counted, At
    <3>4. /\ count[req[q].bucket][req[q].window] \in Nat
          /\ count'[req[q].bucket][req[q].window] \in Nat
          /\ count[req[q].bucket][req[q].window] <= count'[req[q].bucket][req[q].window]
      BY <3>3, <1>1 DEF IInv, TypeOK
    <3> QED  BY <3>1, <3>2, <3>4
  <2>2. Counted(r)' => w = now /\ req'[r].got = count[b][w] + 1 /\ req'[r].got \in 1 .. count'[b][w]
    BY <1>1, <1>2, <1>3 DEF Counted
  <2>3. \A q \in Request : Counted(q)' =>
          req'[q].got \in 1 .. count'[req'[q].bucket][req'[q].window]
    BY <2>1, <2>2, <1>2
  <2>4. \A q \in Request \ {r} : Counted(r)' /\ Counted(q)' /\ req'[q].bucket = b
                                  => req'[q].got # req'[r].got
    BY <2>1, <2>2, <1>1
  <2>5. \A p, q \in Request \ {r} :
          p # q /\ Counted(p)' /\ Counted(q)' /\ req'[q].bucket = req'[p].bucket
            => req'[q].got # req'[p].got
    BY <2>1 DEF IInv, NoLostIncrement
  <2> QED  BY <2>3, <2>4, <2>5, <1>2 DEF NoLostIncrement, RowOf
<1> QED  BY <1>5, <1>6, <1>7 DEF IInv

LEMMA StatementKeeps ==
  ASSUME IInv, NEW r \in Request, Statement(r)
  PROVE  IInv'
<1>0. TypeOK /\ req[r] \in Local /\ WindowOK(r)
  BY DEF IInv, TypeOK
<1>1. ASSUME NEW phase \in {"update", "insert", "retry"}, Moves(r, phase)
      PROVE  IInv'
  <2> DEFINE l == [req[r] EXCEPT !.phase = phase]
  <2>1. /\ l \in Local /\ l.phase = phase
        /\ l.bucket = req[r].bucket /\ l.window = req[r].window
    BY <1>0, <1>1 DEF Local, Phase
  <2>2. req' = [req EXCEPT ![r] = l] /\ now' = now /\ count' = count
    BY <1>1 DEF Moves
  <2>3. ~ At(r, "idle") /\ (phase = "retry" => RowOf(r) # 0)
    BY <1>1 DEF Moves
  <2> HIDE DEF l
  <2> QED  BY <2>1, <2>2, <2>3, QuietKeeps
<1>2. CASE CountsLate(r)
  <2> DEFINE l == [req[r] EXCEPT !.phase = "counted", !.got = 1]
  <2>1. /\ l \in Local /\ l.phase = "counted" /\ l.got = 1
        /\ l.bucket = req[r].bucket /\ l.window = req[r].window
    BY <1>0 DEF Local, Phase
  <2>2. req' = [req EXCEPT ![r] = l] /\ now' = now /\ count' = count
    BY <1>2 DEF CountsLate
  <2>3. ~ At(r, "idle") /\ req[r].window # now
    BY <1>0, <1>2 DEF CountsLate, WindowOK, At
  <2> HIDE DEF l
  <2>4. l.got \in Nat \ {0} /\ l.window # now /\ l.phase # "retry"
    BY <2>1, <2>3
  <2> QED  BY <2>1, <2>2, <2>3, <2>4, QuietKeeps
<1>3. CASE Leaves(r)
  <2>1. Idle \in Local /\ Idle.phase = "idle"
    BY WindowAssumption DEF Idle, Local, Phase, Window
  <2>2. req' = [req EXCEPT ![r] = Idle] /\ now' = now /\ count' = count
    BY <1>3 DEF Leaves, Leave
  <2> QED  BY <2>1, <2>2, QuietKeeps
<1> QED  BY <1>0, <1>1, <1>2, <1>3, StatementCases, CountsKeeps

LEMMA TickKeeps == ASSUME IInv, Tick PROVE IInv'
<1>1. /\ now \in Nat /\ now' = now + 1 /\ now' \in Window
      /\ count' = count /\ req' = req
  BY Windows, WindowAssumption DEF IInv, TypeOK, Tick, Window
<1>2. TypeOK'
  BY <1>1 DEF IInv, TypeOK, At
<1>3. \A r \in Request : ~ At(r, "idle") => req[r].window \in Nat /\ req[r].window < now'
  <2> SUFFICES ASSUME NEW r \in Request, ~ At(r, "idle")
               PROVE  req[r].window \in Nat /\ req[r].window < now'
    OBVIOUS
  <2>1. req[r].window \in Window
    BY DEF IInv, TypeOK, Local
  <2>2. req[r].window <= now
    BY DEF IInv, WindowOK
  <2>3. \A w \in Window : w <= now => w \in Nat /\ w < now'
    BY <1>1, Windows
  <2> QED  BY <2>1, <2>2, <2>3
<1>4. \A r \in Request : WindowOK(r)'
  BY <1>1, <1>3 DEF WindowOK, At
<1>5. NoLostIncrement'
  BY <1>1, <1>3 DEF NoLostIncrement, Counted, At
<1> QED  BY <1>2, <1>4, <1>5 DEF IInv

LEMMA PruneEffect ==
  ASSUME TypeOK, Prune
  PROVE  /\ count' \in [Bucket -> [Window -> Nat]]
         /\ \A b \in Bucket, w \in Window : count'[b][w] \in {0, count[b][w]}
         /\ \A b \in Bucket : count'[b][now] = count[b][now]
         /\ now' = now /\ req' = req
  BY Windows, WindowAssumption DEF TypeOK, Prune

LEMMA PruneKeeps == ASSUME IInv, Prune PROVE IInv'
<1>1. /\ count' \in [Bucket -> [Window -> Nat]]
      /\ \A b \in Bucket : count'[b][now] = count[b][now]
      /\ now' = now /\ req' = req
  BY PruneEffect DEF IInv
<1>2. TypeOK'
  BY <1>1 DEF IInv, TypeOK, At
<1>3. \A r \in Request : ~ At(r, "idle") => req[r].bucket \in Bucket
  BY DEF IInv, TypeOK
<1>4. \A r \in Request : WindowOK(r)'
  BY <1>1, <1>3 DEF IInv, WindowOK, At, RowOf
<1>5. NoLostIncrement'
  BY <1>1, <1>3 DEF IInv, NoLostIncrement, Counted, At, RowOf
<1> QED  BY <1>2, <1>4, <1>5 DEF IInv

LEMMA NextIInv == IInv /\ [Next]_vars => IInv'
<1> SUFFICES ASSUME IInv, [Next]_vars PROVE IInv'
  OBVIOUS
<1>1. CASE UNCHANGED vars
  BY <1>1 DEF vars, IInv, TypeOK, WindowOK, NoLostIncrement, Counted, At, RowOf
<1>2. CASE \E r \in Request, b \in Bucket : Arrive(r, b)
  BY <1>2, ArriveKeeps
<1>3. CASE \E r \in Request : Statement(r)
  BY <1>3, StatementKeeps
<1>4. CASE Tick
  BY <1>4, TickKeeps
<1>5. CASE Prune
  BY <1>5, PruneKeeps
<1> QED  BY <1>1, <1>2, <1>3, <1>4, <1>5 DEF Next, Statement

(* The invariant holds in every reachable state.                            *)
THEOREM Inductive == Spec => []IInv
  BY InitIInv, NextIInv, PTL DEF Spec

(* The limiter's state is well typed: a count is never returned as nothing. *)
THEOREM TypeCorrect == Spec => []TypeOK
<1>1. IInv => TypeOK
  BY DEF IInv
<1> QED  BY <1>1, Inductive, PTL

(* No two requests counted in the current window hold the same count.       *)
THEOREM EveryIncrementCounts == Spec => []NoLostIncrement
<1>1. IInv => NoLostIncrement
  BY DEF IInv
<1> QED  BY <1>1, Inductive, PTL

-----------------------------------------------------------------------------
(* The refinement: a row is seen through the limit, a request through the   *)
(* answer it is about to get.                                               *)

LEMMA ServedIs ==
  ASSUME NEW b \in Bucket, NEW w \in Window
  PROVE  Served[b][w] = IF Admits(count[b][w]) THEN count[b][w] ELSE LIMIT
  BY DEF Served

LEMMA ToldIs ==
  ASSUME NEW r \in Request
  PROVE  /\ At(r, "idle") => Told[r] = "none"
         /\ ~ At(r, "idle") /\ ~ At(r, "counted") => Told[r] = "waiting"
         /\ At(r, "counted") => Told[r] = IF Admits(req[r].got) THEN "admitted" ELSE "refused"
  BY DEF Told, At

LEMMA ServedType ==
  ASSUME count \in [Bucket -> [Window -> Nat]]
  PROVE  Served \in [Bucket -> [Window -> Nat]]
<1>1. \A b \in Bucket, w \in Window : Served[b][w] \in Nat
  BY LimitAssumption DEF Served
<1> QED  BY <1>1 DEF Served

(* Only the verdict of r changes in a step that leaves the others alone.    *)
LEMMA ToldChanges ==
  ASSUME NEW r \in Request, \A q \in Request \ {r} : req'[q] = req[q], NEW v, Told'[r] = v
  PROVE  Told' = [Told EXCEPT ![r] = v]
<1>1. \A q \in Request \ {r} : Told'[q] = Told[q]
  BY DEF Told, At
<1>2. Told' = [q \in Request |-> Told'[q]] /\ Told = [q \in Request |-> Told[q]]
  BY DEF Told
<1> QED  BY <1>1, <1>2

LEMMA InitRefines == Init => Quota!Init
<1> SUFFICES ASSUME Init PROVE Quota!Init
  OBVIOUS
<1>1. Admits(0)
  BY LimitAssumption DEF Admits
<1>2. Served = [b \in Bucket |-> [w \in Window |-> 0]]
  BY <1>1 DEF Init, Served
<1>3. Told = [r \in Request |-> "none"]
  BY DEF Init, Told, At, Idle
<1> QED  BY <1>2, <1>3 DEF Quota!Init, Quota!Window, Window, Init

LEMMA CountsRefines ==
  ASSUME IInv, NEW r \in Request, Counts(r)
  PROVE  Quota!Next
<1> DEFINE n == RowOf(r)
           b == req[r].bucket
           w == req[r].window
<1>1. /\ b \in Bucket /\ w \in Window /\ n \in Nat
      /\ count' \in [Bucket -> [Window -> Nat]]
      /\ count'[b][w] = n + 1
      /\ \A c \in Bucket, v \in Window : c # b \/ v # w => count'[c][v] = count[c][v]
      /\ req'[r].phase = "counted" /\ req'[r].got = n + 1
      /\ \A q \in Request \ {r} : req'[q] = req[q]
  BY CountsEffect DEF IInv
<1>2. n = count[b][w]
  BY DEF RowOf
<1>3. now' = now /\ w <= now /\ Told[r] = "waiting"
  BY ToldIs DEF Counts, Write, IInv, WindowOK
<1> HIDE DEF n, b, w
<1>4. Served'[b][w] = (IF Admits(n + 1) THEN n + 1 ELSE LIMIT)
      /\ Served[b][w] = (IF Admits(n) THEN n ELSE LIMIT)
  BY <1>1, <1>2 DEF Served
<1>5. \A c \in Bucket, v \in Window : c # b \/ v # w => Served'[c][v] = Served[c][v]
  BY <1>1 DEF Served
<1>6. Told'[r] = IF Admits(n + 1) THEN "admitted" ELSE "refused"
  BY <1>1 DEF Told, At, Admits
<1>7. CASE n < LIMIT
  <2>1. Admits(n) /\ Admits(n + 1)
    BY <1>1, <1>7, LimitAssumption DEF Admits
  <2>2. Served[b][w] = n /\ Served'[b][w] = n + 1
    BY <2>1, <1>4
  <2>3. Served' = [Served EXCEPT ![b][w] = @ + 1]
    <3>1. Served \in [Bucket -> [Window -> Nat]]
      BY ServedType DEF IInv, TypeOK
    <3>2. Served' \in [Bucket -> [Window -> Nat]]
      <4>1. \A c \in Bucket, v \in Window : Served'[c][v] \in Nat
        BY <1>1, LimitAssumption DEF Served
      <4> QED  BY <4>1 DEF Served
    <3>3. \A c \in Bucket, v \in Window :
            Served'[c][v] = [Served EXCEPT ![b][w] = @ + 1][c][v]
      BY <2>2, <1>1, <1>5, <3>1
    <3>4. [Served EXCEPT ![b][w] = @ + 1] \in [Bucket -> [Window -> Nat]]
      BY <1>1, <3>1
    <3> QED  BY <3>2, <3>3, <3>4
  <2>4. Told' = [Told EXCEPT ![r] = "admitted"]
    BY <2>1, <1>6, <1>1, ToldChanges
  <2>5. Quota!Admit(r, b, w)
    BY <2>2, <2>3, <2>4, <1>3, <1>7 DEF Quota!Admit
  <2> QED  BY <2>5, <1>1 DEF Quota!Next, Quota!Window, Window
<1>8. CASE ~ n < LIMIT
  <2>1. ~ Admits(n + 1) /\ (Admits(n) => n = LIMIT)
    BY <1>1, <1>8, LimitAssumption DEF Admits
  <2>2. Served[b][w] = LIMIT /\ Served'[b][w] = Served[b][w]
    BY <2>1, <1>4
  <2>3. Served' = Served
    BY <2>2, <1>5 DEF Served
  <2>4. Told' = [Told EXCEPT ![r] = "refused"]
    BY <2>1, <1>6, <1>1, ToldChanges
  <2>5. Quota!Refuse(r, b, w)
    BY <2>2, <2>3, <2>4, <1>3 DEF Quota!Refuse
  <2> QED  BY <2>5, <1>1 DEF Quota!Next, Quota!Window, Window
<1> QED  BY <1>7, <1>8

LEMMA CountsLateRefines ==
  ASSUME IInv, NEW r \in Request, CountsLate(r)
  PROVE  Quota!Next
<1> DEFINE b == req[r].bucket
           w == req[r].window
<1>1. b \in Bucket /\ w \in Window /\ count[b][w] = 0
  BY DEF CountsLate, IInv, TypeOK, Local, At, RowOf
<1>2. w < now
  <2>1. w \in Nat /\ now \in Nat
    BY <1>1, Windows DEF IInv, TypeOK
  <2>2. w <= now /\ w # now
    BY DEF CountsLate, IInv, WindowOK, At
  <2> QED  BY <2>1, <2>2
<1>3. /\ req'[r].phase = "counted" /\ req'[r].got = 1
      /\ \A q \in Request \ {r} : req'[q] = req[q]
      /\ now' = now /\ count' = count
  <2>1. req[r] \in Local
    BY DEF IInv, TypeOK
  <2>2. [req[r] EXCEPT !.phase = "counted", !.got = 1].phase = "counted"
        /\ [req[r] EXCEPT !.phase = "counted", !.got = 1].got = 1
    BY <2>1, CountedLocal
  <2> QED  BY <2>2 DEF CountsLate, IInv, TypeOK
<1>4. Told[r] = "waiting"
  BY ToldIs DEF CountsLate, At
<1> HIDE DEF b, w
<1>5. Admits(0) /\ Admits(1)
  BY LimitAssumption DEF Admits
<1>6. Served[b][w] = 0 /\ Served' = Served
  BY <1>1, <1>3, <1>5 DEF Served, Admits
<1>7. Told'[r] = "admitted"
  BY <1>3, <1>5 DEF Told, At, Admits
<1>8. Told' = [Told EXCEPT ![r] = "admitted"]
  BY <1>3, <1>7, ToldChanges
<1>9. Quota!AdmitLate(r, b, w)
  BY <1>2, <1>3, <1>4, <1>6, <1>8 DEF Quota!AdmitLate
<1> QED  BY <1>9, <1>1 DEF Quota!Next, Quota!Window, Window

(* Steps that change no row and at most the verdict of r.                   *)
LEMMA SameServed == count' = count => Served' = Served
  BY DEF Served, Admits

LEMMA StatementRefines ==
  ASSUME IInv, NEW r \in Request, Statement(r)
  PROVE  Quota!Next \/ UNCHANGED <<now, Served, Told>>
<1>1. ASSUME NEW phase \in {"update", "insert", "retry"}, Moves(r, phase)
      PROVE  UNCHANGED <<now, Served, Told>>
  <2>1. req' = [req EXCEPT ![r] = [req[r] EXCEPT !.phase = phase]]
        /\ now' = now /\ count' = count /\ req[r] \in Local
    BY <1>1 DEF Moves, IInv, TypeOK
  <2>2. [req[r] EXCEPT !.phase = phase].phase = phase
    BY <2>1 DEF Local
  <2>3. req'[r].phase = phase /\ \A q \in Request \ {r} : req'[q] = req[q]
    BY <2>1, <2>2 DEF IInv, TypeOK
  <2>4. Told[r] = "waiting" /\ Told'[r] = "waiting"
    BY <1>1, <2>3, ToldIs DEF Moves, Told, At
  <2>5. Told' = [Told EXCEPT ![r] = "waiting"]
    BY <2>3, <2>4, ToldChanges
  <2>6. Told' = Told
    BY <2>4, <2>5 DEF Told
  <2> QED  BY <2>1, <2>6, SameServed
<1>2. CASE Leaves(r)
  <2>1. /\ req'[r] = Idle /\ \A q \in Request \ {r} : req'[q] = req[q]
        /\ now' = now /\ count' = count
    BY <1>2 DEF Leaves, Leave, IInv, TypeOK
  <2>2. Told'[r] = "none"
    BY <2>1 DEF Told, At, Idle
  <2>3. Told' = [Told EXCEPT ![r] = "none"]
    BY <2>1, <2>2, ToldChanges
  <2>4. Told[r] # "none"
    BY <1>2 DEF Leaves, Told, At
  <2>5. Quota!Leave(r)
    BY <2>1, <2>3, <2>4, SameServed DEF Quota!Leave
  <2> QED  BY <2>5 DEF Quota!Next
<1> QED  BY <1>1, <1>2, StatementCases, CountsRefines, CountsLateRefines DEF IInv

LEMMA ArriveRefines ==
  ASSUME IInv, NEW r \in Request, NEW b \in Bucket, Arrive(r, b)
  PROVE  Quota!Next
<1>1. /\ req'[r].phase = "select" /\ \A q \in Request \ {r} : req'[q] = req[q]
      /\ now' = now /\ count' = count
  BY DEF Arrive, IInv, TypeOK
<1>2. Told[r] = "none" /\ Told'[r] = "waiting"
  BY <1>1 DEF Arrive, Told, At
<1>3. Told' = [Told EXCEPT ![r] = "waiting"]
  BY <1>1, <1>2, ToldChanges
<1>4. Quota!Ask(r)
  BY <1>1, <1>2, <1>3, SameServed DEF Quota!Ask
<1> QED  BY <1>4 DEF Quota!Next

LEMMA PruneRefines == ASSUME IInv, Prune PROVE Quota!Next
<1>1. /\ count' \in [Bucket -> [Window -> Nat]] /\ count \in [Bucket -> [Window -> Nat]]
      /\ \A b \in Bucket, w \in Window : count'[b][w] \in {0, count[b][w]}
      /\ \A b \in Bucket : count'[b][now] = count[b][now]
      /\ now' = now /\ req' = req /\ now \in Window
  BY PruneEffect DEF IInv, TypeOK
<1>2. Told' = Told
  BY <1>1 DEF Told, At, Admits
<1>3. Admits(0) /\ LIMIT \in Nat
  BY LimitAssumption DEF Admits
<1>4. \A b \in Bucket, w \in Window : Served'[b][w] \in {0, Served[b][w]}
  BY <1>1, <1>3 DEF Served, Admits
<1>5. \A b \in Bucket : Served'[b][now] = Served[b][now]
  BY <1>1 DEF Served, Admits
<1>6. Served' \in [Bucket -> [Window -> 0 .. LIMIT]]
  <2>1. \A b \in Bucket, w \in Window : Served'[b][w] \in 0 .. LIMIT
    BY <1>1, <1>3 DEF Served, Admits
  <2> QED  BY <2>1 DEF Served
<1>7. Quota!Forget
  BY <1>1, <1>2, <1>4, <1>5, <1>6 DEF Quota!Forget, Quota!Window, Window
<1> QED  BY <1>7 DEF Quota!Next

LEMMA TickRefines == ASSUME Tick PROVE Quota!Next
<1>1. Served' = Served /\ Told' = Told
  BY DEF Tick, Served, Told, At, Admits
<1>2. Quota!Tick
  BY <1>1 DEF Tick, Quota!Tick
<1> QED  BY <1>2 DEF Quota!Next

(* In every window a bucket lets exactly LIMIT requests through before it   *)
(* refuses one, for any number of requests racing for its row.              *)
THEOREM LimiterImplementsQuota == Spec => ImplementsQuota
<1>1. IInv /\ [Next]_vars => [Quota!Next]_<<now, Served, Told>>
  <2> SUFFICES ASSUME IInv, [Next]_vars PROVE [Quota!Next]_<<now, Served, Told>>
    OBVIOUS
  <2>1. CASE UNCHANGED vars
    <3>1. now' = now /\ count' = count /\ req' = req
      BY <2>1 DEF vars
    <3>2. Served' = Served /\ Told' = Told
      BY <3>1, SameServed DEF Told, At, Admits
    <3> QED  BY <3>1, <3>2
  <2>2. CASE \E r \in Request, b \in Bucket : Arrive(r, b)
    BY <2>2, ArriveRefines
  <2>3. CASE \E r \in Request : Statement(r)
    BY <2>3, StatementRefines
  <2>4. CASE Tick
    BY <2>4, TickRefines
  <2>5. CASE Prune
    BY <2>5, PruneRefines
  <2> QED  BY <2>1, <2>2, <2>3, <2>4, <2>5 DEF Next, Statement
<1> QED  BY <1>1, InitRefines, Inductive, PTL DEF Spec, ImplementsQuota, Quota!Spec

-----------------------------------------------------------------------------
(* The day's budget behind the limiter, for any keys, logins and callers.   *)
(* A counter is compared with the calls it stands for: it never runs ahead  *)
(* of them, whatever the interleaving, and the calls of all the rows        *)
(* together are the calls of the day.                                       *)

(* The sums over tables, as the budget calls them.                          *)
LEMMA SameSum ==
  ASSUME NEW f, NEW S
  PROVE  Budget!SumFunctionOnSet(f, S) = SumFunctionOnSet(f, S)
BY DEF Budget!SumFunctionOnSet, SumFunctionOnSet, Budget!FoldFunctionOnSet,
    FoldFunctionOnSet, Budget!MapThenFoldSet, MapThenFoldSet

LEMMA SameFinite ==
  ASSUME NEW S
  PROVE  Budget!IsFiniteSet(S) <=> IsFiniteSet(S)
BY DEF Budget!IsFiniteSet, IsFiniteSet

LEMMA DaySumIsNat ==
  ASSUME NEW f, NEW S, IsFiniteSet(S), \A x \in S : f[x] \in Nat
  PROVE  Budget!SumFunctionOnSet(f, S) \in Nat
BY SameSum, SumIsNat

LEMMA DaySumAgrees ==
  ASSUME NEW f, NEW g, NEW S, IsFiniteSet(S), \A x \in S : f[x] = g[x]
  PROVE  Budget!SumFunctionOnSet(f, S) = Budget!SumFunctionOnSet(g, S)
BY SameSum, SumAgrees

LEMMA DaySumUpdates ==
  ASSUME NEW f, NEW g, NEW S, IsFiniteSet(S), NEW y \in S,
         \A x \in S : f[x] \in Nat /\ g[x] \in Nat,
         \A x \in S \ {y} : f[x] = g[x]
  PROVE  Budget!SumFunctionOnSet(g, S) + f[y] = Budget!SumFunctionOnSet(f, S) + g[y]
BY SameSum, SumUpdates

LEMMA DaySumGrowsPointwise ==
  ASSUME NEW f, NEW g, NEW S, IsFiniteSet(S),
         \A x \in S : f[x] \in Nat /\ g[x] \in Nat /\ f[x] <= g[x]
  PROVE  Budget!SumFunctionOnSet(f, S) <= Budget!SumFunctionOnSet(g, S)
BY SameSum, SumGrowsPointwise

LEMMA DaySumOfZeros ==
  ASSUME NEW f, NEW S, IsFiniteSet(S), \A x \in S : f[x] = 0
  PROVE  Budget!SumFunctionOnSet(f, S) = 0
BY SameSum, SumOfZeros

-----------------------------------------------------------------------------
(* The invariant of the day.                                                *)

(* Where a handler may be, by the row it charges.                           *)
Paths ==
  \A r \in Request :
    /\ ~ Budget!At(r, "idle") => caller[r].caller \in Budget!Caller
    /\ caller[r].phase \in {"flush", "find_again"} => Budget!Keyed(r)
    /\ caller[r].phase \in {"insert_count", "count"} => Budget!KeyId(r) \in ApiKey
    /\ caller[r].phase \in {"bump", "bump_insert"} => Budget!KeyId(r) = Keyless
    /\ Budget!At(r, "find_again") => Budget!KeyId(r) \notin ApiKey \/ spent[Budget!KeyId(r)] # 0
    /\ Budget!At(r, "count") => spent[Budget!KeyId(r)] # 0
    /\ Budget!At(r, "insert_count")
         => spent[Budget!KeyId(r)] = 0 /\ inserting[Budget!KeyId(r)] = r
    /\ Budget!At(r, "unavailable") => Budget!KeyId(r) \notin Budget!Row

Holders == \A k \in Budget!Row : inserting[k] # Nil => Budget!KeyId(inserting[k]) = k

(* The calls of each row, which are all the calls there are: a caller that  *)
(* has no row, a login through OAuth, makes none.                           *)
Charged == [k \in Budget!Row |-> Budget!ChargedTo(k)]

AllCharged == Budget!SumFunctionOnSet(Charged, Budget!Row) = Budget!Spent

(* A counter, and a value that was loaded from one, is behind its calls.    *)
CountersBehind ==
  /\ \A k \in Budget!Row : spent[k] <= Budget!ChargedTo(k)
  /\ \A r \in Request : Budget!At(r, "count")
       => caller[r].seen <= Budget!ChargedTo(Budget!KeyId(r))

CappedRightly ==
  \A r \in Request : Budget!At(r, "capped") =>
    \/ Budget!Spent >= GLOBAL_DAILY_LLM_CAP
    \/ Budget!Keyed(r) /\ Budget!ChargedTo(Budget!KeyId(r)) >= RATE_LIMIT_TRIGGER_PER_DAY

(* A handler that is alone: the counters are exact, it holds the one it     *)
(* loaded, and it is past the check of a day that is not spent.             *)
PastTheCheck == {"find", "flush", "find_again", "count", "insert_count", "bump", "bump_insert"}

Alone ==
  \/ overlapped
  \/ /\ \A q, r \in Request : q # r => Budget!At(q, "idle") \/ Budget!At(r, "idle")
     /\ \A k \in Budget!Row : spent[k] = Budget!ChargedTo(k)
     /\ \A r \in Request :
          /\ Budget!At(r, "count") => caller[r].seen = spent[Budget!KeyId(r)]
          /\ caller[r].phase \in PastTheCheck => Budget!Spent < GLOBAL_DAILY_LLM_CAP

BudgetInv == /\ Budget!TypeOK /\ Paths /\ Holders /\ AllCharged /\ CountersBehind
             /\ CappedRightly /\ Budget!KeylessExact /\ Alone /\ Budget!WithinCaps

-----------------------------------------------------------------------------
(* The operators.                                                           *)
LEMMA FiniteTables ==
  ASSUME Budget!BudgetAssumption
  PROVE  /\ IsFiniteSet(Budget!Row) /\ IsFiniteSet(Budget!Caller)
         /\ \A k \in Budget!Row : IsFiniteSet({c \in Budget!Caller : c.id = k})
<1> DEFINE keys == [kind : {"apikey"}, id : ApiKey]
           logins == [kind : {"oauth"}, id : OAuthToken]
           email == {[kind |-> "email", id |-> Keyless]}
<1>1. IsFiniteSet(keys)
  <2> DEFINE f == [i \in ApiKey |-> [kind |-> "apikey", id |-> i]]
  <2>1. f \in Surjection(ApiKey, keys)
    BY DEF Surjection
  <2> QED  BY <2>1, SameFinite, FS_Surjection DEF Budget!BudgetAssumption
<1>2. IsFiniteSet(logins)
  <2> DEFINE f == [i \in OAuthToken |-> [kind |-> "oauth", id |-> i]]
  <2>1. f \in Surjection(OAuthToken, logins)
    BY DEF Surjection
  <2> QED  BY <2>1, SameFinite, FS_Surjection DEF Budget!BudgetAssumption
<1>3. IsFiniteSet(email)
  BY FS_Singleton
<1>4. Budget!Caller = (keys \cup logins) \cup email
  BY DEF Budget!Caller
<1> HIDE DEF keys, logins, email
<1>5. IsFiniteSet(Budget!Caller)
  <2>1. IsFiniteSet(keys \cup logins)
    BY <1>1, <1>2, FS_Union
  <2> QED  BY <1>3, <1>4, <2>1, FS_Union
<1>6. IsFiniteSet(Budget!Row)
  <2>1. IsFiniteSet({Keyless})
    BY FS_Singleton
  <2> QED  BY <2>1, SameFinite, FS_Union DEF Budget!Row, Budget!BudgetAssumption
<1>7. ASSUME NEW k \in Budget!Row PROVE IsFiniteSet({c \in Budget!Caller : c.id = k})
  BY <1>5, FS_Subset
<1> QED  BY <1>5, <1>6, <1>7

LEMMA SumsAreNat ==
  ASSUME Budget!BudgetAssumption, Budget!TypeOK
  PROVE  /\ Budget!Spent \in Nat
         /\ \A k \in Budget!Row : Budget!ChargedTo(k) \in Nat
<1>1. Budget!Spent \in Nat
  BY FiniteTables, DaySumIsNat DEF Budget!Spent, Budget!TypeOK
<1>2. ASSUME NEW k \in Budget!Row PROVE Budget!ChargedTo(k) \in Nat
  BY FiniteTables, DaySumIsNat DEF Budget!ChargedTo, Budget!TypeOK
<1> QED  BY <1>1, <1>2

(* One call more of a caller that has a row.                                *)
LEMMA CallIsCharged ==
  ASSUME Budget!BudgetAssumption, Budget!TypeOK, AllCharged,
         NEW c \in Budget!Caller, c.id \in Budget!Row,
         calls' \in [Budget!Caller -> Nat], calls'[c] = calls[c] + 1,
         \A d \in Budget!Caller : d # c => calls'[d] = calls[d]
  PROVE  /\ Budget!Spent' = Budget!Spent + 1
         /\ Budget!ChargedTo(c.id)' = Budget!ChargedTo(c.id) + 1
         /\ \A k \in Budget!Row : k # c.id => Budget!ChargedTo(k)' = Budget!ChargedTo(k)
         /\ AllCharged'
<1>1. \A d \in Budget!Caller : calls[d] \in Nat /\ calls'[d] \in Nat
  BY DEF Budget!TypeOK
<1>2. Budget!Spent' = Budget!Spent + 1
  <2>1. Budget!SumFunctionOnSet(calls', Budget!Caller) + calls[c]
          = Budget!SumFunctionOnSet(calls, Budget!Caller) + calls'[c]
    <3>1. /\ \A d \in Budget!Caller : calls[d] \in Nat /\ calls'[d] \in Nat
          /\ \A d \in Budget!Caller \ {c} : calls[d] = calls'[d]
      BY <1>1
    <3> QED  BY <3>1, FiniteTables, DaySumUpdates
  <2>2. Budget!SumFunctionOnSet(calls, Budget!Caller) \in Nat
          /\ Budget!SumFunctionOnSet(calls', Budget!Caller) \in Nat
    BY <1>1, FiniteTables, DaySumIsNat
  <2> QED  BY <1>1, <2>1, <2>2 DEF Budget!Spent
<1> DEFINE of(k) == {d \in Budget!Caller : d.id = k}
<1>3. \A k \in Budget!Row : IsFiniteSet(of(k))
  BY FiniteTables
<1>4. Budget!ChargedTo(c.id)' = Budget!ChargedTo(c.id) + 1
  <2>1. c \in of(c.id)
    OBVIOUS
  <2>2. Budget!SumFunctionOnSet(calls', of(c.id)) + calls[c]
          = Budget!SumFunctionOnSet(calls, of(c.id)) + calls'[c]
    <3>1. /\ \A d \in of(c.id) : calls[d] \in Nat /\ calls'[d] \in Nat
          /\ \A d \in of(c.id) \ {c} : calls[d] = calls'[d]
      BY <1>1
    <3> HIDE DEF of
    <3> QED  BY <1>3, <2>1, <3>1, DaySumUpdates
  <2>3. Budget!SumFunctionOnSet(calls, of(c.id)) \in Nat
          /\ Budget!SumFunctionOnSet(calls', of(c.id)) \in Nat
    BY <1>1, <1>3, DaySumIsNat
  <2> QED  BY <1>1, <2>2, <2>3 DEF Budget!ChargedTo
<1>5. ASSUME NEW k \in Budget!Row, k # c.id PROVE Budget!ChargedTo(k)' = Budget!ChargedTo(k)
  <2>1. \A d \in of(k) : calls'[d] = calls[d]
    BY <1>1, <1>5
  <2> HIDE DEF of
  <2>2. Budget!SumFunctionOnSet(calls', of(k)) = Budget!SumFunctionOnSet(calls, of(k))
    BY <1>3, <2>1, DaySumAgrees
  <2> QED  BY <2>2 DEF Budget!ChargedTo, of
<1>6. AllCharged'
  <2>1. /\ \A k \in Budget!Row : Charged[k] \in Nat /\ Charged'[k] \in Nat
        /\ Charged'[c.id] = Charged[c.id] + 1
        /\ \A k \in Budget!Row \ {c.id} : Charged[k] = Charged'[k]
    BY <1>4, <1>5, SumsAreNat DEF Charged
  <2>2. Budget!SumFunctionOnSet(Charged', Budget!Row) + Charged[c.id]
          = Budget!SumFunctionOnSet(Charged, Budget!Row) + Charged'[c.id]
    BY <2>1, FiniteTables, DaySumUpdates
  <2>3. Budget!SumFunctionOnSet(Charged, Budget!Row) \in Nat
          /\ Budget!SumFunctionOnSet(Charged', Budget!Row) \in Nat
    BY <2>1, FiniteTables, DaySumIsNat
  <2> QED  BY <1>2, <2>1, <2>2, <2>3 DEF AllCharged
<1> QED  BY <1>2, <1>4, <1>5, <1>6

(* The sum that `_global_llm_today` reads is behind the calls of the day,   *)
(* and exact when every counter is.                                         *)
LEMMA GlobalIsBehind ==
  ASSUME Budget!BudgetAssumption, Budget!TypeOK, AllCharged, CountersBehind
  PROVE  /\ Budget!GlobalToday \in Nat /\ Budget!GlobalToday <= Budget!Spent
         /\ (\A k \in Budget!Row : spent[k] = Budget!ChargedTo(k))
              => Budget!GlobalToday = Budget!Spent
<1>1. \A k \in Budget!Row : spent[k] \in Nat /\ Charged[k] \in Nat /\ spent[k] <= Charged[k]
  BY SumsAreNat DEF Budget!TypeOK, Charged, CountersBehind
<1>2. Budget!GlobalToday \in Nat
  BY <1>1, FiniteTables, DaySumIsNat DEF Budget!GlobalToday
<1>3. Budget!SumFunctionOnSet(spent, Budget!Row) <= Budget!SumFunctionOnSet(Charged, Budget!Row)
  BY <1>1, FiniteTables, DaySumGrowsPointwise
<1>4. ASSUME \A k \in Budget!Row : spent[k] = Budget!ChargedTo(k) PROVE Budget!GlobalToday
               = Budget!Spent
  <2>1. \A k \in Budget!Row : spent[k] = Charged[k]
    BY <1>4 DEF Charged
  <2>2. Budget!SumFunctionOnSet(spent, Budget!Row)
          = Budget!SumFunctionOnSet(Charged, Budget!Row)
    BY <2>1, FiniteTables, DaySumAgrees
  <2> QED  BY <2>2 DEF Budget!GlobalToday, AllCharged
<1> QED  BY <1>2, <1>3, <1>4 DEF Budget!GlobalToday, AllCharged

LEMMA RowsApart ==
  ASSUME Budget!BudgetAssumption
  PROVE  /\ Keyless \notin ApiKey /\ Keyless \notin OAuthToken /\ Keyless \in Budget!Row
         /\ \A c \in Budget!Caller : c.id # Keyless => c.id \in ApiKey \cup OAuthToken
  BY DEF Budget!BudgetAssumption, Budget!Row, Budget!Caller

(* What hangs on the calls alone.                                           *)
LEMMA SameCalls ==
  ASSUME UNCHANGED calls
  PROVE  /\ Budget!Spent' = Budget!Spent
         /\ \A k : Budget!ChargedTo(k)' = Budget!ChargedTo(k)
         /\ AllCharged' <=> AllCharged
<1>1. Budget!Spent' = Budget!Spent
  BY DEF Budget!Spent
<1>2. \A k : Budget!ChargedTo(k)' = Budget!ChargedTo(k)
  BY DEF Budget!ChargedTo
<1>3. Charged' = Charged
  BY <1>2 DEF Charged
<1> QED  BY <1>1, <1>2, <1>3 DEF AllCharged

-----------------------------------------------------------------------------
(* The steps.  A handler that goes on, with the tables as they are.         *)
LEMMA MoveKeeps ==
  ASSUME Budget!BudgetAssumption, BudgetInv, NEW r \in Request, NEW new \in Budget!Local,
         caller' = [caller EXCEPT ![r] = new], new.caller
           = caller[r].caller, ~ Budget!At(r, "idle"),
         UNCHANGED <<spent, inserting, calls, overlapped>>,
         ~ Budget!At(r, "insert_count"), new.phase \notin {"idle", "insert_count"},
         new.phase \in {"flush", "find_again"} => Budget!Keyed(r),
         new.phase = "count" => /\ Budget!KeyId(r) \in ApiKey /\ spent[Budget!KeyId(r)] # 0
                                /\ new.seen = spent[Budget!KeyId(r)],
         new.phase \in {"bump", "bump_insert"} => Budget!KeyId(r) = Keyless,
         new.phase = "find_again"
           => Budget!KeyId(r) \notin ApiKey \/ spent[Budget!KeyId(r)] # 0,
         new.phase = "unavailable" => Budget!KeyId(r) \notin Budget!Row,
         new.phase = "capped" =>
           \/ Budget!Spent >= GLOBAL_DAILY_LLM_CAP
           \/ Budget!Keyed(r)
                /\ Budget!ChargedTo(Budget!KeyId(r)) >= RATE_LIMIT_TRIGGER_PER_DAY,
         ~ overlapped /\ new.phase \in PastTheCheck => Budget!Spent < GLOBAL_DAILY_LLM_CAP
  PROVE  BudgetInv'
<1>1. /\ caller' \in [Request -> Budget!Local] /\ caller'[r] = new
      /\ \A q \in Request : q # r => caller'[q] = caller[q]
  BY DEF BudgetInv, Budget!TypeOK
<1>2. /\ Budget!KeyId(r)' = Budget!KeyId(r) /\ Budget!Keyed(r)' = Budget!Keyed(r)
      /\ \A q \in Request : q # r
           => Budget!KeyId(q)' = Budget!KeyId(q) /\ Budget!Keyed(q)' = Budget!Keyed(q)
  BY <1>1 DEF Budget!KeyId, Budget!Keyed
<1>3. Budget!TypeOK'
  BY <1>1 DEF BudgetInv, Budget!TypeOK, Budget!At
<1>4. Paths'
  BY <1>1, <1>2 DEF BudgetInv, Paths, Budget!At
<1>5. Holders'
  BY <1>1, <1>2 DEF BudgetInv, Holders, Budget!TypeOK
<1>6. /\ Budget!Spent' = Budget!Spent /\ AllCharged'
      /\ \A k : Budget!ChargedTo(k)' = Budget!ChargedTo(k)
  BY SameCalls DEF BudgetInv
<1>7. CountersBehind'
  <2>1. \A k \in ApiKey : k \in Budget!Row
    BY DEF Budget!Row
  <2>2. ASSUME NEW q \in Request, Budget!At(q, "count")'
        PROVE  caller'[q].seen <= Budget!ChargedTo(Budget!KeyId(q)')
    <3>1. CASE q = r
      <4>1. Budget!KeyId(r) \in Budget!Row /\ new.seen = spent[Budget!KeyId(r)]
        BY <1>1, <2>1, <2>2, <3>1 DEF Budget!At
      <4>2. new.seen <= Budget!ChargedTo(Budget!KeyId(r))
        BY <4>1 DEF BudgetInv, CountersBehind
      <4> QED  BY <1>1, <1>2, <3>1, <4>2
    <3>2. CASE q # r
      BY <1>1, <1>2, <2>2, <3>2 DEF BudgetInv, CountersBehind, Budget!At
    <3> QED  BY <3>1, <3>2
  <2>3. \A q \in Request : Budget!ChargedTo(Budget!KeyId(q))'
          = Budget!ChargedTo(Budget!KeyId(q)')
    BY DEF Budget!ChargedTo
  <2> QED  BY <1>6, <2>2, <2>3 DEF BudgetInv, CountersBehind
<1>8. CappedRightly'
  <2>1. \A q \in Request : Budget!ChargedTo(Budget!KeyId(q))'
          = Budget!ChargedTo(Budget!KeyId(q))
    BY <1>2 DEF Budget!ChargedTo
  <2> QED  BY <1>1, <1>2, <1>6, <2>1 DEF BudgetInv, CappedRightly, Budget!At
<1>9. Budget!KeylessExact' /\ Budget!WithinCaps'
  BY <1>6 DEF BudgetInv, Budget!KeylessExact, Budget!WithinCaps
<1>10. Alone'
  BY <1>1, <1>2, <1>6 DEF BudgetInv, Alone, Budget!At
<1> QED  BY <1>3, <1>4, <1>5, <1>6, <1>7, <1>8, <1>9, <1>10 DEF BudgetInv

(* The commit of a call that is let through.                                *)
LEMMA ChargeKeeps ==
  ASSUME Budget!BudgetAssumption, BudgetInv, NEW r \in Request,
         NEW n \in Nat \ {0}, Budget!Charge(r, n),
         UNCHANGED overlapped, ~ Budget!At(r, "idle"), Budget!KeyId(r) \in Budget!Row,
         \A q \in Request : q # r /\ Budget!At(q, "insert_count")
           => Budget!KeyId(q) # Budget!KeyId(r),
         n <= Budget!ChargedTo(Budget!KeyId(r)) + 1,
         Budget!KeyId(r) = Keyless => n = spent[Keyless] + 1,
         ~ overlapped => /\ n = spent[Budget!KeyId(r)] + 1
                              /\ Budget!Spent < GLOBAL_DAILY_LLM_CAP
                         /\ Budget!Keyed(r)
                              => Budget!ChargedTo(Budget!KeyId(r)) < RATE_LIMIT_TRIGGER_PER_DAY
  PROVE  BudgetInv'
<1> DEFINE key == Budget!KeyId(r)
<1>1. PICK c \in Budget!Caller : c = caller[r].caller /\ c.id = key
  BY DEF BudgetInv, Paths, Budget!KeyId
<1>2. /\ calls' \in [Budget!Caller -> Nat] /\ calls'[c] = calls[c] + 1
      /\ \A d \in Budget!Caller : d # c => calls'[d] = calls[d]
  BY <1>1 DEF Budget!Charge, BudgetInv, Budget!TypeOK
<1>3. /\ Budget!Spent' = Budget!Spent + 1 /\ AllCharged'
      /\ Budget!ChargedTo(c.id)' = Budget!ChargedTo(c.id) + 1
      /\ \A k \in Budget!Row : k # c.id => Budget!ChargedTo(k)' = Budget!ChargedTo(k)
  BY <1>1, <1>2, CallIsCharged DEF BudgetInv
<1>4. /\ Budget!Spent \in Nat
      /\ \A k \in Budget!Row : Budget!ChargedTo(k) \in Nat
           /\ Budget!ChargedTo(k) <= Budget!ChargedTo(k)'
      /\ \A k \in Budget!Row : k # key => Budget!ChargedTo(k)' = Budget!ChargedTo(k)
      /\ \A k \in Budget!Row : k = key => Budget!ChargedTo(k)' = Budget!ChargedTo(k) + 1
  <2>1. Budget!Spent \in Nat /\ \A k \in Budget!Row : Budget!ChargedTo(k) \in Nat
    BY SumsAreNat DEF BudgetInv
  <2>2. \A k \in Budget!Row : k # key => Budget!ChargedTo(k)' = Budget!ChargedTo(k)
    BY <1>1, <1>3
  <2>3. ASSUME NEW k \in Budget!Row,
               k = key PROVE Budget!ChargedTo(k)' = Budget!ChargedTo(k) + 1
    <3>1. k = c.id
      BY <1>1, <2>3
    <3> QED  BY <1>3, <3>1
  <2>4. \A k \in Budget!Row : Budget!ChargedTo(k) <= Budget!ChargedTo(k)'
    BY <2>1, <2>2, <2>3
  <2> QED  BY <2>1, <2>2, <2>3, <2>4
<1>5. /\ spent' \in [Budget!Row -> Nat] /\ spent'[key] = n
      /\ \A k \in Budget!Row : k # key => spent'[k] = spent[k]
  BY DEF Budget!Charge, BudgetInv, Budget!TypeOK
<1>6. /\ caller' \in [Request -> Budget!Local] /\ caller'[r] = Budget!Idle
      /\ \A q \in Request : q # r => caller'[q] = caller[q]
  <2>1. Budget!Idle \in Budget!Local
    BY DEF Budget!Idle, Budget!Local, Budget!Phase
  <2> QED  BY <2>1 DEF Budget!Charge, BudgetInv, Budget!TypeOK
<1>7. \A q \in Request : q # r =>
        Budget!KeyId(q)' = Budget!KeyId(q) /\ Budget!Keyed(q)' = Budget!Keyed(q)
          /\ caller'[q].phase = caller[q].phase
  BY <1>6 DEF Budget!KeyId, Budget!Keyed
<1>8. caller'[r].phase = "idle"
  BY <1>6 DEF Budget!Idle
<1>9. /\ inserting' \in [Budget!Row -> Request \cup {Nil}]
      /\ \A k \in Budget!Row : inserting[k] # r => inserting'[k] = inserting[k]
      /\ \A k \in Budget!Row : inserting'[k] # r
      /\ \A k \in Budget!Row : inserting'[k] # Nil => inserting'[k] = inserting[k]
  <2>1. \A k \in Budget!Row : inserting[k] = r => k = key
    BY DEF BudgetInv, Holders, Budget!BudgetAssumption
  <2> QED  BY <2>1 DEF Budget!Charge, BudgetInv, Budget!TypeOK, Budget!BudgetAssumption
<1>10. Budget!TypeOK'
  <2>1. \A k \in Budget!Row : (inserting[k] # Nil => Budget!At(inserting[k], "insert_count"))'
    <3> SUFFICES ASSUME NEW k \in Budget!Row, inserting'[k] # Nil
                 PROVE  caller'[inserting'[k]].phase = "insert_count"
      BY DEF Budget!At
    <3>1. inserting'[k] = inserting[k] /\ inserting[k] \in Request /\ inserting[k] # r
      BY <1>9
    <3>2. caller[inserting[k]].phase = "insert_count"
      BY <3>1 DEF BudgetInv, Budget!TypeOK, Budget!At
    <3> QED  BY <1>6, <3>1, <3>2
  <2> QED  BY <1>2, <1>5, <1>6, <1>9, <2>1 DEF BudgetInv, Budget!TypeOK
<1>11. Paths'
  <2> SUFFICES ASSUME NEW q \in Request
               PROVE  (/\ ~ Budget!At(q, "idle") => caller[q].caller \in Budget!Caller
                       /\ caller[q].phase \in {"flush", "find_again"} => Budget!Keyed(q)
                       /\ caller[q].phase \in {"insert_count", "count"}
                            => Budget!KeyId(q) \in ApiKey
                       /\ caller[q].phase \in {"bump", "bump_insert"}
                            => Budget!KeyId(q) = Keyless
                       /\ Budget!At(q, "find_again")
                            => Budget!KeyId(q) \notin ApiKey \/ spent[Budget!KeyId(q)] # 0
                       /\ Budget!At(q, "count") => spent[Budget!KeyId(q)] # 0
                       /\ Budget!At(q, "insert_count") =>
                            spent[Budget!KeyId(q)] = 0 /\ inserting[Budget!KeyId(q)] = q
                       /\ Budget!At(q, "unavailable") => Budget!KeyId(q) \notin Budget!Row)'
    BY DEF Paths
  <2>1. CASE q = r
    BY <1>8, <2>1 DEF Budget!At
  <2>2. CASE q # r
    <3>1. \A k \in Budget!Row : spent[k] # 0 => spent'[k] # 0
      BY <1>5
    <3>2. ApiKey \subseteq Budget!Row
      BY DEF Budget!Row
    <3>3. /\ ~ Budget!At(q, "idle")' => caller'[q].caller \in Budget!Caller
          /\ caller'[q].phase \in {"flush", "find_again"} => Budget!Keyed(q)'
          /\ caller'[q].phase \in {"insert_count", "count"} => Budget!KeyId(q)' \in ApiKey
          /\ caller'[q].phase \in {"bump", "bump_insert"} => Budget!KeyId(q)' = Keyless
          /\ Budget!At(q, "unavailable")' => Budget!KeyId(q)' \notin Budget!Row
      BY <1>6, <1>7, <2>2 DEF BudgetInv, Paths, Budget!At
    <3>4. /\ Budget!At(q, "find_again")'
               => Budget!KeyId(q)' \notin ApiKey \/ spent'[Budget!KeyId(q)'] # 0
          /\ Budget!At(q, "count")' => spent'[Budget!KeyId(q)'] # 0
      BY <1>7, <2>2, <3>1, <3>2 DEF BudgetInv, Paths, Budget!At
    <3>5. Budget!At(q, "insert_count")'
            => spent'[Budget!KeyId(q)'] = 0 /\ inserting'[Budget!KeyId(q)'] = q
      BY <1>5, <1>7, <1>9, <2>2, <3>2 DEF BudgetInv, Paths, Budget!At
    <3> QED  BY <3>3, <3>4, <3>5
  <2> QED  BY <2>1, <2>2
<1>12. Holders'
  BY <1>6, <1>7, <1>9 DEF BudgetInv, Holders, Budget!TypeOK
<1>13. CountersBehind'
  <2>1. \A k \in Budget!Row : spent'[k] <= Budget!ChargedTo(k)'
    BY <1>4, <1>5 DEF BudgetInv, CountersBehind
  <2>2. ASSUME NEW q \in Request, Budget!At(q, "count")'
        PROVE  (caller[q].seen <= Budget!ChargedTo(Budget!KeyId(q)))'
    <3>1. q # r /\ Budget!At(q, "count") /\ caller'[q] = caller[q]
      BY <1>6, <1>8, <2>2 DEF Budget!At
    <3>2. Budget!KeyId(q) \in Budget!Row /\ Budget!KeyId(q)' = Budget!KeyId(q)
      BY <1>7, <3>1 DEF BudgetInv, Paths, Budget!Row, Budget!At
    <3>3. caller[q].seen <= Budget!ChargedTo(Budget!KeyId(q)) /\ caller[q].seen \in Nat
      BY <3>1 DEF BudgetInv, CountersBehind, Budget!TypeOK, Budget!Local
    <3>4. PICK k \in Budget!Row : k = Budget!KeyId(q)
      BY <3>2
    <3>5. Budget!ChargedTo(Budget!KeyId(q))' = Budget!ChargedTo(k)'
      BY <3>2, <3>4 DEF Budget!ChargedTo
    <3>6. Budget!ChargedTo(k) \in Nat /\ Budget!ChargedTo(k)' \in Nat
            /\ Budget!ChargedTo(k) <= Budget!ChargedTo(k)'
      BY <1>4
    <3>7. caller[q].seen <= Budget!ChargedTo(k)
      BY <3>3, <3>4
    <3> QED  BY <3>1, <3>3, <3>5, <3>6, <3>7
  <2> QED  BY <2>1, <2>2 DEF CountersBehind
<1>14. CappedRightly'
  <2> SUFFICES ASSUME NEW q \in Request, Budget!At(q, "capped")'
               PROVE  (\/ Budget!Spent >= GLOBAL_DAILY_LLM_CAP
                       \/ Budget!Keyed(q)
                            /\ Budget!ChargedTo(Budget!KeyId(q)) >= RATE_LIMIT_TRIGGER_PER_DAY)'
    BY DEF CappedRightly
  <2>1. q # r /\ Budget!At(q, "capped") /\ caller'[q] = caller[q]
    BY <1>6, <1>8 DEF Budget!At
  <2>2. CASE Budget!Spent >= GLOBAL_DAILY_LLM_CAP
    BY <1>3, <1>4, <2>2 DEF Budget!BudgetAssumption
  <2>3. CASE Budget!Keyed(q) /\ Budget!ChargedTo(Budget!KeyId(q)) >= RATE_LIMIT_TRIGGER_PER_DAY
    <3>1. CASE Budget!KeyId(q) \in Budget!Row
      <4>1. PICK k \in Budget!Row : k = Budget!KeyId(q)
        BY <3>1
      <4>2. Budget!ChargedTo(Budget!KeyId(q))' = Budget!ChargedTo(k)' /\ Budget!Keyed(q)'
        BY <1>7, <2>1, <2>3, <4>1 DEF Budget!ChargedTo
      <4>3. Budget!ChargedTo(k) >= RATE_LIMIT_TRIGGER_PER_DAY
        BY <2>3, <4>1
      <4>4. Budget!ChargedTo(k)' >= RATE_LIMIT_TRIGGER_PER_DAY
        BY <1>4, <4>3 DEF Budget!BudgetAssumption
      <4> QED  BY <4>2, <4>4
    <3>2. CASE Budget!KeyId(q) \notin Budget!Row
      <4>1. \A d \in Budget!Caller : d.id = Budget!KeyId(q) => calls'[d] = calls[d]
        BY <1>1, <1>2, <3>2
      <4> DEFINE of == {d \in Budget!Caller : d.id = Budget!KeyId(q)}
      <4>2. IsFiniteSet(of)
        BY FiniteTables, FS_Subset
      <4>3. \A d \in of : calls'[d] = calls[d]
        BY <4>1
      <4> HIDE DEF of
      <4>4. Budget!SumFunctionOnSet(calls', of) = Budget!SumFunctionOnSet(calls, of)
        BY <4>2, <4>3, DaySumAgrees
      <4>5. of = {d \in Budget!Caller : d.id = Budget!KeyId(q)}
        BY DEF of
      <4>6. Budget!ChargedTo(Budget!KeyId(q))' = Budget!ChargedTo(Budget!KeyId(q))
        BY <1>7, <2>1, <4>4, <4>5 DEF Budget!ChargedTo
      <4>7. Budget!Keyed(q)'
        BY <1>7, <2>1, <2>3
      <4> QED  BY <2>3, <4>6, <4>7
    <3> QED  BY <3>1, <3>2
  <2> QED  BY <2>1, <2>2, <2>3 DEF BudgetInv, CappedRightly
<1>15. Budget!KeylessExact'
  <2>1. Keyless \in Budget!Row
    BY DEF Budget!Row
  <2> QED  BY <1>4, <1>5, <2>1 DEF BudgetInv, Budget!KeylessExact
<1>16. Alone'
  <2>1. CASE overlapped
    BY <2>1 DEF Alone
  <2>2. CASE ~ overlapped
    <3>1. /\ \A q, p \in Request : q # p => Budget!At(q, "idle") \/ Budget!At(p, "idle")
          /\ \A k \in Budget!Row : spent[k] = Budget!ChargedTo(k)
      BY <2>2 DEF BudgetInv, Alone
    <3>2. \A q \in Request : Budget!At(q, "idle")'
      BY <1>6, <1>8, <3>1 DEF Budget!At
    <3>3. \A k \in Budget!Row : spent'[k] = Budget!ChargedTo(k)'
      <4>1. spent'[key] = Budget!ChargedTo(key) + 1
        BY <1>5, <2>2, <3>1
      <4> QED  BY <1>4, <1>5, <3>1, <4>1
    <3> QED  BY <3>2, <3>3 DEF Alone, Budget!At, PastTheCheck
  <2> QED  BY <2>1, <2>2
<1>17. Budget!WithinCaps'
  <2>1. CASE overlapped
    BY <2>1 DEF Budget!WithinCaps
  <2>2. CASE ~ overlapped
    <3>1. Budget!Spent' <= GLOBAL_DAILY_LLM_CAP
      BY <1>3, <1>4, <2>2 DEF Budget!BudgetAssumption
    <3>2. ASSUME NEW k \in ApiKey PROVE Budget!ChargedTo(k)' <= RATE_LIMIT_TRIGGER_PER_DAY
      <4>1. k \in Budget!Row /\ Budget!ChargedTo(k) <= RATE_LIMIT_TRIGGER_PER_DAY
        BY <2>2 DEF BudgetInv, Budget!WithinCaps, Budget!Row
      <4>2. CASE k = key
        <5>1. Budget!Keyed(r)
          BY <4>2 DEF Budget!BudgetAssumption, Budget!Keyed
        <5>2. Budget!ChargedTo(k) < RATE_LIMIT_TRIGGER_PER_DAY
          BY <2>2, <4>2, <5>1
        <5> QED  BY <1>4, <4>1, <4>2, <5>2 DEF Budget!BudgetAssumption
      <4>3. CASE k # key
        BY <1>4, <4>1, <4>3
      <4> QED  BY <4>2, <4>3
    <3> QED  BY <3>1, <3>2 DEF Budget!WithinCaps
  <2> QED  BY <2>1, <2>2
<1> QED  BY <1>3, <1>10, <1>11, <1>12, <1>13, <1>14, <1>15, <1>16, <1>17 DEF BudgetInv

(* A handler that ends without a call, its inserted row rolled back.        *)
LEMMA EndKeeps ==
  ASSUME Budget!BudgetAssumption, BudgetInv,
         NEW r \in Request, caller' = [caller EXCEPT ![r] = Budget!Idle],
         inserting' \in [Budget!Row -> Request \cup {Nil}],
         \A k \in Budget!Row : inserting'[k] = IF inserting[k] = r THEN Nil ELSE inserting[k],
         UNCHANGED <<spent, calls, overlapped>>
  PROVE  BudgetInv'
<1>1. /\ caller' \in [Request -> Budget!Local] /\ caller'[r] = Budget!Idle
      /\ \A q \in Request : q # r => caller'[q] = caller[q]
  <2>1. Budget!Idle \in Budget!Local
    BY DEF Budget!Idle, Budget!Local, Budget!Phase
  <2> QED  BY <2>1 DEF BudgetInv, Budget!TypeOK
<1>2. \A q \in Request : q # r =>
        Budget!KeyId(q)' = Budget!KeyId(q) /\ Budget!Keyed(q)' = Budget!Keyed(q)
          /\ caller'[q].phase = caller[q].phase
  BY <1>1 DEF Budget!KeyId, Budget!Keyed
<1>3. caller'[r].phase = "idle"
  BY <1>1 DEF Budget!Idle
<1>4. /\ \A k \in Budget!Row : inserting'[k] # Nil
           => inserting'[k] = inserting[k] /\ inserting[k] # r
      /\ \A k \in Budget!Row : inserting[k] # r => inserting'[k] = inserting[k]
  OBVIOUS
<1>5. Budget!TypeOK'
  <2>1. \A k \in Budget!Row : (inserting[k] # Nil => Budget!At(inserting[k], "insert_count"))'
    <3> SUFFICES ASSUME NEW k \in Budget!Row, inserting'[k] # Nil
                 PROVE  caller'[inserting'[k]].phase = "insert_count"
      BY DEF Budget!At
    <3>1. inserting'[k] = inserting[k] /\ inserting[k] \in Request /\ inserting[k] # r
      BY <1>4
    <3>2. caller[inserting[k]].phase = "insert_count"
      BY <3>1 DEF BudgetInv, Budget!TypeOK, Budget!At
    <3> QED  BY <1>1, <3>1, <3>2
  <2> QED  BY <1>1, <2>1 DEF BudgetInv, Budget!TypeOK
<1>6. Paths'
  <2>1. ApiKey \subseteq Budget!Row
    BY DEF Budget!Row
  <2> QED  BY <1>1, <1>2, <1>3, <1>4, <2>1 DEF BudgetInv, Paths, Budget!At
<1>7. Holders'
  BY <1>1, <1>2, <1>4 DEF BudgetInv, Holders, Budget!TypeOK
<1>8. /\ Budget!Spent' = Budget!Spent /\ AllCharged'
      /\ \A k : Budget!ChargedTo(k)' = Budget!ChargedTo(k)
  BY SameCalls DEF BudgetInv
<1>9. \A q \in Request : q # r
        => Budget!ChargedTo(Budget!KeyId(q))' = Budget!ChargedTo(Budget!KeyId(q))
  BY <1>2 DEF Budget!ChargedTo
<1>10. CountersBehind'
  BY <1>1, <1>3, <1>8, <1>9 DEF BudgetInv, CountersBehind, Budget!At
<1>11. CappedRightly'
  BY <1>1, <1>2, <1>3, <1>8, <1>9 DEF BudgetInv, CappedRightly, Budget!At
<1>12. Budget!KeylessExact' /\ Budget!WithinCaps'
  BY <1>8 DEF BudgetInv, Budget!KeylessExact, Budget!WithinCaps
<1>13. Alone'
  BY <1>1, <1>2, <1>3, <1>8 DEF BudgetInv, Alone, Budget!At, PastTheCheck
<1> QED  BY <1>5, <1>6, <1>7, <1>8, <1>10, <1>11, <1>12, <1>13 DEF BudgetInv

LEMMA CallerArrives ==
  ASSUME Budget!BudgetAssumption, BudgetInv, NEW r \in Request,
         NEW c \in Budget!Caller, Budget!Arrive(r, c)
  PROVE  BudgetInv'
<1> DEFINE new == [Budget!Idle EXCEPT !.phase = "global", !.caller = c]
<1>1. new \in Budget!Local /\ new.phase = "global" /\ new.caller = c
  BY DEF Budget!Idle, Budget!Local, Budget!Phase
<1>2. /\ Budget!At(r, "idle") /\ caller' = [caller EXCEPT ![r] = new]
      /\ overlapped' = (overlapped \/ \E q \in Request : ~ Budget!At(q, "idle"))
      /\ UNCHANGED <<spent, inserting, calls>>
  BY DEF Budget!Arrive
<1> HIDE DEF new
<1>3. /\ caller' \in [Request -> Budget!Local] /\ caller'[r] = new
      /\ \A q \in Request : q # r => caller'[q] = caller[q]
  BY <1>1, <1>2 DEF BudgetInv, Budget!TypeOK
<1>4. \A q \in Request : q # r =>
        Budget!KeyId(q)' = Budget!KeyId(q) /\ Budget!Keyed(q)' = Budget!Keyed(q)
          /\ caller'[q].phase = caller[q].phase
  BY <1>3 DEF Budget!KeyId, Budget!Keyed
<1>5. caller'[r].phase = "global" /\ caller'[r].caller = c
  BY <1>1, <1>3
<1>6. Budget!TypeOK'
  <2>1. overlapped' \in BOOLEAN
    BY <1>2 DEF BudgetInv, Budget!TypeOK
  <2>2. \A k \in Budget!Row : inserting[k] # Nil => inserting[k] # r
    BY <1>2 DEF BudgetInv, Budget!TypeOK, Budget!At
  <2> QED  BY <1>2, <1>3, <2>1, <2>2 DEF BudgetInv, Budget!TypeOK, Budget!At
<1>7. Paths'
  BY <1>2, <1>3, <1>4, <1>5 DEF BudgetInv, Paths, Budget!At
<1>8. Holders'
  <2>1. \A k \in Budget!Row : inserting[k] # Nil => inserting[k] # r
    BY <1>2 DEF BudgetInv, Budget!TypeOK, Budget!At
  <2> QED  BY <1>2, <1>4, <2>1 DEF BudgetInv, Holders, Budget!TypeOK
<1>9. /\ Budget!Spent' = Budget!Spent /\ AllCharged'
      /\ \A k : Budget!ChargedTo(k)' = Budget!ChargedTo(k)
  BY <1>2, SameCalls DEF BudgetInv
<1>10. \A q \in Request : q # r
         => Budget!ChargedTo(Budget!KeyId(q))' = Budget!ChargedTo(Budget!KeyId(q))
  BY <1>2, <1>4 DEF Budget!ChargedTo
<1>11. CountersBehind'
  BY <1>2, <1>3, <1>5, <1>9, <1>10 DEF BudgetInv, CountersBehind, Budget!At
<1>12. CappedRightly'
  BY <1>2, <1>3, <1>4, <1>5, <1>9, <1>10 DEF BudgetInv, CappedRightly, Budget!At
<1>13. Budget!KeylessExact' /\ Budget!WithinCaps'
  BY <1>2, <1>9 DEF BudgetInv, Budget!KeylessExact, Budget!WithinCaps
<1>14. Alone'
  BY <1>2, <1>3, <1>4, <1>5, <1>9 DEF BudgetInv, Alone, Budget!At, PastTheCheck
<1> QED  BY <1>6, <1>7, <1>8, <1>9, <1>11, <1>12, <1>13, <1>14 DEF BudgetInv

LEMMA CheckGlobalKeeps ==
  ASSUME Budget!BudgetAssumption, BudgetInv,
         NEW r \in Request, Budget!CheckGlobal(r), UNCHANGED overlapped
  PROVE  BudgetInv'
<1> DEFINE p == IF Budget!GlobalToday >= GLOBAL_DAILY_LLM_CAP THEN "capped" ELSE "find"
           new == [caller[r] EXCEPT !.phase = p]
<1>1. /\ Budget!At(r, "global") /\ caller' = [caller EXCEPT ![r] = new]
      /\ UNCHANGED <<spent, inserting, calls>>
  BY DEF Budget!CheckGlobal, Budget!Go, BudgetInv, Budget!TypeOK, Budget!Local
<1>2. /\ new \in Budget!Local /\ new.phase = p /\ new.caller = caller[r].caller
      /\ p \in {"capped", "find"}
  BY DEF BudgetInv, Budget!TypeOK, Budget!Local, Budget!Phase
<1>3. /\ Budget!GlobalToday \in Nat /\ Budget!Spent \in Nat
           /\ Budget!GlobalToday <= Budget!Spent
      /\ ~ overlapped => Budget!GlobalToday = Budget!Spent
  BY GlobalIsBehind, SumsAreNat DEF BudgetInv, Alone
<1>4. /\ p = "capped" => Budget!Spent >= GLOBAL_DAILY_LLM_CAP
      /\ ~ overlapped /\ p = "find" => Budget!Spent < GLOBAL_DAILY_LLM_CAP
  BY <1>3 DEF Budget!BudgetAssumption
<1> HIDE DEF p, new
<1>5. ~ Budget!At(r, "idle") /\ ~ Budget!At(r, "insert_count")
  BY <1>1 DEF Budget!At
<1> QED  BY <1>1, <1>2, <1>4, <1>5, MoveKeeps DEF PastTheCheck

LEMMA FindKeeps ==
  ASSUME Budget!BudgetAssumption, BudgetInv,
         NEW r \in Request, Budget!Find(r), UNCHANGED overlapped
  PROVE  BudgetInv'
<1>1. /\ Budget!At(r, "find") /\ UNCHANGED <<spent, inserting, calls>>
      /\ ~ Budget!At(r, "idle") /\ ~ Budget!At(r, "insert_count")
  BY DEF Budget!Find, Budget!At
<1>2. ~ overlapped => Budget!Spent < GLOBAL_DAILY_LLM_CAP
  BY <1>1 DEF BudgetInv, Alone, PastTheCheck, Budget!At
<1>3. CASE Budget!KeyId(r) \in Budget!Row /\ spent[Budget!KeyId(r)] # 0
  <2> DEFINE p == IF Budget!Keyed(r) THEN "count" ELSE "bump"
             new == [caller[r] EXCEPT !.phase = p, !.seen = spent[Budget!KeyId(r)]]
  <2>1. spent[Budget!KeyId(r)] \in Nat
    BY <1>3 DEF BudgetInv, Budget!TypeOK
  <2>2. /\ new \in Budget!Local /\ new.phase = p /\ new.caller = caller[r].caller
        /\ new.seen = spent[Budget!KeyId(r)]
    BY <2>1 DEF BudgetInv, Budget!TypeOK, Budget!Local, Budget!Phase
  <2>3. caller' = [caller EXCEPT ![r] = new]
    BY <1>3 DEF Budget!Find, BudgetInv, Budget!TypeOK, Budget!Local
  <2>4. /\ p \in {"count", "bump"}
        /\ p = "count" => Budget!KeyId(r) \in ApiKey
        /\ p = "bump" => Budget!KeyId(r) = Keyless
    BY <1>3 DEF Budget!Keyed, Budget!Row
  <2> HIDE DEF p, new
  <2> QED  BY <1>1, <1>2, <1>3, <2>2, <2>3, <2>4, MoveKeeps
<1>4. CASE ~ (Budget!KeyId(r) \in Budget!Row /\ spent[Budget!KeyId(r)] # 0)
  <2> DEFINE p == IF Budget!Keyed(r) THEN "flush" ELSE "bump_insert"
             new == [caller[r] EXCEPT !.phase = p]
  <2>1. new \in Budget!Local /\ new.phase = p /\ new.caller = caller[r].caller
    BY DEF BudgetInv, Budget!TypeOK, Budget!Local, Budget!Phase
  <2>2. caller' = [caller EXCEPT ![r] = new]
    BY <1>4 DEF Budget!Find, Budget!Go, BudgetInv, Budget!TypeOK, Budget!Local
  <2>3. /\ p \in {"flush", "bump_insert"}
        /\ p = "flush" => Budget!Keyed(r)
        /\ p = "bump_insert" => Budget!KeyId(r) = Keyless
    BY DEF Budget!Keyed
  <2> HIDE DEF p, new
  <2> QED  BY <1>1, <1>2, <2>1, <2>2, <2>3, MoveKeeps
<1> QED  BY <1>3, <1>4

(* The row of a key is inserted: nobody else is inserting it.               *)
LEMMA InsertKeeps ==
  ASSUME Budget!BudgetAssumption, BudgetInv, NEW r \in Request, Budget!At(r, "flush"),
         Budget!KeyId(r) \in ApiKey, spent[Budget!KeyId(r)] = 0,
         inserting[Budget!KeyId(r)] = Nil,
         inserting' = [inserting EXCEPT ![Budget!KeyId(r)] = r], Budget!Go(r, "insert_count"),
         UNCHANGED <<spent, calls, overlapped>>
  PROVE  BudgetInv'
<1> DEFINE key == Budget!KeyId(r)
<1>1. /\ caller' \in [Request -> Budget!Local] /\ caller'[r].phase = "insert_count"
      /\ caller'[r].caller = caller[r].caller
      /\ \A q \in Request : q # r => caller'[q] = caller[q]
  BY DEF Budget!Go, BudgetInv, Budget!TypeOK, Budget!Local, Budget!Phase
<1>2. /\ \A q \in Request : Budget!KeyId(q)' = Budget!KeyId(q)
           /\ Budget!Keyed(q)' = Budget!Keyed(q)
      /\ caller[r].caller \in Budget!Caller /\ Budget!Keyed(r) /\ caller[r].phase = "flush"
  BY <1>1 DEF Budget!KeyId, Budget!Keyed, BudgetInv, Paths, Budget!At
<1>3. /\ inserting' \in [Budget!Row -> Request \cup {Nil}] /\ inserting'[key] = r
      /\ \A k \in Budget!Row : k # key => inserting'[k] = inserting[k]
      /\ key \in Budget!Row
  BY DEF BudgetInv, Budget!TypeOK, Budget!Row
<1>4. \A k \in Budget!Row : inserting[k] # Nil =>
        /\ inserting[k] \in Request /\ inserting[k] # r
        /\ caller[inserting[k]].phase = "insert_count"
  BY <1>2 DEF BudgetInv, Budget!TypeOK, Budget!At
<1>5. Budget!TypeOK'
  <2>1. \A k \in Budget!Row : (inserting[k] # Nil => Budget!At(inserting[k], "insert_count"))'
    <3> SUFFICES ASSUME NEW k \in Budget!Row, inserting'[k] # Nil
                 PROVE  caller'[inserting'[k]].phase = "insert_count"
      BY DEF Budget!At
    <3>1. CASE k = key
      BY <1>1, <1>3, <3>1
    <3>2. CASE k # key
      BY <1>1, <1>3, <1>4, <3>2
    <3> QED  BY <3>1, <3>2
  <2> QED  BY <1>1, <1>3, <2>1 DEF BudgetInv, Budget!TypeOK
<1>6. Paths'
  <2> SUFFICES ASSUME NEW q \in Request
               PROVE  (/\ ~ Budget!At(q, "idle") => caller[q].caller \in Budget!Caller
                       /\ caller[q].phase \in {"flush", "find_again"} => Budget!Keyed(q)
                       /\ caller[q].phase \in {"insert_count", "count"}
                            => Budget!KeyId(q) \in ApiKey
                       /\ caller[q].phase \in {"bump", "bump_insert"}
                            => Budget!KeyId(q) = Keyless
                       /\ Budget!At(q, "find_again")
                            => Budget!KeyId(q) \notin ApiKey \/ spent[Budget!KeyId(q)] # 0
                       /\ Budget!At(q, "count") => spent[Budget!KeyId(q)] # 0
                       /\ Budget!At(q, "insert_count") =>
                            spent[Budget!KeyId(q)] = 0 /\ inserting[Budget!KeyId(q)] = q
                       /\ Budget!At(q, "unavailable") => Budget!KeyId(q) \notin Budget!Row)'
    BY DEF Paths
  <2>1. CASE q = r
    BY <1>1, <1>2, <1>3, <2>1 DEF Budget!At
  <2>2. CASE q # r
    <3>1. Budget!At(q, "insert_count")
            => Budget!KeyId(q) \in Budget!Row /\ Budget!KeyId(q) # key
      BY Budget!BudgetAssumption DEF Budget!BudgetAssumption, BudgetInv, Paths,
          Budget!Row, Budget!At
    <3> QED  BY <1>1, <1>2, <1>3, <2>2, <3>1 DEF BudgetInv, Paths, Budget!At
  <2> QED  BY <2>1, <2>2
<1>7. Holders'
  <2>1. \A k \in Budget!Row : (inserting[k] # Nil => Budget!KeyId(inserting[k]) = k)'
    <3> SUFFICES ASSUME NEW k \in Budget!Row, inserting'[k] # Nil
                 PROVE  caller'[inserting'[k]].caller.id = k
      BY DEF Budget!KeyId
    <3>1. CASE k = key
      BY <1>1, <1>3, <3>1 DEF Budget!KeyId
    <3>2. CASE k # key
      BY <1>1, <1>3, <1>4, <3>2 DEF BudgetInv, Holders, Budget!KeyId
    <3> QED  BY <3>1, <3>2
  <2> QED  BY <2>1 DEF Holders
<1>8. /\ Budget!Spent' = Budget!Spent /\ AllCharged'
      /\ \A k : Budget!ChargedTo(k)' = Budget!ChargedTo(k)
  BY SameCalls DEF BudgetInv
<1>9. \A q \in Request : Budget!ChargedTo(Budget!KeyId(q))' = Budget!ChargedTo(Budget!KeyId(q))
  BY <1>2 DEF Budget!ChargedTo
<1>10. CountersBehind' /\ CappedRightly'
  BY <1>1, <1>2, <1>8, <1>9 DEF BudgetInv, CountersBehind, CappedRightly, Budget!At
<1>11. Budget!KeylessExact' /\ Budget!WithinCaps'
  BY <1>8 DEF BudgetInv, Budget!KeylessExact, Budget!WithinCaps
<1>12. Alone'
  BY <1>1, <1>2, <1>8 DEF BudgetInv, Alone, Budget!At, PastTheCheck
<1> QED  BY <1>5, <1>6, <1>7, <1>8, <1>10, <1>11, <1>12 DEF BudgetInv

LEMMA FlushKeeps ==
  ASSUME Budget!BudgetAssumption, BudgetInv,
         NEW r \in Request, Budget!Flush(r), UNCHANGED overlapped
  PROVE  BudgetInv'
<1>1. /\ Budget!At(r, "flush") /\ UNCHANGED <<spent, calls>>
      /\ ~ Budget!At(r, "idle") /\ ~ Budget!At(r, "insert_count") /\ Budget!Keyed(r)
  BY DEF Budget!Flush, Budget!At, BudgetInv, Paths
<1>2. CASE Budget!KeyId(r) \notin ApiKey \/ spent[Budget!KeyId(r)] # 0
  <2> DEFINE new == [caller[r] EXCEPT !.phase = "find_again"]
  <2>1. new \in Budget!Local /\ new.phase = "find_again" /\ new.caller = caller[r].caller
    BY DEF BudgetInv, Budget!TypeOK, Budget!Local, Budget!Phase
  <2>2. caller' = [caller EXCEPT ![r] = new] /\ UNCHANGED inserting
    BY <1>2 DEF Budget!Flush, Budget!Go, BudgetInv, Budget!TypeOK, Budget!Local
  <2>3. ~ overlapped => Budget!Spent < GLOBAL_DAILY_LLM_CAP
    BY <1>1 DEF BudgetInv, Alone, PastTheCheck, Budget!At
  <2> HIDE DEF new
  <2> QED  BY <1>1, <1>2, <2>1, <2>2, <2>3, MoveKeeps
<1>3. CASE ~ (Budget!KeyId(r) \notin ApiKey \/ spent[Budget!KeyId(r)] # 0)
  <2>1. /\ Budget!KeyId(r) \in ApiKey /\ spent[Budget!KeyId(r)] = 0
             /\ inserting[Budget!KeyId(r)] = Nil
        /\ inserting' = [inserting EXCEPT ![Budget!KeyId(r)] = r]
             /\ Budget!Go(r, "insert_count")
    BY <1>3 DEF Budget!Flush
  <2> QED  BY <1>1, <2>1, InsertKeeps
<1> QED  BY <1>2, <1>3

LEMMA FindAgainKeeps ==
  ASSUME Budget!BudgetAssumption, BudgetInv,
         NEW r \in Request, Budget!FindAgain(r), UNCHANGED overlapped
  PROVE  BudgetInv'
<1>1. /\ Budget!At(r, "find_again") /\ UNCHANGED <<spent, inserting, calls>>
      /\ ~ Budget!At(r, "idle") /\ ~ Budget!At(r, "insert_count") /\ Budget!Keyed(r)
      /\ Budget!KeyId(r) \notin ApiKey \/ spent[Budget!KeyId(r)] # 0
  BY DEF Budget!FindAgain, Budget!At, BudgetInv, Paths
<1>2. ~ overlapped => Budget!Spent < GLOBAL_DAILY_LLM_CAP
  BY <1>1 DEF BudgetInv, Alone, PastTheCheck, Budget!At
<1>3. CASE Budget!KeyId(r) \in Budget!Row /\ spent[Budget!KeyId(r)] # 0
  <2> DEFINE new == [caller[r] EXCEPT !.phase = "count", !.seen = spent[Budget!KeyId(r)]]
  <2>1. spent[Budget!KeyId(r)] \in Nat
    BY <1>3 DEF BudgetInv, Budget!TypeOK
  <2>2. /\ new \in Budget!Local /\ new.phase = "count" /\ new.caller = caller[r].caller
        /\ new.seen = spent[Budget!KeyId(r)]
    BY <2>1 DEF BudgetInv, Budget!TypeOK, Budget!Local, Budget!Phase
  <2>3. caller' = [caller EXCEPT ![r] = new]
    BY <1>3 DEF Budget!FindAgain, BudgetInv, Budget!TypeOK, Budget!Local
  <2>4. Budget!KeyId(r) \in ApiKey
    BY <1>1, <1>3 DEF Budget!Keyed, Budget!Row
  <2> HIDE DEF new
  <2> QED  BY <1>1, <1>2, <1>3, <2>2, <2>3, <2>4, MoveKeeps
<1>4. CASE ~ (Budget!KeyId(r) \in Budget!Row /\ spent[Budget!KeyId(r)] # 0)
  <2> DEFINE new == [caller[r] EXCEPT !.phase = "unavailable"]
  <2>1. new \in Budget!Local /\ new.phase = "unavailable" /\ new.caller = caller[r].caller
    BY DEF BudgetInv, Budget!TypeOK, Budget!Local, Budget!Phase
  <2>2. caller' = [caller EXCEPT ![r] = new]
    BY <1>4 DEF Budget!FindAgain, Budget!Go, BudgetInv, Budget!TypeOK, Budget!Local
  <2>3. Budget!KeyId(r) \notin Budget!Row
    BY <1>1, <1>4 DEF Budget!Keyed, Budget!Row
  <2> HIDE DEF new
  <2> QED  BY <1>1, <1>2, <2>1, <2>2, <2>3, MoveKeeps
<1> QED  BY <1>3, <1>4

LEMMA CountInsertedKeeps ==
  ASSUME Budget!BudgetAssumption, BudgetInv,
         NEW r \in Request, Budget!CountInserted(r), UNCHANGED overlapped
  PROVE  BudgetInv'
<1>1. /\ Budget!At(r, "insert_count") /\ Budget!Charge(r, 1) /\ ~ Budget!At(r, "idle")
      /\ Budget!KeyId(r) \in ApiKey /\ Budget!KeyId(r) \in Budget!Row
           /\ Budget!KeyId(r) # Keyless
      /\ spent[Budget!KeyId(r)] = 0 /\ inserting[Budget!KeyId(r)] = r
  BY RowsApart DEF Budget!CountInserted, Budget!At, BudgetInv, Paths, Budget!Row
<1>2. \A q \in Request : q # r /\ Budget!At(q, "insert_count")
        => Budget!KeyId(q) # Budget!KeyId(r)
  BY <1>1 DEF BudgetInv, Paths
<1>3. Budget!ChargedTo(Budget!KeyId(r)) \in Nat
  BY <1>1, SumsAreNat DEF BudgetInv
<1>4. ~ overlapped => /\ Budget!Spent < GLOBAL_DAILY_LLM_CAP
                      /\ Budget!ChargedTo(Budget!KeyId(r)) < RATE_LIMIT_TRIGGER_PER_DAY
  BY <1>1 DEF BudgetInv, Alone, PastTheCheck, Budget!At, Budget!BudgetAssumption
<1> QED  BY <1>1, <1>2, <1>3, <1>4, ChargeKeeps

LEMMA CountFoundKeeps ==
  ASSUME Budget!BudgetAssumption, BudgetInv,
         NEW r \in Request, Budget!CountFound(r), UNCHANGED overlapped
  PROVE  BudgetInv'
<1>1. /\ Budget!At(r, "count") /\ ~ Budget!At(r, "idle") /\ ~ Budget!At(r, "insert_count")
      /\ Budget!KeyId(r) \in ApiKey /\ Budget!KeyId(r) \in Budget!Row
           /\ Budget!KeyId(r) # Keyless /\ Budget!Keyed(r)
      /\ spent[Budget!KeyId(r)] # 0
      /\ caller[r].seen \in Nat /\ caller[r].seen <= Budget!ChargedTo(Budget!KeyId(r))
  BY RowsApart DEF Budget!CountFound, Budget!At, BudgetInv, Paths, Budget!Row,
      CountersBehind, Budget!TypeOK, Budget!Local, Budget!Keyed
<1>2. Budget!ChargedTo(Budget!KeyId(r)) \in Nat
  BY <1>1, SumsAreNat DEF BudgetInv
<1>3. ~ overlapped => /\ Budget!Spent < GLOBAL_DAILY_LLM_CAP
                      /\ caller[r].seen = spent[Budget!KeyId(r)]
                      /\ Budget!ChargedTo(Budget!KeyId(r)) = spent[Budget!KeyId(r)]
  BY <1>1 DEF BudgetInv, Alone, PastTheCheck, Budget!At
<1>4. CASE caller[r].seen >= RATE_LIMIT_TRIGGER_PER_DAY
  <2> DEFINE new == [caller[r] EXCEPT !.phase = "capped"]
  <2>1. new \in Budget!Local /\ new.phase = "capped" /\ new.caller = caller[r].caller
    BY DEF BudgetInv, Budget!TypeOK, Budget!Local, Budget!Phase
  <2>2. caller' = [caller EXCEPT ![r] = new] /\ UNCHANGED <<spent, inserting, calls>>
    BY <1>4 DEF Budget!CountFound, Budget!Go, BudgetInv, Budget!TypeOK, Budget!Local
  <2>3. Budget!ChargedTo(Budget!KeyId(r)) >= RATE_LIMIT_TRIGGER_PER_DAY
    BY <1>1, <1>2, <1>4 DEF Budget!BudgetAssumption
  <2> HIDE DEF new
  <2> QED  BY <1>1, <1>3, <2>1, <2>2, <2>3, MoveKeeps
<1>5. CASE ~ (caller[r].seen >= RATE_LIMIT_TRIGGER_PER_DAY)
  <2>1. Budget!Charge(r, caller[r].seen + 1)
    BY <1>5 DEF Budget!CountFound
  <2>2. PICK n \in Nat \ {0} : n = caller[r].seen + 1
    BY <1>1
  <2>3. Budget!Charge(r, n)
    BY <2>1, <2>2
  <2>4. \A q \in Request : q # r /\ Budget!At(q, "insert_count")
          => Budget!KeyId(q) # Budget!KeyId(r)
    BY <1>1 DEF BudgetInv, Paths
  <2>5. n <= Budget!ChargedTo(Budget!KeyId(r)) + 1
    BY <1>1, <1>2, <2>2
  <2>6. ~ overlapped => /\ n = spent[Budget!KeyId(r)] + 1 /\ Budget!Spent < GLOBAL_DAILY_LLM_CAP
                        /\ Budget!ChargedTo(Budget!KeyId(r)) < RATE_LIMIT_TRIGGER_PER_DAY
    BY <1>1, <1>3, <1>5, <2>2 DEF Budget!BudgetAssumption
  <2> QED  BY <1>1, <2>3, <2>4, <2>5, <2>6, ChargeKeeps
<1> QED  BY <1>4, <1>5

(* The pipeline's row, by UPDATE or by the INSERT of its first call.        *)
LEMMA KeylessChargeKeeps ==
  ASSUME Budget!BudgetAssumption, BudgetInv,
         NEW r \in Request, Budget!At(r, "bump") \/ Budget!At(r, "bump_insert"),
         Budget!Charge(r, spent[Keyless] + 1), UNCHANGED overlapped
  PROVE  BudgetInv'
<1>1. /\ ~ Budget!At(r, "idle") /\ Budget!KeyId(r) = Keyless
           /\ Budget!KeyId(r) \in Budget!Row /\ ~ Budget!Keyed(r)
      /\ spent[Keyless] \in Nat /\ spent[Keyless] = Budget!ChargedTo(Budget!KeyId(r))
  BY DEF Budget!At, BudgetInv, Paths, Budget!Row, Budget!Keyed, Budget!TypeOK,
      Budget!KeylessExact
<1>2. PICK n \in Nat \ {0} : n = spent[Keyless] + 1
  BY <1>1
<1>3. Budget!Charge(r, n)
  BY <1>2
<1>4. \A q \in Request : q # r /\ Budget!At(q, "insert_count")
        => Budget!KeyId(q) # Budget!KeyId(r)
  BY <1>1, RowsApart DEF BudgetInv, Paths, Budget!At
<1>5. ~ overlapped => Budget!Spent < GLOBAL_DAILY_LLM_CAP
  BY DEF BudgetInv, Alone, PastTheCheck, Budget!At
<1>6. n <= Budget!ChargedTo(Budget!KeyId(r)) + 1 /\ n = spent[Budget!KeyId(r)] + 1
  BY <1>1, <1>2
<1> QED  BY <1>1, <1>2, <1>3, <1>4, <1>5, <1>6, ChargeKeeps

LEMMA BumpInsertKeeps ==
  ASSUME Budget!BudgetAssumption, BudgetInv,
         NEW r \in Request, Budget!BumpInsert(r), UNCHANGED overlapped
  PROVE  BudgetInv'
<1>1. /\ Budget!At(r, "bump_insert") /\ ~ Budget!At(r, "idle") /\ ~ Budget!At(r, "insert_count")
      /\ Budget!KeyId(r) = Keyless
  BY DEF Budget!BumpInsert, Budget!At, BudgetInv, Paths
<1>2. CASE spent[Keyless] = 0
  <2>1. Budget!Charge(r, 1) /\ spent[Keyless] + 1 = 1
    BY <1>2 DEF Budget!BumpInsert
  <2> QED  BY <1>1, <2>1, KeylessChargeKeeps
<1>3. CASE spent[Keyless] # 0
  <2> DEFINE new == [caller[r] EXCEPT !.phase = "bump"]
  <2>1. new \in Budget!Local /\ new.phase = "bump" /\ new.caller = caller[r].caller
    BY DEF BudgetInv, Budget!TypeOK, Budget!Local, Budget!Phase
  <2>2. caller' = [caller EXCEPT ![r] = new] /\ UNCHANGED <<spent, inserting, calls>>
    BY <1>3 DEF Budget!BumpInsert, Budget!Go, BudgetInv, Budget!TypeOK, Budget!Local
  <2>3. ~ overlapped => Budget!Spent < GLOBAL_DAILY_LLM_CAP
    BY <1>1 DEF BudgetInv, Alone, PastTheCheck, Budget!At
  <2> HIDE DEF new
  <2> QED  BY <1>1, <2>1, <2>2, <2>3, MoveKeeps
<1> QED  BY <1>2, <1>3

LEMMA RefuseKeeps ==
  ASSUME Budget!BudgetAssumption, BudgetInv,
         NEW r \in Request, Budget!Refuse(r), UNCHANGED overlapped
  PROVE  BudgetInv'
<1>1. /\ ~ Budget!At(r, "insert_count") /\ caller' = [caller EXCEPT ![r] = Budget!Idle]
      /\ UNCHANGED <<spent, inserting, calls>>
  BY DEF Budget!Refuse, Budget!At
<1>2. \A k \in Budget!Row : inserting[k] # r
  BY <1>1 DEF BudgetInv, Budget!TypeOK, Budget!BudgetAssumption
<1>3. inserting' \in [Budget!Row -> Request \cup {Nil}]
  BY <1>1 DEF BudgetInv, Budget!TypeOK
<1> QED  BY <1>1, <1>2, <1>3, EndKeeps

LEMMA AbortKeeps ==
  ASSUME Budget!BudgetAssumption, BudgetInv,
         NEW r \in Request, Budget!Abort(r), UNCHANGED overlapped
  PROVE  BudgetInv'
<1>1. /\ caller' = [caller EXCEPT ![r] = Budget!Idle] /\ UNCHANGED <<spent, calls>>
      /\ inserting' = [k \in Budget!Row |-> IF inserting[k] = r THEN Nil ELSE inserting[k]]
  BY DEF Budget!Abort
<1>2. /\ inserting' \in [Budget!Row -> Request \cup {Nil}]
      /\ \A k \in Budget!Row : inserting'[k] = IF inserting[k] = r THEN Nil ELSE inserting[k]
  BY <1>1 DEF BudgetInv, Budget!TypeOK
<1> QED  BY <1>1, <1>2, EndKeeps

(* A day without calls.                                                     *)
LEMMA NothingSpent ==
  ASSUME Budget!BudgetAssumption, \A c \in Budget!Caller : calls[c] = 0
  PROVE  Budget!Spent = 0 /\ (\A k \in Budget!Row : Budget!ChargedTo(k) = 0) /\ AllCharged
<1>1. Budget!Spent = 0
  BY FiniteTables, DaySumOfZeros DEF Budget!Spent
<1>2. ASSUME NEW k \in Budget!Row PROVE Budget!ChargedTo(k) = 0
  BY FiniteTables, DaySumOfZeros DEF Budget!ChargedTo
<1>3. \A k \in Budget!Row : Charged[k] = 0
  BY <1>2 DEF Charged
<1>4. Budget!SumFunctionOnSet(Charged, Budget!Row) = 0
  BY <1>3, FiniteTables, DaySumOfZeros
<1> QED  BY <1>1, <1>2, <1>4 DEF AllCharged

(* At midnight, and at the start: nobody at work, nothing counted.          *)
Midnight ==
  /\ Budget!TypeOK
  /\ \A r \in Request : Budget!At(r, "idle")
  /\ \A k \in Budget!Row : spent[k] = 0
  /\ \A c \in Budget!Caller : calls[c] = 0

LEMMA FreshDay ==
  ASSUME Budget!BudgetAssumption, Midnight
  PROVE  BudgetInv
<1> USE DEF Midnight
<1>1. Budget!Spent = 0 /\ (\A k \in Budget!Row : Budget!ChargedTo(k) = 0) /\ AllCharged
  BY NothingSpent
<1>2. Paths /\ Holders
  BY DEF Paths, Holders, Budget!At, Budget!TypeOK
<1>3. CountersBehind /\ CappedRightly
  BY <1>1 DEF CountersBehind, CappedRightly, Budget!At
<1>4. Budget!KeylessExact
  BY <1>1 DEF Budget!KeylessExact, Budget!Row
<1>5. Alone
  BY <1>1 DEF Alone, Budget!At, PastTheCheck
<1>6. Budget!WithinCaps
  BY <1>1 DEF Budget!WithinCaps, Budget!BudgetAssumption, Budget!Row
<1> QED  BY <1>1, <1>2, <1>3, <1>4, <1>5, <1>6 DEF BudgetInv

LEMMA NewDayKeeps ==
  ASSUME Budget!BudgetAssumption
  PROVE  BudgetInv /\ Budget!NewDay => BudgetInv'
<1>1. Midnight => BudgetInv
  BY FreshDay
<1>2. ASSUME BudgetInv, Budget!NewDay PROVE Midnight'
  <2>1. Budget!TypeOK' /\ \A r \in Request : Budget!At(r, "idle")'
    BY <1>2 DEF Budget!NewDay, BudgetInv, Budget!TypeOK, Budget!At
  <2>2. (\A k \in Budget!Row : spent[k] = 0)' /\ (\A c \in Budget!Caller : calls[c] = 0)'
    BY <1>2 DEF Budget!NewDay
  <2> QED  BY <2>1, <2>2 DEF Midnight
<1> QED  BY <1>1, <1>2, PTL

LEMMA BudgetStutterKeeps ==
  ASSUME Budget!BudgetAssumption, BudgetInv, UNCHANGED Budget!vars
  PROVE  BudgetInv'
<1>1. Budget!TypeOK' /\ Paths' /\ Holders'
  BY DEF BudgetInv, Budget!TypeOK, Paths, Holders, Budget!At, Budget!KeyId,
      Budget!Keyed, Budget!vars
<1>2. /\ Budget!Spent' = Budget!Spent /\ AllCharged'
      /\ \A k : Budget!ChargedTo(k)' = Budget!ChargedTo(k)
  BY SameCalls DEF BudgetInv, Budget!vars
<1>3. \A q \in Request : Budget!ChargedTo(Budget!KeyId(q))' = Budget!ChargedTo(Budget!KeyId(q))
  BY DEF Budget!ChargedTo, Budget!KeyId, Budget!vars
<1>4. CountersBehind' /\ CappedRightly'
  BY <1>2, <1>3 DEF BudgetInv, CountersBehind, CappedRightly, Budget!At, Budget!Keyed,
      Budget!KeyId, Budget!vars
<1>5. Budget!KeylessExact' /\ Budget!WithinCaps' /\ Alone'
  BY <1>2 DEF BudgetInv, Budget!KeylessExact, Budget!WithinCaps, Alone, Budget!At,
      Budget!KeyId, Budget!vars
<1> QED  BY <1>1, <1>2, <1>4, <1>5 DEF BudgetInv

LEMMA BudgetInvHolds == GatewaySpec => []BudgetInv
<1>1. GatewayInit => BudgetInv
  <2> SUFFICES ASSUME Budget!Init PROVE BudgetInv
    BY DEF GatewayInit
  <2>1. Budget!TypeOK
    <3>1. Budget!Idle \in Budget!Local
      BY DEF Budget!Idle, Budget!Local, Budget!Phase
    <3> QED  BY <3>1 DEF Budget!Init, Budget!TypeOK
  <2>2. \A r \in Request : Budget!At(r, "idle")
    BY DEF Budget!Init, Budget!At, Budget!Idle
  <2> QED  BY <2>1, <2>2, GatewayAssumption, FreshDay DEF Budget!Init, Midnight
<1>2. BudgetInv /\ [GatewayNext]_<<part, limiter, budget>> => BudgetInv'
  <2> SUFFICES ASSUME BudgetInv, Budget!Next \/ UNCHANGED budget PROVE BudgetInv'
    BY DEF GatewayNext
  <2> USE GatewayAssumption
  <2>1. ASSUME NEW r \in Request, NEW c \in Budget!Caller, Budget!Arrive(r, c) PROVE BudgetInv'
    BY <2>1, CallerArrives
  <2>2. ASSUME NEW r \in Request, Budget!Step(r), UNCHANGED overlapped PROVE BudgetInv'
    <3>1. CASE Budget!Bump(r)
      BY <2>2, <3>1, KeylessChargeKeeps DEF Budget!Bump
    <3> QED  BY <2>2, <3>1, CheckGlobalKeeps, FindKeeps, FlushKeeps, FindAgainKeeps,
                CountInsertedKeeps, CountFoundKeeps, BumpInsertKeeps, RefuseKeeps
             DEF Budget!Step
  <2>3. ASSUME NEW r \in Request, Budget!Abort(r), UNCHANGED overlapped PROVE BudgetInv'
    BY <2>3, AbortKeeps
  <2>4. CASE Budget!NewDay
    BY <2>4, NewDayKeeps
  <2>5. CASE UNCHANGED budget
    BY <2>5, BudgetStutterKeeps DEF budget, Budget!vars
  <2> QED  BY <2>1, <2>2, <2>3, <2>4, <2>5 DEF Budget!Next
<1> QED  BY <1>1, <1>2, PTL DEF GatewaySpec

-----------------------------------------------------------------------------
(* The 503 is only ever met by a login through OAuth whose id is no API     *)
(* key's: with the ids of the logins among those of the keys, never.        *)
THEOREM OnlyLoginsUnavailable ==
  GatewaySpec => [](/\ \A r \in Request : Budget!At(r, "unavailable") =>
                         caller[r].caller.kind = "oauth" /\ Budget!KeyId(r) \notin ApiKey
                    /\ OAuthToken \subseteq ApiKey => Budget!NeverUnavailable)
<1>1. BudgetInv => /\ \A r \in Request : Budget!At(r, "unavailable") =>
                        caller[r].caller.kind = "oauth" /\ Budget!KeyId(r) \notin ApiKey
                   /\ OAuthToken \subseteq ApiKey => Budget!NeverUnavailable
  <2> SUFFICES ASSUME BudgetInv, NEW r \in Request, Budget!At(r, "unavailable")
               PROVE  /\ caller[r].caller.kind = "oauth" /\ Budget!KeyId(r) \notin ApiKey
                      /\ ~ (OAuthToken \subseteq ApiKey)
    BY DEF Budget!NeverUnavailable
  <2>1. caller[r].caller \in Budget!Caller /\ Budget!KeyId(r) \notin Budget!Row
    BY DEF BudgetInv, Paths, Budget!At
  <2> QED  BY <2>1 DEF Budget!Caller, Budget!Row, Budget!KeyId
<1> QED  BY <1>1, BudgetInvHolds, PTL

(* A refusal means the money has been spent: no counter ever runs ahead of  *)
(* the calls it stands for, who is turned away found the day or the key     *)
(* used up, and an API key never meets the 503 that is meant for an old     *)
(* constraint (`check_and_count_trigger`, `check_and_count_llm_global`).    *)
THEOREM GatewayRefusesRightly == GatewaySpec => []RefusedOnlyWhenSpent
<1>1. BudgetInv => Budget!RefusedOnlyWhenSpent
  BY DEF BudgetInv, CountersBehind, CappedRightly, Budget!RefusedOnlyWhenSpent
<1> QED  BY <1>1, BudgetInvHolds, OnlyLoginsUnavailable, PTL DEF RefusedOnlyWhenSpent

(* The counters of the day are typed, exact for the pipeline whatever       *)
(* overlaps, and within both caps on a day on which no two handlers         *)
(* overlapped (`_bump_global_trigger`, `_global_llm_today`), for any keys,  *)
(* logins and caps.                                                         *)
THEOREM GatewayCounts == GatewaySpec => []CountersHold
<1>1. BudgetInv => CountersHold
  BY DEF BudgetInv, CountersHold, Budget!CountersHold
<1> QED  BY <1>1, BudgetInvHolds, PTL

=============================================================================
