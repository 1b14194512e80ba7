-------------------------- MODULE MonthlyDrawProofs --------------------------
(* Proofs about MonthlyDraw: for any number of players, months and close    *)
(* requests.                                                                *)
EXTENDS MonthlyDraw, FiniteLemmas, TLAPS

(* A close of a month that is over has read the standings as they stay; a   *)
(* winner it loaded is that of a cycle somebody has closed.                 *)
CloserOK(c) ==
  LET l == close[c] IN
  /\ l.loaded # NoPlayer => cycle[l.period] = "closed"
  /\ l.phase # "idle" /\ l.period \notin unsettled => l.period < month
  /\ l.phase = "close" /\ l.period \notin unsettled => l.top = Top(l.period)

(* No play of a settled month that is over is still uncommitted, so its     *)
(* standings are final, and so is the winner of its cycle.                  *)
IInv ==
  /\ TypeOK
  /\ \A p \in Player : flying[p] # NoPlay =>
       flying[p].month <= month /\ (flying[p].month = month \/ flying[p].month \in unsettled)
  /\ \A m \in Month \ unsettled :
       cycle[m] = "closed" => m < month /\ winner[m] = Top(m)
  /\ \A c \in Closer : CloserOK(c)

-----------------------------------------------------------------------------
LEMMA Domains ==
  /\ NoPlayer \notin Player /\ NoPlayer \in Nat /\ Player \subseteq Nat /\ IsFiniteSet(Player)
  /\ Month \subseteq Period /\ Month \subseteq Nat /\ 0 \in Month
  /\ \A m \in Month : m + 1 \in Period
<1>1. IsFiniteSet(Player)
  BY DrawAssumption, FS_Interval DEF Player
<1> QED  BY <1>1, DrawAssumption DEF Player, NoPlayer, Month, Period

LEMMA LocalFields ==
  ASSUME NEW l \in Local
  PROVE  /\ l.phase \in Phase /\ l.period \in Month /\ l.seen \in BOOLEAN
         /\ l.loaded \in Player \cup {NoPlayer} /\ l.top \in Player \cup {NoPlayer}
BY DEF Local

LEMMA IdleIsLocal ==
  Idle \in Local /\ Idle.phase = "idle" /\ Idle.loaded = NoPlayer
BY Domains DEF Idle, Local, Phase

(* `roll_up_cycle` finds somebody with as many points as anybody, unless    *)
(* nobody has any.                                                          *)
LEMMA TopIsTop ==
  ASSUME TypeOK, NEW m \in Month
  PROVE  /\ Top(m) \in Player \cup {NoPlayer}
         /\ Top(m) = NoPlayer => \A p \in Player : points[m][p].member = 0
         /\ Top(m) # NoPlayer =>
              /\ points[m][Top(m)].member > 0
              /\ \A p \in Player : points[m][p].member <= points[m][Top(m)].member
<1> DEFINE score == [p \in Player |-> points[m][p].member]
           ranked == {p \in Player : score[p] > 0}
           best == {p \in ranked : \A q \in ranked : score[q] <= score[p]}
<1>1. \A p \in Player : score[p] \in Nat /\ score[p] = points[m][p].member
  BY DEF TypeOK
<1>2. Top(m) = IF ranked = {} THEN NoPlayer ELSE Min(best)
  BY DEF Top
<1> HIDE DEF score
<1>3. CASE ranked = {}
  BY <1>1, <1>2, <1>3
<1>4. CASE ranked # {}
  <2>1. IsFiniteSet(ranked) /\ \A p \in ranked : score[p] \in Int
    BY <1>1, Domains, FS_Subset
  <2>2. best # {}
    <3>1. \E p \in ranked : \A q \in ranked : score[q] <= score[p]
      <4> HIDE DEF ranked
      <4> QED  BY <1>4, <2>1, Greatest
    <3> QED  BY <3>1
  <2>3. best \in SUBSET Int /\ IsFiniteSet(best)
    <3>1. best \subseteq ranked /\ ranked \subseteq Int
      <4>1. best \subseteq ranked /\ ranked \subseteq Player
        OBVIOUS
      <4> HIDE DEF best, ranked
      <4> QED  BY <4>1, Domains
    <3> HIDE DEF best, ranked
    <3> QED  BY <2>1, <3>1, FS_Subset
  <2>4. Min(best) \in best
    <3> HIDE DEF best
    <3>1. \E x \in best : \A y \in best : x <= y
      BY <2>2, <2>3, SmallestNumber
    <3> QED  BY <3>1 DEF Min
  <2>5. Top(m) \in best
    BY <1>2, <1>4, <2>4
  <2>6. \A p \in Player : score[p] <= score[Top(m)]
    <3> SUFFICES ASSUME NEW p \in Player PROVE score[p] <= score[Top(m)]
      OBVIOUS
    <3>1. CASE p \in ranked
      BY <2>5, <3>1
    <3>2. CASE p \notin ranked
      BY <1>1, <2>5, <3>2
    <3> QED  BY <3>1, <3>2
  <2> QED  BY <1>1, <2>5, <2>6, Domains
<1> QED  BY <1>3, <1>4

(* A step that leaves the ledger alone changes no standings.                *)
LEMMA SameTop == ASSUME points' = points PROVE \A m : Top(m)' = Top(m)
BY DEF Top

-----------------------------------------------------------------------------
LEMMA InitInv == ASSUME Init PROVE IInv
<1>1. TypeOK
  <2>1. /\ month \in Month /\ plays \in Nat /\ unsettled \subseteq Month
        /\ cycle \in [Period -> {"none", "open", "closed"}]
        /\ winner \in [Period -> Player \cup {NoPlayer}]
        /\ \A m \in Period : winner[m] = NoPlayer
    BY Domains DEF Init
  <2>2. points \in [Month -> [Player -> [member : Nat, guest : Nat]]]
    BY DEF Init
  <2>3. flying \in [Player -> {NoPlay} \cup [month : Month, kind : {"member", "guest"}]]
    BY Domains DEF Init, NoPlay
  <2>4. close \in [Closer -> Local]
    BY IdleIsLocal DEF Init
  <2> QED  BY <2>1, <2>2, <2>3, <2>4 DEF TypeOK
<1>2. \A p \in Player : flying[p] = NoPlay
  BY DEF Init
<1>3. \A m \in Month : cycle[m] # "closed"
  BY Domains DEF Init
<1>4. \A c \in Closer : CloserOK(c)
  BY IdleIsLocal DEF Init, CloserOK
<1> QED  BY <1>1, <1>2, <1>3, <1>4 DEF IInv

(* The plays and the clock.                                                 *)
LEMMA PlayKeeps ==
  ASSUME IInv, NEW p \in Player, NEW kind \in {"member", "guest"}, Play(p, kind)
  PROVE  IInv'
<1>1. TypeOK'
  BY DEF Play, IInv, TypeOK
<1>2. flying' = [flying EXCEPT ![p] = [month |-> month, kind |-> kind]] /\ month \in Nat
  BY Domains DEF Play, IInv, TypeOK
<1>3. \A q \in Player : flying'[q] # NoPlay =>
        flying'[q].month <= month /\ (flying'[q].month = month \/ flying'[q].month \in unsettled)
  BY <1>2 DEF IInv, TypeOK
<1>4. /\ \A m : Top(m)' = Top(m)
      /\ UNCHANGED <<month, cycle, winner, unsettled, close>>
  BY SameTop DEF Play
<1> QED  BY <1>1, <1>3, <1>4 DEF IInv, CloserOK

LEMMA CommitKeeps == ASSUME IInv, NEW p \in Player, Commit(p) PROVE IInv'
<1> DEFINE n == flying[p].month
<1>1. /\ n \in Month /\ n <= month /\ (n = month \/ n \in unsettled)
      /\ flying[p] # NoPlay
      /\ UNCHANGED <<month, plays, cycle, winner, unsettled, close>>
  BY DEF Commit, IInv, TypeOK
<1>2. TypeOK'
  <2>1. points' \in [Month -> [Player -> [member : Nat, guest : Nat]]]
    <3> DEFINE kind == flying[p].kind
               old == points[n][p]
               new == [old EXCEPT ![kind] = old[kind] + 1]
    <3>1. old \in [member : Nat, guest : Nat] /\ kind \in {"member", "guest"}
      BY <1>1 DEF IInv, TypeOK
    <3>2. new \in [member : Nat, guest : Nat]
      <4>1. CASE kind = "member"
        BY <3>1, <4>1
      <4>2. CASE kind = "guest"
        BY <3>1, <4>2
      <4> QED  BY <3>1, <4>1, <4>2
    <3>3. points' = [points EXCEPT ![n] = [points[n] EXCEPT ![p] = new]]
      BY <1>1 DEF Commit, IInv, TypeOK
    <3> HIDE DEF n, new
    <3> QED  BY <1>1, <3>2, <3>3 DEF IInv, TypeOK
  <2>2. flying' \in [Player -> {NoPlay} \cup [month : Month, kind : {"member", "guest"}]]
    BY Domains DEF Commit, IInv, TypeOK, NoPlay
  <2> QED  BY <1>1, <2>1, <2>2 DEF IInv, TypeOK
<1>3. \A m \in Month : m # n => points'[m] = points[m]
  BY DEF Commit, IInv, TypeOK
<1>4. \A m \in Month \ unsettled : m < month => Top(m)' = Top(m)
  <2> SUFFICES ASSUME NEW m \in Month, m \notin unsettled, m < month PROVE Top(m)' = Top(m)
    OBVIOUS
  <2>1. m # n
    BY <1>1, Domains DEF IInv, TypeOK
  <2> QED  BY <1>3, <2>1 DEF Top
<1>5. \A q \in Player : flying'[q] = flying[q] \/ flying'[q] = NoPlay
  BY DEF Commit, IInv, TypeOK
<1>6. ASSUME NEW c \in Closer PROVE CloserOK(c)'
  <2>1. CloserOK(c) /\ close[c].period \in Month
    BY LocalFields DEF IInv, TypeOK
  <2> QED  BY <1>1, <1>4, <2>1 DEF CloserOK
<1> QED  BY <1>1, <1>2, <1>4, <1>5, <1>6 DEF IInv

LEMMA NewMonthKeeps == ASSUME IInv, NewMonth PROVE IInv'
<1>1. /\ month \in Nat /\ month' = month + 1 /\ month' \in Month
      /\ unsettled \subseteq unsettled'
      /\ \A p \in Player : flying[p] # NoPlay => flying[p].month \in unsettled'
      /\ unsettled' \subseteq Month
      /\ UNCHANGED <<points, flying, plays, cycle, winner, close>>
  <2>1. month \in Nat /\ month' = month + 1 /\ month' \in Month
    BY DrawAssumption DEF NewMonth, IInv, TypeOK, Month
  <2>2. /\ unsettled' = unsettled \cup {flying[p].month : p \in {q \in Player : flying[q] # NoPlay}}
        /\ UNCHANGED <<points, flying, plays, cycle, winner, close>>
    BY DEF NewMonth
  <2>3. unsettled \subseteq Month /\ \A p \in Player : flying[p].month \in Month
    BY Domains DEF IInv, TypeOK, NoPlay
  <2> QED  BY <2>1, <2>2, <2>3
<1>2. TypeOK'
  BY <1>1 DEF IInv, TypeOK
<1>3. \A m : Top(m)' = Top(m)
  BY <1>1, SameTop
<1>4. ASSUME NEW p \in Player, flying[p] # NoPlay PROVE flying[p].month <= month'
  <2>1. flying[p].month \in Nat /\ flying[p].month <= month
    BY <1>4, Domains DEF IInv, TypeOK
  <2> QED  BY <1>1, <2>1
<1>5. ASSUME NEW c \in Closer PROVE CloserOK(c)'
  <2>1. CloserOK(c) /\ close[c].period \in Nat
    BY LocalFields, Domains DEF IInv, TypeOK
  <2> QED  BY <1>1, <1>3, <2>1 DEF CloserOK
<1>6. ASSUME NEW m \in Month \ unsettled', cycle'[m] = "closed"
      PROVE  m < month' /\ winner'[m] = Top(m)'
  <2>1. m \in Nat /\ m \in Month \ unsettled /\ cycle[m] = "closed"
    BY <1>1, <1>6, Domains
  <2>2. m < month /\ winner[m] = Top(m)
    BY <2>1 DEF IInv
  <2>3. m < month'
    BY <1>1, <2>1, <2>2
  <2>4. winner'[m] = Top(m)'
    BY <1>1, <1>3, <2>2
  <2> QED  BY <2>3, <2>4
<1> QED  BY <1>1, <1>2, <1>4, <1>5, <1>6 DEF IInv

-----------------------------------------------------------------------------
(* A step of a close that touches no cycle, or opens one.                   *)
LEMMA Goes ==
  ASSUME IInv, NEW c \in Closer, NEW l \in Local, close' = [close EXCEPT ![c] = l],
         UNCHANGED <<ledger, winner>>,
         unsettled \subseteq unsettled', unsettled' \subseteq Month,
         cycle' \in [Period -> {"none", "open", "closed"}],
         \A m \in Period : cycle[m] = "closed" <=> cycle'[m] = "closed",
         CloserOK(c)'
  PROVE  IInv'
<1>1. close' \in [Closer -> Local] /\ \A q \in Closer \ {c} : close'[q] = close[q]
  BY DEF IInv, TypeOK
<1>2. UNCHANGED <<month, points, flying, plays, winner>>
  BY DEF ledger
<1>3. TypeOK'
  BY <1>1, <1>2 DEF IInv, TypeOK
<1>4. \A m : Top(m)' = Top(m)
  BY <1>2, SameTop
<1>5. ASSUME NEW q \in Closer PROVE CloserOK(q)'
  <2>1. CASE q # c
    <3>1. CloserOK(q) /\ close'[q] = close[q] /\ close[q].period \in Period
      BY <1>1, <2>1, LocalFields, Domains DEF IInv, TypeOK
    <3> QED  BY <1>2, <1>4, <3>1 DEF CloserOK
  <2> QED  BY <2>1
<1>6. \A m \in Month \ unsettled' : cycle'[m] = "closed" => m < month' /\ winner'[m] = Top(m)'
  BY <1>2, <1>4, Domains DEF IInv
<1> QED  BY <1>2, <1>3, <1>5, <1>6 DEF IInv

LEMMA EndKeeps ==
  ASSUME IInv, NEW c \in Closer, End(c), UNCHANGED <<ledger, winner, unsettled>>,
         cycle' \in [Period -> {"none", "open", "closed"}],
         \A m \in Period : cycle[m] = "closed" <=> cycle'[m] = "closed"
  PROVE  IInv'
<1>1. CloserOK(c)'
  <2>1. close'[c] = Idle
    BY DEF End, IInv, TypeOK
  <2> QED  BY <2>1, IdleIsLocal DEF CloserOK
<1> QED  BY <1>1, IdleIsLocal, Goes DEF End, IInv, TypeOK

Update(c, phase, loaded, top) ==
  close' = [close EXCEPT ![c] = [close[c] EXCEPT !.phase = phase, !.loaded = loaded, !.top = top]]

(* What the close has in hand when it takes a step, and what it keeps.      *)
LEMMA GoFields ==
  ASSUME IInv, NEW c \in Closer, NEW phase \in Phase, NEW loaded \in Player \cup {NoPlayer},
         NEW top \in Player \cup {NoPlayer},
         Update(c, phase, loaded, top)
  PROVE  /\ close'[c] \in Local /\ close'[c].phase = phase /\ close'[c].loaded = loaded
         /\ close'[c].top = top /\ close'[c].period = close[c].period
         /\ close' = [close EXCEPT ![c] = close'[c]]
<1>1. close[c] \in Local
  BY DEF IInv, TypeOK
<1> DEFINE l == [close[c] EXCEPT !.phase = phase, !.loaded = loaded, !.top = top]
<1>2. /\ l \in Local /\ l.phase = phase /\ l.loaded = loaded /\ l.top = top
      /\ l.period = close[c].period
  BY <1>1 DEF Local
<1>3. close'[c] = l /\ close' = [close EXCEPT ![c] = l]
  BY DEF IInv, TypeOK, Update
<1> HIDE DEF l
<1> QED  BY <1>2, <1>3

LEMMA GoIsUpdate ==
  ASSUME IInv, NEW c \in Closer, NEW phase, Go(c, phase)
  PROVE  Update(c, phase, close[c].loaded, close[c].top)
<1>1. close[c] \in Local
  BY DEF IInv, TypeOK
<1>2. [close[c] EXCEPT !.phase = phase]
        = [close[c] EXCEPT !.phase = phase, !.loaded = close[c].loaded, !.top = close[c].top]
  BY <1>1 DEF Local
<1> QED  BY <1>2 DEF Go, Update

(* A close that goes on before it reads the standings, or after its UPDATE. *)
LEMMA GoesOn ==
  ASSUME IInv, NEW c \in Closer, NEW phase \in Phase \ {"close"}, ~ At(c, "idle"),
         Go(c, phase), UNCHANGED <<ledger, winner, unsettled>>,
         cycle' \in [Period -> {"none", "open", "closed"}],
         \A m \in Period : cycle[m] = "closed" <=> cycle'[m] = "closed"
  PROVE  IInv'
<1>1. close[c] \in Local /\ CloserOK(c) /\ close[c].phase # "idle" /\ close[c].period \in Period
  BY LocalFields, Domains DEF IInv, TypeOK, At
<1>2. /\ close'[c] \in Local /\ close'[c].phase = phase /\ close'[c].loaded = close[c].loaded
      /\ close'[c].period = close[c].period /\ close' = [close EXCEPT ![c] = close'[c]]
  <2>1. Update(c, phase, close[c].loaded, close[c].top)
    BY GoIsUpdate
  <2>2. phase \in Phase /\ close[c].loaded \in Player \cup {NoPlayer}
        /\ close[c].top \in Player \cup {NoPlayer}
    BY <1>1, LocalFields
  <2> QED  BY <2>1, <2>2, GoFields
<1>3. CloserOK(c)'
  <2>1. month' = month /\ unsettled' = unsettled
    BY DEF ledger
  <2>2. close'[c].loaded # NoPlayer => cycle'[close'[c].period] = "closed"
    BY <1>1, <1>2 DEF CloserOK
  <2>3. close'[c].period \notin unsettled => close'[c].period < month
    BY <1>1, <1>2 DEF CloserOK
  <2>4. close'[c].phase # "close"
    BY <1>2
  <2> QED  BY <2>1, <2>2, <2>3, <2>4 DEF CloserOK
<1> QED  BY <1>2, <1>3, Goes DEF IInv, TypeOK

LEMMA CloseDrawKeeps ==
  ASSUME IInv, NEW c \in Closer, NEW m \in Month, NEW force \in BOOLEAN, CloseDraw(c, m, force)
  PROVE  IInv'
<1>1. CASE UNCHANGED <<unsettled, close>>
  <2>1. close' = [close EXCEPT ![c] = close[c]] /\ close[c] \in Local /\ UNCHANGED <<ledger, cycle, winner>>
    BY <1>1 DEF CloseDraw, IInv, TypeOK
  <2>2. CloserOK(c)'
    <3>1. CloserOK(c) /\ (\A n : Top(n)' = Top(n)) /\ UNCHANGED <<month, cycle, unsettled, close>>
      BY <1>1, <2>1, SameTop DEF IInv, ledger
    <3> QED  BY <3>1 DEF CloserOK
  <2> QED  BY <1>1, <2>1, <2>2, Goes DEF IInv, TypeOK
<1>2. CASE /\ cycle[m] # "closed" /\ MayClose(m, force)
           /\ close' = [close EXCEPT ![c] = [Idle EXCEPT !.phase = "cycle", !.period = m,
                                                          !.seen = cycle[m] = "open"]]
           /\ unsettled' = IF force /\ month <= m THEN unsettled \cup {m} ELSE unsettled
  <2> DEFINE l == [Idle EXCEPT !.phase = "cycle", !.period = m, !.seen = cycle[m] = "open"]
  <2>1. l \in Local /\ l.phase = "cycle" /\ l.period = m /\ l.loaded = NoPlayer
    BY Domains DEF Idle, Local, Phase
  <2>2. close'[c] = l /\ close' = [close EXCEPT ![c] = l]
    BY <1>2 DEF IInv, TypeOK
  <2> HIDE DEF l
  <2>3. m \notin unsettled' => m < month'
    BY <1>2, Domains DEF MayClose, CloseDraw, ledger, IInv, TypeOK
  <2>4. CloserOK(c)'
    BY <2>1, <2>2, <2>3 DEF CloserOK
  <2>5. UNCHANGED <<ledger, cycle, winner>> /\ unsettled \subseteq unsettled' /\ unsettled' \subseteq Month
    BY <1>2 DEF CloseDraw, IInv, TypeOK
  <2> QED  BY <2>1, <2>2, <2>4, <2>5, Goes DEF IInv, TypeOK
<1> QED  BY <1>1, <1>2 DEF CloseDraw

LEMMA FindCycleKeeps == ASSUME IInv, NEW c \in Closer, FindCycle(c) PROVE IInv'
<1> DEFINE l == close[c]
           loaded == IF l.seen THEN NoPlayer ELSE winner[l.period]
<1>1. /\ UNCHANGED <<ledger, cycle, winner, unsettled>> /\ l \in Local /\ CloserOK(c)
      /\ l.phase = "cycle" /\ l.period \in Period
  BY LocalFields, Domains DEF FindCycle, At, IInv, TypeOK
<1>2. CASE Go(c, "insert")
  BY <1>1, <1>2, GoesOn DEF At, Phase, IInv, TypeOK
<1>3. CASE close' = [close EXCEPT ![c].phase = "standings", ![c].loaded = loaded]
  <2>1. loaded \in Player \cup {NoPlayer} /\ (loaded # NoPlayer => cycle[l.period] = "closed")
    BY <1>1 DEF IInv, TypeOK
  <2> HIDE DEF loaded
  <2>2. Update(c, "standings", loaded, l.top)
    BY <1>1, <1>3 DEF Local, Update
  <2>3. /\ close'[c] \in Local /\ close'[c].phase = "standings" /\ close'[c].loaded = loaded
        /\ close'[c].period = l.period /\ close' = [close EXCEPT ![c] = close'[c]]
    <3>1. l.top \in Player \cup {NoPlayer} /\ "standings" \in Phase
      BY <1>1, LocalFields DEF Phase
    <3> QED  BY <2>1, <2>2, <3>1, GoFields
  <2>4. CloserOK(c)'
    <3>1. month' = month /\ unsettled' = unsettled /\ cycle' = cycle
      BY <1>1 DEF ledger
    <3>2. close'[c].loaded # NoPlayer => cycle[close'[c].period] = "closed"
      BY <2>1, <2>3
    <3>3. close'[c].period \notin unsettled => close'[c].period < month
      BY <1>1, <2>3 DEF CloserOK
    <3> QED  BY <2>3, <3>1, <3>2, <3>3 DEF CloserOK
  <2> QED  BY <1>1, <2>3, <2>4, Goes DEF IInv, TypeOK
<1> QED  BY <1>2, <1>3 DEF FindCycle

LEMMA InsertCycleKeeps == ASSUME IInv, NEW c \in Closer, InsertCycle(c) PROVE IInv'
<1>1. UNCHANGED <<ledger, winner, unsettled>> /\ ~ At(c, "idle") /\ close[c].period \in Period
  BY LocalFields, Domains DEF InsertCycle, At, IInv, TypeOK
<1>2. /\ cycle' \in [Period -> {"none", "open", "closed"}]
      /\ \A m \in Period : cycle[m] = "closed" <=> cycle'[m] = "closed"
  BY <1>1 DEF InsertCycle, IInv, TypeOK
<1>3. Go(c, "standings") \/ End(c)
  BY DEF InsertCycle
<1> QED  BY <1>1, <1>2, <1>3, GoesOn, EndKeeps DEF Phase

LEMMA StandingsKeeps == ASSUME IInv, NEW c \in Closer, Standings(c) PROVE IInv'
<1> DEFINE l == close[c]
<1>1. /\ UNCHANGED <<ledger, cycle, winner, unsettled>> /\ l \in Local /\ CloserOK(c)
      /\ l.phase = "standings" /\ l.period \in Month /\ l.loaded \in Player \cup {NoPlayer}
      /\ Top(l.period) \in Player \cup {NoPlayer}
  BY LocalFields, TopIsTop DEF Standings, At, IInv, TypeOK
<1>2. Update(c, "close", l.loaded, Top(l.period))
  <2>1. close' = [close EXCEPT ![c].phase = "close", ![c].top = Top(l.period)]
    BY DEF Standings
  <2> QED  BY <1>1, <2>1 DEF Local, Update
<1>3. /\ close'[c] \in Local /\ close'[c].phase = "close" /\ close'[c].loaded = l.loaded
      /\ close'[c].top = Top(l.period)
      /\ close'[c].period = l.period /\ close' = [close EXCEPT ![c] = close'[c]]
  BY <1>1, <1>2, GoFields DEF Phase
<1>4. \A m : Top(m)' = Top(m)
  BY <1>1, SameTop DEF ledger
<1>5. CloserOK(c)'
  BY <1>1, <1>3, <1>4 DEF CloserOK, ledger
<1> QED  BY <1>1, <1>3, <1>5, Goes DEF IInv, TypeOK

(* The UPDATE: a settled month gets its top player, if it has not got them  *)
(* already.                                                                 *)
LEMMA CloseWrites ==
  ASSUME IInv, NEW c \in Closer, Close(c)
  PROVE  /\ close[c].period \in Month
         /\ cycle' = [cycle EXCEPT ![close[c].period] = "closed"]
         /\ winner' \in [Period -> Player \cup {NoPlayer}]
         /\ \A m \in Period : m # close[c].period => winner'[m] = winner[m]
         /\ close[c].period \notin unsettled =>
              close[c].period < month /\ winner'[close[c].period] = Top(close[c].period)
<1> DEFINE l == close[c]
<1>1. l \in Local /\ CloserOK(c) /\ l.phase = "close" /\ l.period \in Month /\ l.period \in Period
      /\ l.top \in Player \cup {NoPlayer}
  BY LocalFields, Domains DEF Close, At, IInv, TypeOK
<1>2. /\ winner' = [winner EXCEPT ![l.period] = IF l.top = l.loaded THEN @ ELSE l.top]
      /\ cycle' = [cycle EXCEPT ![l.period] = "closed"]
  BY DEF Close
<1>3. l.period \notin unsettled => l.period < month /\ winner'[l.period] = Top(l.period)
  <2> SUFFICES ASSUME l.period \notin unsettled PROVE l.period < month /\ winner'[l.period] = Top(l.period)
    OBVIOUS
  <2>1. l.top = Top(l.period) /\ l.period < month
    BY <1>1 DEF CloserOK
  <2>2. winner'[l.period] = IF l.top = l.loaded THEN winner[l.period] ELSE l.top
    BY <1>1, <1>2 DEF IInv, TypeOK
  <2>3. cycle[l.period] = "closed" => winner[l.period] = Top(l.period)
    BY <1>1 DEF IInv
  <2>4. cycle[l.period] # "closed" => winner[l.period] = NoPlayer /\ l.loaded = NoPlayer
    BY <1>1 DEF IInv, TypeOK, CloserOK
  <2> QED  BY <2>1, <2>2, <2>3, <2>4
<1> QED  BY <1>1, <1>2, <1>3 DEF IInv, TypeOK

LEMMA CloseKeeps == ASSUME IInv, NEW c \in Closer, Close(c) PROVE IInv'
<1>1. close[c] \in Local /\ CloserOK(c) /\ close[c].phase = "close" /\ close[c].period \in Period
  BY LocalFields, Domains DEF Close, At, IInv, TypeOK
<1>2. UNCHANGED <<month, points, flying, plays, unsettled>> /\ Go(c, "next")
  BY DEF Close, ledger
<1>3. \A m : Top(m)' = Top(m)
  BY <1>2, SameTop
<1>4. /\ close'[c] \in Local /\ close'[c].phase = "next" /\ close'[c].loaded = close[c].loaded
      /\ close'[c].period = close[c].period /\ close' = [close EXCEPT ![c] = close'[c]]
  BY <1>1, <1>2, GoFields, GoIsUpdate, LocalFields DEF Phase
<1>5. /\ cycle' \in [Period -> {"none", "open", "closed"}] /\ cycle'[close[c].period] = "closed"
      /\ \A m \in Period : m # close[c].period => cycle'[m] = cycle[m]
  BY <1>1, CloseWrites DEF IInv, TypeOK
<1>6. TypeOK'
  <2>1. close' \in [Closer -> Local]
    BY <1>4 DEF IInv, TypeOK
  <2>2. \A m \in Period : winner'[m] # NoPlayer => cycle'[m] = "closed"
    BY <1>5, CloseWrites DEF IInv, TypeOK
  <2>3. winner' \in [Period -> Player \cup {NoPlayer}]
    BY CloseWrites
  <2> QED  BY <1>2, <1>5, <2>1, <2>2, <2>3 DEF IInv, TypeOK
<1>7. ASSUME NEW q \in Closer PROVE CloserOK(q)'
  <2>1. CASE q = c
    BY <1>1, <1>2, <1>4, <1>5, <2>1 DEF CloserOK
  <2>2. CASE q # c
    <3>1. CloserOK(q) /\ close'[q] = close[q] /\ close[q].period \in Period
      BY <1>4, <2>2, LocalFields, Domains DEF IInv, TypeOK
    <3> QED  BY <1>2, <1>3, <1>5, <3>1 DEF CloserOK
  <2> QED  BY <2>1, <2>2
<1>8. ASSUME NEW m \in Month, m \notin unsettled', cycle'[m] = "closed"
      PROVE  m < month' /\ winner'[m] = Top(m)'
  <2>1. CASE m = close[c].period
    BY <1>2, <1>3, <1>8, <2>1, CloseWrites
  <2>2. CASE m # close[c].period
    <3>1. m \in Period /\ cycle[m] = "closed" /\ winner'[m] = winner[m]
      BY <1>5, <1>8, <2>2, CloseWrites, Domains
    <3> QED  BY <1>2, <1>3, <1>8, <3>1 DEF IInv
  <2> QED  BY <2>1, <2>2
<1> QED  BY <1>2, <1>6, <1>7, <1>8 DEF IInv

LEMMA NextKeeps == ASSUME IInv, NEW c \in Closer, FindNext(c) \/ InsertNext(c) \/ Die(c) PROVE IInv'
<1>1. /\ UNCHANGED <<ledger, winner, unsettled>> /\ ~ At(c, "idle") /\ close[c].period + 1 \in Period
  BY LocalFields, Domains DEF FindNext, InsertNext, Die, At, IInv, TypeOK
<1>2. /\ cycle' \in [Period -> {"none", "open", "closed"}]
      /\ \A m \in Period : cycle[m] = "closed" <=> cycle'[m] = "closed"
  BY <1>1 DEF FindNext, InsertNext, Die, IInv, TypeOK
<1>3. Go(c, "next_insert") \/ End(c)
  BY DEF FindNext, InsertNext, Die
<1> QED  BY <1>1, <1>2, <1>3, GoesOn, EndKeeps DEF Phase

LEMMA Unmoved ==
  ASSUME IInv, UNCHANGED <<ledger, winner, unsettled, close>>,
         cycle' \in [Period -> {"none", "open", "closed"}],
         \A m \in Period : cycle[m] = "closed" <=> cycle'[m] = "closed"
  PROVE  IInv'
<1>1. UNCHANGED <<month, points, flying, plays, winner, unsettled, close>>
  BY DEF ledger
<1>2. \A m : Top(m)' = Top(m)
  BY <1>1, SameTop
<1>3. ASSUME NEW c \in Closer PROVE CloserOK(c)'
  <2>1. CloserOK(c) /\ close[c].period \in Period
    BY LocalFields, Domains DEF IInv, TypeOK
  <2> QED  BY <1>1, <1>2, <2>1 DEF CloserOK
<1>4. TypeOK'
  BY <1>1 DEF IInv, TypeOK
<1> QED  BY <1>1, <1>2, <1>3, <1>4, Domains DEF IInv

LEMMA StepInv == ASSUME IInv, [Next]_vars PROVE IInv'
<1>1. CASE UNCHANGED vars
  BY <1>1, Unmoved DEF vars, ledger, IInv, TypeOK
<1>2. ASSUME NEW m \in Month, GetDraw(m) PROVE IInv'
  <2>1. /\ cycle' \in [Period -> {"none", "open", "closed"}]
        /\ \A n \in Period : cycle[n] = "closed" <=> cycle'[n] = "closed"
    BY <1>2, Domains DEF GetDraw, IInv, TypeOK
  <2> QED  BY <1>2, <2>1, Unmoved DEF GetDraw
<1> QED  BY <1>1, <1>2, PlayKeeps, CommitKeeps, NewMonthKeeps, CloseDrawKeeps, FindCycleKeeps,
            InsertCycleKeeps, StandingsKeeps, CloseKeeps, NextKeeps DEF Next

LEMMA Invariance == Spec => []IInv
<1>1. Init => IInv
  BY InitInv
<1>2. IInv /\ [Next]_vars => IInv'
  BY StepInv
<1> QED  BY <1>1, <1>2, PTL DEF Spec

-----------------------------------------------------------------------------
(* The rows of the draw keep their shape, and only a closed cycle ever has  *)
(* a winner (`close_cycle` writes both in one UPDATE).                      *)
THEOREM TypeCorrect == Spec => []TypeOK
<1>1. IInv => TypeOK
  BY DEF IInv
<1> QED  BY <1>1, Invariance, PTL

LEMMA WinnerFollows == ASSUME IInv PROVE WinnerIsTop
<1> SUFFICES ASSUME NEW m \in Month, m \notin unsettled, cycle[m] = "closed"
             PROVE  LET earned(p) == IF p = NoPlayer THEN 0 ELSE points[m][p].member IN
                    /\ \A p \in Player : earned(p) <= earned(winner[m])
                    /\ winner[m] # NoPlayer => earned(winner[m]) > 0
  BY DEF WinnerIsTop
<1>1. winner[m] = Top(m)
  BY DEF IInv
<1>2. CASE Top(m) = NoPlayer
  <2>1. \A p \in Player : points[m][p].member = 0 /\ p # NoPlayer
    BY <1>2, TopIsTop, Domains DEF IInv
  <2> QED  BY <1>1, <1>2, <2>1
<1>3. CASE Top(m) # NoPlayer
  <2>1. /\ points[m][Top(m)].member > 0
        /\ \A p \in Player : points[m][p].member <= points[m][Top(m)].member /\ p # NoPlayer
    BY <1>3, TopIsTop, Domains DEF IInv
  <2> QED  BY <1>1, <1>3, <2>1
<1> QED  BY <1>2, <1>3

(* However many players there are and closes overlap, and wherever one of   *)
(* them dies, the cycle of a settled month that is closed has the winner    *)
(* its standings call for (`close_cycle`, `roll_up_cycle`).                 *)
THEOREM WinnerHolds == Spec => []WinnerIsTop
<1>1. IInv => WinnerIsTop
  BY WinnerFollows
<1> QED  BY <1>1, Invariance, PTL

LEMMA StepIsFinal ==
  ASSUME IInv, [Next]_vars, NEW m \in Period, cycle[m] = "closed"
  PROVE  cycle'[m] = "closed" /\ (winner'[m] = winner[m] \/ m \in unsettled)
<1>1. CASE \E c \in Closer : Close(c)
  <2>1. PICK c \in Closer : Close(c)
    BY <1>1
  <2>2. cycle'[m] = "closed"
    BY <2>1, CloseWrites DEF IInv, TypeOK
  <2>3. CASE m = close[c].period /\ m \notin unsettled
    BY <2>1, <2>2, <2>3, CloseWrites DEF IInv
  <2>4. CASE m # close[c].period
    BY <2>1, <2>2, <2>4, CloseWrites
  <2> QED  BY <2>2, <2>3, <2>4
<1>2. CASE \E n \in Month : GetDraw(n)
  BY <1>2, Domains DEF GetDraw, IInv, TypeOK
<1>3. ASSUME NEW c \in Closer, InsertCycle(c) \/ InsertNext(c)
      PROVE  cycle'[m] = "closed" /\ winner'[m] = winner[m]
  BY <1>3 DEF InsertCycle, InsertNext, IInv, TypeOK
<1>4. CASE UNCHANGED <<cycle, winner>>
  BY <1>4
<1> QED  BY <1>1, <1>2, <1>3, <1>4 DEF Next, vars, Play, Commit, NewMonth, CloseDraw, FindCycle,
            Standings, FindNext, Die

(* A closed cycle stays closed; that of a settled month keeps its winner,   *)
(* whichever close had loaded the row before (`close_cycle`).               *)
THEOREM ClosedStays == Spec => ClosedIsFinal
<1>1. IInv /\ [Next]_vars
        => [\A m \in Period : cycle[m] = "closed" =>
              /\ cycle'[m] = "closed"
              /\ winner'[m] = winner[m] \/ m \in unsettled]_vars
  BY StepIsFinal
<1> QED  BY <1>1, Invariance, PTL DEF Spec, ClosedIsFinal

=============================================================================
