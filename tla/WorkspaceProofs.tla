-------------------------- MODULE WorkspaceProofs ---------------------------
(* That Workspace keeps its promises for every value of its constants, with *)
(* the inductive invariant of each of its parts.                            *)
EXTENDS Workspace, FiniteSetTheorems, TLAPS

-----------------------------------------------------------------------------
(* The script and the capture endpoint.  A message has no more rows than    *)
(* requests that recorded it, and, unless requests for it overlapped, one   *)
(* request at most is between finding no row and writing one.               *)

LEMMA CaptureAssumed == Capture!CaptureAssumption
  BY WorkspaceAssumption

(* The sizes of the sets in the module are those of this one.               *)
LEMMA CaptureSizes ==
  /\ \A S : Capture!IsFiniteSet(S) = IsFiniteSet(S)
  /\ \A S : Capture!Cardinality(S) = Cardinality(S)
  BY DEF Capture!IsFiniteSet, IsFiniteSet, Capture!Cardinality, Cardinality

Captures == [phase : Capture!Phase, message : Message \cup {Nil}]

CaptureRecording(m) == {r \in Request : Capture!At(r, "insert") /\ req[r].message = m}

(* No sends overlapped: a message has one request, which finds no row as    *)
(* long as it has none to leave.                                            *)
CaptureOneSend ==
  /\ \A r, q \in Request : req[r].message # Nil /\ req[r].message = req[q].message => r = q
  /\ \A m \in Message : captured[m] <= 1 /\ (CaptureRecording(m) # {} => captured[m] = 0)

CaptureInv ==
  /\ Capture!TypeOK
  /\ \A r \in Request : Capture!At(r, "idle") <=> req[r].message = Nil
  /\ \A m \in Message : captured[m] + Cardinality(CaptureRecording(m)) <= Cardinality(Request)
  /\ ~ captureOverlapped => CaptureOneSend

LEMMA CaptureRecordingFinite ==
  ASSUME NEW S \in SUBSET Request
  PROVE  /\ IsFiniteSet(S) /\ Cardinality(S) \in Nat /\ Cardinality(Request) \in Nat
         /\ Cardinality(S) <= Cardinality(Request)
  BY CaptureAssumed, FS_Subset, FS_CardinalityType, CaptureSizes DEF
      Capture!CaptureAssumption

LEMMA CaptureIdleIs == Capture!Idle \in Captures /\ Capture!Idle.phase = "idle"
  /\ Capture!Idle.message = Nil
  BY DEF Capture!Idle, Captures, Capture!Phase

LEMMA CaptureInit == Capture!Init => CaptureInv
<1> SUFFICES ASSUME Capture!Init PROVE CaptureInv
  OBVIOUS
<1>1. /\ req \in [Request -> Captures]
      /\ \A r \in Request : req[r].phase = "idle" /\ req[r].message = Nil
  BY CaptureIdleIs DEF Capture!Init
<1>2. \A m \in Message : CaptureRecording(m) = {}
  BY <1>1 DEF CaptureRecording, Capture!At
<1>3. Cardinality({}) = 0 /\ Cardinality(Request) \in Nat
  BY FS_EmptySet, CaptureRecordingFinite
<1>4. \A m \in Message : captured[m] + Cardinality(CaptureRecording(m)) <= Cardinality(Request)
  <2>1. \A m \in Message : captured[m] = 0 /\ Cardinality(CaptureRecording(m)) = 0
    BY <1>2, <1>3 DEF Capture!Init
  <2> QED  BY <1>3, <2>1
<1>5. Capture!TypeOK
  BY <1>1 DEF Capture!Init, Capture!TypeOK, Capture!At, Captures
<1>6. CaptureOneSend
  BY <1>1, <1>2 DEF Capture!Init, CaptureOneSend
<1> QED  BY <1>1, <1>4, <1>5, <1>6 DEF CaptureInv, Capture!At

(* A request moves on with the message it has, and leaves the rows alone.   *)
LEMMA CaptureGoPhase ==
  ASSUME CaptureInv, NEW r \in Request,
         NEW p \in Capture!Phase \ {"idle"}, Capture!Go(r, p), ~ Capture!At(r, "idle")
  PROVE  /\ req' \in [Request -> Captures]
         /\ req'[r].phase = p /\ req'[r].message = req[r].message
         /\ \A q \in Request \ {r} : req'[q] = req[q]
         /\ \A q \in Request : Capture!At(q, "idle")' <=> req'[q].message = Nil
<1>1. /\ req' \in [Request -> Captures]
      /\ req'[r].phase = p /\ req'[r].message = req[r].message
      /\ \A q \in Request \ {r} : req'[q] = req[q]
  BY DEF CaptureInv, Capture!TypeOK, Capture!Go, Captures
<1> QED  BY <1>1 DEF CaptureInv, Capture!At

(* A request is done, or takes a message: it records nothing.               *)
LEMMA CaptureNotRecordingKeeps ==
  ASSUME CaptureInv, NEW r \in Request, Capture!TypeOK', UNCHANGED captured,
         \A q \in Request \ {r} : req'[q] = req[q], ~ Capture!At(r, "insert")',
         Capture!At(r, "idle")' <=> req'[r].message = Nil,
         ~ captureOverlapped' => ~ captureOverlapped /\ (req'[r].message # Nil =>
           \A q \in Request \ {r} : req[q].message # req'[r].message)
  PROVE  CaptureInv'
<1>1. \A m \in Message : CaptureRecording(m)' \subseteq CaptureRecording(m)
  BY DEF CaptureRecording, Capture!At
<1>2. ASSUME NEW m \in Message
      PROVE  captured'[m] + Cardinality(CaptureRecording(m)') <= Cardinality(Request)
  <2>1. Cardinality(CaptureRecording(m)') <= Cardinality(CaptureRecording(m))
    BY <1>1, FS_Subset, CaptureRecordingFinite DEF CaptureRecording
  <2>2. Cardinality(CaptureRecording(m)') \in Nat /\ Cardinality(CaptureRecording(m)) \in Nat
        /\ Cardinality(Request) \in Nat
    BY CaptureRecordingFinite DEF CaptureRecording
  <2>3. captured[m] \in Nat
          /\ captured[m] + Cardinality(CaptureRecording(m)) <= Cardinality(Request)
    BY DEF CaptureInv, Capture!TypeOK
  <2> QED  BY <2>1, <2>2, <2>3
<1>3. ~ captureOverlapped' => CaptureOneSend'
  BY <1>1 DEF CaptureInv, CaptureOneSend
<1>4. \A q \in Request : Capture!At(q, "idle")' <=> req'[q].message = Nil
  BY DEF CaptureInv, Capture!At
<1> QED  BY <1>2, <1>3, <1>4 DEF CaptureInv

LEMMA CaptureSendKeeps ==
  ASSUME CaptureInv, NEW r \in Request, NEW m \in Message, Capture!Send(r, m)
  PROVE  CaptureInv'
<1> DEFINE new == [phase |-> "find", message |-> m]
<1>1. new \in Captures /\ new.phase = "find" /\ new.message = m /\ m # Nil
  BY CaptureAssumed DEF Captures, Capture!Phase, Capture!CaptureAssumption
<1>2. /\ req' = [req EXCEPT ![r] = new] /\ waiting' = r
      /\ UNCHANGED <<captured, processed, captureFaults>>
      /\ captureOverlapped' = (captureOverlapped \/ \E q \in Request : req[q].message = m)
  BY DEF Capture!Send
<1> HIDE DEF new
<1>3. req' \in [Request -> Captures] /\ req'[r] = new
        /\ \A q \in Request \ {r} : req'[q] = req[q]
  BY <1>1, <1>2 DEF CaptureInv, Capture!TypeOK, Captures
<1>4. captureOverlapped' \in BOOLEAN
      /\ (~ captureOverlapped' => ~ captureOverlapped /\ \A q \in Request : req[q].message # m)
  BY <1>2
<1>5. Capture!TypeOK'
  BY <1>1, <1>2, <1>3, <1>4 DEF CaptureInv, Capture!TypeOK, Capture!At, Captures
<1> QED  BY <1>1, <1>2, <1>3, <1>4, <1>5, CaptureNotRecordingKeeps DEF Capture!At

LEMMA CaptureFindKeeps ==
  ASSUME CaptureInv, NEW r \in Request, Capture!FindCapture(r)
  PROVE  CaptureInv'
<1>a. PICK m \in Message : m = req[r].message
  BY DEF Capture!FindCapture, CaptureInv, Capture!TypeOK, Capture!At
<1>1. /\ Capture!At(r, "find") /\ ~ Capture!At(r, "idle") /\ ~ Capture!At(r, "insert")
      /\ captured[m] \in Nat
      /\ UNCHANGED <<captured, processed, waiting, captureFaults, captureOverlapped>>
  BY DEF Capture!FindCapture, Capture!At, CaptureInv, Capture!TypeOK
<1>2. PICK p \in {"insert", "ok", "error"} :
        Capture!Go(r, p) /\ (p = "insert" => captured[m] = 0)
  <2>1. Capture!Go(r, CASE captured[m] = 0 -> "insert" [] captured[m] = 1 -> "ok"
                        [] captured[m] > 1 -> "error")
    BY <1>a DEF Capture!FindCapture
  <2>2. captured[m] = 0 \/ captured[m] = 1 \/ captured[m] > 1
    BY <1>1
  <2> QED  BY <2>1, <2>2
<1>3. /\ req' \in [Request -> Captures] /\ req'[r].phase = p /\ req'[r].message = m
      /\ \A q \in Request \ {r} : req'[q] = req[q]
      /\ \A q \in Request : Capture!At(q, "idle")' <=> req'[q].message = Nil
  BY <1>a, <1>1, <1>2, CaptureGoPhase DEF Capture!Phase
<1>4. Capture!TypeOK'
  BY <1>1, <1>2, <1>3 DEF CaptureInv, Capture!TypeOK, Capture!At, Captures
<1>5. CASE p # "insert"
  <2>1. ~ captureOverlapped' => ~ captureOverlapped /\ (req'[r].message # Nil =>
           \A q \in Request \ {r} : req[q].message # req'[r].message)
    BY <1>a, <1>1, <1>3 DEF CaptureInv, CaptureOneSend
  <2> QED  BY <1>1, <1>3, <1>4, <1>5, <2>1, CaptureNotRecordingKeeps DEF Capture!At
<1>6. CASE p = "insert"
  <2>1. CaptureRecording(m)' = CaptureRecording(m) \cup {r} /\ captured[m] = 0
    BY <1>2, <1>3, <1>6 DEF CaptureRecording, Capture!At
  <2>2. \A n \in Message \ {m} : CaptureRecording(n)' = CaptureRecording(n)
    BY <1>1, <1>3 DEF CaptureRecording, Capture!At
  <2>3. captured'[m] + Cardinality(CaptureRecording(m)') <= Cardinality(Request)
    <3>1. Cardinality(CaptureRecording(m)') <= Cardinality(Request)
            /\ Cardinality(CaptureRecording(m)') \in Nat
      BY <1>1, CaptureRecordingFinite DEF CaptureRecording
    <3> QED  BY <1>1, <2>1, <3>1
  <2>4. \A n \in Message : captured'[n]
          + Cardinality(CaptureRecording(n)') <= Cardinality(Request)
    BY <1>1, <2>2, <2>3 DEF CaptureInv
  <2>5. ~ captureOverlapped' => CaptureOneSend'
    BY <1>1, <1>a, <1>3, <2>1, <2>2 DEF CaptureInv, CaptureOneSend
  <2> QED  BY <1>3, <1>4, <2>4, <2>5 DEF CaptureInv
<1> QED  BY <1>5, <1>6

LEMMA CaptureLogKeeps ==
  ASSUME CaptureInv, NEW r \in Request, Capture!LogEvent(r)
  PROVE  CaptureInv'
<1>a. PICK m \in Message : m = req[r].message
  BY DEF Capture!LogEvent, CaptureInv, Capture!TypeOK, Capture!At
<1>1. /\ Capture!At(r, "insert") /\ ~ Capture!At(r, "idle") /\ captured[m] \in Nat
      /\ captured' = [captured EXCEPT ![m] = captured[m] + 1] /\ Capture!Go(r, "ok")
      /\ UNCHANGED <<processed, waiting, captureFaults, captureOverlapped>>
  BY <1>a DEF Capture!LogEvent, Capture!At, CaptureInv, Capture!TypeOK
<1>2. /\ captured' \in [Message -> Nat] /\ captured'[m] = captured[m] + 1
      /\ \A n \in Message \ {m} : captured'[n] = captured[n]
  BY <1>1 DEF CaptureInv, Capture!TypeOK
<1>3. /\ req' \in [Request -> Captures] /\ req'[r].phase = "ok" /\ req'[r].message = m
      /\ \A q \in Request \ {r} : req'[q] = req[q]
      /\ \A q \in Request : Capture!At(q, "idle")' <=> req'[q].message = Nil
  BY <1>a, <1>1, CaptureGoPhase DEF Capture!Phase
<1>4. Capture!TypeOK'
  BY <1>1, <1>2, <1>3 DEF CaptureInv, Capture!TypeOK, Capture!At, Captures
<1>5. r \in CaptureRecording(m) /\ CaptureRecording(m)' = CaptureRecording(m) \ {r}
  BY <1>a, <1>1, <1>3 DEF CaptureRecording, Capture!At
<1>6. \A n \in Message \ {m} : CaptureRecording(n)' = CaptureRecording(n)
  BY <1>a, <1>3 DEF CaptureRecording, Capture!At
<1>7. Cardinality(CaptureRecording(m)') = Cardinality(CaptureRecording(m)) - 1
      /\ Cardinality(CaptureRecording(m)) \in Nat
  BY <1>5, FS_RemoveElement, CaptureRecordingFinite DEF CaptureRecording
<1>8. captured'[m] + Cardinality(CaptureRecording(m)') <= Cardinality(Request)
  <2>1. captured[m] + Cardinality(CaptureRecording(m)) <= Cardinality(Request)
    BY DEF CaptureInv
  <2>2. Cardinality(Request) \in Nat
    BY CaptureRecordingFinite
  <2> QED  BY <1>1, <1>2, <1>7, <2>1, <2>2
<1>9. \A n \in Message : captured'[n]
        + Cardinality(CaptureRecording(n)') <= Cardinality(Request)
  BY <1>2, <1>6, <1>8 DEF CaptureInv
<1>10. ASSUME ~ captureOverlapped' PROVE CaptureOneSend'
  <2>1. CaptureOneSend
    BY <1>1, <1>10 DEF CaptureInv
  <2>2. CaptureRecording(m) = {r} /\ captured[m] = 0
    BY <1>a, <1>3, <1>5, <2>1, CaptureAssumed DEF CaptureOneSend, CaptureRecording,
        Capture!CaptureAssumption
  <2>3. \A n \in Message : captured'[n] <= 1 /\ (CaptureRecording(n)' # {} => captured'[n] = 0)
    BY <1>2, <1>5, <1>6, <2>1, <2>2 DEF CaptureOneSend
  <2>4. \A p, q \in Request : req'[p].message # Nil /\ req'[p].message = req'[q].message
          => p = q
    BY <1>a, <1>3, <2>1 DEF CaptureOneSend
  <2> QED  BY <2>3, <2>4 DEF CaptureOneSend
<1> QED  BY <1>3, <1>4, <1>9, <1>10 DEF CaptureInv

LEMMA CaptureLogFailsKeeps ==
  ASSUME CaptureInv, NEW r \in Request, Capture!LogEventFails(r)
  PROVE  CaptureInv'
<1>1. /\ ~ Capture!At(r, "idle") /\ Capture!Go(r, "ok")
      /\ UNCHANGED <<captured, processed, waiting, captureFaults, captureOverlapped>>
  BY DEF Capture!LogEventFails, Capture!At
<1>2. /\ req' \in [Request -> Captures] /\ req'[r].phase = "ok"
      /\ req'[r].message = req[r].message
      /\ \A q \in Request \ {r} : req'[q] = req[q]
      /\ \A q \in Request : Capture!At(q, "idle")' <=> req'[q].message = Nil
  BY <1>1, CaptureGoPhase DEF Capture!Phase
<1>3. Capture!TypeOK'
  BY <1>1, <1>2 DEF CaptureInv, Capture!TypeOK, Capture!At, Captures
<1>4. ~ captureOverlapped' => ~ captureOverlapped /\ (req'[r].message # Nil =>
         \A q \in Request \ {r} : req[q].message # req'[r].message)
  BY <1>1, <1>2 DEF CaptureInv, CaptureOneSend
<1> QED  BY <1>1, <1>2, <1>3, <1>4, CaptureNotRecordingKeeps DEF Capture!At

LEMMA CaptureEndKeeps ==
  ASSUME CaptureInv, NEW r \in Request, req' = [req EXCEPT ![r] = Capture!Idle],
         UNCHANGED <<captured, captureOverlapped>>, processed' \subseteq Message,
         captureFaults' \in Nat,
         waiting' = IF waiting = r THEN Nil ELSE waiting
  PROVE  CaptureInv'
<1>1. req' \in [Request -> Captures] /\ req'[r] = Capture!Idle
        /\ \A q \in Request \ {r} : req'[q] = req[q]
  BY CaptureIdleIs DEF CaptureInv, Capture!TypeOK, Captures
<1>2. Capture!TypeOK'
  BY <1>1 DEF CaptureInv, Capture!TypeOK, Capture!At, Captures
<1>3. ~ Capture!At(r, "insert")' /\ Capture!At(r, "idle")' /\ req'[r].message = Nil
  BY <1>1, CaptureIdleIs DEF Capture!At
<1> QED  BY <1>1, <1>2, <1>3, CaptureNotRecordingKeeps

LEMMA CaptureStep == CaptureInv /\ [Capture!Next]_(Capture!vars) => CaptureInv'
<1> SUFFICES ASSUME CaptureInv, [Capture!Next]_(Capture!vars) PROVE CaptureInv'
  OBVIOUS
<1>1. ASSUME NEW r \in Request, Capture!Answer(r) PROVE CaptureInv'
  <2>1. processed' \subseteq Message
    BY <1>1, CaptureAssumed DEF Capture!Answer, CaptureInv, Capture!TypeOK, Capture!At,
        Capture!CaptureAssumption
  <2> QED  BY <1>1, <2>1, CaptureEndKeeps DEF Capture!Answer, CaptureInv, Capture!TypeOK
<1>2. ASSUME NEW r \in Request, Capture!Die(r) PROVE CaptureInv'
  <2>1. captureFaults' \in Nat /\ processed' \subseteq Message
    BY <1>2 DEF Capture!Die, CaptureInv, Capture!TypeOK
  <2> QED  BY <1>2, <2>1, CaptureEndKeeps DEF Capture!Die
<1>3. CASE Capture!GiveUp
  BY <1>3 DEF Capture!GiveUp, CaptureInv, Capture!TypeOK, CaptureOneSend,
      CaptureRecording, Capture!At
<1>4. CASE UNCHANGED Capture!vars
  BY <1>4 DEF Capture!vars, CaptureInv, Capture!TypeOK, CaptureOneSend,
      CaptureRecording, Capture!At
<1> QED  BY <1>1, <1>2, <1>3, <1>4, CaptureSendKeeps, CaptureFindKeeps,
             CaptureLogKeeps, CaptureLogFailsKeeps
         DEF Capture!Next, Capture!Handle

LEMMA CapturePromises == CaptureInv => Capture!TypeOK /\ Capture!CapturedOnce
<1> SUFFICES ASSUME CaptureInv, NEW m \in Message
             PROVE  captured[m] <= IF captureOverlapped THEN Cardinality(Request) ELSE 1
  BY CaptureSizes DEF CaptureInv, Capture!CapturedOnce
<1>1. /\ Cardinality(CaptureRecording(m)) \in Nat /\ Cardinality(Request) \in Nat
  BY CaptureRecordingFinite DEF CaptureRecording
<1>2. captured[m] \in Nat
        /\ captured[m] + Cardinality(CaptureRecording(m)) <= Cardinality(Request)
  BY DEF CaptureInv, Capture!TypeOK
<1>3. captured[m] <= Cardinality(Request)
  BY <1>1, <1>2
<1> QED  BY <1>3 DEF CaptureInv, CaptureOneSend

-----------------------------------------------------------------------------
(* The mail pipeline.  What a run is about to apply was vouched for by the  *)
(* sender and the score, and a mail whose runs do not overlap is drafted by *)
(* the one run that works on it.                                            *)

LEMMA PipelineAssumed == Pipeline!PipelineAssumption
  BY WorkspaceAssumption

PipelineRuns == [phase : Pipeline!Phase, mail : Mail \cup {Nil}, event : Event \cup {Nil},
                 status : Status \cup {Nil}]

(* The executor has vouched for what a run is about to apply.               *)
PipelineVouched(r) ==
  /\ maker = "live" /\ req[r].event \in Event /\ req[r].mail \in Trusted
  /\ Score[req[r].mail][req[r].event] >= Pipeline!MIN_CONFIDENCE

(* A mail no deliveries of which overlapped has one run, and no draft while *)
(* one is under way; the answers to a mail of Gmail are those that are      *)
(* logged, and the others.                                                  *)
PipelineOneRun(m) ==
  /\ \A r, q \in Request : req[r].mail = m /\ req[q].mail = m => r = q
  /\ \A r \in Request : req[r].mail = m /\ ~ Pipeline!At(r, "dedupe") => m \notin drafted
  /\ m \notin Supplied => answeredMails[m] = unlogged[m] + IF m \in drafted THEN 1 ELSE 0

PipelineInv ==
  /\ Pipeline!TypeOK
  /\ answeredMails \in [Mail -> Nat] /\ unlogged \in [Mail -> Nat] /\ moves \in [Mail -> Nat]
  /\ \A r \in Request : Pipeline!At(r, "apply") => PipelineVouched(r)
  /\ Pipeline!MovedByMatch
  /\ \A m \in Mail \ overlappedMails : PipelineOneRun(m)

(* How a run's record follows from the one it had.                          *)
PipelineMoving(new, run, p) == new \in PipelineRuns /\ new.phase = p /\ new.mail = run.mail
PipelineAiming(new, run, e) == PipelineMoving(new, run, "apply") /\ new.event = e
PipelineFresh(new, m, p) == new \in PipelineRuns /\ new.phase = p /\ new.mail = m

LEMMA PipelineIdleRun == Pipeline!Idle \in PipelineRuns /\ Pipeline!Idle.phase = "idle"
  /\ Pipeline!Idle.mail = Nil
  BY DEF Pipeline!Idle, PipelineRuns, Pipeline!Phase

LEMMA PipelineFreshRun ==
  ASSUME NEW m \in Mail, NEW p \in Pipeline!Phase
  PROVE  PipelineFresh([Pipeline!Idle EXCEPT !.phase = p, !.mail = m], m, p)
<1>1. [Pipeline!Idle EXCEPT !.phase = p, !.mail = m] \in PipelineRuns
  BY DEF Pipeline!Idle, PipelineRuns
<1>2. [Pipeline!Idle EXCEPT !.phase = p, !.mail = m].phase = p
  BY DEF Pipeline!Idle
<1>3. [Pipeline!Idle EXCEPT !.phase = p, !.mail = m].mail = m
  BY DEF Pipeline!Idle
<1> QED  BY <1>1, <1>2, <1>3, Zenon DEF PipelineFresh

LEMMA PipelineAimedRun ==
  ASSUME NEW run \in PipelineRuns, NEW e \in Event, NEW s \in Status
  PROVE  PipelineAiming([run EXCEPT !.phase = "apply", !.event = e, !.status = s], run, e)
<1>1. [run EXCEPT !.phase = "apply", !.event = e, !.status = s] \in PipelineRuns
  BY DEF PipelineRuns, Pipeline!Phase
<1>2. [run EXCEPT !.phase = "apply", !.event = e, !.status = s].phase = "apply"
  BY DEF PipelineRuns
<1>3. [run EXCEPT !.phase = "apply", !.event = e, !.status = s].mail = run.mail
  BY DEF PipelineRuns
<1>4. [run EXCEPT !.phase = "apply", !.event = e, !.status = s].event = e
  BY DEF PipelineRuns
<1> QED  BY <1>1, <1>2, <1>3, <1>4, Zenon DEF PipelineAiming, PipelineMoving

LEMMA PipelineGoRun ==
  ASSUME PipelineInv, NEW r \in Request, NEW p \in Pipeline!Phase, Pipeline!Go(r, p)
  PROVE  /\ req' \in [Request -> PipelineRuns] /\ PipelineMoving(req'[r], req[r], p)
         /\ \A q \in Request \ {r} : req'[q] = req[q]
  BY DEF PipelineInv, Pipeline!TypeOK, Pipeline!Go, PipelineRuns, PipelineMoving

LEMMA PipelineIgnoreRun ==
  ASSUME PipelineInv, NEW r \in Request, Pipeline!Ignore(r)
  PROVE  /\ req' \in [Request -> PipelineRuns] /\ req'[r].phase = "idle" /\ req'[r].mail = Nil
         /\ \A q \in Request \ {r} : req'[q] = req[q]
  BY PipelineIdleRun DEF PipelineInv, Pipeline!TypeOK, Pipeline!Ignore, PipelineRuns

LEMMA PipelineInit == Pipeline!Init => PipelineInv
<1> SUFFICES ASSUME Pipeline!Init PROVE PipelineInv
  OBVIOUS
<1>1. /\ req \in [Request -> PipelineRuns]
      /\ \A r \in Request : req[r].phase = "idle" /\ req[r].mail = Nil
  BY PipelineIdleRun DEF Pipeline!Init
<1>2. ASSUME NEW m \in Mail PROVE PipelineOneRun(m)
  <2>1. answeredMails[m] = 0 /\ unlogged[m] = 0 /\ m \notin drafted
    BY DEF Pipeline!Init
  <2>2. \A r \in Request : req[r].mail # m
    BY <1>1, PipelineAssumed DEF Pipeline!PipelineAssumption
  <2> QED  BY <2>1, <2>2 DEF PipelineOneRun
<1> QED  BY <1>1, <1>2 DEF Pipeline!Init, PipelineInv, Pipeline!TypeOK,
             Pipeline!MovedByMatch, Pipeline!At, PipelineRuns

(* A run moves on, with the mail it has or none, or a mail that no other    *)
(* run has; the events and the outcomes are left alone.                     *)
LEMMA PipelineQuietKeeps ==
  ASSUME PipelineInv, NEW r \in Request, UNCHANGED <<Pipeline!events, Pipeline!outcome, maker>>,
         req' \in [Request -> PipelineRuns], \A q \in Request \ {r} : req'[q] = req[q],
         Pipeline!At(r, "idle")' <=> req'[r].mail = Nil,
         Pipeline!At(r, "apply")' => PipelineVouched(r)',
         overlappedMails \subseteq overlappedMails',
         \A m \in Mail \ overlappedMails' : req'[r].mail = m =>
           /\ \A q \in Request \ {r} : req[q].mail # m
           /\ ~ Pipeline!At(r, "dedupe")' => m \notin drafted
  PROVE  PipelineInv'
<1>1. Pipeline!TypeOK'
  BY DEF PipelineInv, Pipeline!TypeOK, Pipeline!At, PipelineRuns, Pipeline!events,
      Pipeline!outcome
<1>2. \A q \in Request : Pipeline!At(q, "apply")' => PipelineVouched(q)'
  BY DEF PipelineInv, Pipeline!At, PipelineVouched
<1>3. \A m \in Mail \ overlappedMails' : PipelineOneRun(m)'
  BY DEF PipelineInv, PipelineOneRun, Pipeline!At, Pipeline!outcome
<1> QED  BY <1>1, <1>2, <1>3 DEF PipelineInv, Pipeline!MovedByMatch, Pipeline!events,
             Pipeline!outcome

LEMMA PipelineStillRuns ==
  ASSUME PipelineInv,
         NEW r \in Request, UNCHANGED <<Pipeline!events, Pipeline!outcome,
         Pipeline!environment>>,
         NEW p \in Pipeline!Phase \ {"idle", "dedupe", "apply"}, Pipeline!Go(r, p),
         ~ Pipeline!At(r, "idle"),
         Pipeline!At(r, "dedupe") => req[r].mail \notin drafted
  PROVE  PipelineInv'
<1>1. /\ req' \in [Request -> PipelineRuns] /\ req'[r].phase = p /\ req'[r].mail = req[r].mail
      /\ \A q \in Request \ {r} : req'[q] = req[q]
  BY PipelineGoRun DEF PipelineMoving
<1>2. req[r].mail # Nil /\ UNCHANGED <<maker, overlappedMails>>
  BY DEF PipelineInv, Pipeline!TypeOK, Pipeline!environment
<1>3. \A m \in Mail \ overlappedMails' : req'[r].mail = m =>
           /\ \A q \in Request \ {r} : req[q].mail # m
           /\ ~ Pipeline!At(r, "dedupe")' => m \notin drafted
  BY <1>1, <1>2 DEF PipelineInv, PipelineOneRun
<1> QED  BY <1>1, <1>2, <1>3, PipelineQuietKeeps DEF Pipeline!At

LEMMA PipelineIgnoreKeeps ==
  ASSUME PipelineInv,
         NEW r \in Request, UNCHANGED <<Pipeline!events, Pipeline!outcome,
         Pipeline!environment>>, Pipeline!Ignore(r)
  PROVE  PipelineInv'
<1>1. /\ req' \in [Request -> PipelineRuns] /\ req'[r].phase = "idle" /\ req'[r].mail = Nil
      /\ \A q \in Request \ {r} : req'[q] = req[q]
  BY PipelineIgnoreRun
<1>2. Nil \notin Mail /\ UNCHANGED <<maker, overlappedMails>>
  BY PipelineAssumed DEF Pipeline!PipelineAssumption, Pipeline!environment
<1> QED  BY <1>1, <1>2, PipelineQuietKeeps DEF Pipeline!At

LEMMA PipelineReceiveKeeps ==
  ASSUME PipelineInv, NEW r \in Request, NEW m \in Mail, Pipeline!Receive(r, m)
  PROVE  PipelineInv'
<1> DEFINE new == [Pipeline!Idle EXCEPT !.phase = "dedupe", !.mail = m]
<1>0. "dedupe" \in Pipeline!Phase
  BY DEF Pipeline!Phase
<1>1. PipelineFresh(new, m, "dedupe")
  BY <1>0, PipelineFreshRun, Zenon
<1>2. /\ req' = [req EXCEPT ![r] = new] /\ UNCHANGED <<Pipeline!events, Pipeline!outcome,
         maker>>
      /\ overlappedMails' = overlappedMails \cup (IF \E q \in Request : req[q].mail = m THEN {m} ELSE {})
  BY DEF Pipeline!Receive
<1> HIDE DEF new
<1>3. /\ req' \in [Request -> PipelineRuns] /\ req'[r].phase = "dedupe" /\ req'[r].mail = m
      /\ \A q \in Request \ {r} : req'[q] = req[q] /\ m # Nil
  BY <1>1, <1>2, PipelineAssumed DEF PipelineInv, Pipeline!TypeOK, PipelineRuns,
      PipelineFresh, Pipeline!PipelineAssumption
<1>4. overlappedMails \subseteq overlappedMails'
      /\ (m \notin overlappedMails' => \A q \in Request : req[q].mail # m)
  BY <1>2
<1> QED  BY <1>2, <1>3, <1>4, PipelineAssumed, PipelineQuietKeeps DEF Pipeline!At,
             Pipeline!PipelineAssumption

LEMMA PipelineDecideKeeps ==
  ASSUME PipelineInv, NEW r \in Request, Pipeline!Decide(r)
  PROVE  PipelineInv'
<1>0. /\ Pipeline!At(r, "decide") /\ ~ Pipeline!At(r, "idle") /\ ~ Pipeline!At(r, "dedupe")
      /\ UNCHANGED <<Pipeline!events, Pipeline!outcome, Pipeline!environment>>
      /\ req[r] \in PipelineRuns /\ req[r].mail \in Mail
  BY DEF Pipeline!Decide, Pipeline!At, PipelineInv, Pipeline!TypeOK, PipelineRuns
<1>1. CASE Pipeline!Go(r, "draft")
  BY <1>0, <1>1, PipelineStillRuns DEF Pipeline!Phase
<1>2. ASSUME NEW e \in Event, NEW named \in Event \cup {Nil}, NEW s \in Status,
             Pipeline!MayMove(req[r].mail, e, named),
             req' = [req EXCEPT ![r].phase = "apply", ![r].event = e, ![r].status = s]
      PROVE  PipelineInv'
  <2> DEFINE new == [req[r] EXCEPT !.phase = "apply", !.event = e, !.status = s]
  <2>1. PipelineAiming(new, req[r], e)
    BY <1>0, PipelineAimedRun, Zenon
  <2>2. req' = [req EXCEPT ![r] = new]
    BY <1>2
  <2> HIDE DEF new
  <2>3. /\ req' \in [Request -> PipelineRuns] /\ req'[r].phase = "apply"
        /\ req'[r].mail = req[r].mail
        /\ req'[r].event = e /\ \A q \in Request \ {r} : req'[q] = req[q]
    BY <2>1, <2>2 DEF PipelineInv, Pipeline!TypeOK, PipelineRuns, PipelineAiming,
        PipelineMoving
  <2>4. PipelineVouched(r)'
    BY <1>0, <1>2, <2>3 DEF PipelineVouched, Pipeline!MayMove, Pipeline!environment
  <2>5. req'[r].mail # Nil /\ UNCHANGED <<maker, overlappedMails>>
    BY <1>0, <2>3, PipelineAssumed DEF Pipeline!PipelineAssumption, Pipeline!environment
  <2>6. \A m \in Mail \ overlappedMails' : req'[r].mail = m =>
           /\ \A q \in Request \ {r} : req[q].mail # m
           /\ ~ Pipeline!At(r, "dedupe")' => m \notin drafted
    <3> SUFFICES ASSUME NEW m \in Mail \ overlappedMails, req[r].mail = m
                 PROVE  m \notin drafted /\ \A q \in Request \ {r} : req[q].mail # m
      BY <2>3, <2>5
    <3>1. PipelineOneRun(m)
      BY DEF PipelineInv
    <3> QED  BY <1>0, <3>1 DEF PipelineOneRun
  <2> QED  BY <1>0, <2>3, <2>4, <2>5, <2>6, PipelineQuietKeeps DEF Pipeline!At
<1> QED  BY <1>0, <1>1, <1>2 DEF Pipeline!Decide

LEMMA PipelineApplyKeeps ==
  ASSUME PipelineInv, NEW r \in Request, Pipeline!Apply(r)
  PROVE  PipelineInv'
<1>a. PICK m \in Mail : m = req[r].mail
  BY DEF Pipeline!Apply, PipelineInv, Pipeline!TypeOK, Pipeline!At
<1>b. PICK e \in Event : e = req[r].event
  BY DEF Pipeline!Apply, PipelineInv, PipelineVouched
<1> DEFINE new == [Pipeline!Idle EXCEPT !.phase = "draft", !.mail = m]
<1>0. "draft" \in Pipeline!Phase
  BY DEF Pipeline!Phase
<1>1. PipelineFresh(new, m, "draft")
  BY <1>0, PipelineFreshRun, Zenon
<1>2. /\ Pipeline!At(r, "apply") /\ PipelineVouched(r)
      /\ dusa' = [dusa EXCEPT ![e] = req[r].status]
      /\ movedBy' = [movedBy EXCEPT ![e] = m]
      /\ moves' = [moves EXCEPT ![m] = moves[m] + 1]
      /\ req' = [req EXCEPT ![r] = new]
      /\ UNCHANGED <<archivedEvents, Pipeline!outcome, Pipeline!environment>>
  BY <1>a, <1>b DEF Pipeline!Apply, PipelineInv
<1> HIDE DEF new
<1>3. /\ req' \in [Request -> PipelineRuns] /\ req'[r].phase = "draft" /\ req'[r].mail = m
      /\ \A q \in Request \ {r} : req'[q] = req[q] /\ m # Nil
  BY <1>1, <1>2, PipelineAssumed DEF PipelineInv, Pipeline!TypeOK, PipelineRuns,
      PipelineFresh, Pipeline!PipelineAssumption
<1>4. req[r].status \in Status \cup {Nil}
  BY DEF PipelineInv, Pipeline!TypeOK
<1>5. Pipeline!TypeOK'
  BY <1>2, <1>3, <1>4, PipelineAssumed DEF PipelineInv, Pipeline!TypeOK, Pipeline!At,
      PipelineRuns, Pipeline!outcome, Pipeline!PipelineAssumption
<1>6. moves' \in [Mail -> Nat]
  BY <1>2 DEF PipelineInv
<1>7. \A q \in Request : Pipeline!At(q, "apply")' => PipelineVouched(q)'
  BY <1>2, <1>3 DEF PipelineInv, Pipeline!At, PipelineVouched, Pipeline!environment
<1>8. Pipeline!MovedByMatch'
  BY <1>a, <1>b, <1>2 DEF PipelineInv, Pipeline!TypeOK, Pipeline!MovedByMatch,
      PipelineVouched, Pipeline!environment
<1>9. \A n \in Mail \ overlappedMails' : PipelineOneRun(n)'
  BY <1>a, <1>2, <1>3, PipelineAssumed DEF PipelineInv, PipelineOneRun, Pipeline!At,
      Pipeline!outcome, Pipeline!environment, Pipeline!PipelineAssumption
<1> QED  BY <1>2, <1>5, <1>6, <1>7, <1>8, <1>9 DEF PipelineInv, Pipeline!outcome

LEMMA PipelineLogKeeps ==
  ASSUME PipelineInv, NEW r \in Request, Pipeline!LogDraft(r)
  PROVE  PipelineInv'
<1>a. PICK m \in Mail : m = req[r].mail
  BY DEF Pipeline!LogDraft, PipelineInv, Pipeline!TypeOK, Pipeline!At
<1>1. /\ Pipeline!At(r, "log") /\ ~ Pipeline!At(r, "dedupe")
      /\ \/ drafted' = drafted \cup ({m} \ Supplied) /\ UNCHANGED unlogged
         \/ unlogged' = [unlogged EXCEPT ![m] = unlogged[m] + 1] /\ UNCHANGED drafted
      /\ answeredMails' = [answeredMails EXCEPT ![m] = answeredMails[m] + 1]
      /\ Pipeline!Ignore(r)
      /\ UNCHANGED <<Pipeline!events, Pipeline!environment>>
  BY <1>a DEF Pipeline!LogDraft, Pipeline!At, Pipeline!Ignore
<1>2. /\ req' \in [Request -> PipelineRuns] /\ req'[r].phase = "idle" /\ req'[r].mail = Nil
      /\ \A q \in Request \ {r} : req'[q] = req[q]
  BY <1>1, PipelineIgnoreRun
<1>3. /\ answeredMails' \in [Mail -> Nat] /\ unlogged' \in [Mail -> Nat]
      /\ answeredMails'[m] = answeredMails[m] + 1
      /\ \A n \in Mail \ {m} : answeredMails'[n] = answeredMails[n]
           /\ unlogged'[n] = unlogged[n]
      /\ drafted' \subseteq Mail
  BY <1>1 DEF PipelineInv, Pipeline!TypeOK
<1>4. Pipeline!TypeOK'
  <2>1. \A q \in Request : Pipeline!At(q, "idle")' <=> req'[q].mail = Nil
    BY <1>2 DEF PipelineInv, Pipeline!TypeOK, Pipeline!At
  <2>2. req' \in [Request -> PipelineRuns] /\ UNCHANGED <<dusa, archivedEvents, movedBy>>
    BY <1>1, <1>2 DEF Pipeline!events
  <2> QED  BY <1>3, <2>1, <2>2 DEF PipelineInv, Pipeline!TypeOK, PipelineRuns
<1>5. \A q \in Request : Pipeline!At(q, "apply")' => PipelineVouched(q)'
  BY <1>1, <1>2 DEF PipelineInv, Pipeline!At, PipelineVouched, Pipeline!environment
<1>6. ASSUME NEW n \in Mail \ overlappedMails, n # m PROVE PipelineOneRun(n)'
  <2>1. n \in drafted' <=> n \in drafted
    BY <1>1, <1>6
  <2>2. PipelineOneRun(n)
    BY <1>6 DEF PipelineInv
  <2>3. \A q \in Request : req'[q].mail = n => q # r /\ req'[q] = req[q]
    BY <1>2, PipelineAssumed DEF Pipeline!PipelineAssumption
  <2>4. answeredMails'[n] = answeredMails[n] /\ unlogged'[n] = unlogged[n]
    BY <1>3, <1>6
  <2> QED  BY <2>1, <2>2, <2>3, <2>4 DEF PipelineOneRun, Pipeline!At
<1>7. ASSUME m \notin overlappedMails PROVE PipelineOneRun(m)'
  <2>1. PipelineOneRun(m) /\ m \notin drafted /\ unlogged[m] \in Nat
          /\ (m \notin Supplied => answeredMails[m] = unlogged[m])
    BY <1>a, <1>1, <1>7 DEF PipelineInv, PipelineOneRun
  <2>2. \A q \in Request : req'[q].mail # m
    BY <1>a, <1>2, <2>1, PipelineAssumed DEF PipelineOneRun, Pipeline!PipelineAssumption
  <2>3. ASSUME m \notin Supplied
        PROVE  answeredMails'[m] = unlogged'[m] + IF m \in drafted' THEN 1 ELSE 0
    <3>1. CASE drafted' = drafted \cup ({m} \ Supplied) /\ UNCHANGED unlogged
      BY <3>1, <1>3, <2>1, <2>3
    <3>2. CASE unlogged' = [unlogged EXCEPT ![m] = unlogged[m] + 1] /\ UNCHANGED drafted
      BY <3>2, <1>3, <2>1, <2>3 DEF PipelineInv
    <3> QED  BY <1>1, <3>1, <3>2
  <2> QED  BY <2>2, <2>3 DEF PipelineOneRun
<1> QED  BY <1>1, <1>3, <1>4, <1>5, <1>6, <1>7
         DEF PipelineInv, Pipeline!MovedByMatch, Pipeline!events, Pipeline!environment

LEMMA PipelineEditKeeps ==
  ASSUME PipelineInv, NEW e \in Event, Pipeline!EditEvent(e)
  PROVE  PipelineInv'
<1>1. /\ dusa' \in [Event -> Status \cup {Nil}] /\ archivedEvents' \subseteq Event
      /\ UNCHANGED <<moves, Pipeline!outcome, maker, overlappedMails, req>>
  BY DEF Pipeline!EditEvent, PipelineInv, Pipeline!TypeOK
<1>2. movedBy' = [movedBy EXCEPT ![e] = movedBy[e]] \/ movedBy' = [movedBy EXCEPT ![e] = Nil]
  BY DEF Pipeline!EditEvent
<1>3. movedBy' \in [Event -> Mail \cup {Nil}]
      /\ \A f \in Event : movedBy'[f] \in {movedBy[f], Nil}
  BY <1>2 DEF PipelineInv, Pipeline!TypeOK
<1>4. Pipeline!MovedByMatch'
  BY <1>1, <1>3 DEF PipelineInv, Pipeline!MovedByMatch
<1>5. Pipeline!TypeOK'
  BY <1>1, <1>3 DEF PipelineInv, Pipeline!TypeOK, Pipeline!At, Pipeline!outcome
<1> QED  BY <1>1, <1>4, <1>5 DEF PipelineInv, PipelineVouched, PipelineOneRun,
             Pipeline!At, Pipeline!outcome

LEMMA PipelineStep == PipelineInv /\ [Pipeline!Next]_(Pipeline!vars) => PipelineInv'
<1> SUFFICES ASSUME PipelineInv, [Pipeline!Next]_(Pipeline!vars) PROVE PipelineInv'
  OBVIOUS
<1>1. ASSUME NEW r \in Request, Pipeline!Dedupe(r) PROVE PipelineInv'
  <2>1. CASE Pipeline!Ignore(r)
    BY <1>1, <2>1, PipelineIgnoreKeeps DEF Pipeline!Dedupe
  <2>2. ASSUME NEW p \in {"classify", "count"}, Pipeline!Go(r, p), req[r].mail \notin drafted
        PROVE  PipelineInv'
    BY <1>1, <2>2, PipelineStillRuns DEF Pipeline!Dedupe, Pipeline!Phase, Pipeline!At
  <2> QED  BY <1>1, <2>1, <2>2 DEF Pipeline!Dedupe
<1>2. ASSUME NEW r \in Request, Pipeline!Count(r) PROVE PipelineInv'
  BY <1>2, PipelineStillRuns, PipelineIgnoreKeeps DEF Pipeline!Count, Pipeline!Phase,
      Pipeline!At
<1>3. ASSUME NEW r \in Request, Pipeline!Classify(r) PROVE PipelineInv'
  BY <1>3, PipelineStillRuns, PipelineIgnoreKeeps DEF Pipeline!Classify,
      Pipeline!Phase, Pipeline!At
<1>4. ASSUME NEW r \in Request, Pipeline!Draft(r) PROVE PipelineInv'
  BY <1>4, PipelineStillRuns, PipelineIgnoreKeeps DEF Pipeline!Draft, Pipeline!Phase,
      Pipeline!At
<1>5. ASSUME NEW r \in Request, Pipeline!Die(r) PROVE PipelineInv'
  BY <1>5, PipelineIgnoreKeeps DEF Pipeline!Die
<1>6. CASE UNCHANGED Pipeline!vars
  BY <1>6 DEF Pipeline!vars, PipelineInv, Pipeline!TypeOK, Pipeline!MovedByMatch,
      PipelineVouched, PipelineOneRun, Pipeline!At
<1> QED  BY <1>1, <1>2, <1>3, <1>4, <1>5, <1>6, PipelineReceiveKeeps,
             PipelineDecideKeeps, PipelineApplyKeeps, PipelineLogKeeps,
            PipelineEditKeeps DEF Pipeline!Next, Pipeline!Deliver, Pipeline!DraftRoute

LEMMA PipelinePromises == PipelineInv
  => Pipeline!TypeOK /\ Pipeline!DraftedOnce /\ Pipeline!MovedByMatch
<1> SUFFICES ASSUME PipelineInv, NEW m \in Mail \ (overlappedMails \cup Supplied)
             PROVE  answeredMails[m] <= 1 + unlogged[m]
  BY DEF PipelineInv, Pipeline!DraftedOnce
<1>1. answeredMails[m] = unlogged[m] + IF m \in drafted THEN 1 ELSE 0
  BY DEF PipelineInv, PipelineOneRun
<1>2. unlogged[m] \in Nat
  BY DEF PipelineInv
<1> QED  BY <1>1, <1>2

(* A mail whose draft is logged never moves an event again.                 *)
LEMMA PipelineSettle == PipelineInv /\ [Pipeline!Next]_(Pipeline!vars)
  => [Pipeline!SettledMailKept]_(Pipeline!vars)
<1> SUFFICES ASSUME PipelineInv, [Pipeline!Next]_(Pipeline!vars),
                    NEW m \in drafted \ overlappedMails
             PROVE  moves'[m] = moves[m]
  BY DEF Pipeline!SettledMailKept
<1>1. m \in Mail
  BY DEF PipelineInv, Pipeline!TypeOK
<1>2. ASSUME NEW r \in Request, Pipeline!Apply(r) PROVE moves'[m] = moves[m]
  <2>1. req[r].mail # m
    BY <1>1, <1>2 DEF Pipeline!Apply, Pipeline!At, PipelineInv, PipelineOneRun
  <2> QED  BY <1>1, <1>2, <2>1 DEF Pipeline!Apply, PipelineInv
<1> QED  BY <1>2 DEF Pipeline!Next, Pipeline!Deliver, Pipeline!DraftRoute,
             Pipeline!Receive, Pipeline!Dedupe, Pipeline!Count, Pipeline!Classify, Pipeline!Decide, Pipeline!Draft, Pipeline!LogDraft,
             Pipeline!Die, Pipeline!EditEvent, Pipeline!events, Pipeline!vars

-----------------------------------------------------------------------------
(* The pages of documents.  No two rows have one slug, and a slug comes     *)
(* with the type of a page, in the row or in the request that is to write   *)
(* it.                                                                      *)

LEMMA PagesAssumed == Pages!PagesAssumption
  BY WorkspaceAssumption

(* A request keeps what it read, which may be stale; but the type that goes *)
(* with a slug is "Page", in the request or in the row, unless the type was *)
(* changed on its own meanwhile.                                            *)
PagesEdits == [phase : {"idle", "check", "commit"}, doc : Document \cup {Nil},
               slug : Slug \cup {Nil, Keep}, type : Pages!Type \cup {Keep}]

PagesSlugsApart ==
  \A d, e \in documentRows : pageSlug[d] # Nil /\ pageSlug[d] = pageSlug[e] => d = e

PagesPageGoesWith(r) ==
  req[r].slug \in Slug =>
    /\ req[r].doc \in Document
    /\ \/ req[r].doc \in retyped
       \/ req[r].type = "Page"
       \/ (req[r].type = Keep /\ type[req[r].doc] = "Page")

PagesInv ==
  /\ Pages!TypeOK /\ PagesSlugsApart
  /\ req \in [Request -> PagesEdits]
  /\ \A d \in Document \ documentRows : pageSlug[d] = Nil
  /\ \A d \in Document \ retyped : pageSlug[d] # Nil => type[d] = "Page"
  /\ \A r \in Request : PagesPageGoesWith(r)

LEMMA PagesInit == Pages!Init => PagesInv
<1> SUFFICES ASSUME Pages!Init PROVE PagesInv
  OBVIOUS
<1>1. Pages!Idle \in PagesEdits /\ Nil \notin Document /\ Keep \notin Slug
  BY PagesAssumed DEF Pages!Idle, PagesEdits, Pages!Type, Pages!PagesAssumption
<1> QED
  BY <1>1 DEF Pages!Init, PagesInv, Pages!TypeOK, PagesSlugsApart, PagesPageGoesWith,
      Pages!Idle, Pages!At, Pages!Type

(* The body of a request, and what is left to write of it.                  *)
LEMMA PagesBodyGoesWith ==
  ASSUME NEW data \in Pages!Bodies
  PROVE  /\ data.slug \in Slug \cup {Nil, Keep} /\ data.type \in Pages!Type \cup {Keep}
         /\ data.slug \in Slug => data.type = "Page"
<1>1. PICK body \in [slug : (Slug \ RESERVED) \cup {Nil, Keep}, type : Pages!Type \cup {Keep}] :
        data \in Pages!EnforcePageType(body)
  BY DEF Pages!Bodies
<1> QED  BY <1>1 DEF Pages!EnforcePageType, Pages!Type

LEMMA PagesLeaveKeeps ==
  ASSUME PagesInv, NEW r \in Request, Pages!Leave(r),
         UNCHANGED <<pageSlug, type, archivedPages, documentRows, retyped>>
  PROVE  PagesInv'
<1>1. Pages!Idle \in PagesEdits /\ Nil \notin Document /\ Keep \notin Slug
  BY PagesAssumed DEF Pages!Idle, PagesEdits, Pages!Type, Pages!PagesAssumption
<1>2. /\ req' \in [Request -> PagesEdits] /\ req'[r] = Pages!Idle
      /\ \A q \in Request \ {r} : req'[q] = req[q]
  BY <1>1 DEF Pages!Leave, PagesInv
<1> QED
  BY <1>1, <1>2 DEF PagesInv, Pages!TypeOK, PagesSlugsApart, PagesPageGoesWith,
      Pages!Idle, Pages!At

LEMMA PagesArriveKeeps ==
  ASSUME PagesInv, NEW r \in Request, NEW d \in Document, NEW data \in Pages!Bodies,
         Pages!Arrive(r, d, data)
  PROVE  PagesInv'
<1> DEFINE new == [phase |-> IF data.slug \in Slug THEN "check" ELSE "commit", doc |-> d,
                   slug |-> Pages!Changed(data.slug, pageSlug[d]),
                   type |-> Pages!Changed(data.type, type[d])]
<1>1. pageSlug[d] \in Slug \cup {Nil} /\ type[d] \in Pages!Type
  BY DEF PagesInv, Pages!TypeOK
<1>2. new \in PagesEdits /\ new.doc = d /\ new.phase # "idle"
  BY <1>1, PagesBodyGoesWith DEF PagesEdits, Pages!Changed
<1>3. new.slug \in Slug => new.type = "Page" \/ (new.type = Keep /\ type[d] = "Page")
  <2>1. Keep \notin Slug
    BY PagesAssumed DEF Pages!PagesAssumption
  <2>2. new.slug = Pages!Changed(data.slug, pageSlug[d])
          /\ new.type = Pages!Changed(data.type, type[d])
    OBVIOUS
  <2>3. data.slug \in Slug => data.type = "Page"
    BY PagesBodyGoesWith
  <2> HIDE DEF new
  <2> QED  BY <2>1, <2>2, <2>3 DEF Pages!Changed
<1>4. /\ req' = [req EXCEPT ![r] = new]
      /\ UNCHANGED <<pageSlug, type, archivedPages, documentRows, retyped>>
  BY DEF Pages!Arrive
<1> HIDE DEF new
<1>5. /\ req' \in [Request -> PagesEdits] /\ req'[r] = new
      /\ \A q \in Request \ {r} : req'[q] = req[q]
  BY <1>2, <1>4 DEF PagesInv
<1> QED
  BY <1>2, <1>3, <1>4, <1>5 DEF PagesInv, Pages!TypeOK, PagesSlugsApart,
      PagesPageGoesWith, Pages!At

LEMMA PagesCheckKeeps ==
  ASSUME PagesInv, NEW r \in Request, Pages!CheckSlug(r)
  PROVE  PagesInv'
<1>1. CASE Pages!Leave(r)
  BY <1>1, PagesLeaveKeeps DEF Pages!CheckSlug
<1>2. CASE req' = [req EXCEPT ![r].phase = "commit"]
  <2> DEFINE new == [req[r] EXCEPT !.phase = "commit"]
  <2>1. /\ new \in PagesEdits /\ new.phase = "commit" /\ new.doc = req[r].doc
        /\ new.slug = req[r].slug /\ new.type = req[r].type
    <3>1. req[r] \in PagesEdits
      BY DEF PagesInv
    <3> QED  BY <3>1 DEF PagesEdits
  <2>2. req' = [req EXCEPT ![r] = new]
    BY <1>2
  <2> HIDE DEF new
  <2>3. /\ req' \in [Request -> PagesEdits] /\ req'[r] = new
        /\ \A q \in Request \ {r} : req'[q] = req[q]
    BY <2>1, <2>2 DEF PagesInv
  <2>4. ~ Pages!At(r, "idle") /\ UNCHANGED <<pageSlug, type, archivedPages, documentRows,
        retyped>>
    BY DEF Pages!CheckSlug, Pages!At
  <2> QED
    BY <2>1, <2>3, <2>4 DEF PagesInv, Pages!TypeOK, PagesSlugsApart, PagesPageGoesWith,
        Pages!At
<1> QED  BY <1>1, <1>2 DEF Pages!CheckSlug

LEMMA PagesCommitKeeps ==
  ASSUME PagesInv, NEW r \in Request, Pages!Commit(r)
  PROVE  PagesInv'
<1> DEFINE d == req[r].doc
           s == req[r].slug
           t == req[r].type
<1>1. /\ Pages!Idle \in PagesEdits /\ Nil \notin Document /\ Keep \notin Slug \cup {Nil}
      /\ Keep \notin Pages!Type /\ "Page" # Keep
  BY PagesAssumed DEF Pages!Idle, PagesEdits, Pages!Type, Pages!PagesAssumption
<1>2. d \in Document /\ s \in Slug \cup {Nil, Keep} /\ t \in Pages!Type \cup {Keep}
  BY DEF Pages!Commit, PagesInv, Pages!TypeOK, Pages!At, PagesEdits
<1>3. /\ documentRows' = documentRows \cup {d} /\ archivedPages' = archivedPages
      /\ pageSlug' \in [Document -> Slug \cup {Nil}] /\ type' \in [Document -> Pages!Type]
      /\ pageSlug'[d] = Pages!Apply(pageSlug[d], s) /\ type'[d] = Pages!Apply(type[d], t)
      /\ \A e \in Document \ {d} : pageSlug'[e] = pageSlug[e] /\ type'[e] = type[e]
  BY <1>1, <1>2 DEF Pages!Commit, PagesInv, Pages!TypeOK, Pages!Apply
<1>4. /\ req' \in [Request -> PagesEdits] /\ req'[r] = Pages!Idle
      /\ \A q \in Request \ {r} : req'[q] = req[q]
  BY <1>1 DEF Pages!Commit, Pages!Leave, PagesInv
<1>5. /\ retyped \subseteq retyped' /\ retyped' \subseteq Document
      /\ t \notin {Keep, "Page"} /\ pageSlug[d] # Nil => d \in retyped'
      /\ \A q \in Request : req[q].doc = d /\ req[q].slug \in Slug /\ t \notin {Keep, "Page"}
                              => d \in retyped'
  BY <1>2 DEF Pages!Commit, Pages!Slugging, PagesInv, Pages!TypeOK
<1>6. s \in Slug => \A e \in documentRows \ {d} : pageSlug[e] # s
  BY DEF Pages!Commit, Pages!SlugTaken
<1>7. d \notin retyped /\ s \in Slug => t = "Page" \/ (t = Keep /\ type[d] = "Page")
  BY DEF PagesInv, PagesPageGoesWith
<1> HIDE DEF d, s, t
<1>8. Pages!TypeOK'
  BY <1>1, <1>2, <1>3, <1>4, <1>5 DEF PagesInv, Pages!TypeOK, Pages!Idle, Pages!At
<1>9. PagesSlugsApart' /\ \A e \in Document \ documentRows' : pageSlug'[e] = Nil
  BY <1>2, <1>3, <1>6 DEF PagesInv, Pages!TypeOK, PagesSlugsApart, Pages!Apply
<1>10. \A e \in Document \ retyped' : pageSlug'[e] # Nil => type'[e] = "Page"
  <2> SUFFICES ASSUME NEW e \in Document \ retyped', pageSlug'[e] # Nil PROVE type'[e] = "Page"
    OBVIOUS
  <2>1. CASE e # d
    BY <2>1, <1>3, <1>5 DEF PagesInv
  <2>2. CASE e = d /\ s \in Slug
    BY <2>2, <1>1, <1>3, <1>5, <1>7 DEF Pages!Apply
  <2>3. CASE e = d /\ s \notin Slug
    BY <2>3, <1>2, <1>3, <1>5 DEF Pages!Apply, PagesInv
  <2> QED  BY <2>1, <2>2, <2>3
<1>11. \A q \in Request : PagesPageGoesWith(q)'
  <2> SUFFICES ASSUME NEW q \in Request \ {r}, req[q].slug \in Slug, req[q].doc \notin retyped'
               PROVE  req[q].type = "Page" \/ (req[q].type = Keep /\ type'[req[q].doc] = "Page")
    BY <1>1, <1>4 DEF PagesPageGoesWith, Pages!Idle, PagesInv
  <2>1. req[q].type = "Page" \/ (req[q].type = Keep /\ type[req[q].doc] = "Page")
    BY <1>5 DEF PagesInv, PagesPageGoesWith
  <2>2. CASE req[q].doc = d
    BY <2>1, <2>2, <1>3, <1>5 DEF Pages!Apply
  <2>3. CASE req[q].doc # d
    <3>1. req[q].doc \in Document
      BY DEF PagesInv, PagesPageGoesWith
    <3> QED  BY <2>1, <2>3, <3>1, <1>3
  <2> QED  BY <2>2, <2>3
<1> QED  BY <1>4, <1>8, <1>9, <1>10, <1>11 DEF PagesInv

LEMMA PagesStep == PagesInv /\ [Pages!Next]_(Pages!vars) => PagesInv'
<1> SUFFICES ASSUME PagesInv, [Pages!Next]_(Pages!vars) PROVE PagesInv'
  OBVIOUS
<1>1. ASSUME NEW r \in Request, NEW d \in Document,
             NEW data \in Pages!Bodies, Pages!Arrive(r, d, data)
      PROVE  PagesInv'
  BY <1>1, PagesArriveKeeps
<1>2. ASSUME NEW r \in Request, Pages!CheckSlug(r) PROVE PagesInv'
  BY <1>2, PagesCheckKeeps
<1>3. ASSUME NEW r \in Request, Pages!Commit(r) PROVE PagesInv'
  BY <1>3, PagesCommitKeeps
<1>4. ASSUME NEW r \in Request, Pages!Fail(r) PROVE PagesInv'
  BY <1>4, PagesLeaveKeeps DEF Pages!Fail
<1>5. ASSUME NEW d \in Document, Pages!Archive(d) PROVE PagesInv'
  BY <1>5 DEF Pages!Archive, PagesInv, Pages!TypeOK, PagesSlugsApart,
      PagesPageGoesWith, Pages!At
<1>6. CASE UNCHANGED Pages!vars
  BY <1>6 DEF Pages!vars, PagesInv, Pages!TypeOK, PagesSlugsApart, PagesPageGoesWith,
      Pages!At
<1> QED  BY <1>1, <1>2, <1>3, <1>4, <1>5, <1>6 DEF Pages!Next

LEMMA PagesPromises == PagesInv => Pages!OnePagePerAddress /\ Pages!PreviewAgrees
  BY DEF PagesInv, PagesSlugsApart, Pages!OnePagePerAddress, Pages!PreviewAgrees,
      Pages!Served, Pages!Previewable

-----------------------------------------------------------------------------
(* The agenda of a meeting.  A link that was handed out is the token of the *)
(* row and the row is no draft; while no two shares overlapped, one request *)
(* at most draws a token; and once locked, nothing is at work that would    *)
(* change it.                                                               *)

LEMMA AgendaAssumed == Agenda!AgendaAssumption
  BY WorkspaceAssumption

AgendaShares ==
  [phase : Agenda!Phase, write : AgendaItems \cup {Nil, "shared"}, fresh : Token \cup {Nil}]

AgendaDrawing(r) == Agenda!At(r, "share") /\ req[r].fresh # Nil

(* A share promises a link, and a link an agenda that is no draft.          *)
AgendaLinksOpen ==
  /\ token # Nil => agendaStatus # "draft"
  /\ \A r \in Request : Agenda!At(r, "share") /\ req[r].write # "shared"
       => agendaStatus # "draft"
  /\ \A r \in Request : Agenda!At(r, "share") /\ req[r].fresh = Nil => token # Nil
  /\ \A r \in Request : Agenda!At(r, "answer") => token # Nil

(* Unraced: one request draws the token, before any link is handed out.     *)
AgendaOneToken ==
  /\ handedLinks \subseteq {token}
  /\ \A r \in Request : AgendaDrawing(r) => token = Nil
  /\ \A r, q \in Request : AgendaDrawing(r) /\ AgendaDrawing(q) => r = q

(* What the lock has not overtaken is done.                                 *)
AgendaAtWork(r) == Agenda!At(r, "validate") \/ Agenda!At(r, "set") \/ Agenda!FirstShare(r)

AgendaInv ==
  /\ items \in AgendaItems \cup {Nil} /\ agendaStatus \in {"draft", "shared", "locked"}
  /\ token \in Token \cup {Nil} /\ sharesRaced \in BOOLEAN /\ overtaken \in BOOLEAN
  /\ handedLinks \subseteq Token
  /\ req \in [Request -> AgendaShares]
  /\ \A r \in Request : Agenda!At(r, "set") \/ Agenda!At(r, "validate")
       => req[r].write \in AgendaItems
  /\ AgendaLinksOpen
  /\ ~ sharesRaced => AgendaOneToken
  /\ agendaStatus = "locked" /\ ~ overtaken => \A r \in Request : ~ AgendaAtWork(r)

LEMMA AgendaIdleShare == Agenda!Idle \in AgendaShares /\ Agenda!Idle.phase = "idle"
  BY DEF Agenda!Idle, AgendaShares, Agenda!Phase

LEMMA AgendaInit == Agenda!Init => AgendaInv
<1> SUFFICES ASSUME Agenda!Init PROVE AgendaInv
  OBVIOUS
<1>1. req \in [Request -> AgendaShares] /\ \A r \in Request : req[r].phase = "idle"
  BY AgendaIdleShare DEF Agenda!Init
<1> QED  BY <1>1 DEF Agenda!Init, AgendaInv, AgendaLinksOpen, AgendaOneToken,
             AgendaDrawing, Agenda!At

LEMMA AgendaGoPhase ==
  ASSUME AgendaInv, NEW r \in Request, NEW p \in Agenda!Phase, Agenda!Go(r, p)
  PROVE  /\ req' \in [Request -> AgendaShares] /\ req'[r].phase = p
         /\ req'[r].write = req[r].write /\ req'[r].fresh = req[r].fresh
         /\ \A q \in Request \ {r} : req'[q] = req[q]
  BY DEF AgendaInv, Agenda!Go, AgendaShares

LEMMA AgendaLeavePhase ==
  ASSUME AgendaInv, NEW r \in Request, Agenda!Leave(r)
  PROVE  /\ req' \in [Request -> AgendaShares] /\ req'[r].phase = "idle"
         /\ \A q \in Request \ {r} : req'[q] = req[q]
  BY AgendaIdleShare DEF AgendaInv, Agenda!Leave

(* A request goes to a phase in which it draws no token, and the row stays. *)
LEMMA AgendaQuietKeeps ==
  ASSUME AgendaInv, NEW r \in Request, UNCHANGED Agenda!agenda,
         req' \in [Request -> AgendaShares], \A q \in Request \ {r} : req'[q] = req[q],
         req'[r].phase \in Agenda!Phase \ {"share", "answer"},
         req'[r].phase \in {"validate", "set"} =>
           req'[r].write \in AgendaItems /\ (agendaStatus # "locked" \/ AgendaAtWork(r))
  PROVE  AgendaInv'
<1>1. AgendaLinksOpen'
  BY DEF AgendaInv, AgendaLinksOpen, Agenda!At, Agenda!agenda
<1>2. ~ sharesRaced' => AgendaOneToken'
  BY DEF AgendaInv, AgendaOneToken, AgendaDrawing, Agenda!At, Agenda!agenda
<1>3. agendaStatus' = "locked" /\ ~ overtaken' => \A q \in Request : ~ AgendaAtWork(q)'
  BY DEF AgendaInv, AgendaAtWork, Agenda!FirstShare, Agenda!At, Agenda!agenda
<1>4. \A q \in Request : Agenda!At(q, "set")' \/ Agenda!At(q, "validate")'
        => req'[q].write \in AgendaItems
  BY DEF AgendaInv, Agenda!At
<1> QED  BY <1>1, <1>2, <1>3, <1>4 DEF AgendaInv, Agenda!agenda

LEMMA AgendaEditKeeps ==
  ASSUME AgendaInv, NEW r \in Request, NEW a \in AgendaItems, Agenda!LoadEdit(r, a)
  PROVE  AgendaInv'
<1> DEFINE new == [Agenda!Idle EXCEPT !.phase = "validate", !.write = a]
<1>1. new \in AgendaShares
  BY DEF Agenda!Idle, AgendaShares, Agenda!Phase
<1>2. new.phase = "validate"
  BY DEF Agenda!Idle
<1>3. new.write = a
  BY DEF Agenda!Idle
<1>4. req' = [req EXCEPT ![r] = new] /\ agendaStatus # "locked" /\ UNCHANGED Agenda!agenda
  BY DEF Agenda!LoadEdit
<1> HIDE DEF new
<1>5. req' \in [Request -> AgendaShares] /\ req'[r] = new
        /\ \A q \in Request \ {r} : req'[q] = req[q]
  BY <1>1, <1>4 DEF AgendaInv
<1> QED  BY <1>2, <1>3, <1>4, <1>5, AgendaQuietKeeps DEF Agenda!Phase

LEMMA AgendaValidateKeeps ==
  ASSUME AgendaInv, NEW r \in Request, Agenda!Validate(r)
  PROVE  AgendaInv'
<1>1. Agenda!At(r, "validate") /\ UNCHANGED Agenda!agenda /\ AgendaAtWork(r)
        /\ req[r].write \in AgendaItems
  BY DEF Agenda!Validate, AgendaAtWork, AgendaInv
<1>2. CASE Agenda!Go(r, "set")
  <2>1. "set" \in Agenda!Phase
    BY DEF Agenda!Phase
  <2> QED  BY <1>1, <1>2, <2>1, AgendaGoPhase, AgendaQuietKeeps
<1>3. CASE Agenda!Leave(r)
  BY <1>1, <1>3, AgendaLeavePhase, AgendaQuietKeeps DEF Agenda!Phase
<1> QED  BY <1>2, <1>3 DEF Agenda!Validate

LEMMA AgendaCommitEditKeeps ==
  ASSUME AgendaInv, NEW r \in Request, Agenda!CommitEdit(r)
  PROVE  AgendaInv'
<1>1. /\ items' = req[r].write /\ req[r].write \in AgendaItems /\ AgendaAtWork(r)
      /\ UNCHANGED <<agendaStatus, token, handedLinks, sharesRaced, overtaken>>
  BY DEF Agenda!CommitEdit, AgendaAtWork, AgendaInv
<1>2. /\ req' \in [Request -> AgendaShares] /\ req'[r].phase = "idle"
      /\ \A q \in Request \ {r} : req'[q] = req[q]
  BY AgendaLeavePhase DEF Agenda!CommitEdit
<1>3. AgendaLinksOpen'
  BY <1>1, <1>2 DEF AgendaInv, AgendaLinksOpen, Agenda!At
<1>4. ~ sharesRaced' => AgendaOneToken'
  BY <1>1, <1>2 DEF AgendaInv, AgendaOneToken, AgendaDrawing, Agenda!At
<1>5. agendaStatus' = "locked" /\ ~ overtaken' => \A q \in Request : ~ AgendaAtWork(q)'
  BY <1>1, <1>2 DEF AgendaInv, AgendaAtWork, Agenda!FirstShare, Agenda!At
<1>6. \A q \in Request : Agenda!At(q, "set")' \/ Agenda!At(q, "validate")'
        => req'[q].write \in AgendaItems
  BY <1>2 DEF AgendaInv, Agenda!At
<1> QED  BY <1>1, <1>2, <1>3, <1>4, <1>5, <1>6 DEF AgendaInv

LEMMA AgendaLoadShareKeeps ==
  ASSUME AgendaInv, NEW r \in Request, NEW t \in Token \cup {Nil}, Agenda!LoadShare(r, t)
  PROVE  AgendaInv'
<1> DEFINE write == IF agendaStatus = "draft" THEN "shared" ELSE Nil
           new == [phase |-> "share", fresh |-> t, write |-> write]
<1>1. new \in AgendaShares /\ new.phase = "share" /\ new.fresh = t /\ new.write = write
  BY DEF AgendaShares, Agenda!Phase
<1>2. write # "shared" <=> agendaStatus # "draft"
  BY AgendaAssumed DEF Agenda!AgendaAssumption
<1>3. /\ req' = [req EXCEPT ![r] = new] /\ Agenda!At(r, "idle")
      /\ UNCHANGED <<items, agendaStatus, token, handedLinks, overtaken>>
      /\ t = Nil <=> token # Nil
      /\ sharesRaced'
           = (sharesRaced \/ (t # Nil /\ \E q \in Request : Agenda!At(q, "share") /\ req[q].fresh # Nil))
  BY AgendaAssumed DEF Agenda!LoadShare, Agenda!AgendaAssumption
<1> HIDE DEF new, write
<1>4. req' \in [Request -> AgendaShares] /\ req'[r] = new
        /\ \A q \in Request \ {r} : req'[q] = req[q]
  BY <1>1, <1>3 DEF AgendaInv
<1>5. AgendaLinksOpen'
  BY <1>1, <1>2, <1>3, <1>4 DEF AgendaInv, AgendaLinksOpen, Agenda!At
<1>6. ASSUME ~ sharesRaced' PROVE AgendaOneToken'
  <2>1. ~ sharesRaced /\ (t # Nil => \A q \in Request : ~ AgendaDrawing(q))
    BY <1>3, <1>6 DEF AgendaDrawing
  <2>2. AgendaOneToken
    BY <2>1 DEF AgendaInv
  <2>3. /\ AgendaDrawing(r)' => t # Nil
        /\ \A q \in Request \ {r} : AgendaDrawing(q)' => AgendaDrawing(q)
    BY <1>1, <1>4 DEF AgendaDrawing, Agenda!At
  <2> QED  BY <1>3, <2>1, <2>2, <2>3 DEF AgendaOneToken
<1>7. agendaStatus' = "locked" /\ ~ overtaken' => \A q \in Request : ~ AgendaAtWork(q)'
  BY <1>1, <1>2, <1>3, <1>4 DEF AgendaInv, AgendaAtWork, Agenda!FirstShare, Agenda!At
<1>8. \A q \in Request : Agenda!At(q, "set")' \/ Agenda!At(q, "validate")'
        => req'[q].write \in AgendaItems
  BY <1>1, <1>4 DEF AgendaInv, Agenda!At
<1>9. sharesRaced' \in BOOLEAN
  BY <1>3
<1> QED  BY <1>3, <1>4, <1>5, <1>6, <1>7, <1>8, <1>9 DEF AgendaInv

LEMMA AgendaCommitShareKeeps ==
  ASSUME AgendaInv, NEW r \in Request, Agenda!CommitShare(r)
  PROVE  AgendaInv'
<1>1. /\ Agenda!At(r, "share") /\ UNCHANGED <<items, handedLinks, sharesRaced, overtaken>>
      /\ token' = IF req[r].fresh = Nil THEN token ELSE req[r].fresh
      /\ agendaStatus' = IF req[r].write = "shared" THEN "shared" ELSE agendaStatus
  BY DEF Agenda!CommitShare, Agenda!FirstShare
<1>2. /\ req' \in [Request -> AgendaShares] /\ req'[r].phase = "answer"
      /\ \A q \in Request \ {r} : req'[q] = req[q]
  BY AgendaGoPhase DEF Agenda!CommitShare, Agenda!Phase
<1>3. token' # Nil /\ agendaStatus' # "draft" /\ token' \in Token
      /\ agendaStatus' \in {"draft", "shared", "locked"}
  BY <1>1 DEF AgendaInv, AgendaLinksOpen, AgendaShares
<1>4. AgendaLinksOpen'
  BY <1>2, <1>3 DEF AgendaLinksOpen
<1>5. ASSUME ~ sharesRaced' PROVE AgendaOneToken'
  <2>1. AgendaOneToken
    BY <1>1, <1>5 DEF AgendaInv
  <2>2. \A q \in Request : AgendaDrawing(q)' => AgendaDrawing(q) /\ q # r
    BY <1>2 DEF AgendaDrawing, Agenda!At
  <2>3. CASE AgendaDrawing(r)
    <3>1. handedLinks = {} /\ \A q \in Request : ~ AgendaDrawing(q)'
      BY <2>1, <2>2, <2>3, AgendaAssumed DEF AgendaOneToken, AgendaInv,
          Agenda!AgendaAssumption
    <3> QED  BY <1>1, <3>1 DEF AgendaOneToken
  <2>4. CASE ~ AgendaDrawing(r)
    <3>1. token' = token
      BY <1>1, <2>4 DEF AgendaDrawing
    <3> QED  BY <1>1, <2>1, <2>2, <3>1 DEF AgendaOneToken
  <2> QED  BY <2>3, <2>4
<1>6. agendaStatus' = "locked" /\ ~ overtaken' => \A q \in Request : ~ AgendaAtWork(q)'
  BY <1>1, <1>2 DEF AgendaInv, AgendaAtWork, Agenda!FirstShare, Agenda!At
<1>7. \A q \in Request : Agenda!At(q, "set")' \/ Agenda!At(q, "validate")'
        => req'[q].write \in AgendaItems
  BY <1>2 DEF AgendaInv, Agenda!At
<1> QED  BY <1>1, <1>2, <1>3, <1>4, <1>5, <1>6, <1>7 DEF AgendaInv

LEMMA AgendaHandOutKeeps ==
  ASSUME AgendaInv, NEW r \in Request, Agenda!HandOut(r)
  PROVE  AgendaInv'
<1>1. /\ Agenda!At(r, "answer") /\ UNCHANGED <<items, agendaStatus, token, sharesRaced,
         overtaken>>
      /\ handedLinks' = handedLinks \cup {token} /\ token \in Token /\ token # Nil
  BY DEF Agenda!HandOut, AgendaInv, AgendaLinksOpen
<1>2. /\ req' \in [Request -> AgendaShares] /\ req'[r].phase = "idle"
      /\ \A q \in Request \ {r} : req'[q] = req[q]
  BY AgendaLeavePhase DEF Agenda!HandOut
<1>3. AgendaLinksOpen'
  BY <1>1, <1>2 DEF AgendaInv, AgendaLinksOpen, Agenda!At
<1>4. ~ sharesRaced' => AgendaOneToken'
  BY <1>1, <1>2 DEF AgendaInv, AgendaOneToken, AgendaDrawing, Agenda!At
<1>5. agendaStatus' = "locked" /\ ~ overtaken' => \A q \in Request : ~ AgendaAtWork(q)'
  BY <1>1, <1>2 DEF AgendaInv, AgendaAtWork, Agenda!FirstShare, Agenda!At
<1>6. \A q \in Request : Agenda!At(q, "set")' \/ Agenda!At(q, "validate")'
        => req'[q].write \in AgendaItems
  BY <1>2 DEF AgendaInv, Agenda!At
<1> QED  BY <1>1, <1>2, <1>3, <1>4, <1>5, <1>6 DEF AgendaInv

LEMMA AgendaLockKeeps ==
  ASSUME AgendaInv, NEW r \in Request, Agenda!CommitLock(r)
  PROVE  AgendaInv'
<1>1. /\ Agenda!At(r, "lock") /\ agendaStatus' = "locked" /\ UNCHANGED <<items, token,
         handedLinks, sharesRaced>>
      /\ overtaken' = (overtaken \/ \E q \in Request : AgendaAtWork(q))
  BY DEF Agenda!CommitLock, AgendaAtWork
<1>2. /\ req' \in [Request -> AgendaShares] /\ req'[r].phase = "idle"
      /\ \A q \in Request \ {r} : req'[q] = req[q]
  BY AgendaLeavePhase DEF Agenda!CommitLock
<1>3. AgendaLinksOpen'
  BY <1>1, <1>2 DEF AgendaInv, AgendaLinksOpen, Agenda!At
<1>4. ~ sharesRaced' => AgendaOneToken'
  BY <1>1, <1>2 DEF AgendaInv, AgendaOneToken, AgendaDrawing, Agenda!At
<1>5. ~ overtaken' => \A q \in Request : ~ AgendaAtWork(q)'
  BY <1>1, <1>2 DEF AgendaAtWork, Agenda!FirstShare, Agenda!At
<1>6. \A q \in Request : Agenda!At(q, "set")' \/ Agenda!At(q, "validate")'
        => req'[q].write \in AgendaItems
  BY <1>2 DEF AgendaInv, Agenda!At
<1>7. overtaken' \in BOOLEAN
  BY <1>1
<1> QED  BY <1>1, <1>2, <1>3, <1>4, <1>5, <1>6, <1>7 DEF AgendaInv

LEMMA AgendaStep == AgendaInv /\ [Agenda!Next]_(Agenda!vars) => AgendaInv'
<1> SUFFICES ASSUME AgendaInv, [Agenda!Next]_(Agenda!vars) PROVE AgendaInv'
  OBVIOUS
<1>1. ASSUME NEW r \in Request, Agenda!LoadLock(r) PROVE AgendaInv'
  BY <1>1, AgendaGoPhase, AgendaQuietKeeps DEF Agenda!LoadLock, Agenda!Phase
<1>2. ASSUME NEW r \in Request, Agenda!Die(r) PROVE AgendaInv'
  BY <1>2, AgendaLeavePhase, AgendaQuietKeeps DEF Agenda!Die, Agenda!Phase
<1>3. CASE Agenda!Archive
  BY <1>3 DEF Agenda!Archive, AgendaInv, AgendaLinksOpen, AgendaOneToken,
      AgendaDrawing, AgendaAtWork, Agenda!FirstShare, Agenda!At
<1>4. CASE UNCHANGED Agenda!vars
  BY <1>4 DEF Agenda!vars, AgendaInv, AgendaLinksOpen, AgendaOneToken, AgendaDrawing,
      AgendaAtWork, Agenda!FirstShare, Agenda!At
<1> QED  BY <1>1, <1>2, <1>3, <1>4, AgendaEditKeeps, AgendaValidateKeeps,
             AgendaCommitEditKeeps, AgendaLoadShareKeeps,
            AgendaCommitShareKeeps, AgendaHandOutKeeps, AgendaLockKeeps DEF Agenda!Next

LEMMA AgendaPromises == AgendaInv => Agenda!TypeOK /\ Agenda!LinkStable
<1> SUFFICES ASSUME AgendaInv PROVE Agenda!TypeOK /\ Agenda!LinkStable
  OBVIOUS
<1>1. Agenda!TypeOK
  BY DEF AgendaInv, Agenda!TypeOK, AgendaShares
<1>2. Agenda!LinkStable
  BY AgendaAssumed DEF AgendaInv, Agenda!LinkStable, Agenda!Opens, AgendaOneToken,
      AgendaLinksOpen, Agenda!AgendaAssumption
<1> QED  BY <1>1, <1>2

(* Locked is final.                                                         *)
LEMMA AgendaSettle == AgendaInv /\ [Agenda!Next]_(Agenda!vars)
  => [Agenda!LockKept]_(Agenda!vars)
<1> SUFFICES ASSUME AgendaInv, [Agenda!Next]_(Agenda!vars), agendaStatus = "locked", ~ overtaken
             PROVE  agendaStatus' = "locked" /\ items' = items
  BY DEF Agenda!LockKept
<1>1. \A r \in Request : ~ AgendaAtWork(r)
  BY DEF AgendaInv
<1>2. ASSUME NEW r \in Request,
             Agenda!CommitShare(r) PROVE agendaStatus' = "locked" /\ items' = items
  BY <1>1, <1>2 DEF Agenda!CommitShare, AgendaAtWork
<1>3. ASSUME NEW r \in Request, Agenda!CommitEdit(r) PROVE FALSE
  BY <1>1, <1>3 DEF Agenda!CommitEdit, AgendaAtWork
<1>4. ASSUME NEW r \in Request,
             Agenda!CommitLock(r) PROVE agendaStatus' = "locked" /\ items' = items
  BY <1>4 DEF Agenda!CommitLock
<1> QED  BY <1>2, <1>3, <1>4
         DEF Agenda!Next, Agenda!LoadEdit, Agenda!LoadShare, Agenda!Validate,
             Agenda!HandOut, Agenda!LoadLock, Agenda!Die, Agenda!Archive,
             Agenda!agenda, Agenda!vars

-----------------------------------------------------------------------------
(* The notes of a meeting.  Every answer the model gave is logged, lost     *)
(* with its request, or in the hands of a request that is to commit it;     *)
(* documents and notes come from answers that are logged.                   *)

LEMMA MinutesAssumed == Minutes!MinutesAssumption
  BY WorkspaceAssumption

MinutesCalls == [phase : {"idle", "model", "commit"}, answer : Nat, file : BOOLEAN]

(* Every answer is on record, lost, or with the request that will commit it.*)
MinutesWorking(n) == \E r \in Request : Minutes!At(r, "commit") /\ req[r].answer = n

MinutesInv ==
  /\ Minutes!TypeOK
  /\ req \in [Request -> MinutesCalls]
  /\ \A r \in Request : Minutes!At(r, "commit") => req[r].answer \in 1 .. answers
  /\ logged \subseteq 1 .. answers /\ lost \subseteq 1 .. answers
  /\ documents \subseteq logged /\ notes \in logged \cup {0}
  /\ \A n \in 1 .. answers : n \in logged \/ n \in lost \/ MinutesWorking(n)

LEMMA MinutesIdleCall == Minutes!Idle \in MinutesCalls /\ Minutes!Idle.phase = "idle"
  BY DEF Minutes!Idle, MinutesCalls

LEMMA MinutesCallUpdate ==
  ASSUME NEW c \in MinutesCalls, NEW n \in Nat
  PROVE  /\ [c EXCEPT !.phase = "commit", !.answer = n] \in MinutesCalls
         /\ [c EXCEPT !.phase = "commit", !.answer = n].phase = "commit"
         /\ [c EXCEPT !.phase = "commit", !.answer = n].answer = n
<1>1. [c EXCEPT !.phase = "commit", !.answer = n] \in MinutesCalls
  BY DEF MinutesCalls
<1>2. [c EXCEPT !.phase = "commit", !.answer = n].phase = "commit"
  BY DEF MinutesCalls
<1>3. [c EXCEPT !.phase = "commit", !.answer = n].answer = n
  BY DEF MinutesCalls
<1> QED  BY <1>1, <1>2, <1>3

LEMMA MinutesInit == Minutes!Init => MinutesInv
  BY MinutesIdleCall, MinutesAssumed DEF Minutes!Init, MinutesInv, Minutes!TypeOK,
      Minutes!At, Minutes!Answer, Minutes!MinutesAssumption

LEMMA MinutesAskKeeps ==
  ASSUME MinutesInv, NEW r \in Request, NEW file \in BOOLEAN, Minutes!Ask(r, file)
  PROVE  MinutesInv'
<1> DEFINE new == [phase |-> "model", answer |-> 0, file |-> file]
<1>1. new \in MinutesCalls /\ new.phase = "model"
  BY DEF MinutesCalls
<1>2. /\ req' = [req EXCEPT ![r] = new] /\ req[r].phase = "idle"
      /\ UNCHANGED <<notes, documents, logged, answers, lost>>
  BY DEF Minutes!Ask, Minutes!At
<1> HIDE DEF new
<1>3. /\ req' \in [Request -> MinutesCalls] /\ req'[r] = new
      /\ \A q \in Request \ {r} : req'[q] = req[q]
  BY <1>1, <1>2 DEF MinutesInv
<1> QED  BY <1>1, <1>2, <1>3 DEF MinutesInv, Minutes!TypeOK, MinutesWorking, Minutes!At

LEMMA MinutesGenerateKeeps ==
  ASSUME MinutesInv, NEW r \in Request, Minutes!Generate(r)
  PROVE  MinutesInv'
<1> DEFINE new == [req[r] EXCEPT !.phase = "commit", !.answer = answers + 1]
<1>1. answers \in Nat /\ answers' \in 0 .. ASKS /\ answers' = answers + 1
  BY MinutesAssumed DEF Minutes!Generate, MinutesInv, Minutes!TypeOK,
      Minutes!MinutesAssumption
<1>2. new \in MinutesCalls /\ new.phase = "commit" /\ new.answer = answers + 1
  <2>1. req[r] \in MinutesCalls
    BY DEF MinutesInv
  <2>2. answers + 1 \in Nat
    BY <1>1
  <2> QED  BY <2>1, <2>2, MinutesCallUpdate, Zenon
<1>3. /\ req' = [req EXCEPT ![r] = new] /\ req[r].phase = "model"
      /\ UNCHANGED <<notes, documents, logged, lost>>
  BY DEF Minutes!Generate, Minutes!At
<1> HIDE DEF new
<1>4. /\ req' \in [Request -> MinutesCalls] /\ req'[r] = new
      /\ \A q \in Request \ {r} : req'[q] = req[q]
  BY <1>2, <1>3 DEF MinutesInv
<1>5. Minutes!TypeOK'
  BY <1>1, <1>3 DEF MinutesInv, Minutes!TypeOK
<1>6. \A q \in Request : Minutes!At(q, "commit")' => req'[q].answer \in 1 .. answers'
  BY <1>1, <1>2, <1>4 DEF MinutesInv, Minutes!At
<1>7. logged' \subseteq 1 .. answers' /\ lost' \subseteq 1 .. answers'
  BY <1>1, <1>3 DEF MinutesInv
<1>8. \A n \in 1 .. answers' : n \in logged' \/ n \in lost' \/ MinutesWorking(n)'
  <2> SUFFICES ASSUME NEW n \in 1 .. answers', n \notin logged,
                      n \notin lost PROVE MinutesWorking(n)'
    BY <1>3
  <2>1. CASE n = answers + 1
    BY <2>1, <1>2, <1>4 DEF MinutesWorking, Minutes!At
  <2>2. CASE n # answers + 1
    <3>1. MinutesWorking(n)
      BY <2>2, <1>1 DEF MinutesInv
    <3> QED  BY <3>1, <1>3, <1>4 DEF MinutesWorking, Minutes!At
  <2> QED  BY <2>1, <2>2
<1> QED  BY <1>3, <1>4, <1>5, <1>6, <1>7, <1>8 DEF MinutesInv

(* A request ends; an answer it has is on record by then, or lost.          *)
LEMMA MinutesEndKeeps ==
  ASSUME MinutesInv, NEW r \in Request, Minutes!Leave(r), Minutes!TypeOK', UNCHANGED answers,
         logged \subseteq logged', logged' \subseteq 1 .. answers,
         lost \subseteq lost', lost' \subseteq 1 .. answers,
         documents' \subseteq logged', notes' \in logged' \cup {0},
         Minutes!At(r, "commit") => req[r].answer \in logged' \cup lost'
  PROVE  MinutesInv'
<1>1. /\ req' \in [Request -> MinutesCalls] /\ req'[r].phase = "idle"
      /\ \A q \in Request \ {r} : req'[q] = req[q]
  BY MinutesIdleCall DEF Minutes!Leave, MinutesInv
<1>2. \A n \in 1 .. answers : n \in logged' \/ n \in lost' \/ MinutesWorking(n)'
  <2> SUFFICES ASSUME NEW n \in 1 .. answers, n \notin logged',
                      n \notin lost' PROVE MinutesWorking(n)'
    OBVIOUS
  <2>1. PICK q \in Request : Minutes!At(q, "commit") /\ req[q].answer = n
    BY DEF MinutesInv, MinutesWorking
  <2> QED  BY <1>1, <2>1 DEF MinutesWorking, Minutes!At
<1> QED  BY <1>1, <1>2 DEF MinutesInv, Minutes!At

LEMMA MinutesStep == MinutesInv /\ [Minutes!Next]_(Minutes!vars) => MinutesInv'
<1> SUFFICES ASSUME MinutesInv, [Minutes!Next]_(Minutes!vars) PROVE MinutesInv'
  OBVIOUS
<1>0. /\ answers \in 0 .. ASKS /\ answers \in Nat
      /\ \A n \in 1 .. answers : n \in Minutes!Answer
  BY MinutesAssumed DEF MinutesInv, Minutes!TypeOK, Minutes!Answer,
      Minutes!MinutesAssumption
<1>1. ASSUME NEW r \in Request, NEW file \in BOOLEAN, Minutes!Ask(r, file) PROVE MinutesInv'
  BY <1>1, MinutesAskKeeps
<1>2. ASSUME NEW r \in Request, Minutes!Generate(r) PROVE MinutesInv'
  BY <1>2, MinutesGenerateKeeps
<1>3. ASSUME NEW r \in Request, Minutes!GenerateFails(r) PROVE MinutesInv'
  <2>1. Minutes!TypeOK' /\ ~ Minutes!At(r, "commit")
    BY <1>3 DEF Minutes!GenerateFails, MinutesInv, Minutes!TypeOK, Minutes!At
  <2> QED  BY <1>3, <2>1, MinutesEndKeeps DEF Minutes!GenerateFails, MinutesInv
<1>4. ASSUME NEW r \in Request, Minutes!CommitNotes(r) PROVE MinutesInv'
  <2> DEFINE n == req[r].answer
  <2>1. n \in 1 .. answers /\ n \in Minutes!Answer
    BY <1>0, <1>4 DEF Minutes!CommitNotes, MinutesInv
  <2>2. /\ notes' = n /\ logged' = logged \cup {n} /\ Minutes!Leave(r) /\ UNCHANGED <<answers,
           lost>>
        /\ documents' \subseteq documents \cup {n}
    BY <1>4 DEF Minutes!CommitNotes
  <2> HIDE DEF n
  <2>3. Minutes!TypeOK'
    BY <2>1, <2>2 DEF MinutesInv, Minutes!TypeOK
  <2>4. documents' \subseteq logged' /\ logged' \subseteq 1 .. answers /\ n = req[r].answer
    BY <2>1, <2>2 DEF MinutesInv, n
  <2> QED  BY <2>1, <2>2, <2>3, <2>4, MinutesEndKeeps DEF MinutesInv
<1>5. ASSUME NEW r \in Request, Minutes!Die(r) PROVE MinutesInv'
  <2>1. Minutes!TypeOK' /\ lost' \subseteq 1 .. answers
    BY <1>5 DEF Minutes!Die, MinutesInv, Minutes!TypeOK
  <2>2. Minutes!At(r, "commit") => req[r].answer \in lost'
    BY <1>5 DEF Minutes!Die
  <2> QED  BY <1>5, <2>1, <2>2, MinutesEndKeeps DEF Minutes!Die, MinutesInv
<1>6. CASE Minutes!EditByHand
  BY <1>6 DEF Minutes!EditByHand, MinutesInv, Minutes!TypeOK, MinutesWorking, Minutes!At
<1>7. CASE UNCHANGED Minutes!vars
  BY <1>7 DEF Minutes!vars, MinutesInv, Minutes!TypeOK, MinutesWorking, Minutes!At
<1> QED  BY <1>1, <1>2, <1>3, <1>4, <1>5, <1>6, <1>7 DEF Minutes!Next

LEMMA MinutesPromises == MinutesInv => Minutes!MinutesTogether
<1> SUFFICES ASSUME MinutesInv PROVE Minutes!MinutesTogether
  OBVIOUS
<1>1. \A n \in 1 .. answers : MinutesWorking(n) =>
        n \in {req[r].answer : r \in {r \in Request : Minutes!At(r, "commit")}}
  BY DEF MinutesWorking
<1>2. 0 \notin lost
  BY DEF MinutesInv
<1> QED  BY <1>1, <1>2 DEF MinutesInv, Minutes!MinutesTogether

-----------------------------------------------------------------------------
(* Media and attachments.  What the bucket holds of a file is told by the   *)
(* row and by how far the one request at work on it has come; a file that a *)
(* dying request or a race left behind is set apart.                        *)

LEMMA FilesAssumed == Files!FilesAssumption
  BY WorkspaceAssumption

FilesUploads == {"web", "download", "insert"}
FilesDeletes == {"objects", "delete"}
FilesCompresses == {"put web", "put download", "drop", "update"}

FilesJobs ==
  [phase : Files!Phase, file : Files!File \cup {Nil}, was : Files!Format \cup {Nil}, format : Files!Format \cup {Nil}]

FilesJobOK(r) ==
  /\ Files!At(r, "idle") <=> req[r].file = Nil
  /\ ~ Files!At(r, "idle") => req[r].file \in used
  /\ req[r].phase \in FilesUploads \cup FilesCompresses => req[r].format \in Files!Format
  /\ req[r].phase \in FilesDeletes \cup FilesCompresses => req[r].was \in Files!Format
  /\ Files!At(r, "web") \/ req[r].phase \in FilesCompresses => req[r].file \in Image

FilesOf(f) == {o \in objects : o[1] = f}

FilesOnlyOn(f, r) == \A q \in Request \ {r} : req[q].file # f

(* What is in the bucket while a request is at work on a file.              *)
FilesStepOK(f, r) ==
  LET job == req[r] IN
  /\ Files!At(r, "web") => FilesOf(f) = {}
  /\ Files!At(r, "download") => FilesOf(f) = IF f \in Image THEN {<<f, "webp">>} ELSE {}
  /\ Files!At(r, "insert") => FilesOf(f) = Files!Named(f, job.format)
  /\ Files!At(r, "objects") \/ Files!At(r, "delete") =>
       fileRow[f] \in {job.was, Nil} /\ FilesOf(f) \subseteq Files!Named(f, job.was)
  /\ Files!At(r, "delete") \/ (Files!At(r, "objects") /\ fileRow[f] = Nil) => FilesOf(f) = {}
  /\ job.phase \in FilesCompresses => fileRow[f] = job.was
  /\ Files!At(r, "put web") \/ Files!At(r, "put download")
       => FilesOf(f) = Files!Named(f, job.was)
  /\ Files!At(r, "drop")
       => FilesOf(f) = Files!Named(f, job.was) \cup {<<f, job.format>>} /\ job.format # job.was
  /\ Files!At(r, "update") => FilesOf(f) = Files!Named(f, job.format)

FilesResting(f) == FilesOf(f) = IF fileRow[f] = Nil THEN {} ELSE Files!Named(f, fileRow[f])

FilesFileOK(f) ==
  /\ f \notin used => fileRow[f] = Nil /\ FilesOf(f) = {} /\ ~ Files!Busy(f)
  /\ \A r \in Request : req[r].file = f /\ req[r].phase \in FilesUploads =>
       fileRow[f] = Nil /\ f \notin racedFiles /\ FilesOnlyOn(f, r)
  /\ Files!Deleting(f) /\ Files!Compressing(f) => f \in racedFiles
  /\ f \in racedFiles \ interrupted /\ fileRow[f] # Nil => Files!Deleting(f)
  /\ f \notin interrupted \cup racedFiles =>
       /\ \A r \in Request : req[r].file = f => FilesStepOK(f, r)
       /\ ~ Files!Busy(f) => FilesResting(f)

FilesInv ==
  /\ fileRow \in [Files!File -> Files!Format \cup {Nil}]
  /\ objects \subseteq Files!File \X (Files!Format \cup {"webp"})
  /\ used \subseteq Files!File /\ interrupted \subseteq used /\ racedFiles \subseteq used
  /\ req \in [Request -> FilesJobs]
  /\ \A r \in Request : FilesJobOK(r)
  /\ \A r, q \in Request : req[r].phase \in FilesCompresses
       /\ req[q].phase \in FilesCompresses => r = q
  /\ \A f \in Files!File : FilesFileOK(f)

-----------------------------------------------------------------------------
LEMMA FilesIdleJob == Files!Idle \in FilesJobs /\ Files!Idle.phase = "idle"
  /\ Files!Idle.file = Nil
  BY DEF Files!Idle, FilesJobs, Files!Phase

LEMMA FilesPhases ==
  /\ Files!Phase = {"idle"} \cup FilesUploads \cup FilesDeletes \cup FilesCompresses
  /\ "idle" \notin FilesUploads \cup FilesDeletes \cup FilesCompresses
  /\ FilesUploads \cap FilesDeletes = {} /\ FilesUploads \cap FilesCompresses = {}
  /\ FilesDeletes \cap FilesCompresses = {}
  BY DEF Files!Phase, FilesUploads, FilesDeletes, FilesCompresses

LEMMA FilesFormats == Nil \notin Files!File /\ Nil \notin Files!Format
  /\ "webp" \notin Files!Format
  BY FilesAssumed DEF Files!FilesAssumption, Files!File, Files!Format

LEMMA FilesPutOf ==
  ASSUME NEW f \in Files!File, NEW n, Files!Put(f, n)
  PROVE  FilesOf(f)' = FilesOf(f) \cup {<<f, n>>}
           /\ \A g \in Files!File \ {f} : FilesOf(g)' = FilesOf(g)
  BY DEF Files!Put, FilesOf

LEMMA FilesDropOf ==
  ASSUME NEW f \in Files!File, NEW d, NEW S \in SUBSET Files!Named(f, d), objects' = objects \ S
  PROVE  FilesOf(f)' = FilesOf(f) \ S /\ \A g \in Files!File \ {f} : FilesOf(g)' = FilesOf(g)
<1>1. \A o \in S : o[1] = f
  BY DEF Files!Named
<1> QED  BY <1>1 DEF FilesOf

LEMMA FilesGoJob ==
  ASSUME FilesInv, NEW r \in Request, NEW p \in Files!Phase, Files!Go(r, p)
  PROVE  /\ req' \in [Request -> FilesJobs] /\ req'[r].phase = p
         /\ req'[r].file = req[r].file /\ req'[r].was = req[r].was
         /\ req'[r].format = req[r].format
         /\ \A q \in Request \ {r} : req'[q] = req[q]
  BY DEF FilesInv, Files!Go, FilesJobs

LEMMA FilesLeaveJob ==
  ASSUME FilesInv, NEW r \in Request, Files!Leave(r)
  PROVE  /\ req' \in [Request -> FilesJobs] /\ req'[r].phase = "idle" /\ req'[r].file = Nil
         /\ \A q \in Request \ {r} : req'[q] = req[q]
  BY FilesIdleJob DEF FilesInv, Files!Leave

LEMMA FilesStartJob ==
  ASSUME FilesInv, NEW r \in Request, NEW p \in Files!Phase, NEW f \in Files!File,
         NEW w \in Files!Format \cup {Nil},
         NEW d \in Files!Format \cup {Nil}, Files!Start(r, p, f, w, d)
  PROVE  /\ req' \in [Request -> FilesJobs] /\ req'[r].phase = p
         /\ req'[r].file = f /\ req'[r].was = w /\ req'[r].format = d
         /\ \A q \in Request \ {r} : req'[q] = req[q]
<1> DEFINE new == [phase |-> p, file |-> f, was |-> w, format |-> d]
<1>1. new \in FilesJobs /\ new.phase = p /\ new.file = f /\ new.was = w /\ new.format = d
  BY DEF FilesJobs
<1>2. req' = [req EXCEPT ![r] = new]
  BY DEF Files!Start
<1> HIDE DEF new
<1> QED  BY <1>1, <1>2 DEF FilesInv

LEMMA FilesInit == Files!Init => FilesInv
<1> SUFFICES ASSUME Files!Init PROVE FilesInv
  OBVIOUS
<1>1. /\ req \in [Request -> FilesJobs]
      /\ \A r \in Request : req[r].phase = "idle" /\ req[r].file = Nil
  BY FilesIdleJob DEF Files!Init
<1>2. \A r \in Request : FilesJobOK(r)
  BY <1>1, FilesPhases DEF FilesJobOK, Files!At
<1>3. \A r \in Request : req[r].phase \notin FilesCompresses
  BY <1>1, FilesPhases
<1>4. \A f \in Files!File : fileRow[f] = Nil /\ FilesOf(f) = {} /\ f \notin racedFiles
        /\ f \notin interrupted
  BY DEF Files!Init, FilesOf
<1>5. \A f \in Files!File : ~ Files!Busy(f) /\ ~ Files!Deleting(f)
  BY <1>1, FilesFormats DEF Files!Busy, Files!Deleting
<1>6. \A f \in Files!File : FilesFileOK(f)
  BY <1>1, <1>4, <1>5, FilesFormats DEF FilesFileOK, FilesResting
<1> QED  BY <1>1, <1>2, <1>3, <1>6 DEF Files!Init, FilesInv

(* A step concerns one file.                                                *)
LEMMA FilesOneFile ==
  ASSUME FilesInv, NEW r \in Request, NEW f \in Files!File,
         req' \in [Request -> FilesJobs], \A q \in Request \ {r} : req'[q] = req[q],
         req[r].file \in {f, Nil}, req'[r].file \in {f, Nil},
         fileRow' \in [Files!File -> Files!Format \cup {Nil}],
         objects' \subseteq Files!File \X (Files!Format \cup {"webp"}),
         used \subseteq used', used' \subseteq used \cup {f},
         interrupted \subseteq interrupted', interrupted' \subseteq interrupted \cup {f},
         racedFiles \subseteq racedFiles', racedFiles' \subseteq racedFiles \cup {f},
         f \in used',
         \A g \in Files!File \ {f} : fileRow'[g] = fileRow[g] /\ FilesOf(g)' = FilesOf(g),
         req'[r].phase \in FilesCompresses =>
           req[r].phase \in FilesCompresses
             \/ \A q \in Request : req[q].phase \notin FilesCompresses,
         FilesJobOK(r)', FilesFileOK(f)'
  PROVE  FilesInv'
<1>1. \A q \in Request : FilesJobOK(q)'
  BY DEF FilesInv, FilesJobOK, Files!At
<1>2. \A p, q \in Request : req'[p].phase \in FilesCompresses
        /\ req'[q].phase \in FilesCompresses => p = q
  BY DEF FilesInv
<1>3. ASSUME NEW g \in Files!File \ {f} PROVE FilesFileOK(g)'
  <2>1. \A q \in Request : (req'[q].file = g \/ req[q].file = g) =>
          q # r /\ req'[q] = req[q]
    BY FilesFormats
  <2>2. /\ fileRow'[g] = fileRow[g] /\ FilesOf(g)' = FilesOf(g) /\ (g \in used' <=> g \in used)
        /\ (g \in interrupted' <=> g \in interrupted)
             /\ (g \in racedFiles' <=> g \in racedFiles)
    OBVIOUS
  <2>3. (Files!Busy(g)' <=> Files!Busy(g)) /\ (Files!Deleting(g)' <=> Files!Deleting(g))
        /\ (Files!Compressing(g)' <=> Files!Compressing(g))
    BY <2>1 DEF Files!Busy, Files!Deleting, Files!Compressing
  <2>4. \A q \in Request : req'[q].file = g => req[q].file = g /\ req'[q] = req[q]
                                               /\ (FilesOnlyOn(g, q)' <=> FilesOnlyOn(g, q))
    BY <2>1 DEF FilesOnlyOn
  <2>5. ASSUME NEW q \in Request, req'[q].file
                 = g PROVE FilesStepOK(g, q)' <=> FilesStepOK(g, q)
    <3>1. req'[q] = req[q] /\ fileRow'[g] = fileRow[g] /\ FilesOf(g)' = FilesOf(g)
      BY <2>2, <2>4, <2>5
    <3> QED  BY <3>1 DEF FilesStepOK, Files!At
  <2>6. FilesFileOK(g) /\ (FilesResting(g)' <=> FilesResting(g))
    BY <2>2 DEF FilesInv, FilesResting
  <2> QED  BY <2>2, <2>3, <2>4, <2>5, <2>6 DEF FilesFileOK
<1>4. \A g \in Files!File : FilesFileOK(g)'
  BY <1>3
<1>5. used' \subseteq Files!File /\ interrupted' \subseteq used' /\ racedFiles' \subseteq used'
  BY DEF FilesInv
<1> QED  BY <1>1, <1>2, <1>4, <1>5 DEF FilesInv

(* The request is alone at work on its file.                                *)
LEMMA FilesAloneOK ==
  ASSUME NEW r \in Request, NEW f \in Files!File, FilesOnlyOn(f, r)', f \in used',
         req' \in [Request -> FilesJobs], req'[r].file \in {f, Nil}, FilesJobOK(r)',
         req'[r].phase \in FilesUploads => fileRow'[f] = Nil /\ f \notin racedFiles',
         f \in racedFiles' \ interrupted' /\ fileRow'[f] # Nil
           => req'[r].phase \in FilesDeletes,
         f \notin interrupted' \cup racedFiles' =>
           (req'[r].file = f => FilesStepOK(f, r)') /\ (req'[r].file = Nil => FilesResting(f)')
  PROVE  FilesFileOK(f)'
<1>1. \A q \in Request : req'[q].file = f => q = r
  BY DEF FilesOnlyOn
<1>2. ~ (Files!Deleting(f)' /\ Files!Compressing(f)')
  BY <1>1, FilesPhases DEF Files!Deleting, Files!Compressing, FilesDeletes,
      FilesCompresses
<1>3. f \in racedFiles' \ interrupted' /\ fileRow'[f] # Nil => Files!Deleting(f)'
  BY FilesPhases, FilesFormats DEF Files!Deleting, FilesJobOK, Files!At, FilesDeletes
<1>4. req'[r].file = f => Files!Busy(f)'
  BY DEF Files!Busy
<1> QED  BY <1>1, <1>2, <1>3, <1>4 DEF FilesFileOK

LEMMA FilesWorksAlone ==
  ASSUME FilesInv, NEW r \in Request, NEW f \in Files!File, req[r].file = f,
         req[r].phase \in FilesUploads
           \/ (req[r].phase \in FilesCompresses /\ f \notin racedFiles)
  PROVE  FilesOnlyOn(f, r)
<1>1. CASE req[r].phase \in FilesUploads
  BY <1>1 DEF FilesInv, FilesFileOK
<1>2. CASE req[r].phase \in FilesCompresses /\ f \notin racedFiles
  <2> SUFFICES ASSUME NEW q \in Request \ {r}, req[q].file = f PROVE FALSE
    BY DEF FilesOnlyOn
  <2>1. FilesFileOK(f) /\ req[q] \in FilesJobs /\ ~ Files!At(q, "idle")
    BY FilesFormats DEF FilesInv, FilesJobOK
  <2>2. req[q].phase \in FilesUploads \cup FilesDeletes \cup FilesCompresses
    BY <2>1, FilesPhases DEF FilesJobs, Files!At
  <2>3. req[q].phase \notin FilesCompresses
    BY <1>2 DEF FilesInv
  <2>4. req[q].phase \notin FilesUploads
    BY <2>1 DEF FilesFileOK, FilesOnlyOn
  <2>5. req[q].phase \notin FilesDeletes
    BY <1>2, <2>1 DEF FilesFileOK, Files!Deleting, Files!Compressing, FilesDeletes,
        FilesCompresses
  <2> QED  BY <2>2, <2>3, <2>4, <2>5
<1> QED  BY <1>1, <1>2

(* A file that promises nothing more: a step of its handling failed, or it  *)
(* was compressed again while it was deleted.                               *)
LEMMA FilesSpoiltOK ==
  ASSUME FilesInv, NEW r \in Request, NEW f \in Files!File, f \in used, UNCHANGED used,
         \A q \in Request \ {r} : req'[q] = req[q],
         req[r].file = f, req'[r].phase \notin FilesUploads,
         req'[r].phase \in FilesDeletes => req[r].phase \in FilesDeletes,
         req'[r].phase \in FilesCompresses => req[r].phase \in FilesCompresses,
         fileRow'[f] # Nil => fileRow[f] # Nil, racedFiles' = racedFiles,
         interrupted \subseteq interrupted',
         \/ f \in interrupted'
         \/ f \in racedFiles /\ \/ fileRow'[f] = Nil \/ req[r].phase \in FilesCompresses
                                \/ req'[r].file = f /\ req'[r].phase \in FilesDeletes
  PROVE  FilesFileOK(f)'
<1>1. FilesFileOK(f)
  BY DEF FilesInv
<1>2. ASSUME NEW q \in Request, req'[q].file = f, req'[q].phase \in FilesUploads PROVE FALSE
  <2>1. q # r /\ req'[q] = req[q]
    BY <1>2
  <2> QED  BY <1>1, <1>2, <2>1 DEF FilesFileOK, FilesOnlyOn
<1>3. (Files!Deleting(f)' => Files!Deleting(f))
        /\ (Files!Compressing(f)' => Files!Compressing(f))
  BY DEF Files!Deleting, Files!Compressing, FilesDeletes, FilesCompresses
<1>4. f \in racedFiles' \ interrupted' /\ fileRow'[f] # Nil => Files!Deleting(f)'
  <2> SUFFICES ASSUME f \in racedFiles \ interrupted',
                      fileRow'[f] # Nil PROVE Files!Deleting(f)'
    OBVIOUS
  <2>1. PICK q \in Request : req[q].file = f /\ req[q].phase \in FilesDeletes
    BY <1>1 DEF FilesFileOK, Files!Deleting, FilesDeletes
  <2>2. CASE q = r
    BY <2>1, <2>2, FilesPhases DEF Files!Deleting, FilesDeletes
  <2>3. CASE q # r
    BY <2>1, <2>3 DEF Files!Deleting, FilesDeletes
  <2> QED  BY <2>2, <2>3
<1> QED  BY <1>1, <1>2, <1>3, <1>4 DEF FilesFileOK

-----------------------------------------------------------------------------
LEMMA FilesFileAtWork ==
  ASSUME FilesInv, NEW r \in Request, ~ Files!At(r, "idle")
  PROVE  /\ req[r].file \in Files!File /\ req[r].file \in used /\ FilesFileOK(req[r].file)
              /\ FilesJobOK(r)
         /\ req[r] \in FilesJobs
  BY DEF FilesInv, FilesJobOK

LEMMA FilesPutTyped ==
  ASSUME FilesInv, NEW f \in Files!File, NEW n \in Files!Format \cup {"webp"}, Files!Put(f, n)
  PROVE  objects' \subseteq Files!File \X (Files!Format \cup {"webp"})
  BY DEF FilesInv, Files!Put

LEMMA FilesUploadKeeps ==
  ASSUME FilesInv, NEW r \in Request, NEW f \in Files!File,
         NEW d \in Files!Format, Files!Upload(r, f, d)
  PROVE  FilesInv'
<1> DEFINE p == IF f \in Image THEN "web" ELSE "download"
<1>1. p \in FilesUploads /\ p \in Files!Phase /\ Files!Start(r, p, f, Nil, d)
  BY DEF Files!Upload, FilesUploads, Files!Phase
<1>2. /\ Files!At(r, "idle") /\ f \notin used /\ used' = used \cup {f}
      /\ UNCHANGED <<fileRow, objects, interrupted, racedFiles>>
  BY DEF Files!Upload
<1>3. (p = "web" => f \in Image) /\ (p # "web" => p = "download" /\ f \notin Image)
  OBVIOUS
<1> HIDE DEF p
<1>4. /\ req' \in [Request -> FilesJobs] /\ req'[r].phase = p
      /\ req'[r].file = f /\ req'[r].was = Nil /\ req'[r].format = d
      /\ \A q \in Request \ {r} : req'[q] = req[q]
  BY <1>1, FilesStartJob
<1>5. fileRow[f] = Nil /\ FilesOf(f) = {} /\ f \notin racedFiles
        /\ \A q \in Request : req[q].file # f
  BY <1>2 DEF FilesInv, FilesFileOK, Files!Busy
<1>6. FilesOnlyOn(f, r)' /\ req[r].file = Nil
  BY <1>2, <1>4, <1>5 DEF FilesOnlyOn, FilesInv, FilesJobOK
<1>7. FilesJobOK(r)'
  BY <1>1, <1>2, <1>3, <1>4, FilesFormats, FilesPhases DEF FilesJobOK, Files!At
<1>8. FilesOf(f)' = FilesOf(f) /\ \A g \in Files!File \ {f} : FilesOf(g)' = FilesOf(g)
  BY <1>2 DEF FilesOf
<1>9. FilesStepOK(f, r)'
  BY <1>1, <1>3, <1>4, <1>5, <1>8, FilesPhases DEF FilesStepOK, Files!At, FilesUploads,
      FilesCompresses
<1>10. FilesFileOK(f)'
  BY <1>2, <1>4, <1>5, <1>6, <1>7, <1>9, FilesFormats, FilesAloneOK
<1> QED  BY <1>1, <1>2, <1>4, <1>6, <1>7, <1>8, <1>10, FilesPhases, FilesOneFile DEF
             FilesInv

LEMMA FilesPutWebKeeps ==
  ASSUME FilesInv, NEW r \in Request, Files!PutWeb(r)
  PROVE  FilesInv'
<1>a. PICK f \in Files!File : f = req[r].file /\ f \in used /\ FilesFileOK(f)
             /\ FilesJobOK(r) /\ f \in Image
  BY FilesFileAtWork DEF Files!PutWeb, Files!At, FilesJobOK
<1>1. /\ Files!At(r, "web") /\ req[r].phase \in FilesUploads /\ Files!Put(f, "webp")
      /\ UNCHANGED <<fileRow, used, interrupted, racedFiles>>
  BY <1>a DEF Files!PutWeb, Files!At, FilesUploads
<1>2. /\ req' \in [Request -> FilesJobs] /\ req'[r].phase = "download" /\ req'[r].file = f
      /\ req'[r].format = req[r].format
      /\ \A q \in Request \ {r} : req'[q] = req[q]
  BY <1>a, FilesGoJob DEF Files!PutWeb, Files!Phase
<1>3. FilesOnlyOn(f, r) /\ fileRow[f] = Nil /\ f \notin racedFiles
  BY <1>a, <1>1 DEF FilesFileOK
<1>4. FilesOnlyOn(f, r)'
  BY <1>2, <1>3 DEF FilesOnlyOn
<1>5. FilesJobOK(r)'
  BY <1>a, <1>1, <1>2, FilesFormats, FilesPhases DEF FilesJobOK, Files!At,
      FilesUploads, FilesDeletes, FilesCompresses
<1>6. FilesOf(f)' = FilesOf(f) \cup {<<f, "webp">>}
        /\ \A g \in Files!File \ {f} : FilesOf(g)' = FilesOf(g)
  BY <1>1, FilesPutOf
<1>7. ASSUME f \notin interrupted PROVE FilesStepOK(f, r)'
  <2>1. FilesOf(f) = {}
    BY <1>a, <1>1, <1>3, <1>7 DEF FilesFileOK, FilesStepOK
  <2>2. FilesOf(f)' = {<<f, "webp">>}
    BY <1>6, <2>1
  <2> QED  BY <1>a, <1>2, <2>2 DEF FilesStepOK, Files!At, FilesCompresses
<1>8. FilesFileOK(f)'
  BY <1>a, <1>1, <1>2, <1>3, <1>4, <1>5, <1>7, FilesFormats, FilesAloneOK
<1>9. req'[r].phase \notin FilesCompresses
        /\ objects' \subseteq Files!File \X (Files!Format \cup {"webp"})
  BY <1>1, <1>2, FilesPutTyped DEF FilesCompresses
<1> QED  BY <1>a, <1>1, <1>2, <1>5, <1>6, <1>8, <1>9, FilesOneFile DEF FilesInv

LEMMA FilesPutDownloadKeeps ==
  ASSUME FilesInv, NEW r \in Request, Files!PutDownload(r)
  PROVE  FilesInv'
<1>a. PICK f \in Files!File : f = req[r].file /\ f \in used /\ FilesFileOK(f) /\ FilesJobOK(r)
  BY FilesFileAtWork DEF Files!PutDownload, Files!At
<1>b. PICK d \in Files!Format : d = req[r].format
  BY <1>a DEF Files!PutDownload, Files!At, FilesJobOK, FilesUploads
<1>1. /\ Files!At(r, "download") /\ req[r].phase \in FilesUploads /\ Files!Put(f, d)
      /\ UNCHANGED <<fileRow, used, interrupted, racedFiles>>
  BY <1>a, <1>b DEF Files!PutDownload, Files!At, FilesUploads
<1>2. /\ req' \in [Request -> FilesJobs] /\ req'[r].phase = "insert" /\ req'[r].file = f
      /\ req'[r].format = d
      /\ \A q \in Request \ {r} : req'[q] = req[q]
  BY <1>a, <1>b, FilesGoJob DEF Files!PutDownload, Files!Phase
<1>3. FilesOnlyOn(f, r) /\ fileRow[f] = Nil /\ f \notin racedFiles
  BY <1>a, <1>1 DEF FilesFileOK
<1>4. FilesOnlyOn(f, r)'
  BY <1>2, <1>3 DEF FilesOnlyOn
<1>5. FilesJobOK(r)'
  BY <1>a, <1>1, <1>2, FilesFormats, FilesPhases DEF FilesJobOK, Files!At,
      FilesUploads, FilesDeletes, FilesCompresses
<1>6. FilesOf(f)' = FilesOf(f) \cup {<<f, d>>}
        /\ \A g \in Files!File \ {f} : FilesOf(g)' = FilesOf(g)
  BY <1>1, FilesPutOf
<1>7. ASSUME f \notin interrupted PROVE FilesStepOK(f, r)'
  <2>1. FilesOf(f) = IF f \in Image THEN {<<f, "webp">>} ELSE {}
    BY <1>a, <1>1, <1>3, <1>7 DEF FilesFileOK, FilesStepOK
  <2>2. FilesOf(f)' = Files!Named(f, d)
    BY <1>6, <2>1 DEF Files!Named
  <2> QED  BY <1>a, <1>2, <2>2 DEF FilesStepOK, Files!At, FilesCompresses
<1>8. FilesFileOK(f)'
  BY <1>a, <1>1, <1>2, <1>3, <1>4, <1>5, <1>7, FilesFormats, FilesAloneOK
<1>9. req'[r].phase \notin FilesCompresses
        /\ objects' \subseteq Files!File \X (Files!Format \cup {"webp"})
  BY <1>1, <1>2, FilesPutTyped DEF FilesCompresses
<1> QED  BY <1>a, <1>1, <1>2, <1>5, <1>6, <1>8, <1>9, FilesOneFile DEF FilesInv

LEMMA FilesInsertKeeps ==
  ASSUME FilesInv, NEW r \in Request, Files!Insert(r)
  PROVE  FilesInv'
<1>a. PICK f \in Files!File : f = req[r].file /\ f \in used /\ FilesFileOK(f) /\ FilesJobOK(r)
  BY FilesFileAtWork DEF Files!Insert, Files!At
<1>b. PICK d \in Files!Format : d = req[r].format
  BY <1>a DEF Files!Insert, Files!At, FilesJobOK, FilesUploads
<1>1. /\ Files!At(r, "insert") /\ req[r].phase \in FilesUploads
      /\ fileRow' = [fileRow EXCEPT ![f] = d]
      /\ UNCHANGED <<objects, used, interrupted, racedFiles>>
  BY <1>a, <1>b DEF Files!Insert, Files!At, FilesUploads
<1>2. /\ req' \in [Request -> FilesJobs] /\ req'[r].phase = "idle" /\ req'[r].file = Nil
      /\ \A q \in Request \ {r} : req'[q] = req[q]
  BY FilesLeaveJob DEF Files!Insert
<1>3. FilesOnlyOn(f, r) /\ f \notin racedFiles
  BY <1>a, <1>1 DEF FilesFileOK
<1>4. FilesOnlyOn(f, r)' /\ FilesJobOK(r)'
        /\ req'[r].phase \notin FilesUploads \cup FilesCompresses
  BY <1>2, <1>3, FilesPhases DEF FilesOnlyOn, FilesJobOK, Files!At
<1>5. /\ fileRow' \in [Files!File -> Files!Format \cup {Nil}] /\ fileRow'[f] = d
      /\ \A g \in Files!File \ {f} : fileRow'[g] = fileRow[g]
  BY <1>1 DEF FilesInv
<1>6. \A g \in Files!File : FilesOf(g)' = FilesOf(g)
  BY <1>1 DEF FilesOf
<1>7. ASSUME f \notin interrupted PROVE FilesResting(f)'
  <2>1. FilesOf(f) = Files!Named(f, d)
    BY <1>a, <1>b, <1>1, <1>3, <1>7 DEF FilesFileOK, FilesStepOK
  <2> QED  BY <1>5, <1>6, <2>1, FilesFormats DEF FilesResting
<1>8. FilesFileOK(f)'
  BY <1>a, <1>1, <1>2, <1>3, <1>4, <1>7, FilesFormats, FilesAloneOK
<1> QED  BY <1>a, <1>1, <1>2, <1>4, <1>5, <1>6, <1>8, FilesOneFile DEF FilesInv

-----------------------------------------------------------------------------
(* Deletes overlap; nothing else is at work on a file by then.              *)
LEMMA FilesDeletesOnly ==
  ASSUME FilesInv, NEW r \in Request, NEW f \in Files!File, req[r].file = f,
         req[r].phase \in FilesDeletes, f \notin racedFiles,
         NEW q \in Request, req[q].file = f
  PROVE  req[q].phase \in FilesDeletes
<1>1. FilesFileOK(f) /\ req[q] \in FilesJobs /\ ~ Files!At(q, "idle")
  BY FilesFormats DEF FilesInv, FilesJobOK
<1>2. req[q].phase \in FilesUploads \cup FilesDeletes \cup FilesCompresses
  BY <1>1, FilesPhases DEF FilesJobs, Files!At
<1>3. req[q].phase \notin FilesUploads
  BY <1>1, FilesPhases DEF FilesFileOK, FilesOnlyOn
<1>4. req[q].phase \notin FilesCompresses
  BY <1>1 DEF FilesFileOK, Files!Deleting, Files!Compressing, FilesDeletes,
      FilesCompresses
<1> QED  BY <1>2, <1>3, <1>4

LEMMA FilesEmptyOK ==
  ASSUME NEW f \in Files!File, FilesOf(f)' = {}, f \in used', f \notin racedFiles',
         \A q \in Request : req'[q].file = f =>
           req'[q].phase \in FilesDeletes /\ fileRow'[f] \in {req'[q].was, Nil},
         ~ Files!Busy(f)' => fileRow'[f] = Nil
  PROVE  FilesFileOK(f)'
<1>1. \A q \in Request : req'[q].file = f => FilesStepOK(f, q)'
  BY FilesPhases DEF FilesStepOK, Files!At, FilesDeletes
<1>2. ~ Files!Compressing(f)'
  BY FilesPhases DEF Files!Compressing, FilesCompresses
<1>3. \A q \in Request : req'[q].file = f => req'[q].phase \notin FilesUploads
  BY FilesPhases
<1> QED  BY <1>1, <1>2, <1>3 DEF FilesFileOK, FilesResting

LEMMA FilesLoadDeleteKeeps ==
  ASSUME FilesInv, NEW r \in Request, NEW f \in Files!File, Files!LoadDelete(r, f)
  PROVE  FilesInv'
<1>1. /\ Files!At(r, "idle") /\ req[r].file = Nil /\ fileRow[f] # Nil
      /\ fileRow[f] \in Files!Format
      /\ Files!Start(r, "objects", f, fileRow[f], Nil) /\ FilesFileOK(f) /\ f \in used
      /\ racedFiles' = IF Files!Compressing(f) THEN racedFiles \cup {f} ELSE racedFiles
      /\ UNCHANGED <<fileRow, objects, used, interrupted>>
  BY DEF Files!LoadDelete, FilesInv, FilesJobOK, FilesFileOK
<1>2. /\ req' \in [Request -> FilesJobs] /\ req'[r].phase = "objects"
      /\ req'[r].file = f /\ req'[r].was = fileRow[f]
      /\ \A q \in Request \ {r} : req'[q] = req[q]
  <2>1. "objects" \in Files!Phase /\ Nil \in Files!Format \cup {Nil}
    BY DEF Files!Phase
  <2> QED  BY <1>1, <2>1, FilesStartJob
<1>3. \A g \in Files!File : FilesOf(g)' = FilesOf(g)
  BY <1>1 DEF FilesOf
<1>4. req'[r].phase \in FilesDeletes /\ FilesJobOK(r)'
  BY <1>1, <1>2, FilesFormats, FilesPhases DEF FilesJobOK, Files!At, FilesDeletes
<1>5. \A q \in Request : req'[q].file = f => req'[q].phase \notin FilesUploads
  BY <1>1, <1>2, <1>4, FilesPhases DEF FilesFileOK
<1>6. Files!Deleting(f)' /\ Files!Busy(f)'
  BY <1>2 DEF Files!Deleting, Files!Busy
<1>7. ASSUME f \notin interrupted' \cup racedFiles', NEW q \in Request, req'[q].file = f
      PROVE  FilesStepOK(f, q)'
  <2>1. ~ Files!Compressing(f) /\ f \notin interrupted \cup racedFiles
    BY <1>1, <1>7
  <2>2. FilesOf(f) \subseteq Files!Named(f, fileRow[f])
    <3>1. CASE ~ Files!Busy(f)
      BY <1>1, <2>1, <3>1 DEF FilesFileOK, FilesResting
    <3>2. CASE Files!Busy(f)
      <4>1. PICK p \in Request : req[p].file = f
        BY <3>2 DEF Files!Busy
      <4>2. req[p] \in FilesJobs /\ ~ Files!At(p, "idle") /\ FilesStepOK(f, p)
        BY <1>1, <2>1, <4>1, FilesFormats DEF FilesInv, FilesJobOK, FilesFileOK
      <4>3. req[p].phase \in FilesDeletes
        BY <1>1, <2>1, <4>1, <4>2, FilesPhases DEF FilesJobs, Files!At, FilesFileOK,
            Files!Compressing, FilesCompresses
      <4> QED  BY <1>1, <4>2, <4>3 DEF FilesStepOK, Files!At, FilesDeletes
    <3> QED  BY <3>1, <3>2
  <2>3. CASE q = r
    BY <1>1, <1>2, <1>3, <1>4, <2>2, <2>3, FilesPhases DEF FilesStepOK, Files!At
  <2>4. CASE q # r
    <3>1. req'[q] = req[q] /\ FilesStepOK(f, q)
      BY <1>1, <1>2, <1>7, <2>1, <2>4 DEF FilesFileOK
    <3> QED  BY <1>1, <1>3, <3>1 DEF FilesStepOK, Files!At
  <2> QED  BY <2>3, <2>4
<1>8. Files!Compressing(f)' => f \in racedFiles'
  BY <1>1, <1>2, <1>4, FilesPhases DEF Files!Compressing
<1>9. FilesFileOK(f)'
  BY <1>1, <1>5, <1>6, <1>7, <1>8 DEF FilesFileOK
<1> QED  BY <1>1, <1>2, <1>3, <1>4, <1>9, FilesPhases, FilesOneFile DEF FilesInv

LEMMA FilesDeleteObjectsKeeps ==
  ASSUME FilesInv, NEW r \in Request, Files!DeleteObjects(r)
  PROVE  FilesInv'
<1>a. PICK f \in Files!File : f = req[r].file /\ f \in used /\ FilesFileOK(f) /\ FilesJobOK(r)
  BY FilesFileAtWork DEF Files!DeleteObjects, Files!At
<1>b. PICK w \in Files!Format : w = req[r].was
  BY <1>a DEF Files!DeleteObjects, Files!At, FilesJobOK, FilesDeletes
<1>c. PICK gone \in SUBSET Files!Named(f, w) :
        /\ objects' = objects \ gone
        /\ interrupted' = IF gone = Files!Named(f, w) THEN interrupted ELSE interrupted \cup {f}
  BY <1>a, <1>b DEF Files!DeleteObjects
<1>1. /\ Files!At(r, "objects") /\ req[r].phase \in FilesDeletes
      /\ UNCHANGED <<fileRow, used, racedFiles>>
  BY DEF Files!DeleteObjects, Files!At, FilesDeletes
<1>2. /\ req' \in [Request -> FilesJobs] /\ req'[r].phase = "delete" /\ req'[r].file = f
      /\ req'[r].was = w
      /\ \A q \in Request \ {r} : req'[q] = req[q]
  BY <1>a, <1>b, FilesGoJob DEF Files!DeleteObjects, Files!Phase
<1>3. FilesOf(f)' = FilesOf(f) \ gone /\ \A g \in Files!File \ {f} : FilesOf(g)' = FilesOf(g)
  BY <1>c, FilesDropOf
<1>4. req'[r].phase \in FilesDeletes /\ FilesJobOK(r)'
  BY <1>a, <1>1, <1>2, FilesFormats, FilesPhases DEF FilesJobOK, Files!At, FilesDeletes
<1>5. CASE f \in interrupted' \cup racedFiles
  <2>1. FilesFileOK(f)'
    BY <1>a, <1>c, <1>1, <1>2, <1>4, <1>5, FilesPhases, FilesSpoiltOK
  <2> QED  BY <1>a, <1>c, <1>1, <1>2, <1>3, <1>4, <2>1, FilesPhases, FilesOneFile DEF
               FilesInv
<1>6. CASE f \notin interrupted' \cup racedFiles
  <2>1. gone = Files!Named(f, w) /\ f \notin interrupted
    BY <1>c, <1>6
  <2>2. FilesStepOK(f, r)
    BY <1>a, <1>6, <2>1 DEF FilesFileOK
  <2>3. FilesOf(f)' = {}
    BY <1>b, <1>1, <1>3, <2>1, <2>2 DEF FilesStepOK
  <2>4. ASSUME NEW q \in Request, req'[q].file = f
        PROVE  req'[q].phase \in FilesDeletes /\ fileRow'[f] \in {req'[q].was, Nil}
    <3>1. req[q].file = f /\ req'[q].was = req[q].was
      BY <1>a, <1>b, <1>2, <2>4
    <3>2. req[q].phase \in FilesDeletes
      BY <1>a, <1>1, <1>6, <3>1, FilesDeletesOnly
    <3>3. FilesStepOK(f, q)
      BY <1>a, <1>6, <2>1, <3>1 DEF FilesFileOK
    <3> QED  BY <1>1, <1>2, <1>4, <3>1, <3>2, <3>3 DEF FilesStepOK, Files!At,
                 FilesDeletes
  <2>5. Files!Busy(f)'
    BY <1>2 DEF Files!Busy
  <2>6. FilesFileOK(f)'
    BY <1>a, <1>1, <1>6, <2>3, <2>4, <2>5, FilesEmptyOK
  <2> QED  BY <1>a, <1>c, <1>1, <1>2, <1>3, <1>4, <2>6, FilesPhases, FilesOneFile DEF
               FilesInv
<1> QED  BY <1>5, <1>6

LEMMA FilesDeleteRowKeeps ==
  ASSUME FilesInv, NEW r \in Request, Files!DeleteRow(r)
  PROVE  FilesInv'
<1>a. PICK f \in Files!File : f = req[r].file /\ f \in used /\ FilesFileOK(f) /\ FilesJobOK(r)
  BY FilesFileAtWork DEF Files!DeleteRow, Files!At
<1>1. /\ Files!At(r, "delete") /\ req[r].phase \in FilesDeletes
      /\ fileRow' = [fileRow EXCEPT ![f] = Nil]
      /\ UNCHANGED <<objects, used, interrupted, racedFiles>>
  BY <1>a DEF Files!DeleteRow, Files!At, FilesDeletes
<1>2. /\ req' \in [Request -> FilesJobs] /\ req'[r].phase = "idle" /\ req'[r].file = Nil
      /\ \A q \in Request \ {r} : req'[q] = req[q]
  BY FilesLeaveJob DEF Files!DeleteRow
<1>3. \A g \in Files!File : FilesOf(g)' = FilesOf(g)
  BY <1>1 DEF FilesOf
<1>4. FilesJobOK(r)' /\ req'[r].phase \notin FilesUploads \cup FilesDeletes \cup FilesCompresses
  BY <1>2, FilesPhases DEF FilesJobOK, Files!At
<1>5. /\ fileRow' \in [Files!File -> Files!Format \cup {Nil}] /\ fileRow'[f] = Nil
      /\ \A g \in Files!File \ {f} : fileRow'[g] = fileRow[g]
  BY <1>1 DEF FilesInv
<1>6. FilesFileOK(f)'
  <2>1. CASE f \in interrupted \cup racedFiles
    BY <1>a, <1>1, <1>2, <1>4, <1>5, <2>1, FilesSpoiltOK
  <2>2. CASE f \notin interrupted \cup racedFiles
    <3>1. FilesOf(f) = {}
      BY <1>a, <1>1, <2>2 DEF FilesFileOK, FilesStepOK
    <3>2. \A q \in Request : req'[q].file = f => req'[q].phase \in FilesDeletes
      BY <1>a, <1>1, <1>2, <2>2, FilesFormats, FilesDeletesOnly
    <3> QED  BY <1>a, <1>1, <1>3, <1>5, <2>2, <3>1, <3>2, FilesEmptyOK
  <2> QED  BY <2>1, <2>2
<1> QED  BY <1>a, <1>1, <1>2, <1>3, <1>4, <1>5, <1>6, FilesOneFile DEF FilesInv

-----------------------------------------------------------------------------
LEMMA FilesFetchKeeps ==
  ASSUME FilesInv, NEW r \in Request, NEW f \in Files!File,
         NEW d \in Files!Format, Files!Fetch(r, f, d)
  PROVE  FilesInv'
<1>1. /\ Files!At(r, "idle") /\ req[r].file = Nil /\ fileRow[f] # Nil
      /\ fileRow[f] \in Files!Format
      /\ f \in Image /\ \A g \in Files!File : ~ Files!Compressing(g)
      /\ Files!Start(r, "put web", f, fileRow[f], d) /\ FilesFileOK(f) /\ f \in used
      /\ racedFiles' = IF Files!Deleting(f) THEN racedFiles \cup {f} ELSE racedFiles
      /\ UNCHANGED <<fileRow, objects, used, interrupted>>
  BY DEF Files!Fetch, FilesInv, FilesJobOK, FilesFileOK
<1>2. /\ req' \in [Request -> FilesJobs] /\ req'[r].phase = "put web"
      /\ req'[r].file = f /\ req'[r].was = fileRow[f] /\ req'[r].format = d
      /\ \A q \in Request \ {r} : req'[q] = req[q]
  BY <1>1, FilesStartJob DEF Files!Phase
<1>3. \A g \in Files!File : FilesOf(g)' = FilesOf(g)
  BY <1>1 DEF FilesOf
<1>4. req'[r].phase \in FilesCompresses /\ FilesJobOK(r)'
  BY <1>1, <1>2, FilesFormats, FilesPhases DEF FilesJobOK, Files!At, FilesCompresses
<1>5. ASSUME NEW q \in Request PROVE req[q].phase \notin FilesCompresses
  <2> SUFFICES ASSUME req[q].phase \in FilesCompresses PROVE FALSE
    OBVIOUS
  <2>1. req[q].file \in Files!File
    BY FilesPhases DEF FilesInv, FilesJobOK, Files!At
  <2> QED  BY <1>1, <2>1 DEF Files!Compressing, FilesCompresses
<1>6. CASE Files!Deleting(f)
  <2>1. Files!Deleting(f)' /\ f \in racedFiles'
    BY <1>1, <1>2, <1>6, FilesFormats DEF Files!Deleting
  <2>2. \A q \in Request : req'[q].file = f => req'[q].phase \notin FilesUploads
    BY <1>1, <1>2, <1>4, FilesPhases DEF FilesFileOK
  <2>3. FilesFileOK(f)'
    BY <1>1, <2>1, <2>2 DEF FilesFileOK
  <2> QED  BY <1>1, <1>2, <1>3, <1>4, <1>5, <2>3, FilesOneFile DEF FilesInv
<1>7. CASE ~ Files!Deleting(f)
  <2>1. ASSUME NEW q \in Request, req[q].file = f PROVE FALSE
    <3>1. req[q] \in FilesJobs /\ ~ Files!At(q, "idle")
      BY <2>1, FilesFormats DEF FilesInv, FilesJobOK
    <3>2. req[q].phase \in FilesUploads \cup FilesDeletes
      BY <1>5, <3>1, FilesPhases DEF FilesJobs, Files!At
    <3> QED  BY <1>1, <1>7, <2>1, <3>2 DEF FilesFileOK, Files!Deleting, FilesDeletes
  <2>2. FilesOnlyOn(f, r)'
    BY <1>2, <2>1 DEF FilesOnlyOn
  <2>3. f \notin interrupted \cup racedFiles => FilesResting(f)
    BY <1>1, <2>1 DEF FilesFileOK, Files!Busy
  <2>4. f \notin interrupted \cup racedFiles => FilesStepOK(f, r)'
    BY <1>1, <1>2, <1>3, <2>3, FilesPhases DEF FilesStepOK, Files!At, FilesResting
  <2>5. f \notin racedFiles \ interrupted
    BY <1>1, <1>7 DEF FilesFileOK
  <2>6. FilesFileOK(f)'
    BY <1>1, <1>2, <1>4, <1>7, <2>2, <2>4, <2>5, FilesPhases, FilesFormats, FilesAloneOK
  <2> QED  BY <1>1, <1>2, <1>3, <1>4, <1>5, <1>7, <2>6, FilesOneFile DEF FilesInv
<1> QED  BY <1>6, <1>7

(* A step of the script: on an image that a delete has raced with there is  *)
(* nothing to keep, on another it is alone.                                 *)
LEMMA FilesCompressKeeps ==
  ASSUME FilesInv, NEW r \in Request, NEW f \in Files!File, req[r].file = f, f \in used,
         req[r].phase \in FilesCompresses, UNCHANGED <<used, racedFiles>>,
         req' \in [Request -> FilesJobs], \A q \in Request \ {r} : req'[q] = req[q],
         req'[r].file \in {f, Nil}, req'[r].phase \notin FilesUploads \cup FilesDeletes,
         fileRow' \in [Files!File -> Files!Format \cup {Nil}],
         objects' \subseteq Files!File \X (Files!Format \cup {"webp"}),
         interrupted \subseteq interrupted', interrupted' \subseteq interrupted \cup {f},
         \A g \in Files!File \ {f} : fileRow'[g] = fileRow[g] /\ FilesOf(g)' = FilesOf(g),
         fileRow'[f] # Nil => fileRow[f] # Nil,
         FilesJobOK(r)',
         f \notin interrupted' \cup racedFiles =>
           (req'[r].file = f => FilesStepOK(f, r)') /\ (req'[r].file = Nil => FilesResting(f)')
  PROVE  FilesInv'
<1>1. CASE f \in racedFiles
  <2>1. FilesFileOK(f)'
    BY <1>1, FilesSpoiltOK
  <2> QED  BY <2>1, FilesOneFile DEF FilesInv
<1>2. CASE f \notin racedFiles
  <2>1. FilesOnlyOn(f, r)
    BY <1>2, FilesWorksAlone
  <2>2. FilesOnlyOn(f, r)'
    BY <2>1 DEF FilesOnlyOn
  <2>3. FilesFileOK(f)'
    BY <1>2, <2>2, FilesAloneOK
  <2> QED  BY <2>3, FilesOneFile DEF FilesInv
<1> QED  BY <1>1, <1>2

LEMMA FilesCompressFacts ==
  ASSUME FilesInv, NEW r \in Request, req[r].phase \in FilesCompresses
  PROVE  /\ req[r].file \in Files!File /\ req[r].file \in used /\ req[r].file \in Image
         /\ req[r].was \in Files!Format /\ req[r].format \in Files!Format
         /\ req[r].file \notin interrupted \cup racedFiles => FilesStepOK(req[r].file, r)
<1>1. ~ Files!At(r, "idle") /\ FilesJobOK(r)
  BY FilesPhases DEF FilesInv, Files!At
<1> QED  BY <1>1, FilesFileAtWork DEF FilesJobOK, FilesFileOK

LEMMA FilesPutWebAgainKeeps ==
  ASSUME FilesInv, NEW r \in Request, Files!PutWebAgain(r)
  PROVE  FilesInv'
<1>1. /\ Files!At(r, "put web") /\ req[r].phase \in FilesCompresses
      /\ UNCHANGED <<fileRow, used, interrupted, racedFiles>>
  BY DEF Files!PutWebAgain, Files!At, FilesCompresses
<1>a. PICK f \in Files!File : f = req[r].file /\ f \in used /\ f \in Image
  BY <1>1, FilesCompressFacts
<1>b. PICK w \in Files!Format, d \in Files!Format : w = req[r].was /\ d = req[r].format
  BY <1>1, FilesCompressFacts
<1>2. /\ req' \in [Request -> FilesJobs] /\ req'[r].phase = "put download" /\ req'[r].file = f
      /\ req'[r].was = w /\ req'[r].format = d
      /\ \A q \in Request \ {r} : req'[q] = req[q]
  BY <1>a, <1>b, FilesGoJob DEF Files!PutWebAgain, Files!Phase
<1>3. Files!Put(f, "webp")
  BY <1>a DEF Files!PutWebAgain
<1>4. /\ objects' \subseteq Files!File \X (Files!Format \cup {"webp"})
      /\ FilesOf(f)' = FilesOf(f) \cup {<<f, "webp">>}
      /\ \A g \in Files!File \ {f} : FilesOf(g)' = FilesOf(g)
  BY <1>3, FilesPutOf, FilesPutTyped
<1>5. req'[r].phase \in FilesCompresses /\ FilesJobOK(r)'
  BY <1>a, <1>1, <1>2, FilesFormats, FilesPhases DEF FilesJobOK, Files!At,
      FilesCompresses
<1>6. f \notin interrupted \cup racedFiles => FilesStepOK(f, r)'
  <2> SUFFICES ASSUME f \notin interrupted \cup racedFiles PROVE FilesStepOK(f, r)'
    OBVIOUS
  <2>1. FilesOf(f) = Files!Named(f, w) /\ fileRow[f] = w
    BY <1>a, <1>b, <1>1, FilesCompressFacts DEF FilesStepOK
  <2>2. FilesOf(f)' = Files!Named(f, w)
    BY <1>a, <1>4, <2>1 DEF Files!Named
  <2> QED  BY <1>1, <1>2, <2>1, <2>2 DEF FilesStepOK, Files!At
<1> QED  BY <1>a, <1>1, <1>2, <1>4, <1>5, <1>6, FilesPhases, FilesFormats,
             FilesCompressKeeps DEF FilesInv

LEMMA FilesPutDownloadAgainKeeps ==
  ASSUME FilesInv, NEW r \in Request, Files!PutDownloadAgain(r)
  PROVE  FilesInv'
<1>1. /\ Files!At(r, "put download") /\ req[r].phase \in FilesCompresses
      /\ UNCHANGED <<fileRow, used, interrupted, racedFiles>>
  BY DEF Files!PutDownloadAgain, Files!At, FilesCompresses
<1>a. PICK f \in Files!File : f = req[r].file /\ f \in used /\ f \in Image
  BY <1>1, FilesCompressFacts
<1>b. PICK w \in Files!Format, d \in Files!Format : w = req[r].was /\ d = req[r].format
  BY <1>1, FilesCompressFacts
<1>c. PICK p \in {"update", "drop"} : Files!Go(r, p) /\ (p = "update" <=> d = w)
  BY <1>b DEF Files!PutDownloadAgain
<1>2. /\ req' \in [Request -> FilesJobs] /\ req'[r].phase = p /\ req'[r].file = f
      /\ req'[r].was = w /\ req'[r].format = d
      /\ \A q \in Request \ {r} : req'[q] = req[q]
  BY <1>a, <1>b, <1>c, FilesGoJob DEF Files!Phase
<1>3. Files!Put(f, d)
  BY <1>a, <1>b DEF Files!PutDownloadAgain
<1>4. /\ objects' \subseteq Files!File \X (Files!Format \cup {"webp"})
      /\ FilesOf(f)' = FilesOf(f) \cup {<<f, d>>}
      /\ \A g \in Files!File \ {f} : FilesOf(g)' = FilesOf(g)
  BY <1>3, FilesPutOf, FilesPutTyped
<1>5. req'[r].phase \in FilesCompresses /\ FilesJobOK(r)'
  BY <1>a, <1>1, <1>2, FilesFormats, FilesPhases DEF FilesJobOK, Files!At,
      FilesCompresses
<1>6. f \notin interrupted \cup racedFiles => FilesStepOK(f, r)'
  <2> SUFFICES ASSUME f \notin interrupted \cup racedFiles PROVE FilesStepOK(f, r)'
    OBVIOUS
  <2>1. FilesOf(f) = Files!Named(f, w) /\ fileRow[f] = w
    BY <1>a, <1>b, <1>1, FilesCompressFacts DEF FilesStepOK
  <2>2. CASE p = "update"
    <3>1. FilesOf(f)' = Files!Named(f, d)
      BY <1>c, <1>4, <2>1, <2>2 DEF Files!Named
    <3> QED  BY <1>1, <1>2, <2>1, <2>2, <3>1 DEF FilesStepOK, Files!At
  <2>3. CASE p = "drop"
    BY <1>1, <1>2, <1>4, <1>c, <2>1, <2>3 DEF FilesStepOK, Files!At
  <2> QED  BY <2>2, <2>3
<1> QED  BY <1>a, <1>1, <1>2, <1>4, <1>5, <1>6, FilesPhases, FilesFormats,
             FilesCompressKeeps DEF FilesInv

LEMMA FilesDropOldKeeps ==
  ASSUME FilesInv, NEW r \in Request, Files!DropOld(r)
  PROVE  FilesInv'
<1>1. Files!At(r, "drop") /\ req[r].phase \in FilesCompresses /\ UNCHANGED <<fileRow, used,
      racedFiles>>
  BY DEF Files!DropOld, Files!At, FilesCompresses
<1>a. PICK f \in Files!File : f = req[r].file /\ f \in used /\ f \in Image
  BY <1>1, FilesCompressFacts
<1>b. PICK w \in Files!Format, d \in Files!Format : w = req[r].was /\ d = req[r].format
  BY <1>1, FilesCompressFacts
<1>2. /\ req' \in [Request -> FilesJobs] /\ req'[r].phase = "update" /\ req'[r].file = f
      /\ req'[r].was = w /\ req'[r].format = d
      /\ \A q \in Request \ {r} : req'[q] = req[q]
  BY <1>a, <1>b, FilesGoJob DEF Files!DropOld, Files!Phase
<1>3. \/ objects' = objects \ {<<f, w>>} /\ UNCHANGED interrupted
      \/ interrupted' = interrupted \cup {f} /\ UNCHANGED objects
  BY <1>a, <1>b DEF Files!DropOld
<1>5. req'[r].phase \in FilesCompresses /\ FilesJobOK(r)'
  BY <1>a, <1>1, <1>2, FilesFormats, FilesPhases DEF FilesJobOK, Files!At,
      FilesCompresses
<1>6. CASE objects' = objects \ {<<f, w>>} /\ UNCHANGED interrupted
  <2>1. {<<f, w>>} \in SUBSET Files!Named(f, w)
    BY DEF Files!Named
  <2>2. FilesOf(f)' = FilesOf(f) \ {<<f, w>>}
          /\ \A g \in Files!File \ {f} : FilesOf(g)' = FilesOf(g)
    BY <1>6, <2>1, FilesDropOf
  <2>3. ASSUME f \notin interrupted \cup racedFiles PROVE FilesStepOK(f, r)'
    <3>1. FilesOf(f) = Files!Named(f, w) \cup {<<f, d>>} /\ fileRow[f] = w /\ d # w
      BY <1>a, <1>b, <1>1, <2>3, FilesCompressFacts DEF FilesStepOK
    <3>2. FilesOf(f)' = Files!Named(f, d)
      BY <1>a, <2>2, <3>1, FilesFormats DEF Files!Named
    <3> QED  BY <1>1, <1>2, <3>1, <3>2 DEF FilesStepOK, Files!At
  <2>4. objects' \subseteq Files!File \X (Files!Format \cup {"webp"})
    BY <1>6 DEF FilesInv
  <2> QED  BY <1>a, <1>1, <1>2, <1>5, <1>6, <2>2, <2>3, <2>4, FilesPhases,
               FilesFormats, FilesCompressKeeps
           DEF FilesInv
<1>7. CASE interrupted' = interrupted \cup {f} /\ UNCHANGED objects
  <2>1. \A g \in Files!File : FilesOf(g)' = FilesOf(g)
    BY <1>7 DEF FilesOf
  <2> QED  BY <1>a, <1>1, <1>2, <1>5, <1>7, <2>1, FilesPhases, FilesFormats,
               FilesCompressKeeps DEF FilesInv
<1> QED  BY <1>3, <1>6, <1>7

LEMMA FilesUpdateRowKeeps ==
  ASSUME FilesInv, NEW r \in Request, Files!UpdateRow(r)
  PROVE  FilesInv'
<1>1. /\ Files!At(r, "update") /\ req[r].phase \in FilesCompresses
      /\ UNCHANGED <<objects, used, interrupted, racedFiles>>
  BY DEF Files!UpdateRow, Files!At, FilesCompresses
<1>a. PICK f \in Files!File : f = req[r].file /\ f \in used /\ f \in Image
  BY <1>1, FilesCompressFacts
<1>b. PICK w \in Files!Format, d \in Files!Format : w = req[r].was /\ d = req[r].format
  BY <1>1, FilesCompressFacts
<1>2. /\ req' \in [Request -> FilesJobs] /\ req'[r].phase = "idle" /\ req'[r].file = Nil
      /\ \A q \in Request \ {r} : req'[q] = req[q]
  BY FilesLeaveJob DEF Files!UpdateRow
<1>3. fileRow' = [fileRow EXCEPT ![f] = IF fileRow[f] = Nil THEN Nil ELSE d]
  BY <1>a, <1>b DEF Files!UpdateRow
<1>4. /\ fileRow' \in [Files!File -> Files!Format \cup {Nil}]
      /\ fileRow'[f] = IF fileRow[f] = Nil THEN Nil ELSE d
      /\ \A g \in Files!File \ {f} : fileRow'[g] = fileRow[g]
  BY <1>3 DEF FilesInv
<1>5. FilesJobOK(r)' /\ req'[r].phase \notin FilesUploads \cup FilesDeletes
  BY <1>2, FilesPhases DEF FilesJobOK, Files!At
<1>6. \A g \in Files!File : FilesOf(g)' = FilesOf(g)
  BY <1>1 DEF FilesOf
<1>7. ASSUME f \notin interrupted \cup racedFiles PROVE FilesResting(f)'
  <2>1. FilesOf(f) = Files!Named(f, d) /\ fileRow[f] = w
    BY <1>a, <1>b, <1>1, <1>7, FilesCompressFacts DEF FilesStepOK
  <2> QED  BY <1>4, <1>6, <2>1, FilesFormats DEF FilesResting
<1> QED  BY <1>a, <1>1, <1>2, <1>4, <1>5, <1>6, <1>7, FilesFormats, FilesCompressKeeps
             DEF FilesInv

LEMMA FilesFailKeeps ==
  ASSUME FilesInv, NEW r \in Request, Files!Fail(r)
  PROVE  FilesInv'
<1>a. PICK f \in Files!File : f = req[r].file /\ f \in used
  BY FilesFileAtWork DEF Files!Fail
<1>1. interrupted' = interrupted \cup {f} /\ UNCHANGED <<fileRow, objects, used, racedFiles>>
  BY <1>a DEF Files!Fail
<1>2. /\ req' \in [Request -> FilesJobs] /\ req'[r].phase = "idle" /\ req'[r].file = Nil
      /\ \A q \in Request \ {r} : req'[q] = req[q]
  BY FilesLeaveJob DEF Files!Fail
<1>3. FilesJobOK(r)' /\ req'[r].phase \notin FilesUploads \cup FilesDeletes \cup FilesCompresses
  BY <1>2, FilesPhases DEF FilesJobOK, Files!At
<1>4. \A g \in Files!File : FilesOf(g)' = FilesOf(g)
  BY <1>1 DEF FilesOf
<1>5. FilesFileOK(f)'
  BY <1>a, <1>1, <1>2, <1>3, FilesSpoiltOK
<1> QED  BY <1>a, <1>1, <1>2, <1>3, <1>4, <1>5, FilesOneFile DEF FilesInv

LEMMA FilesStep == FilesInv /\ [Files!Next]_(Files!vars) => FilesInv'
<1>1. ASSUME FilesInv, UNCHANGED Files!vars PROVE FilesInv'
  <2>1. UNCHANGED <<fileRow, objects, used, interrupted, racedFiles, req>>
    BY <1>1 DEF Files!vars
  <2>2. \A f \in Files!File : FilesFileOK(f)' <=> FilesFileOK(f)
    BY <2>1 DEF FilesFileOK, FilesResting, FilesStepOK, FilesOnlyOn, Files!Busy,
        Files!Deleting, Files!Compressing, FilesOf, Files!At
  <2>3. \A r \in Request : FilesJobOK(r)' <=> FilesJobOK(r)
    BY <2>1 DEF FilesJobOK, Files!At
  <2> QED  BY <1>1, <2>1, <2>2, <2>3 DEF FilesInv
<1> QED  BY <1>1, FilesUploadKeeps, FilesPutWebKeeps, FilesPutDownloadKeeps,
             FilesInsertKeeps, FilesLoadDeleteKeeps,
            FilesDeleteObjectsKeeps, FilesDeleteRowKeeps, FilesFetchKeeps,
            FilesPutWebAgainKeeps,
            FilesPutDownloadAgainKeeps, FilesDropOldKeeps, FilesUpdateRowKeeps,
            FilesFailKeeps DEF Files!Next

LEMMA FilesPromises == FilesInv => Files!TypeOK /\ Files!RowsAreBacked /\ Files!NoStrays
<1> SUFFICES ASSUME FilesInv PROVE Files!TypeOK /\ Files!RowsAreBacked /\ Files!NoStrays
  OBVIOUS
<1>1. Files!TypeOK
  BY DEF FilesInv, Files!TypeOK, FilesJobs, FilesJobOK
<1>2. ASSUME NEW f \in Files!File \ interrupted, fileRow[f] # Nil, ~ Files!Busy(f)
      PROVE  Files!Named(f, fileRow[f]) \subseteq objects
  <2>1. FilesFileOK(f) /\ ~ Files!Deleting(f)
    BY <1>2 DEF FilesInv, Files!Busy, Files!Deleting
  <2>2. FilesResting(f)
    BY <1>2, <2>1 DEF FilesFileOK
  <2> QED  BY <1>2, <2>2 DEF FilesResting, FilesOf
<1>3. ASSUME NEW o \in objects, o[1] \notin interrupted \cup racedFiles, ~ Files!Busy(o[1])
      PROVE  fileRow[o[1]] # Nil /\ o \in Files!Named(o[1], fileRow[o[1]])
  <2>1. o[1] \in Files!File
    BY DEF FilesInv
  <2>2. FilesResting(o[1])
    BY <1>3, <2>1 DEF FilesInv, FilesFileOK
  <2>3. o \in FilesOf(o[1])
    BY DEF FilesOf
  <2> QED  BY <2>2, <2>3 DEF FilesResting
<1>4. Files!RowsAreBacked
  BY <1>2 DEF Files!RowsAreBacked
<1>5. Files!NoStrays
  BY <1>3 DEF Files!NoStrays
<1> QED  BY <1>1, <1>4, <1>5

-----------------------------------------------------------------------------
(* The owners of a task.  A replacement that no other has overlapped takes  *)
(* away all there are, and while others overlap the owners count as mixed;  *)
(* and an assignee who is not told yet has a request that is going to tell. *)

LEMMA AssignmentAssumed == Assignment!AssignmentAssumption
  BY WorkspaceAssumption

AssignmentSomeone == Person \cup {Nil}

AssignmentJobs ==
  [phase : Assignment!Phase, body : AssignmentSomeone \cup {Keep}, others : (SUBSET Person) \cup {Keep},
                   prev : AssignmentSomeone, seen : AssignmentSomeone, gone : SUBSET Person,
                   alone : BOOLEAN]

AssignmentAtWork(r) ==
  req[r].phase \in {"refresh", "delete", "deleting", "insert", "reload", "notify"}

(* The request that will tell the assignee.                                 *)
AssignmentTeller(r) ==
  /\ AssignmentAtWork(r)
  /\ req[r].body = assignee /\ req[r].body \notin {Nil, Keep, req[r].prev}
  /\ Assignment!At(r, "notify") => req[r].seen = assignee

(* What a replacement under way has to do with the owners, and with others. *)
AssignmentReplaces(r) ==
  Assignment!Replacing(r) =>
    /\ req[r].alone => req[r].gone = owners
    /\ ~ req[r].alone => ownersMixed

AssignmentApart ==
  \A r, q \in Request :
    Assignment!Replacing(r) /\ Assignment!Replacing(q) /\ r # q => ~ req[r].alone

AssignmentInv ==
  /\ assignee \in AssignmentSomeone /\ owners \in SUBSET Person
  /\ {untold, ownersMixed, taskFaults} \subseteq BOOLEAN
  /\ askedOwners \in SUBSET Person
  /\ req \in [Request -> AssignmentJobs]
  /\ \A r \in Request : Assignment!At(r, "delete") \/ Assignment!Replacing(r)
       => req[r].others \in SUBSET Person
  /\ AssignmentApart /\ \A r \in Request : AssignmentReplaces(r)
  /\ ~ ownersMixed => owners = askedOwners
  /\ ~ taskFaults /\ untold => \E r \in Request : AssignmentTeller(r)

LEMMA AssignmentIdleJob == Assignment!Idle \in AssignmentJobs /\ Assignment!Idle.phase = "idle"
  BY DEF Assignment!Idle, AssignmentJobs, Assignment!Phase, AssignmentSomeone

LEMMA AssignmentNewJob ==
  ASSUME NEW b \in AssignmentSomeone \cup {Keep}, NEW o \in (SUBSET Person) \cup {Keep},
         NEW s \in AssignmentSomeone
  PROVE  /\ [Assignment!Idle EXCEPT !.phase = "commit", !.body = b, !.others = o, !.prev = s] \in AssignmentJobs
         /\ [Assignment!Idle EXCEPT !.phase = "commit", !.body = b, !.others = o, !.prev = s].phase = "commit"
<1>1. [Assignment!Idle EXCEPT !.phase = "commit", !.body = b, !.others = o, !.prev = s]
        \in AssignmentJobs
  BY DEF Assignment!Idle, AssignmentJobs, Assignment!Phase, AssignmentSomeone
<1>2. [Assignment!Idle EXCEPT !.phase = "commit", !.body = b, !.others = o, !.prev = s].phase
        = "commit"
  BY DEF Assignment!Idle
<1> QED  BY <1>1, <1>2

(* How a request's record follows from the one it had.                      *)
AssignmentMovedJob(new, j, p) ==
  new \in AssignmentJobs /\ new.phase = p /\ new.body = j.body /\ new.prev = j.prev
AssignmentSeeingJob(new, j, p, s) == AssignmentMovedJob(new, j, p) /\ new.seen = s
AssignmentWantingJob(new, j, p, t) == AssignmentMovedJob(new, j, p) /\ new.others = t
AssignmentTakingJob(new, j, p, t, a) ==
  /\ AssignmentMovedJob(new, j, p) /\ new.others = j.others /\ new.seen = j.seen
  /\ new.gone = t /\ new.alone = a

LEMMA AssignmentMoves ==
  ASSUME NEW j \in AssignmentJobs, NEW p \in Assignment!Phase
  PROVE  AssignmentMovedJob([j EXCEPT !.phase = p], j, p)
<1>1. [j EXCEPT !.phase = p] \in AssignmentJobs
  BY DEF AssignmentJobs
<1>2. [j EXCEPT !.phase = p].phase = p
  BY DEF AssignmentJobs
<1>3. [j EXCEPT !.phase = p].body = j.body
  BY DEF AssignmentJobs
<1>4. [j EXCEPT !.phase = p].prev = j.prev
  BY DEF AssignmentJobs
<1> QED  BY <1>1, <1>2, <1>3, <1>4, Zenon DEF AssignmentMovedJob

LEMMA AssignmentSees ==
  ASSUME NEW j \in AssignmentJobs, NEW p \in Assignment!Phase, NEW s \in AssignmentSomeone
  PROVE  AssignmentSeeingJob([j EXCEPT !.phase = p, !.seen = s], j, p, s)
<1>1. [j EXCEPT !.phase = p, !.seen = s] \in AssignmentJobs
  BY DEF AssignmentJobs
<1>2. [j EXCEPT !.phase = p, !.seen = s].phase = p
  BY DEF AssignmentJobs
<1>3. [j EXCEPT !.phase = p, !.seen = s].body = j.body
  BY DEF AssignmentJobs
<1>4. [j EXCEPT !.phase = p, !.seen = s].prev = j.prev
  BY DEF AssignmentJobs
<1>5. [j EXCEPT !.phase = p, !.seen = s].seen = s
  BY DEF AssignmentJobs
<1> QED  BY <1>1, <1>2, <1>3, <1>4, <1>5, Zenon DEF AssignmentSeeingJob,
             AssignmentMovedJob

LEMMA AssignmentWants ==
  ASSUME NEW j \in AssignmentJobs, NEW p \in Assignment!Phase, NEW t \in SUBSET Person
  PROVE  AssignmentWantingJob([j EXCEPT !.phase = p, !.others = t], j, p, t)
<1>1. [j EXCEPT !.phase = p, !.others = t] \in AssignmentJobs
  BY DEF AssignmentJobs
<1>2. [j EXCEPT !.phase = p, !.others = t].phase = p
  BY DEF AssignmentJobs
<1>3. [j EXCEPT !.phase = p, !.others = t].body = j.body
  BY DEF AssignmentJobs
<1>4. [j EXCEPT !.phase = p, !.others = t].prev = j.prev
  BY DEF AssignmentJobs
<1>5. [j EXCEPT !.phase = p, !.others = t].others = t
  BY DEF AssignmentJobs
<1> QED  BY <1>1, <1>2, <1>3, <1>4, <1>5, Zenon DEF AssignmentWantingJob,
             AssignmentMovedJob

LEMMA AssignmentTakes ==
  ASSUME NEW j \in AssignmentJobs, NEW p \in Assignment!Phase, NEW t \in SUBSET Person,
         NEW a \in BOOLEAN
  PROVE  AssignmentTakingJob([j EXCEPT !.phase = p, !.gone = t, !.alone = a], j, p, t, a)
<1> DEFINE new == [j EXCEPT !.phase = p, !.gone = t, !.alone = a]
<1>1. new \in AssignmentJobs
  BY DEF AssignmentJobs
<1>2. new.phase = p /\ new.body = j.body /\ new.prev = j.prev
  BY DEF AssignmentJobs
<1>3. new.others = j.others /\ new.seen = j.seen
  BY DEF AssignmentJobs
<1>4. new.gone = t /\ new.alone = a
  BY DEF AssignmentJobs
<1> HIDE DEF new
<1>5. AssignmentTakingJob(new, j, p, t, a)
  BY <1>1, <1>2, <1>3, <1>4, Zenon DEF AssignmentTakingJob, AssignmentMovedJob
<1> QED  BY <1>5 DEF new

LEMMA AssignmentPlacesJob ==
  ASSUME NEW j \in AssignmentJobs, NEW p \in Assignment!Phase
  PROVE  AssignmentMovedJob([j EXCEPT !.phase = p, !.gone = {}], j, p)
<1> DEFINE new == [j EXCEPT !.phase = p, !.gone = {}]
<1>1. new \in AssignmentJobs
  BY DEF AssignmentJobs
<1>2. new.phase = p /\ new.body = j.body /\ new.prev = j.prev
  BY DEF AssignmentJobs
<1> HIDE DEF new
<1>3. AssignmentMovedJob(new, j, p)
  BY <1>1, <1>2, Zenon DEF AssignmentMovedJob
<1> QED  BY <1>3 DEF new

(* What a replacement does to the others.                                   *)
LEMMA AssignmentDisturbed ==
  ASSUME NEW j \in AssignmentJobs, NEW g
  PROVE  /\ AssignmentTakingJob([j EXCEPT !.alone = FALSE], j, j.phase, j.gone, FALSE)
         /\ AssignmentTakingJob([j EXCEPT !.gone = j.gone \ g], j, j.phase, j.gone \ g, j.alone)
         /\ AssignmentTakingJob(j, j, j.phase, j.gone, j.alone)
<1> DEFINE one == [j EXCEPT !.alone = FALSE]
           two == [j EXCEPT !.gone = j.gone \ g]
<1>1. one \in AssignmentJobs /\ two \in AssignmentJobs
  BY DEF AssignmentJobs
<1>2. one.phase = j.phase /\ one.body = j.body /\ one.prev = j.prev
  BY DEF AssignmentJobs
<1>3. one.others = j.others /\ one.seen = j.seen /\ one.gone = j.gone /\ one.alone = FALSE
  BY DEF AssignmentJobs
<1>4. two.phase = j.phase /\ two.body = j.body /\ two.prev = j.prev
  BY DEF AssignmentJobs
<1>5. two.others = j.others /\ two.seen = j.seen /\ two.gone = j.gone \ g /\ two.alone = j.alone
  BY DEF AssignmentJobs
<1> HIDE DEF one, two
<1>6. /\ AssignmentTakingJob(one, j, j.phase, j.gone, FALSE)
      /\ AssignmentTakingJob(two, j, j.phase, j.gone \ g, j.alone)
      /\ AssignmentTakingJob(j, j, j.phase, j.gone, j.alone)
  BY <1>1, <1>2, <1>3, <1>4, <1>5, Zenon DEF AssignmentTakingJob, AssignmentMovedJob
<1> QED  BY <1>6 DEF one, two

LEMMA AssignmentInit == Assignment!Init => AssignmentInv
<1> SUFFICES ASSUME Assignment!Init PROVE AssignmentInv
  OBVIOUS
<1>1. req \in [Request -> AssignmentJobs] /\ \A r \in Request : req[r].phase = "idle"
  BY AssignmentIdleJob DEF Assignment!Init
<1> QED  BY <1>1 DEF Assignment!Init, AssignmentInv, Assignment!At, Assignment!Replacing,
             AssignmentApart, AssignmentReplaces, AssignmentSomeone

(* A request moves on and leaves the owners alone; the assignee, once told  *)
(* of by one, still is.                                                     *)
LEMMA AssignmentMoveKeeps ==
  ASSUME AssignmentInv, NEW r \in Request,
         NEW new \in AssignmentJobs, req' = [req EXCEPT ![r] = new],
         assignee' \in AssignmentSomeone, UNCHANGED <<owners, askedOwners, ownersMixed>>,
         {untold', taskFaults'} \subseteq BOOLEAN,
         new.phase \in {"delete", "deleting", "insert"} => new.others \in SUBSET Person,
         new.phase \in {"deleting", "insert"} =>
           Assignment!Replacing(r) /\ new.gone = req[r].gone /\ new.alone = req[r].alone,
         ~ taskFaults' /\ untold' => \E q \in Request : AssignmentTeller(q)'
  PROVE  AssignmentInv'
<1>1. /\ req' \in [Request -> AssignmentJobs] /\ req'[r] = new
      /\ \A q \in Request \ {r} : req'[q] = req[q]
  BY DEF AssignmentInv
<1>2. \A q \in Request : Assignment!At(q, "delete")' \/ Assignment!Replacing(q)'
        => req'[q].others \in SUBSET Person
  BY <1>1 DEF AssignmentInv, Assignment!At, Assignment!Replacing
<1>3. \A q \in Request : Assignment!Replacing(q)' =>
        Assignment!Replacing(q) /\ req'[q].gone = req[q].gone /\ req'[q].alone = req[q].alone
  BY <1>1 DEF Assignment!At, Assignment!Replacing
<1>4. AssignmentApart' /\ \A q \in Request : AssignmentReplaces(q)'
  BY <1>3 DEF AssignmentInv, AssignmentApart, AssignmentReplaces
<1> QED  BY <1>1, <1>2, <1>4 DEF AssignmentInv

(* What another request's replacement leaves of one.                        *)
AssignmentAsBefore(q) == \E t \in SUBSET Person, a \in BOOLEAN :
  AssignmentTakingJob(req'[q], req[q], req[q].phase, t, a)

LEMMA AssignmentTellsStill ==
  ASSUME AssignmentInv, NEW r \in Request, \A q \in Request \ {r} : AssignmentAsBefore(q),
         UNCHANGED assignee, ~ taskFaults', untold', taskFaults = FALSE, untold = TRUE,
         AssignmentTeller(r) => AssignmentTeller(r)'
  PROVE  \E q \in Request : AssignmentTeller(q)'
<1>1. PICK q \in Request : AssignmentTeller(q)
  BY DEF AssignmentInv
<1>2. CASE q = r
  BY <1>1, <1>2
<1>3. CASE q # r
  BY <1>1, <1>3 DEF AssignmentTeller, AssignmentAtWork, Assignment!At, AssignmentAsBefore,
      AssignmentTakingJob, AssignmentMovedJob
<1> QED  BY <1>2, <1>3

LEMMA AssignmentStillTold ==
  ASSUME AssignmentInv, NEW r \in Request, \A q \in Request \ {r} : req'[q] = req[q],
         UNCHANGED assignee, ~ taskFaults', untold', taskFaults = FALSE, untold = TRUE,
         AssignmentTeller(r) => AssignmentTeller(r)'
  PROVE  \E q \in Request : AssignmentTeller(q)'
<1>1. PICK q \in Request : AssignmentTeller(q)
  BY DEF AssignmentInv
<1>2. CASE q = r
  BY <1>1, <1>2
<1>3. CASE q # r
  BY <1>1, <1>3 DEF AssignmentTeller, AssignmentAtWork, Assignment!At
<1> QED  BY <1>2, <1>3

LEMMA AssignmentLoadKeeps ==
  ASSUME AssignmentInv, NEW r \in Request, NEW b \in Person \cup {Nil, Keep},
         NEW o \in Teams \cup {Keep}, Assignment!Load(r, b, o)
  PROVE  AssignmentInv'
<1> DEFINE new == [Assignment!Idle EXCEPT !.phase = "commit", !.body = b, !.others = o, !.prev = assignee]
<1>1. new \in AssignmentJobs /\ new.phase = "commit"
  BY AssignmentNewJob, AssignmentAssumed DEF AssignmentInv,
      Assignment!AssignmentAssumption, AssignmentSomeone
<1>2. /\ req' = [req EXCEPT ![r] = new] /\ Assignment!At(r, "idle")
      /\ UNCHANGED <<assignee, there, untold, owners, askedOwners, ownersMixed, taskFaults>>
  BY DEF Assignment!Load, Assignment!row
<1> HIDE DEF new
<1>3. \A q \in Request \ {r} : req'[q] = req[q]
  BY <1>2 DEF AssignmentInv
<1>4. ~ AssignmentTeller(r)
  BY <1>2 DEF AssignmentTeller, AssignmentAtWork, Assignment!At
<1>5. ~ taskFaults' /\ untold' => \E q \in Request : AssignmentTeller(q)'
  BY <1>2, <1>3, <1>4, AssignmentStillTold DEF AssignmentInv
<1> QED  BY <1>1, <1>2, <1>5, AssignmentMoveKeeps DEF AssignmentInv

LEMMA AssignmentCommitKeeps ==
  ASSUME AssignmentInv, NEW r \in Request, Assignment!CommitRow(r)
  PROVE  AssignmentInv'
<1> DEFINE new == [req[r] EXCEPT !.phase = "refresh"]
<1>1. req[r] \in AssignmentJobs /\ req[r].phase = "commit" /\ "refresh" \in Assignment!Phase
  BY DEF AssignmentInv, Assignment!CommitRow, Assignment!At, Assignment!Phase
<1>2. AssignmentMovedJob(new, req[r], "refresh")
  BY <1>1, AssignmentMoves, Zenon
<1>3. req' = [req EXCEPT ![r] = new] /\ UNCHANGED <<owners, askedOwners, ownersMixed,
      taskFaults>>
  BY DEF Assignment!CommitRow, Assignment!history
<1> HIDE DEF new
<1> USE DEF AssignmentMovedJob, AssignmentSeeingJob, AssignmentWantingJob, AssignmentTakingJob
<1>4. req'[r] = new /\ \A q \in Request \ {r} : req'[q] = req[q]
  BY <1>2, <1>3 DEF AssignmentInv
<1>5. assignee' \in AssignmentSomeone /\ untold' \in BOOLEAN
      /\ (~ taskFaults' /\ untold' => \E q \in Request : AssignmentTeller(q)')
  <2>1. CASE UNCHANGED <<assignee, untold>>
    <3>1. ~ AssignmentTeller(r)
      BY <1>1 DEF AssignmentTeller, AssignmentAtWork
    <3> QED  BY <1>3, <1>4, <2>1, <3>1, AssignmentStillTold DEF AssignmentInv
  <2>2. CASE req[r].body \notin {Keep, req[r].prev} /\ Assignment!Assign(req[r].body)
    <3>1. req[r].body \in AssignmentSomeone
      BY <1>1, <2>2 DEF AssignmentJobs
    <3>2. CASE req[r].body = assignee
      <4>1. UNCHANGED <<assignee, untold>>
        BY <2>2, <3>2 DEF Assignment!Assign
      <4> QED  BY <2>1, <4>1
    <3>3. CASE req[r].body # assignee
      <4>1. assignee' = req[r].body /\ untold' = (req[r].body # Nil)
        BY <2>2, <3>3 DEF Assignment!Assign
      <4>2. req[r].body # Nil => AssignmentTeller(r)'
        BY <1>2, <1>4, <2>2, <4>1 DEF AssignmentTeller, AssignmentAtWork, Assignment!At
      <4> QED  BY <3>1, <4>1, <4>2
    <3> QED  BY <3>2, <3>3
  <2> QED  BY <2>1, <2>2 DEF Assignment!CommitRow
<1> QED  BY <1>2, <1>3, <1>5, AssignmentMoveKeeps DEF AssignmentInv

LEMMA AssignmentRefreshKeeps ==
  ASSUME AssignmentInv, NEW r \in Request, Assignment!Refresh(r)
  PROVE  AssignmentInv'
<1>1. /\ req[r] \in AssignmentJobs /\ req[r].phase = "refresh"
      /\ {"notify", "delete"} \subseteq Assignment!Phase
      /\ UNCHANGED <<assignee, there, untold, owners, ownersMixed, taskFaults>>
      /\ assignee \in AssignmentSomeone
  BY DEF AssignmentInv, Assignment!Refresh, Assignment!At, Assignment!Phase,
      Assignment!row, Assignment!history
<1>2. CASE req[r].others = Keep
  <2> DEFINE new == [req[r] EXCEPT !.phase = "notify", !.seen = assignee]
  <2>1. AssignmentSeeingJob(new, req[r], "notify", assignee)
    BY <1>1, AssignmentSees, Zenon
  <2>2. req' = [req EXCEPT ![r] = new] /\ UNCHANGED askedOwners
    BY <1>2 DEF Assignment!Refresh, Assignment!history
  <2> HIDE DEF new
  <2> USE DEF AssignmentMovedJob, AssignmentSeeingJob, AssignmentWantingJob, AssignmentTakingJob
  <2>3. req'[r] = new /\ \A q \in Request \ {r} : req'[q] = req[q]
    BY <2>1, <2>2 DEF AssignmentInv
  <2>4. AssignmentTeller(r) => AssignmentTeller(r)'
    BY <1>1, <2>1, <2>3 DEF AssignmentTeller, AssignmentAtWork, Assignment!At
  <2>5. ~ taskFaults' /\ untold' => \E q \in Request : AssignmentTeller(q)'
    BY <1>1, <2>3, <2>4, AssignmentStillTold DEF AssignmentInv
  <2> QED  BY <1>1, <2>1, <2>2, <2>5, AssignmentMoveKeeps DEF AssignmentInv
<1>3. CASE req[r].others # Keep
  <2> DEFINE others == req[r].others \ {assignee}
             new == [req[r] EXCEPT !.phase = "delete", !.others = others]
  <2>1. others \in SUBSET Person
    BY <1>1, <1>3 DEF AssignmentJobs
  <2>2. AssignmentWantingJob(new, req[r], "delete", others)
    BY <1>1, <2>1, AssignmentWants, Zenon
  <2>3. req' = [req EXCEPT ![r] = new] /\ UNCHANGED askedOwners
    BY <1>3 DEF Assignment!Refresh, Assignment!history
  <2> HIDE DEF new, others
  <2> USE DEF AssignmentMovedJob, AssignmentSeeingJob, AssignmentWantingJob, AssignmentTakingJob
  <2>4. req'[r] = new /\ \A q \in Request \ {r} : req'[q] = req[q]
    BY <2>2, <2>3 DEF AssignmentInv
  <2>5. AssignmentTeller(r) => AssignmentTeller(r)'
    BY <1>1, <2>2, <2>4 DEF AssignmentTeller, AssignmentAtWork, Assignment!At
  <2>6. ~ taskFaults' /\ untold' => \E q \in Request : AssignmentTeller(q)'
    BY <1>1, <2>4, <2>5, AssignmentStillTold DEF AssignmentInv
  <2> QED  BY <1>1, <2>1, <2>2, <2>3, <2>6, AssignmentMoveKeeps DEF AssignmentInv
<1> QED  BY <1>2, <1>3

LEMMA AssignmentDeleteKeeps ==
  ASSUME AssignmentInv, NEW r \in Request, Assignment!DeleteOwners(r)
  PROVE  AssignmentInv'
<1> DEFINE others == {q \in Request : Assignment!Replacing(q)}
           new == [req[r] EXCEPT !.phase = "deleting", !.gone = owners, !.alone = others = {}]
<1>1. req[r] \in AssignmentJobs /\ req[r].phase = "delete" /\ "deleting" \in Assignment!Phase
        /\ owners \in SUBSET Person /\ (others = {}) \in BOOLEAN /\ r \notin others
  BY DEF AssignmentInv, Assignment!DeleteOwners, Assignment!At, Assignment!Phase,
      Assignment!Replacing
<1>2. AssignmentTakingJob(new, req[r], "deleting", owners, others = {})
  BY <1>1, AssignmentTakes, Zenon
<1>3. /\ req' = [q \in Request |->
           CASE q = r -> new
             [] q \in others -> [req[q] EXCEPT !.alone = FALSE]
             [] OTHER -> req[q]]
      /\ ownersMixed' = (ownersMixed \/ others # {})
      /\ UNCHANGED <<assignee, there, untold, owners, askedOwners, taskFaults>>
  BY DEF Assignment!DeleteOwners, Assignment!row
<1> HIDE DEF new
<1>4. /\ req'[r] = new
      /\ \A q \in Request \ {r} :
           req'[q] = IF q \in others THEN [req[q] EXCEPT !.alone = FALSE] ELSE req[q]
  <2> HIDE DEF others
  <2>1. req'[r] = new
    BY <1>1, <1>3
  <2>2. ASSUME NEW q \in Request \ {r}
        PROVE  req'[q] = IF q \in others THEN [req[q] EXCEPT !.alone = FALSE] ELSE req[q]
    BY <1>3, <2>2
  <2> QED  BY <2>1, <2>2
<1>5. ASSUME NEW q \in Request \ {r}
      PROVE  AssignmentTakingJob(req'[q], req[q], req[q].phase, req[q].gone,
                                 IF q \in others THEN FALSE ELSE req[q].alone)
  BY <1>4, <1>5, AssignmentDisturbed DEF AssignmentInv
<1>6. /\ req' \in [Request -> AssignmentJobs]
      /\ \A q \in Request \ {r} : AssignmentAsBefore(q)
  <2>1. \A q \in Request : req'[q] \in AssignmentJobs
    BY <1>2, <1>4, <1>5 DEF AssignmentTakingJob, AssignmentMovedJob
  <2>2. \A q \in Request : req[q].gone \in SUBSET Person /\ req[q].alone \in BOOLEAN
    BY DEF AssignmentInv, AssignmentJobs
  <2>3. req' \in [Request -> AssignmentJobs]
    BY <1>3, <2>1
  <2> QED  BY <1>5, <2>2, <2>3 DEF AssignmentAsBefore
<1> USE DEF AssignmentTakingJob, AssignmentMovedJob
<1>7. AssignmentTeller(r) => AssignmentTeller(r)'
  BY <1>1, <1>2, <1>3, <1>4 DEF AssignmentTeller, AssignmentAtWork, Assignment!At
<1>8. ~ taskFaults' /\ untold' => \E q \in Request : AssignmentTeller(q)'
  BY <1>3, <1>6, <1>7, AssignmentTellsStill DEF AssignmentInv
<1>9. /\ Assignment!Replacing(r)' /\ req'[r].gone = owners /\ req'[r].alone = (others = {})
      /\ \A q \in Request \ {r} : (Assignment!Replacing(q)' <=> q \in others)
           /\ req'[q].gone = req[q].gone
           /\ req'[q].alone = IF q \in others THEN FALSE ELSE req[q].alone
  BY <1>2, <1>4, <1>5 DEF Assignment!Replacing, Assignment!At
<1>10. AssignmentApart' /\ \A q \in Request : AssignmentReplaces(q)'
  BY <1>3, <1>9 DEF AssignmentApart, AssignmentReplaces
<1>11. \A q \in Request : Assignment!At(q, "delete")' \/ Assignment!Replacing(q)'
         => req'[q].others \in SUBSET Person
  BY <1>1, <1>2, <1>4, <1>5 DEF AssignmentInv, Assignment!At, Assignment!Replacing
<1>12. ownersMixed' \in BOOLEAN /\ (~ ownersMixed' => ~ ownersMixed)
  BY <1>3
<1> HIDE DEF others
<1> QED  BY <1>3, <1>6, <1>8, <1>10, <1>11, <1>12 DEF AssignmentInv

LEMMA AssignmentDeletedKeeps ==
  ASSUME AssignmentInv, NEW r \in Request, Assignment!DeleteDone(r)
  PROVE  AssignmentInv'
<1> DEFINE new == [req[r] EXCEPT !.phase = "insert"]
<1>1. req[r] \in AssignmentJobs /\ req[r].phase = "deleting" /\ "insert" \in Assignment!Phase
        /\ Assignment!Replacing(r) /\ req[r].others \in SUBSET Person
  BY DEF AssignmentInv, Assignment!DeleteDone, Assignment!At, Assignment!Phase,
      Assignment!Replacing
<1>2. AssignmentMovedJob(new, req[r], "insert")
  BY <1>1, AssignmentMoves, Zenon
<1>3. new.others = req[r].others /\ new.gone = req[r].gone /\ new.alone = req[r].alone
  BY <1>1 DEF AssignmentJobs
<1>4. /\ req' = [req EXCEPT ![r] = new]
      /\ UNCHANGED <<assignee, there, untold, owners, askedOwners, ownersMixed, taskFaults>>
  BY DEF Assignment!DeleteDone, Assignment!row, Assignment!history
<1> HIDE DEF new
<1> USE DEF AssignmentMovedJob
<1>5. req'[r] = new /\ \A q \in Request \ {r} : req'[q] = req[q]
  BY <1>4 DEF AssignmentInv
<1>6. AssignmentTeller(r) => AssignmentTeller(r)'
  BY <1>1, <1>2, <1>4, <1>5 DEF AssignmentTeller, AssignmentAtWork, Assignment!At
<1>7. ~ taskFaults' /\ untold' => \E q \in Request : AssignmentTeller(q)'
  BY <1>4, <1>5, <1>6, AssignmentStillTold DEF AssignmentInv
<1> QED  BY <1>1, <1>2, <1>3, <1>4, <1>7, AssignmentMoveKeeps DEF AssignmentInv

(* A request ends and leaves the rows, the notice lost or given.            *)
LEMMA AssignmentEndKeeps ==
  ASSUME AssignmentInv, NEW r \in Request, Assignment!Leave(r),
         UNCHANGED <<assignee, owners, askedOwners, ownersMixed>>, taskFaults' \in BOOLEAN,
         untold' \in BOOLEAN,
         taskFaults => taskFaults', untold' => untold,
         AssignmentTeller(r) => taskFaults' \/ ~ untold'
  PROVE  AssignmentInv'
<1>1. req' = [req EXCEPT ![r] = Assignment!Idle] /\ \A q \in Request \ {r} : req'[q] = req[q]
  BY DEF Assignment!Leave, AssignmentInv
<1>2. ~ taskFaults' /\ untold' => \E q \in Request : AssignmentTeller(q)'
  BY <1>1, AssignmentStillTold DEF AssignmentInv
<1> QED  BY <1>1, <1>2, AssignmentIdleJob, AssignmentMoveKeeps DEF AssignmentInv

LEMMA AssignmentInsertKeeps ==
  ASSUME AssignmentInv, NEW r \in Request, Assignment!InsertOwners(r)
  PROVE  AssignmentInv'
<1> DEFINE left == owners \ req[r].gone
           new == [req[r] EXCEPT !.phase = "reload", !.gone = {}]
<1>1. /\ req[r] \in AssignmentJobs /\ req[r].phase = "insert" /\ Assignment!Replacing(r)
      /\ "reload" \in Assignment!Phase /\ req[r].others \in SUBSET Person
      /\ UNCHANGED <<assignee, there, untold>>
  BY DEF AssignmentInv, Assignment!InsertOwners, Assignment!At, Assignment!Phase,
      Assignment!Replacing, Assignment!row
<1>2. CASE left \cap req[r].others # {}
  BY <1>1, <1>2, AssignmentEndKeeps DEF Assignment!InsertOwners, AssignmentInv
<1>3. CASE left \cap req[r].others = {}
  <2>1. AssignmentMovedJob(new, req[r], "reload")
    BY <1>1, AssignmentPlacesJob, Zenon
  <2>2. /\ req' = [q \in Request |->
              IF q = r THEN new ELSE [req[q] EXCEPT !.gone = req[q].gone \ req[r].gone]]
        /\ owners' = left \cup req[r].others /\ askedOwners' = req[r].others
        /\ ownersMixed' = (ownersMixed /\ ~ req[r].alone)
        /\ UNCHANGED taskFaults
    BY <1>3 DEF Assignment!InsertOwners
  <2> HIDE DEF new
  <2>3. /\ req'[r] = new
        /\ \A q \in Request \ {r} :
             req'[q] = [req[q] EXCEPT !.gone = req[q].gone \ req[r].gone]
    BY <2>2
  <2>4. ASSUME NEW q \in Request \ {r}
        PROVE  AssignmentTakingJob(req'[q], req[q], req[q].phase,
                                   req[q].gone \ req[r].gone, req[q].alone)
    <3>1. req[q] \in AssignmentJobs
      BY DEF AssignmentInv
    <3>2. AssignmentTakingJob([req[q] EXCEPT !.gone = req[q].gone \ req[r].gone], req[q],
                              req[q].phase, req[q].gone \ req[r].gone, req[q].alone)
      BY <3>1, AssignmentDisturbed, Zenon
    <3> QED  BY <2>3, <3>2
  <2>5. /\ req' \in [Request -> AssignmentJobs]
        /\ \A q \in Request \ {r} : AssignmentAsBefore(q)
    <3>1. \A q \in Request : req'[q] \in AssignmentJobs
      BY <2>1, <2>3, <2>4 DEF AssignmentTakingJob, AssignmentMovedJob
    <3>2. \A q \in Request : req[q].gone \in SUBSET Person /\ req[q].alone \in BOOLEAN
      BY DEF AssignmentInv, AssignmentJobs
    <3>3. \A q \in Request : req[q].gone \ req[r].gone \in SUBSET Person
      BY <3>2
    <3>4. req' \in [Request -> AssignmentJobs]
      BY <2>2, <3>1
    <3> QED  BY <2>4, <3>2, <3>3, <3>4 DEF AssignmentAsBefore
  <2> USE DEF AssignmentMovedJob, AssignmentTakingJob
  <2>6. AssignmentTeller(r) => AssignmentTeller(r)'
    BY <1>1, <2>1, <2>3 DEF AssignmentTeller, AssignmentAtWork, Assignment!At
  <2>7. ~ taskFaults' /\ untold' => \E q \in Request : AssignmentTeller(q)'
    BY <1>1, <2>2, <2>5, <2>6, AssignmentTellsStill DEF AssignmentInv
  <2>8. owners' \in SUBSET Person /\ askedOwners' \in SUBSET Person
    BY <1>1, <2>2 DEF AssignmentInv
  <2>9. ~ Assignment!Replacing(r)' /\ \A q \in Request \ {r} :
          /\ Assignment!Replacing(q)' <=> Assignment!Replacing(q)
          /\ req'[q].alone = req[q].alone /\ req'[q].others = req[q].others
    BY <2>1, <2>3, <2>4 DEF Assignment!Replacing, Assignment!At
  <2>10. AssignmentApart'
    BY <2>9 DEF AssignmentInv, AssignmentApart
  <2>11. ASSUME NEW q \in Request PROVE AssignmentReplaces(q)'
    <3> SUFFICES ASSUME q # r, Assignment!Replacing(q) PROVE ~ req[q].alone /\ ownersMixed'
      BY <2>9 DEF AssignmentReplaces
    <3> QED  BY <1>1, <2>2 DEF AssignmentInv, AssignmentApart, AssignmentReplaces
  <2>12. \A q \in Request : Assignment!At(q, "delete")' \/ Assignment!Replacing(q)'
           => req'[q].others \in SUBSET Person
    BY <2>1, <2>3, <2>4, <2>9 DEF AssignmentInv, Assignment!At
  <2>13. ownersMixed' \in BOOLEAN /\ (~ ownersMixed' => owners' = askedOwners')
    <3>1. ~ ownersMixed' => req[r].gone = owners
      BY <1>1, <2>2 DEF AssignmentInv, AssignmentReplaces
    <3> QED  BY <2>2, <3>1
  <2> HIDE DEF left
  <2> QED  BY <1>1, <2>2, <2>5, <2>7, <2>8, <2>10, <2>11, <2>12, <2>13 DEF AssignmentInv
<1> QED  BY <1>2, <1>3

LEMMA AssignmentReloadKeeps ==
  ASSUME AssignmentInv, NEW r \in Request, Assignment!Reload(r)
  PROVE  AssignmentInv'
<1> DEFINE new == [req[r] EXCEPT !.phase = "notify", !.seen = assignee]
<1>1. req[r] \in AssignmentJobs /\ req[r].phase = "reload" /\ "notify" \in Assignment!Phase
        /\ assignee \in AssignmentSomeone
  BY DEF AssignmentInv, Assignment!Reload, Assignment!At, Assignment!Phase
<1>2. AssignmentSeeingJob(new, req[r], "notify", assignee)
  BY <1>1, AssignmentSees, Zenon
<1>3. /\ req' = [req EXCEPT ![r] = new]
      /\ UNCHANGED <<assignee, there, untold, owners, askedOwners, ownersMixed, taskFaults>>
  BY DEF Assignment!Reload, Assignment!row, Assignment!history
<1> HIDE DEF new
<1> USE DEF AssignmentMovedJob, AssignmentSeeingJob, AssignmentWantingJob, AssignmentTakingJob
<1>4. req'[r] = new /\ \A q \in Request \ {r} : req'[q] = req[q]
  BY <1>2, <1>3 DEF AssignmentInv
<1>5. AssignmentTeller(r) => AssignmentTeller(r)'
  BY <1>1, <1>2, <1>3, <1>4 DEF AssignmentTeller, AssignmentAtWork, Assignment!At
<1>6. ~ taskFaults' /\ untold' => \E q \in Request : AssignmentTeller(q)'
  BY <1>3, <1>4, <1>5, AssignmentStillTold DEF AssignmentInv
<1> QED  BY <1>2, <1>3, <1>6, AssignmentMoveKeeps DEF AssignmentInv

LEMMA AssignmentNotifyKeeps ==
  ASSUME AssignmentInv, NEW r \in Request, Assignment!Notify(r)
  PROVE  AssignmentInv'
<1> DEFINE reassigned == req[r].body # Keep /\ req[r].seen \notin {Nil, req[r].prev}
<1>1. /\ Assignment!Leave(r) /\ UNCHANGED <<assignee, owners, askedOwners, ownersMixed>>
      /\ \/ untold' = (untold /\ ~ (reassigned /\ req[r].seen = assignee))
              /\ UNCHANGED taskFaults
         \/ reassigned /\ taskFaults' = TRUE /\ UNCHANGED untold
  BY DEF Assignment!Notify
<1>2. AssignmentTeller(r) => reassigned /\ req[r].seen = assignee
  BY DEF Assignment!Notify, AssignmentTeller
<1> HIDE DEF reassigned
<1>3. CASE untold' = (untold /\ ~ (reassigned /\ req[r].seen = assignee))
             /\ UNCHANGED taskFaults
  <2>1. untold' \in BOOLEAN /\ (untold' => untold) /\ (AssignmentTeller(r) => ~ untold')
    BY <1>2, <1>3
  <2>2. taskFaults' \in BOOLEAN /\ (taskFaults => taskFaults')
    BY <1>3 DEF AssignmentInv
  <2> QED  BY <1>1, <2>1, <2>2, AssignmentEndKeeps
<1>4. CASE taskFaults' = TRUE /\ UNCHANGED untold
  BY <1>1, <1>4, AssignmentEndKeeps DEF AssignmentInv
<1> QED  BY <1>1, <1>3, <1>4

LEMMA AssignmentStep == AssignmentInv /\ [Assignment!Next]_(Assignment!vars) => AssignmentInv'
<1> SUFFICES ASSUME AssignmentInv, [Assignment!Next]_(Assignment!vars) PROVE AssignmentInv'
  OBVIOUS
<1>1. ASSUME NEW r \in Request, NEW b \in Person \cup {Nil, Keep}, NEW o \in Teams \cup {Keep},
             Assignment!Load(r, b, o)
      PROVE  AssignmentInv'
  BY <1>1, AssignmentLoadKeeps
<1>2. ASSUME NEW r \in Request, Assignment!CommitRow(r) PROVE AssignmentInv'
  BY <1>2, AssignmentCommitKeeps
<1>3. ASSUME NEW r \in Request, Assignment!Refresh(r) PROVE AssignmentInv'
  BY <1>3, AssignmentRefreshKeeps
<1>4. ASSUME NEW r \in Request, Assignment!DeleteOwners(r) PROVE AssignmentInv'
  BY <1>4, AssignmentDeleteKeeps
<1>5. ASSUME NEW r \in Request, Assignment!InsertOwners(r) PROVE AssignmentInv'
  BY <1>5, AssignmentInsertKeeps
<1>6. ASSUME NEW r \in Request, Assignment!Reload(r) PROVE AssignmentInv'
  BY <1>6, AssignmentReloadKeeps
<1>7. ASSUME NEW r \in Request, Assignment!Notify(r) PROVE AssignmentInv'
  BY <1>7, AssignmentNotifyKeeps
<1>8. ASSUME NEW r \in Request, Assignment!Die(r) PROVE AssignmentInv'
  BY <1>8, AssignmentEndKeeps DEF Assignment!Die, Assignment!row, AssignmentInv
<1>9. ASSUME NEW r \in Request, Assignment!DeleteDone(r) PROVE AssignmentInv'
  BY <1>9, AssignmentDeletedKeeps
<1>10. CASE UNCHANGED Assignment!vars
  BY <1>10 DEF Assignment!vars, AssignmentInv, AssignmentTeller, AssignmentAtWork,
      Assignment!At, Assignment!Replacing, AssignmentApart, AssignmentReplaces
<1> QED  BY <1>1, <1>2, <1>3, <1>4, <1>5, <1>6, <1>7, <1>8, <1>9, <1>10 DEF Assignment!Next

LEMMA AssignmentPromises == AssignmentInv
  => Assignment!TypeOK /\ Assignment!AssigneeTold /\ Assignment!OwnersOfLastRequest
<1> SUFFICES ASSUME AssignmentInv PROVE Assignment!TypeOK /\ Assignment!AssigneeTold
                      /\ Assignment!OwnersOfLastRequest
  OBVIOUS
<1>1. Assignment!TypeOK
  BY DEF AssignmentInv, Assignment!TypeOK, AssignmentJobs, AssignmentSomeone
<1>2. Assignment!AssigneeTold
  BY DEF AssignmentInv, Assignment!AssigneeTold, AssignmentTeller, AssignmentAtWork,
      Assignment!At
<1> QED  BY <1>1, <1>2 DEF AssignmentInv, Assignment!OwnersOfLastRequest

-----------------------------------------------------------------------------
(* Who may do what.  The tables are finite: the lemmas compare the          *)
(* catalogue, the tools and the routes of each feature name by name.        *)

LEMMA AccessAssumed == Access!AccessAssumption
  BY WorkspaceAssumption

(* The catalogue has every tool of the table, with the scope of the tool.   *)
AccessListed(tools) == \A t \in tools : [name |-> t.name, scope |-> t.scope] \in Access!CATALOG

(* A tool and a route of one name ask for one scope and have one effect.    *)
AccessPaired(tools, routes) ==
  \A t \in tools, r \in routes : t.name = r.name => t.scope = r.scope /\ t.effect = r.effect

(* What is not left alone is seen, and asks for a scope of module m or one  *)
(* of the others; a change asks for the write scope.                        *)
AccessGuarded(tools, m, others) ==
  \A t \in tools : t.effect # "other" =>
    /\ t.scope \in {Access!ReadOf(m), Access!WriteOf(m)} \cup others
    /\ t.effect \notin {"list", "get"} => t.scope \in {Access!WriteOf(m)} \cup others

LEMMA AccessCatalogOnce == \A c, e \in Access!CATALOG : c.name = e.name => c.scope = e.scope
  BY DEF Access!CATALOG, Access!MemberEntries, Access!FinanceEntries,
      Access!EventEntries, Access!LineUpEntries, Access!PartnerEntries,
      Access!LinkEntries, Access!ScanEntries, Access!ProjectEntries,
      Access!TaskEntries, Access!MeetingEntries, Access!DocumentEntries,
      Access!SponsorEntries, Access!PipelineEntries, Access!PeopleEntries,
      Access!MediaEntries, Access!Both, Access!Entries

LEMMA AccessMemberTable ==
  /\ AccessListed(Access!MemberTools) /\ AccessPaired(Access!MemberTools, Access!MemberRoutes)
  /\ AccessGuarded(Access!MemberTools \cup Access!MemberRoutes, "members", {})
<1>1. \A t \in Access!MemberTools :
        [name |-> t.name, scope |-> t.scope] \in Access!MemberEntries
  BY DEF Access!MemberTools, Access!Gate, Access!MemberEntries, Access!Both,
      Access!Entries, Access!Read, Access!Write, Access!Coarse, Access!ReadOf,
      Access!WriteOf
<1>2. AccessPaired(Access!MemberTools, Access!MemberRoutes)
  BY DEF AccessPaired, Access!MemberTools, Access!MemberRoutes, Access!Gate,
      Access!Read, Access!Write, Access!Coarse, Access!ReadOf, Access!WriteOf
<1>3. AccessGuarded(Access!MemberTools \cup Access!MemberRoutes, "members", {})
  BY DEF AccessGuarded, Access!MemberTools, Access!MemberRoutes, Access!Gate,
      Access!Read, Access!Write, Access!Coarse, Access!ReadOf, Access!WriteOf
<1> QED  BY <1>1, <1>2, <1>3 DEF AccessListed, Access!CATALOG

LEMMA AccessFinanceTable ==
  /\ AccessListed(Access!FinanceTools)
  /\ AccessPaired(Access!FinanceTools, Access!FinanceRoutes)
  /\ AccessGuarded(Access!FinanceTools \cup Access!FinanceRoutes, "finance", {})
<1>1. \A t \in Access!FinanceTools :
        [name |-> t.name, scope |-> t.scope] \in Access!FinanceEntries
  BY DEF Access!FinanceTools, Access!Gate, Access!FinanceEntries, Access!Both,
      Access!Entries, Access!Read, Access!Write, Access!Coarse, Access!ReadOf,
      Access!WriteOf
<1>2. AccessPaired(Access!FinanceTools, Access!FinanceRoutes)
  BY DEF AccessPaired, Access!FinanceTools, Access!FinanceRoutes, Access!Gate,
      Access!Read, Access!Write, Access!Coarse, Access!ReadOf, Access!WriteOf
<1>3. AccessGuarded(Access!FinanceTools \cup Access!FinanceRoutes, "finance", {})
  BY DEF AccessGuarded, Access!FinanceTools, Access!FinanceRoutes, Access!Gate,
      Access!Read, Access!Write, Access!Coarse, Access!ReadOf, Access!WriteOf
<1> QED  BY <1>1, <1>2, <1>3 DEF AccessListed, Access!CATALOG

LEMMA AccessEventTable ==
  /\ AccessListed(Access!EventTools) /\ AccessPaired(Access!EventTools, Access!EventRoutes)
  /\ AccessGuarded(Access!EventTools \cup Access!EventRoutes, Access!NoModule, {})
<1>1. \A t \in Access!EventTools : [name |-> t.name, scope |-> t.scope] \in Access!EventEntries
  BY DEF Access!EventTools, Access!Gate, Access!SoftDeleted, Access!EventEntries,
      Access!Both, Access!Entries, Access!Read, Access!Write, Access!Coarse,
      Access!ReadOf, Access!WriteOf
<1>2. AccessPaired(Access!EventTools, Access!EventRoutes)
  BY DEF AccessPaired, Access!EventTools, Access!EventRoutes, Access!Gate,
      Access!SoftDeleted, Access!Read, Access!Write, Access!Coarse, Access!ReadOf,
      Access!WriteOf
<1>3. AccessGuarded(Access!EventTools \cup Access!EventRoutes, Access!NoModule, {})
  BY DEF AccessGuarded, Access!EventTools, Access!EventRoutes, Access!Gate,
      Access!SoftDeleted, Access!Read, Access!Write, Access!Coarse, Access!ReadOf,
      Access!WriteOf
<1> QED  BY <1>1, <1>2, <1>3 DEF AccessListed, Access!CATALOG

LEMMA AccessReviewTable ==
  /\ AccessListed(Access!ReviewTools) /\ AccessPaired(Access!ReviewTools, Access!ReviewRoutes)
  /\ AccessGuarded(Access!ReviewTools \cup Access!ReviewRoutes, Access!NoModule, {})
<1>1. \A t \in Access!ReviewTools : [name |-> t.name, scope |-> t.scope] \in Access!EventEntries
  BY DEF Access!ReviewTools, Access!Gate, Access!EventEntries, Access!Both,
      Access!Entries, Access!Read, Access!Write, Access!Coarse, Access!ReadOf,
      Access!WriteOf
<1>2. AccessPaired(Access!ReviewTools, Access!ReviewRoutes)
  BY DEF AccessPaired, Access!ReviewTools, Access!ReviewRoutes, Access!Gate,
      Access!Read, Access!Write, Access!Coarse, Access!ReadOf, Access!WriteOf
<1>3. AccessGuarded(Access!ReviewTools \cup Access!ReviewRoutes, Access!NoModule, {})
  BY DEF AccessGuarded, Access!ReviewTools, Access!ReviewRoutes, Access!Gate,
      Access!Read, Access!Write, Access!Coarse, Access!ReadOf, Access!WriteOf
<1> QED  BY <1>1, <1>2, <1>3 DEF AccessListed, Access!CATALOG

LEMMA AccessSpeakerTable ==
  /\ AccessListed(Access!SpeakerTools)
  /\ AccessPaired(Access!SpeakerTools, Access!SpeakerRoutes)
  /\ AccessGuarded(Access!SpeakerTools \cup Access!SpeakerRoutes, Access!NoModule, {})
<1>1. \A t \in Access!SpeakerTools :
        [name |-> t.name, scope |-> t.scope] \in Access!LineUpEntries
  BY DEF Access!SpeakerTools, Access!Gate, Access!LineUpEntries, Access!Both,
      Access!Entries, Access!Read, Access!Write, Access!Coarse, Access!ReadOf,
      Access!WriteOf
<1>2. AccessPaired(Access!SpeakerTools, Access!SpeakerRoutes)
  BY DEF AccessPaired, Access!SpeakerTools, Access!SpeakerRoutes, Access!Gate,
      Access!Read, Access!Write, Access!Coarse, Access!ReadOf, Access!WriteOf
<1>3. AccessGuarded(Access!SpeakerTools \cup Access!SpeakerRoutes, Access!NoModule, {})
  BY DEF AccessGuarded, Access!SpeakerTools, Access!SpeakerRoutes, Access!Gate,
      Access!Read, Access!Write, Access!Coarse, Access!ReadOf, Access!WriteOf
<1> QED  BY <1>1, <1>2, <1>3 DEF AccessListed, Access!CATALOG

LEMMA AccessLineUpTable ==
  /\ AccessListed(Access!LineUpTools) /\ AccessPaired(Access!LineUpTools, Access!LineUpRoutes)
  /\ AccessGuarded(Access!LineUpTools \cup Access!LineUpRoutes, Access!NoModule, {})
<1>1. \A t \in Access!LineUpTools :
        [name |-> t.name, scope |-> t.scope] \in Access!LineUpEntries
  BY DEF Access!LineUpTools, Access!Gate, Access!LineUpEntries, Access!Both,
      Access!Entries, Access!Read, Access!Write, Access!Coarse, Access!ReadOf,
      Access!WriteOf
<1>2. AccessPaired(Access!LineUpTools, Access!LineUpRoutes)
  BY DEF AccessPaired, Access!LineUpTools, Access!LineUpRoutes, Access!Gate,
      Access!Read, Access!Write, Access!Coarse, Access!ReadOf, Access!WriteOf
<1>3. AccessGuarded(Access!LineUpTools \cup Access!LineUpRoutes, Access!NoModule, {})
  BY DEF AccessGuarded, Access!LineUpTools, Access!LineUpRoutes, Access!Gate,
      Access!Read, Access!Write, Access!Coarse, Access!ReadOf, Access!WriteOf
<1> QED  BY <1>1, <1>2, <1>3 DEF AccessListed, Access!CATALOG

LEMMA AccessConnectionTable ==
  /\ AccessListed(Access!ConnectionTools)
  /\ AccessPaired(Access!ConnectionTools, Access!ConnectionRoutes)
  /\ AccessGuarded(Access!ConnectionTools \cup Access!ConnectionRoutes, Access!NoModule, {})
<1>1. \A t \in Access!ConnectionTools :
        [name |-> t.name, scope |-> t.scope] \in Access!LineUpEntries
  BY DEF Access!ConnectionTools, Access!Gate, Access!LineUpEntries, Access!Both,
      Access!Entries, Access!Read, Access!Write, Access!Coarse, Access!ReadOf,
      Access!WriteOf
<1>2. AccessPaired(Access!ConnectionTools, Access!ConnectionRoutes)
  BY DEF AccessPaired, Access!ConnectionTools, Access!ConnectionRoutes, Access!Gate,
      Access!Read, Access!Write, Access!Coarse, Access!ReadOf, Access!WriteOf
<1>3. AccessGuarded(Access!ConnectionTools \cup Access!ConnectionRoutes,
                    Access!NoModule, {})
  BY DEF AccessGuarded, Access!ConnectionTools, Access!ConnectionRoutes, Access!Gate,
      Access!Read, Access!Write, Access!Coarse, Access!ReadOf, Access!WriteOf
<1> QED  BY <1>1, <1>2, <1>3 DEF AccessListed, Access!CATALOG

LEMMA AccessPartnerTable ==
  /\ AccessListed(Access!PartnerTools)
  /\ AccessPaired(Access!PartnerTools, Access!PartnerRoutes)
  /\ AccessGuarded(Access!PartnerTools \cup Access!PartnerRoutes, Access!NoModule, {})
<1>1. \A t \in Access!PartnerTools :
        [name |-> t.name, scope |-> t.scope] \in Access!PartnerEntries
  BY DEF Access!PartnerTools, Access!Gate, Access!SoftDeleted, Access!PartnerEntries,
      Access!Both, Access!Entries, Access!Read, Access!Write, Access!Coarse,
      Access!ReadOf, Access!WriteOf
<1>2. AccessPaired(Access!PartnerTools, Access!PartnerRoutes)
  BY DEF AccessPaired, Access!PartnerTools, Access!PartnerRoutes, Access!Gate,
      Access!SoftDeleted, Access!Read, Access!Write, Access!Coarse, Access!ReadOf,
      Access!WriteOf
<1>3. AccessGuarded(Access!PartnerTools \cup Access!PartnerRoutes, Access!NoModule, {})
  BY DEF AccessGuarded, Access!PartnerTools, Access!PartnerRoutes, Access!Gate,
      Access!SoftDeleted, Access!Read, Access!Write, Access!Coarse, Access!ReadOf,
      Access!WriteOf
<1> QED  BY <1>1, <1>2, <1>3 DEF AccessListed, Access!CATALOG

LEMMA AccessLinkTable ==
  /\ AccessListed(Access!LinkTools) /\ AccessPaired(Access!LinkTools, Access!LinkRoutes)
  /\ AccessGuarded(Access!LinkTools \cup Access!LinkRoutes, Access!NoModule, {})
<1>1. \A t \in Access!LinkTools : [name |-> t.name, scope |-> t.scope] \in Access!LinkEntries
  BY DEF Access!LinkTools, Access!Gate, Access!SoftDeleted, Access!LinkEntries,
      Access!Both, Access!Entries, Access!Read, Access!Write, Access!Coarse,
      Access!ReadOf, Access!WriteOf
<1>2. AccessPaired(Access!LinkTools, Access!LinkRoutes)
  BY DEF AccessPaired, Access!LinkTools, Access!LinkRoutes, Access!Gate,
      Access!SoftDeleted, Access!Read, Access!Write, Access!Coarse, Access!ReadOf,
      Access!WriteOf
<1>3. AccessGuarded(Access!LinkTools \cup Access!LinkRoutes, Access!NoModule, {})
  BY DEF AccessGuarded, Access!LinkTools, Access!LinkRoutes, Access!Gate,
      Access!SoftDeleted, Access!Read, Access!Write, Access!Coarse, Access!ReadOf,
      Access!WriteOf
<1> QED  BY <1>1, <1>2, <1>3 DEF AccessListed, Access!CATALOG

LEMMA AccessLinkProfileTable ==
  /\ AccessListed(Access!LinkProfileTools)
  /\ AccessPaired(Access!LinkProfileTools, Access!LinkProfileRoutes)
  /\ AccessGuarded(Access!LinkProfileTools \cup Access!LinkProfileRoutes,
                   Access!NoModule, {})
<1>1. \A t \in Access!LinkProfileTools :
        [name |-> t.name, scope |-> t.scope] \in Access!LinkEntries
  BY DEF Access!LinkProfileTools, Access!Gate, Access!LinkEntries, Access!Both,
      Access!Entries, Access!Read, Access!Write, Access!Coarse, Access!ReadOf,
      Access!WriteOf
<1>2. AccessPaired(Access!LinkProfileTools, Access!LinkProfileRoutes)
  BY DEF AccessPaired, Access!LinkProfileTools, Access!LinkProfileRoutes, Access!Gate,
      Access!Read, Access!Write, Access!Coarse, Access!ReadOf, Access!WriteOf
<1>3. AccessGuarded(Access!LinkProfileTools \cup Access!LinkProfileRoutes,
                    Access!NoModule, {})
  BY DEF AccessGuarded, Access!LinkProfileTools, Access!LinkProfileRoutes, Access!Gate,
      Access!Read, Access!Write, Access!Coarse, Access!ReadOf, Access!WriteOf
<1> QED  BY <1>1, <1>2, <1>3 DEF AccessListed, Access!CATALOG

LEMMA AccessScanTable ==
  /\ AccessListed(Access!ScanTools) /\ AccessPaired(Access!ScanTools, Access!ScanRoutes)
  /\ AccessGuarded(Access!ScanTools \cup Access!ScanRoutes, Access!NoModule, {})
<1>1. \A t \in Access!ScanTools : [name |-> t.name, scope |-> t.scope] \in Access!ScanEntries
  BY DEF Access!ScanTools, Access!Gate, Access!SoftDeleted, Access!ScanEntries,
      Access!Both, Access!Entries, Access!Read, Access!Write, Access!Coarse,
      Access!ReadOf, Access!WriteOf
<1>2. AccessPaired(Access!ScanTools, Access!ScanRoutes)
  BY DEF AccessPaired, Access!ScanTools, Access!ScanRoutes, Access!Gate,
      Access!SoftDeleted, Access!Read, Access!Write, Access!Coarse, Access!ReadOf,
      Access!WriteOf
<1>3. AccessGuarded(Access!ScanTools \cup Access!ScanRoutes, Access!NoModule, {})
  BY DEF AccessGuarded, Access!ScanTools, Access!ScanRoutes, Access!Gate,
      Access!SoftDeleted, Access!Read, Access!Write, Access!Coarse, Access!ReadOf,
      Access!WriteOf
<1> QED  BY <1>1, <1>2, <1>3 DEF AccessListed, Access!CATALOG

LEMMA AccessScanPageTable ==
  /\ AccessListed(Access!ScanPageTools)
  /\ AccessPaired(Access!ScanPageTools, Access!ScanPageRoutes)
  /\ AccessGuarded(Access!ScanPageTools \cup Access!ScanPageRoutes, Access!NoModule, {})
<1>1. \A t \in Access!ScanPageTools :
        [name |-> t.name, scope |-> t.scope] \in Access!ScanEntries
  BY DEF Access!ScanPageTools, Access!Gate, Access!ScanEntries, Access!Both,
      Access!Entries, Access!Read, Access!Write, Access!Coarse, Access!ReadOf,
      Access!WriteOf
<1>2. AccessPaired(Access!ScanPageTools, Access!ScanPageRoutes)
  BY DEF AccessPaired, Access!ScanPageTools, Access!ScanPageRoutes, Access!Gate,
      Access!Read, Access!Write, Access!Coarse, Access!ReadOf, Access!WriteOf
<1>3. AccessGuarded(Access!ScanPageTools \cup Access!ScanPageRoutes, Access!NoModule, {})
  BY DEF AccessGuarded, Access!ScanPageTools, Access!ScanPageRoutes, Access!Gate,
      Access!Read, Access!Write, Access!Coarse, Access!ReadOf, Access!WriteOf
<1> QED  BY <1>1, <1>2, <1>3 DEF AccessListed, Access!CATALOG

LEMMA AccessProjectTable ==
  /\ AccessListed(Access!ProjectTools)
  /\ AccessPaired(Access!ProjectTools, Access!ProjectRoutes)
  /\ AccessGuarded(Access!ProjectTools \cup Access!ProjectRoutes, Access!NoModule, {})
<1>1. \A t \in Access!ProjectTools :
        [name |-> t.name, scope |-> t.scope] \in Access!ProjectEntries
  BY DEF Access!ProjectTools, Access!Gate, Access!SoftDeleted, Access!ProjectEntries,
      Access!Both, Access!Entries, Access!Read, Access!Write, Access!Coarse,
      Access!ReadOf, Access!WriteOf
<1>2. AccessPaired(Access!ProjectTools, Access!ProjectRoutes)
  BY DEF AccessPaired, Access!ProjectTools, Access!ProjectRoutes, Access!Gate,
      Access!SoftDeleted, Access!Read, Access!Write, Access!Coarse, Access!ReadOf,
      Access!WriteOf
<1>3. AccessGuarded(Access!ProjectTools \cup Access!ProjectRoutes, Access!NoModule, {})
  BY DEF AccessGuarded, Access!ProjectTools, Access!ProjectRoutes, Access!Gate,
      Access!SoftDeleted, Access!Read, Access!Write, Access!Coarse, Access!ReadOf,
      Access!WriteOf
<1> QED  BY <1>1, <1>2, <1>3 DEF AccessListed, Access!CATALOG

LEMMA AccessBoardTable ==
  /\ AccessListed(Access!BoardTools) /\ AccessPaired(Access!BoardTools, Access!BoardRoutes)
  /\ AccessGuarded(Access!BoardTools \cup Access!BoardRoutes, Access!NoModule, {})
<1>1. \A t \in Access!BoardTools : [name |-> t.name, scope |-> t.scope] \in Access!TaskEntries
  BY DEF Access!BoardTools, Access!Gate, Access!SoftDeleted, Access!TaskEntries,
      Access!Both, Access!Entries, Access!Read, Access!Write, Access!Coarse,
      Access!ReadOf, Access!WriteOf
<1>2. AccessPaired(Access!BoardTools, Access!BoardRoutes)
  BY DEF AccessPaired, Access!BoardTools, Access!BoardRoutes, Access!Gate,
      Access!SoftDeleted, Access!Read, Access!Write, Access!Coarse, Access!ReadOf,
      Access!WriteOf
<1>3. AccessGuarded(Access!BoardTools \cup Access!BoardRoutes, Access!NoModule, {})
  BY DEF AccessGuarded, Access!BoardTools, Access!BoardRoutes, Access!Gate,
      Access!SoftDeleted, Access!Read, Access!Write, Access!Coarse, Access!ReadOf,
      Access!WriteOf
<1> QED  BY <1>1, <1>2, <1>3 DEF AccessListed, Access!CATALOG

LEMMA AccessTaskTable ==
  /\ AccessListed(Access!TaskTools) /\ AccessPaired(Access!TaskTools, Access!TaskRoutes)
  /\ AccessGuarded(Access!TaskTools \cup Access!TaskRoutes, Access!NoModule, {})
<1>1. \A t \in Access!TaskTools : [name |-> t.name, scope |-> t.scope] \in Access!TaskEntries
  BY DEF Access!TaskTools, Access!Gate, Access!SoftDeleted, Access!TaskEntries,
      Access!Both, Access!Entries, Access!Read, Access!Write, Access!Coarse,
      Access!ReadOf, Access!WriteOf
<1>2. AccessPaired(Access!TaskTools, Access!TaskRoutes)
  BY DEF AccessPaired, Access!TaskTools, Access!TaskRoutes, Access!Gate,
      Access!SoftDeleted, Access!Read, Access!Write, Access!Coarse, Access!ReadOf,
      Access!WriteOf
<1>3. AccessGuarded(Access!TaskTools \cup Access!TaskRoutes, Access!NoModule, {})
  BY DEF AccessGuarded, Access!TaskTools, Access!TaskRoutes, Access!Gate,
      Access!SoftDeleted, Access!Read, Access!Write, Access!Coarse, Access!ReadOf,
      Access!WriteOf
<1> QED  BY <1>1, <1>2, <1>3 DEF AccessListed, Access!CATALOG

LEMMA AccessMeetingTable ==
  /\ AccessListed(Access!MeetingTools)
  /\ AccessPaired(Access!MeetingTools, Access!MeetingRoutes)
  /\ AccessGuarded(Access!MeetingTools \cup Access!MeetingRoutes,
                   Access!NoModule, {Access!Coarse("trigger")})
<1>1. \A t \in Access!MeetingTools :
        [name |-> t.name, scope |-> t.scope] \in Access!MeetingEntries
  BY DEF Access!MeetingTools, Access!Gate, Access!SoftDeleted, Access!MeetingEntries,
      Access!Both, Access!Entries, Access!Read, Access!Write, Access!Coarse,
      Access!ReadOf, Access!WriteOf
<1>2. AccessPaired(Access!MeetingTools, Access!MeetingRoutes)
  BY DEF AccessPaired, Access!MeetingTools, Access!MeetingRoutes, Access!Gate,
      Access!SoftDeleted, Access!Read, Access!Write, Access!Coarse, Access!ReadOf,
      Access!WriteOf
<1>3. AccessGuarded(Access!MeetingTools \cup Access!MeetingRoutes,
                    Access!NoModule, {Access!Coarse("trigger")})
  BY DEF AccessGuarded, Access!MeetingTools, Access!MeetingRoutes, Access!Gate,
      Access!SoftDeleted, Access!Read, Access!Write, Access!Coarse, Access!ReadOf,
      Access!WriteOf
<1> QED  BY <1>1, <1>2, <1>3 DEF AccessListed, Access!CATALOG

LEMMA AccessAgendaTable ==
  /\ AccessListed(Access!AgendaTools) /\ AccessPaired(Access!AgendaTools, Access!AgendaRoutes)
  /\ AccessGuarded(Access!AgendaTools \cup Access!AgendaRoutes, Access!NoModule, {})
<1>1. \A t \in Access!AgendaTools :
        [name |-> t.name, scope |-> t.scope] \in Access!MeetingEntries
  BY DEF Access!AgendaTools, Access!Gate, Access!MeetingEntries, Access!Both,
      Access!Entries, Access!Read, Access!Write, Access!Coarse, Access!ReadOf,
      Access!WriteOf
<1>2. AccessPaired(Access!AgendaTools, Access!AgendaRoutes)
  BY DEF AccessPaired, Access!AgendaTools, Access!AgendaRoutes, Access!Gate,
      Access!Read, Access!Write, Access!Coarse, Access!ReadOf, Access!WriteOf
<1>3. AccessGuarded(Access!AgendaTools \cup Access!AgendaRoutes, Access!NoModule, {})
  BY DEF AccessGuarded, Access!AgendaTools, Access!AgendaRoutes, Access!Gate,
      Access!Read, Access!Write, Access!Coarse, Access!ReadOf, Access!WriteOf
<1> QED  BY <1>1, <1>2, <1>3 DEF AccessListed, Access!CATALOG

LEMMA AccessDocumentTable ==
  /\ AccessListed(Access!DocumentTools)
  /\ AccessPaired(Access!DocumentTools, Access!DocumentRoutes)
  /\ AccessGuarded(Access!DocumentTools \cup Access!DocumentRoutes, "documents", {})
<1>1. \A t \in Access!DocumentTools :
        [name |-> t.name, scope |-> t.scope] \in Access!DocumentEntries
  BY DEF Access!DocumentTools, Access!Gate, Access!SoftDeleted, Access!DocumentEntries,
      Access!Both, Access!Entries, Access!Read, Access!Write, Access!Coarse,
      Access!ReadOf, Access!WriteOf
<1>2. AccessPaired(Access!DocumentTools, Access!DocumentRoutes)
  BY DEF AccessPaired, Access!DocumentTools, Access!DocumentRoutes, Access!Gate,
      Access!SoftDeleted, Access!Read, Access!Write, Access!Coarse, Access!ReadOf,
      Access!WriteOf
<1>3. AccessGuarded(Access!DocumentTools \cup Access!DocumentRoutes, "documents", {})
  BY DEF AccessGuarded, Access!DocumentTools, Access!DocumentRoutes, Access!Gate,
      Access!SoftDeleted, Access!Read, Access!Write, Access!Coarse, Access!ReadOf,
      Access!WriteOf
<1> QED  BY <1>1, <1>2, <1>3 DEF AccessListed, Access!CATALOG

LEMMA AccessSponsorTable ==
  /\ AccessListed(Access!SponsorTools)
  /\ AccessPaired(Access!SponsorTools, Access!SponsorRoutes)
  /\ AccessGuarded(Access!SponsorTools \cup Access!SponsorRoutes, "sponsors", {})
<1>1. \A t \in Access!SponsorTools :
        [name |-> t.name, scope |-> t.scope] \in Access!SponsorEntries
  BY DEF Access!SponsorTools, Access!Gate, Access!SoftDeleted, Access!SponsorEntries,
      Access!Both, Access!Entries, Access!Read, Access!Write, Access!Coarse,
      Access!ReadOf, Access!WriteOf
<1>2. AccessPaired(Access!SponsorTools, Access!SponsorRoutes)
  BY DEF AccessPaired, Access!SponsorTools, Access!SponsorRoutes, Access!Gate,
      Access!SoftDeleted, Access!Read, Access!Write, Access!Coarse, Access!ReadOf,
      Access!WriteOf
<1>3. AccessGuarded(Access!SponsorTools \cup Access!SponsorRoutes, "sponsors", {})
  BY DEF AccessGuarded, Access!SponsorTools, Access!SponsorRoutes, Access!Gate,
      Access!SoftDeleted, Access!Read, Access!Write, Access!Coarse, Access!ReadOf,
      Access!WriteOf
<1> QED  BY <1>1, <1>2, <1>3 DEF AccessListed, Access!CATALOG

LEMMA AccessContactTable ==
  /\ AccessListed(Access!ContactTools)
  /\ AccessPaired(Access!ContactTools, Access!ContactRoutes)
  /\ AccessGuarded(Access!ContactTools \cup Access!ContactRoutes, "sponsors", {})
<1>1. \A t \in Access!ContactTools :
        [name |-> t.name, scope |-> t.scope] \in Access!PipelineEntries
  BY DEF Access!ContactTools, Access!Gate, Access!PipelineEntries, Access!Both,
      Access!Entries, Access!Read, Access!Write, Access!Coarse, Access!ReadOf,
      Access!WriteOf
<1>2. AccessPaired(Access!ContactTools, Access!ContactRoutes)
  BY DEF AccessPaired, Access!ContactTools, Access!ContactRoutes, Access!Gate,
      Access!Read, Access!Write, Access!Coarse, Access!ReadOf, Access!WriteOf
<1>3. AccessGuarded(Access!ContactTools \cup Access!ContactRoutes, "sponsors", {})
  BY DEF AccessGuarded, Access!ContactTools, Access!ContactRoutes, Access!Gate,
      Access!Read, Access!Write, Access!Coarse, Access!ReadOf, Access!WriteOf
<1> QED  BY <1>1, <1>2, <1>3 DEF AccessListed, Access!CATALOG

LEMMA AccessPackageTable ==
  /\ AccessListed(Access!PackageTools)
  /\ AccessPaired(Access!PackageTools, Access!PackageRoutes)
  /\ AccessGuarded(Access!PackageTools \cup Access!PackageRoutes, "sponsors", {})
<1>1. \A t \in Access!PackageTools :
        [name |-> t.name, scope |-> t.scope] \in Access!PipelineEntries
  BY DEF Access!PackageTools, Access!Gate, Access!PipelineEntries, Access!Both,
      Access!Entries, Access!Read, Access!Write, Access!Coarse, Access!ReadOf,
      Access!WriteOf
<1>2. AccessPaired(Access!PackageTools, Access!PackageRoutes)
  BY DEF AccessPaired, Access!PackageTools, Access!PackageRoutes, Access!Gate,
      Access!Read, Access!Write, Access!Coarse, Access!ReadOf, Access!WriteOf
<1>3. AccessGuarded(Access!PackageTools \cup Access!PackageRoutes, "sponsors", {})
  BY DEF AccessGuarded, Access!PackageTools, Access!PackageRoutes, Access!Gate,
      Access!Read, Access!Write, Access!Coarse, Access!ReadOf, Access!WriteOf
<1> QED  BY <1>1, <1>2, <1>3 DEF AccessListed, Access!CATALOG

LEMMA AccessLeadTable ==
  /\ AccessListed(Access!LeadTools) /\ AccessPaired(Access!LeadTools, Access!LeadRoutes)
  /\ AccessGuarded(Access!LeadTools \cup Access!LeadRoutes, "sponsors", {})
<1>1. \A t \in Access!LeadTools :
        [name |-> t.name, scope |-> t.scope] \in Access!PipelineEntries
  BY DEF Access!LeadTools, Access!Gate, Access!PipelineEntries, Access!Both,
      Access!Entries, Access!Read, Access!Write, Access!Coarse, Access!ReadOf,
      Access!WriteOf
<1>2. AccessPaired(Access!LeadTools, Access!LeadRoutes)
  BY DEF AccessPaired, Access!LeadTools, Access!LeadRoutes, Access!Gate, Access!Read,
      Access!Write, Access!Coarse, Access!ReadOf, Access!WriteOf
<1>3. AccessGuarded(Access!LeadTools \cup Access!LeadRoutes, "sponsors", {})
  BY DEF AccessGuarded, Access!LeadTools, Access!LeadRoutes, Access!Gate, Access!Read,
      Access!Write, Access!Coarse, Access!ReadOf, Access!WriteOf
<1> QED  BY <1>1, <1>2, <1>3 DEF AccessListed, Access!CATALOG

LEMMA AccessPeopleTable ==
  /\ AccessListed(Access!PeopleTools) /\ AccessPaired(Access!PeopleTools, Access!PeopleRoutes)
  /\ AccessGuarded(Access!PeopleTools \cup Access!PeopleRoutes, "people", {})
<1>1. \A t \in Access!PeopleTools :
        [name |-> t.name, scope |-> t.scope] \in Access!PeopleEntries
  BY DEF Access!PeopleTools, Access!Gate, Access!SoftDeleted, Access!PeopleEntries,
      Access!Both, Access!Entries, Access!Read, Access!Write, Access!Coarse,
      Access!ReadOf, Access!WriteOf
<1>2. AccessPaired(Access!PeopleTools, Access!PeopleRoutes)
  BY DEF AccessPaired, Access!PeopleTools, Access!PeopleRoutes, Access!Gate,
      Access!SoftDeleted, Access!Read, Access!Write, Access!Coarse, Access!ReadOf,
      Access!WriteOf
<1>3. AccessGuarded(Access!PeopleTools \cup Access!PeopleRoutes, "people", {})
  BY DEF AccessGuarded, Access!PeopleTools, Access!PeopleRoutes, Access!Gate,
      Access!SoftDeleted, Access!Read, Access!Write, Access!Coarse, Access!ReadOf,
      Access!WriteOf
<1> QED  BY <1>1, <1>2, <1>3 DEF AccessListed, Access!CATALOG

LEMMA AccessMediaTable ==
  /\ AccessListed(Access!MediaTools) /\ AccessPaired(Access!MediaTools, Access!MediaRoutes)
  /\ AccessGuarded(Access!MediaTools \cup Access!MediaRoutes, Access!NoModule, {})
<1>1. \A t \in Access!MediaTools : [name |-> t.name, scope |-> t.scope] \in Access!MediaEntries
  BY DEF Access!MediaTools, Access!Gate, Access!MediaEntries, Access!Both,
      Access!Entries, Access!Read, Access!Write, Access!Coarse, Access!ReadOf,
      Access!WriteOf
<1>2. AccessPaired(Access!MediaTools, Access!MediaRoutes)
  BY DEF AccessPaired, Access!MediaTools, Access!MediaRoutes, Access!Gate, Access!Read,
      Access!Write, Access!Coarse, Access!ReadOf, Access!WriteOf
<1>3. AccessGuarded(Access!MediaTools \cup Access!MediaRoutes, Access!NoModule, {})
  BY DEF AccessGuarded, Access!MediaTools, Access!MediaRoutes, Access!Gate,
      Access!Read, Access!Write, Access!Coarse, Access!ReadOf, Access!WriteOf
<1> QED  BY <1>1, <1>2, <1>3 DEF AccessListed, Access!CATALOG

LEMMA AccessAttachmentTable ==
  /\ AccessListed(Access!AttachmentTools)
  /\ AccessPaired(Access!AttachmentTools, Access!AttachmentRoutes)
  /\ AccessGuarded(Access!AttachmentTools \cup Access!AttachmentRoutes, Access!NoModule, {})
<1>1. \A t \in Access!AttachmentTools :
        [name |-> t.name, scope |-> t.scope] \in Access!MediaEntries
  BY DEF Access!AttachmentTools, Access!Gate, Access!MediaEntries, Access!Both,
      Access!Entries, Access!Read, Access!Write, Access!Coarse, Access!ReadOf,
      Access!WriteOf
<1>2. AccessPaired(Access!AttachmentTools, Access!AttachmentRoutes)
  BY DEF AccessPaired, Access!AttachmentTools, Access!AttachmentRoutes, Access!Gate,
      Access!Read, Access!Write, Access!Coarse, Access!ReadOf, Access!WriteOf
<1>3. AccessGuarded(Access!AttachmentTools \cup Access!AttachmentRoutes,
                    Access!NoModule, {})
  BY DEF AccessGuarded, Access!AttachmentTools, Access!AttachmentRoutes, Access!Gate,
      Access!Read, Access!Write, Access!Coarse, Access!ReadOf, Access!WriteOf
<1> QED  BY <1>1, <1>2, <1>3 DEF AccessListed, Access!CATALOG

(* Every feature is listed and paired, and guarded by the scopes of its     *)
(* module; "trigger" opens the meetings too.                                *)
LEMMA AccessTables ==
  ASSUME NEW f \in Access!Feature
  PROVE  /\ AccessListed(Access!MCP(f)) /\ AccessPaired(Access!MCP(f), Access!REST(f))
         /\ f \in {"finance", "members", "people", "documents"}
              => AccessGuarded(Access!MCP(f) \cup Access!REST(f), f, {})
         /\ f \in {"sponsors", "contacts", "packages", "leads"}
              => AccessGuarded(Access!MCP(f) \cup Access!REST(f), "sponsors", {})
         /\ f = "meetings"
              => AccessGuarded(Access!MCP(f) \cup Access!REST(f), Access!NoModule,
                               {Access!Coarse("trigger")})
         /\ f \notin {"finance", "members", "people", "documents", "sponsors", "contacts",
                      "packages", "leads", "meetings"}
              => AccessGuarded(Access!MCP(f) \cup Access!REST(f), Access!NoModule, {})
<1>1. CASE f = "members"
  BY <1>1, AccessMemberTable DEF Access!MCP, Access!REST
<1>2. CASE f = "finance"
  BY <1>2, AccessFinanceTable DEF Access!MCP, Access!REST
<1>3. CASE f = "events"
  BY <1>3, AccessEventTable DEF Access!MCP, Access!REST
<1>4. CASE f = "reviews"
  BY <1>4, AccessReviewTable DEF Access!MCP, Access!REST
<1>5. CASE f = "speakers"
  BY <1>5, AccessSpeakerTable DEF Access!MCP, Access!REST
<1>6. CASE f = "line-up"
  BY <1>6, AccessLineUpTable DEF Access!MCP, Access!REST
<1>7. CASE f = "connections"
  BY <1>7, AccessConnectionTable DEF Access!MCP, Access!REST
<1>8. CASE f = "partners"
  BY <1>8, AccessPartnerTable DEF Access!MCP, Access!REST
<1>9. CASE f = "links"
  BY <1>9, AccessLinkTable DEF Access!MCP, Access!REST
<1>10. CASE f = "link profile"
  BY <1>10, AccessLinkProfileTable DEF Access!MCP, Access!REST
<1>11. CASE f = "scan"
  BY <1>11, AccessScanTable DEF Access!MCP, Access!REST
<1>12. CASE f = "scan page"
  BY <1>12, AccessScanPageTable DEF Access!MCP, Access!REST
<1>13. CASE f = "projects"
  BY <1>13, AccessProjectTable DEF Access!MCP, Access!REST
<1>14. CASE f = "boards"
  BY <1>14, AccessBoardTable DEF Access!MCP, Access!REST
<1>15. CASE f = "tasks"
  BY <1>15, AccessTaskTable DEF Access!MCP, Access!REST
<1>16. CASE f = "meetings"
  BY <1>16, AccessMeetingTable DEF Access!MCP, Access!REST
<1>17. CASE f = "agendas"
  BY <1>17, AccessAgendaTable DEF Access!MCP, Access!REST
<1>18. CASE f = "documents"
  BY <1>18, AccessDocumentTable DEF Access!MCP, Access!REST
<1>19. CASE f = "sponsors"
  BY <1>19, AccessSponsorTable DEF Access!MCP, Access!REST
<1>20. CASE f = "contacts"
  BY <1>20, AccessContactTable DEF Access!MCP, Access!REST
<1>21. CASE f = "packages"
  BY <1>21, AccessPackageTable DEF Access!MCP, Access!REST
<1>22. CASE f = "leads"
  BY <1>22, AccessLeadTable DEF Access!MCP, Access!REST
<1>23. CASE f = "people"
  BY <1>23, AccessPeopleTable DEF Access!MCP, Access!REST
<1>24. CASE f = "media"
  BY <1>24, AccessMediaTable DEF Access!MCP, Access!REST
<1>25. CASE f = "attachments"
  BY <1>25, AccessAttachmentTable DEF Access!MCP, Access!REST
<1>26. CASE f = "public api"
  <2>1. Access!MCP(f) = {} /\ Access!REST(f) = Access!PublicApiRoutes
    BY <1>26 DEF Access!MCP, Access!REST
  <2>2. AccessGuarded(Access!PublicApiRoutes, Access!NoModule, {})
    BY DEF AccessGuarded, Access!PublicApiRoutes, Access!Gate
  <2> QED  BY <1>26, <2>1, <2>2 DEF AccessListed, AccessPaired
<1> QED
  BY <1>1, <1>2, <1>3, <1>4, <1>5, <1>6, <1>7, <1>8, <1>9, <1>10, <1>11, <1>12, <1>13,
     <1>14, <1>15, <1>16, <1>17, <1>18, <1>19, <1>20, <1>21, <1>22, <1>23, <1>24, <1>25,
     <1>26 DEF Access!Feature

AccessInv ==
  /\ held \in SUBSET Access!Scope
  /\ feature \in Access!Feature
  /\ Access!TypeOK
  /\ Access!EntitledOnly

LEMMA AccessInit == Access!Init => AccessInv
<1> SUFFICES ASSUME Access!Init PROVE AccessInv
  OBVIOUS
<1>1. held \in SUBSET Access!Scope
  BY AccessAssumed DEF Access!Init, Access!AccessAssumption
<1> QED  BY <1>1 DEF Access!Init, AccessInv, Access!TypeOK, Access!EntitledOnly

(* What a credential that passes the gate must hold.                        *)
LEMMA AccessAdmitsIs ==
  ASSUME NEW m \in {"finance", "sponsors", "members", "people", "documents", Access!NoModule}
  PROVE  /\ Access!HasScope(held, Access!WriteOf(m)) => Access!Writers(m) \cap held # {}
         /\ Access!HasScope(held, Access!ReadOf(m)) => Access!Readers(m) \cap held # {}
         /\ Access!HasScope(held, Access!Coarse("trigger")) => Access!Coarse("trigger") \in held
<1>1. CASE m \in Access!SCOPE_ISOLATED_MODULES
  BY <1>1 DEF Access!HasScope, Access!Granular, Access!ReadOf, Access!WriteOf, Access!Plain,
      Access!Coarse, Access!SCOPE_ISOLATED_MODULES, Access!NoModule, Access!Readers,
      Access!Writers
<1>2. CASE m \notin Access!SCOPE_ISOLATED_MODULES
  BY <1>2 DEF Access!HasScope, Access!Granular, Access!ReadOf, Access!WriteOf, Access!Plain,
      Access!Coarse, Access!SCOPE_ISOLATED_MODULES, Access!NoModule, Access!Readers,
      Access!Writers
<1> QED  BY <1>1, <1>2

LEMMA AccessCallKeeps ==
  ASSUME AccessInv, NEW tool \in Access!MCP(feature) \cup Access!REST(feature),
         Access!Call(tool)
  PROVE  AccessInv'
<1>1. /\ held' = held /\ feature' = feature /\ Access!HasScope(held, tool.scope)
      /\ record' \in {"none", "live", "archived"} /\ tool.effect # "other"
      /\ \/ tool.effect \in {"list", "get"} /\ done' = done \cup {"see"}
         \/ tool.effect \notin {"list", "get"}
              /\ done' \in {done \cup {"change"}, done \cup {"see", "change"}}
  BY DEF Access!Call, Access!Admits, Access!Perform, Access!List, Access!Get,
      Access!Create, Access!Update, Access!Archive, Access!Unarchive, Access!Remove,
      Access!Delete, Access!Link, Access!Touch, AccessInv, Access!TypeOK
<1>2. Access!TypeOK'
  BY <1>1 DEF AccessInv, Access!TypeOK
<1>3. Access!Home \in {"finance", "sponsors", "members", "people", "documents",
                      Access!NoModule}
  BY DEF Access!Home
<1>4. AccessGuarded(Access!MCP(feature) \cup Access!REST(feature), Access!Home, Access!Trigger)
  BY AccessTables DEF AccessInv, Access!Home, Access!Trigger
<1>5. Access!Trigger \subseteq {Access!Coarse("trigger")}
  BY DEF Access!Trigger
<1>6. (Access!Readers(Access!Home) \cup Access!Trigger) \cap held # {}
  <2>1. tool.scope \in {Access!ReadOf(Access!Home), Access!WriteOf(Access!Home)} \cup Access!Trigger
    BY <1>1, <1>4 DEF AccessGuarded
  <2>2. Access!Writers(Access!Home) \subseteq Access!Readers(Access!Home)
    BY DEF Access!Writers, Access!Readers, Access!Plain
  <2> QED  BY <1>1, <1>3, <1>5, <2>1, <2>2, AccessAdmitsIs
<1>7. tool.effect \notin {"list", "get"}
        => (Access!Writers(Access!Home) \cup Access!Trigger) \cap held # {}
  <2>1. tool.effect \notin {"list", "get"}
          => tool.scope \in {Access!WriteOf(Access!Home)} \cup Access!Trigger
    BY <1>1, <1>4 DEF AccessGuarded
  <2> QED  BY <1>1, <1>3, <1>5, <2>1, AccessAdmitsIs
<1>8. Access!Home' = Access!Home /\ Access!Trigger' = Access!Trigger
  BY <1>1 DEF Access!Home, Access!Trigger
<1>9. "change" \in done' => "change" \in done \/ tool.effect \notin {"list", "get"}
  BY <1>1
<1>10. Access!EntitledOnly'
  BY <1>1, <1>6, <1>7, <1>8, <1>9 DEF AccessInv, Access!EntitledOnly, Access!Readers,
      Access!Writers, Access!Plain
<1> QED  BY <1>1, <1>2, <1>10 DEF AccessInv

LEMMA AccessStep == AccessInv /\ [Access!Next]_(Access!vars) => AccessInv'
<1> SUFFICES ASSUME AccessInv, [Access!Next]_(Access!vars) PROVE AccessInv'
  OBVIOUS
<1>1. CASE Access!Next
  BY <1>1, AccessCallKeeps DEF Access!Next
<1>2. CASE UNCHANGED Access!vars
  BY <1>2 DEF Access!vars, AccessInv, Access!TypeOK, Access!EntitledOnly, Access!Home,
      Access!Trigger, Access!Readers, Access!Writers, Access!Plain
<1> QED  BY <1>1, <1>2

LEMMA AccessPromises == AccessInv
  => /\ Access!TypeOK /\ Access!GuideHonest /\ Access!SurfacesAgree
     /\ Access!EntitledOnly /\ Access!IsolatedModules
<1> SUFFICES ASSUME AccessInv
             PROVE  Access!GuideHonest /\ Access!SurfacesAgree /\ Access!IsolatedModules
  BY DEF AccessInv
<1>1. AccessListed(Access!MCP(feature))
        /\ AccessPaired(Access!MCP(feature), Access!REST(feature))
  BY AccessTables DEF AccessInv
<1>2. Access!SurfacesAgree
  BY <1>1 DEF Access!SurfacesAgree, AccessPaired, Access!Admits
<1>3. Access!Callable \subseteq Access!ToolsForScopes(held) \cap Access!Names(Access!MCP(feature))
  <2> SUFFICES ASSUME NEW t \in Access!MCP(feature), Access!HasScope(held, t.scope)
               PROVE  t.name \in Access!ToolsForScopes(held) \cap Access!Names(Access!MCP(feature))
    BY DEF Access!Callable, Access!Names, Access!Admits
  <2> DEFINE e == [name |-> t.name, scope |-> t.scope]
  <2>1. e \in Access!CATALOG /\ e.name = t.name /\ e.scope = t.scope
    BY <1>1 DEF AccessListed
  <2> HIDE DEF e
  <2> QED  BY <2>1 DEF Access!ToolsForScopes, Access!Names
<1>4. Access!ToolsForScopes(held) \cap Access!Names(Access!MCP(feature)) \subseteq Access!Callable
  <2> SUFFICES ASSUME NEW t \in Access!MCP(feature),
                      NEW c \in Access!CATALOG, Access!HasScope(held, c.scope),
                      c.name = t.name
               PROVE  Access!HasScope(held, t.scope)
    BY DEF Access!Callable, Access!Names, Access!Admits, Access!ToolsForScopes
  <2> DEFINE e == [name |-> t.name, scope |-> t.scope]
  <2>1. e \in Access!CATALOG /\ e.name = t.name /\ e.scope = t.scope
    BY <1>1 DEF AccessListed
  <2> HIDE DEF e
  <2> QED  BY <2>1, AccessCatalogOnce
<1>5. Access!IsolatedModules
  <2> SUFFICES ASSUME NEW m \in Access!Carries, done # {}
               PROVE  \/ {Access!ReadOf(m), Access!WriteOf(m)} \cap held # {}
                      \/ /\ m # Access!Home
                         /\ {Access!Coarse("read"), Access!Coarse("write")} \cap held # {}
    BY DEF Access!IsolatedModules
  <2>1. (Access!Readers(Access!Home) \cup Access!Trigger) \cap held # {}
    BY DEF AccessInv, Access!EntitledOnly
  <2>2. Access!Trigger = {} /\ m \in Access!SCOPE_ISOLATED_MODULES
    <3>1. feature = "meetings" => Access!Home = Access!NoModule
      BY DEF Access!Home
    <3>2. feature = "meetings" => Access!Carries = {}
      BY <3>1 DEF Access!Carries, Access!NoModule
    <3>3. Access!Carries \subseteq {"finance", "sponsors"}
      BY DEF Access!Carries
    <3> QED  BY <3>2, <3>3 DEF Access!Trigger, Access!SCOPE_ISOLATED_MODULES
  <2>3. CASE m = Access!Home
    BY <2>1, <2>2, <2>3 DEF Access!Readers, Access!Plain
  <2>4. CASE m # Access!Home
    <3>1. Access!Home = Access!NoModule
      BY <2>4 DEF Access!Carries, Access!Home, Access!NoModule
    <3> QED  BY <2>1, <2>2, <2>4, <3>1 DEF Access!Readers, Access!Plain, Access!ReadOf,
                 Access!WriteOf, Access!Coarse
  <2> QED  BY <2>3, <2>4
<1> QED  BY <1>2, <1>3, <1>4, <1>5 DEF Access!GuideHonest

-----------------------------------------------------------------------------
(* A record of the committee.  An attribute stands as the last request to   *)
(* name it asked, because a request writes only what it names, and what it  *)
(* loaded does not count.                                                   *)

LEMMA RecordsAssumed == Records!RecordsAssumption
  BY WorkspaceAssumption

(* What a caller may ask for, once the blanks are taken for NULL.           *)
RecordsAsk == [Attribute -> Value \cup {Nil, Keep}]

RecordsEdits ==
  [phase : Records!Phase, surface : {"rest", "mcp", Nil}, body : RecordsAsk,
   blanked : SUBSET Attribute, write : RecordsAsk]

(* A session writes what the caller names, or nothing; an attribute is      *)
(* cleared by a PATCH, or by a caller that blanks it.                       *)
RecordsEditOK(r) ==
  /\ Records!At(r, "idle") => req[r] = Records!Idle
  /\ \A f \in Attribute : req[r].write[f] \in {req[r].body[f], Keep}
  /\ Records!At(r, "update") \/ Records!At(r, "revive") =>
       \A f \in Attribute :
         req[r].body[f] = Nil => req[r].surface = "rest" \/ f \in req[r].blanked

RecordsInv ==
  /\ recordStatus \in {"none", "live", "archived"}
  /\ recordRow \in [Attribute -> Value \cup {Nil}]
  /\ asFound \subseteq Attribute
  /\ req \in [Request -> RecordsEdits]
  /\ recordStatus = "none" => \A f \in Attribute : recordRow[f] = Nil
  /\ Records!NothingReverted
  /\ \A r \in Request : RecordsEditOK(r)

LEMMA RecordsIdleEdit ==
  /\ Records!Idle \in RecordsEdits /\ Records!Idle.phase = "idle"
  /\ \A f \in Attribute : Records!Idle.write[f] \in {Records!Idle.body[f], Keep}
<1>1. Records!Nothing \in RecordsAsk /\ \A f \in Attribute : Records!Nothing[f] = Keep
  BY DEF Records!Nothing, RecordsAsk
<1> QED  BY <1>1 DEF Records!Idle, RecordsEdits, Records!Phase

(* What is sent clears an attribute over REST, or where it is blanked.      *)
LEMMA RecordsSentBody ==
  ASSUME NEW b \in Records!Bodies
  PROVE  /\ Records!Parsed(b) \in RecordsAsk
         /\ Records!Blanked(b) = {}
              => Records!Given(b) \in RecordsAsk /\ \A f \in Attribute : Records!Given(b)[f] # Nil
         /\ \A s \in {"rest", "mcp"} :
              /\ Records!Sent(s, b) \in RecordsAsk
              /\ \A f \in Attribute :
                   Records!Sent(s, b)[f] = Nil => s = "rest" \/ f \in Records!Blanked(b)
<1>1. \A c \in [Attribute -> Value \cup {Nil, Keep, Blank}] : Records!Parsed(c) \in RecordsAsk
  BY DEF Records!Parsed, RecordsAsk
<1>2. b \in [Attribute -> Value \cup {Nil, Keep, Blank}]
  BY DEF Records!Bodies
<1>3. /\ Records!Given(b) \in [Attribute -> Value \cup {Nil, Keep, Blank}]
      /\ \A f \in Attribute :
           Records!Given(b)[f] # Nil /\ (Records!Given(b)[f] = Blank => b[f] = Blank)
  BY <1>2, RecordsAssumed DEF Records!Given, Records!RecordsAssumption
<1>4. Records!Blanked(b) = {} => Records!Given(b) \in RecordsAsk
  BY <1>3 DEF Records!Blanked, RecordsAsk
<1>5. ASSUME NEW s \in {"rest", "mcp"}
      PROVE  /\ Records!Sent(s, b) \in RecordsAsk
             /\ \A f \in Attribute :
                  Records!Sent(s, b)[f] = Nil => s = "rest" \/ f \in Records!Blanked(b)
  <2>1. CASE s = "rest"
    <3>1. Records!Sent(s, b) = Records!Parsed(b)
      BY <2>1 DEF Records!Sent
    <3> QED  BY <1>1, <1>2, <2>1, <3>1
  <2>2. CASE s = "mcp"
    <3>1. Records!Sent(s, b) = Records!Parsed(Records!Given(b))
      BY <2>2 DEF Records!Sent
    <3> DEFINE g == Records!Given(b)
    <3>2. /\ Records!Parsed(g) \in RecordsAsk
          /\ \A f \in Attribute : Records!Parsed(g)[f] = Nil => g[f] \in {Nil, Blank}
      BY <1>1, <1>3 DEF Records!Parsed
    <3> HIDE DEF g
    <3>3. \A f \in Attribute : g[f] # Nil /\ (g[f] = Blank => b[f] = Blank)
      BY <1>3 DEF g
    <3>4. \A f \in Attribute : Records!Parsed(g)[f] = Nil => f \in Records!Blanked(b)
      BY <3>2, <3>3 DEF Records!Blanked
    <3> QED  BY <3>1, <3>2, <3>4 DEF g
  <2> QED  BY <2>1, <2>2
<1> QED  BY <1>1, <1>2, <1>3, <1>4, <1>5

LEMMA RecordsDirtyBody ==
  ASSUME RecordsInv, NEW b \in RecordsAsk
  PROVE  Records!Dirty(b) \in RecordsAsk
           /\ \A f \in Attribute : Records!Dirty(b)[f] \in {b[f], Keep}
  BY DEF Records!Dirty, RecordsAsk

LEMMA RecordsInit == Records!Init => RecordsInv
<1> SUFFICES ASSUME Records!Init PROVE RecordsInv
  OBVIOUS
<1>1. req \in [Request -> RecordsEdits] /\ \A r \in Request : req[r] = Records!Idle
  BY RecordsIdleEdit DEF Records!Init
<1>2. \A r \in Request : RecordsEditOK(r)
  BY RecordsIdleEdit, <1>1 DEF RecordsEditOK, Records!At
<1> QED  BY <1>1, <1>2 DEF Records!Init, RecordsInv, Records!NothingReverted

(* A request loads the row.                                                 *)
LEMMA RecordsStartKeeps ==
  ASSUME RecordsInv, NEW r \in Request, NEW p \in Records!Phase \ {"idle"},
         NEW s \in {"rest", "mcp", Nil}, NEW b \in RecordsAsk, NEW n \in SUBSET Attribute,
         Records!Start(r, p, s, b, n),
         p \in {"update", "revive"} => \A f \in Attribute : b[f] = Nil => s = "rest" \/ f \in n
  PROVE  RecordsInv'
<1> DEFINE new == [phase |-> p, surface |-> s, body |-> b, blanked |-> n, write |-> Records!Dirty(b)]
<1>1. new \in RecordsEdits
  BY RecordsDirtyBody DEF RecordsEdits
<1>2. /\ new.phase = p /\ new.surface = s /\ new.body = b /\ new.blanked = n
      /\ new.write = Records!Dirty(b)
  OBVIOUS
<1>3. req' = [req EXCEPT ![r] = new] /\ UNCHANGED Records!data
  BY DEF Records!Start
<1> HIDE DEF new
<1>4. /\ req' \in [Request -> RecordsEdits] /\ req'[r] = new
      /\ \A q \in Request \ {r} : req'[q] = req[q]
  BY <1>1, <1>3 DEF RecordsInv
<1>5. RecordsEditOK(r)'
  BY <1>2, <1>4, RecordsDirtyBody DEF RecordsEditOK, Records!At
<1>6. \A q \in Request \ {r} : RecordsEditOK(q)'
  BY <1>4 DEF RecordsInv, RecordsEditOK, Records!At
<1> QED  BY <1>3, <1>4, <1>5, <1>6 DEF RecordsInv, Records!NothingReverted, Records!data

(* A request ends, whatever it has done to the row.                         *)
LEMMA RecordsEndKeeps ==
  ASSUME RecordsInv, NEW r \in Request, Records!Leave(r),
         recordStatus' \in {"none", "live", "archived"},
         recordRow' \in [Attribute -> Value \cup {Nil}],
         asFound' \subseteq Attribute,
         recordStatus' = "none" => \A f \in Attribute : recordRow'[f] = Nil,
         Records!NothingReverted'
  PROVE  RecordsInv'
<1>1. /\ req' \in [Request -> RecordsEdits] /\ req'[r] = Records!Idle
      /\ \A q \in Request \ {r} : req'[q] = req[q]
  BY RecordsIdleEdit DEF RecordsInv, Records!Leave
<1>2. \A q \in Request : RecordsEditOK(q)'
  BY <1>1, RecordsIdleEdit DEF RecordsInv, RecordsEditOK, Records!At
<1> QED  BY <1>1, <1>2 DEF RecordsInv

LEMMA RecordsUpdateKeeps ==
  ASSUME RecordsInv, NEW r \in Request, Records!CommitUpdate(r)
  PROVE  RecordsInv'
<1> DEFINE body == req[r].body
           write == req[r].write
<1>1. body \in RecordsAsk /\ write \in RecordsAsk
        /\ \A f \in Attribute : write[f] \in {body[f], Keep}
  BY DEF RecordsInv, RecordsEdits, RecordsEditOK
<1>2. /\ recordRow' = [f \in Attribute |-> IF write[f] = Keep THEN recordRow[f] ELSE write[f]]
      /\ Records!Named(r) = {f \in Attribute : body[f] # Keep}
      /\ askedRow' = [f \in Attribute |-> IF f \in Records!Named(r) THEN body[f] ELSE askedRow[f]]
      /\ asFound' = {f \in Records!Named(r) : write[f] = Keep} \cup (asFound \ Records!Named(r))
      /\ recordStatus # "none" /\ Records!Leave(r) /\ recordStatus' \in {"live", recordStatus}
  BY DEF Records!CommitUpdate, Records!Remember, Records!Written, Records!Named
<1> HIDE DEF body, write
<1>3. recordRow' \in [Attribute -> Value \cup {Nil}]
  BY <1>1, <1>2 DEF RecordsInv, RecordsAsk
<1>4. recordStatus' \in {"none", "live", "archived"} /\ recordStatus' # "none"
        /\ asFound' \subseteq Attribute
  BY <1>2 DEF RecordsInv
<1>5. \A f \in Attribute : recordRow'[f] = askedRow'[f] \/ f \in asFound'
  BY <1>1, <1>2 DEF RecordsInv, Records!NothingReverted
<1> QED  BY <1>2, <1>3, <1>4, <1>5, RecordsEndKeeps DEF Records!NothingReverted

LEMMA RecordsCreateKeeps ==
  ASSUME RecordsInv, NEW r \in Request, Records!CommitCreate(r)
  PROVE  RecordsInv'
<1>1. req[r].body \in RecordsAsk
  BY DEF RecordsInv, RecordsEdits
<1>2. recordRow' \in [Attribute -> Value \cup {Nil}]
  BY <1>1 DEF Records!CommitCreate, RecordsAsk
<1> QED  BY <1>2, RecordsEndKeeps DEF Records!CommitCreate, Records!NothingReverted

LEMMA RecordsStep == RecordsInv /\ [Records!Next]_(Records!vars) => RecordsInv'
<1> SUFFICES ASSUME RecordsInv, [Records!Next]_(Records!vars) PROVE RecordsInv'
  OBVIOUS
<1>1. ASSUME NEW r \in Request, NEW b \in Records!Bodies,
             NEW s \in {"rest", "mcp"}, Records!LoadUpdate(r, s, b)
      PROVE  RecordsInv'
  <2>1. /\ Records!Sent(s, b) \in RecordsAsk /\ Records!Blanked(b) \in SUBSET Attribute
        /\ \A f \in Attribute :
             Records!Sent(s, b)[f] = Nil => s = "rest" \/ f \in Records!Blanked(b)
    BY RecordsSentBody DEF Records!Blanked
  <2>2. Records!Start(r, "update", s, Records!Sent(s, b), Records!Blanked(b))
    BY <1>1 DEF Records!LoadUpdate
  <2> QED  BY <2>1, <2>2, RecordsStartKeeps DEF Records!Phase
<1>2. ASSUME NEW r \in Request,
             NEW b \in Records!Bodies, Records!LoadLink(r, b) PROVE RecordsInv'
  <2> DEFINE p == CASE recordStatus = "none" -> "create" [] recordStatus = "live" -> "update"
                    [] OTHER -> "revive"
  <2>1. p \in Records!Phase \ {"idle"} /\ Records!Start(r, p, Nil, Records!Given(b), {})
          /\ Records!Blanked(b) = {}
    BY <1>2 DEF Records!LoadLink, Records!Phase
  <2> HIDE DEF p
  <2>2. Records!Given(b) \in RecordsAsk /\ \A f \in Attribute : Records!Given(b)[f] # Nil
    BY <2>1, RecordsSentBody
  <2> QED  BY <2>1, <2>2, RecordsStartKeeps
<1>3. ASSUME NEW r \in Request,
             NEW b \in Records!Bodies, Records!LoadCreate(r, b) PROVE RecordsInv'
  <2>1. Records!Parsed(b) \in RecordsAsk /\ Records!Blanked(b) \in SUBSET Attribute
    BY RecordsSentBody DEF Records!Blanked
  <2> QED  BY <1>3, <2>1, RecordsStartKeeps DEF Records!LoadCreate, Records!Phase
<1>4. ASSUME NEW r \in Request,
             Records!LoadArchive(r) \/ Records!LoadUnarchive(r) \/ Records!LoadDelete(r)
      PROVE  RecordsInv'
  <2>1. Records!Nothing \in RecordsAsk
    BY DEF Records!Nothing, RecordsAsk
  <2> QED  BY <1>4, <2>1, RecordsStartKeeps DEF Records!LoadArchive,
               Records!LoadUnarchive, Records!LoadDelete, Records!Phase
<1>5. ASSUME NEW r \in Request, Records!CommitUpdate(r) PROVE RecordsInv'
  BY <1>5, RecordsUpdateKeeps
<1>6. ASSUME NEW r \in Request, Records!CommitArchive(r) PROVE RecordsInv'
  <2>1. recordStatus # "none" /\ recordStatus' \in {"live", "archived"}
          /\ UNCHANGED <<recordRow, askedRow, asFound>>
    BY <1>6 DEF Records!CommitArchive
  <2> QED  BY <1>6, <2>1, RecordsEndKeeps DEF Records!CommitArchive, RecordsInv,
               Records!NothingReverted
<1>7. ASSUME NEW r \in Request, Records!CommitDelete(r) PROVE RecordsInv'
  <2>1. recordStatus' = "none" /\ recordRow' \in [Attribute -> Value \cup {Nil}]
    BY <1>7 DEF Records!CommitDelete
  <2> QED  BY <1>7, <2>1, RecordsEndKeeps DEF Records!CommitDelete,
               Records!NothingReverted
<1>8. ASSUME NEW r \in Request, Records!CommitCreate(r) PROVE RecordsInv'
  BY <1>8, RecordsCreateKeeps
<1>9. ASSUME NEW r \in Request, Records!Fail(r) \/ Records!Die(r) PROVE RecordsInv'
  BY <1>9, RecordsEndKeeps DEF Records!Fail, Records!Die, Records!data, RecordsInv,
      Records!NothingReverted
<1>10. CASE UNCHANGED Records!vars
  BY <1>10 DEF Records!vars, RecordsInv, Records!NothingReverted, RecordsEditOK,
      Records!At
<1> QED  BY <1>1, <1>2, <1>3, <1>4, <1>5, <1>6, <1>7, <1>8, <1>9, <1>10 DEF Records!Next

LEMMA RecordsPromises == RecordsInv => Records!TypeOK /\ Records!NothingReverted
  BY DEF RecordsInv, Records!TypeOK, RecordsEditOK, RecordsEdits

(* An attribute is cleared only by the request that asked for it.           *)
LEMMA RecordsSettle == RecordsInv /\ [Records!Next]_(Records!vars)
  => [Records!ClearedAsAsked]_(Records!vars)
<1> DEFINE Cleared(r, f) == /\ req'[r] = Records!Idle /\ req[r].body[f] = Nil
                            /\ req[r].surface = "rest" \/ f \in req[r].blanked
<1> SUFFICES ASSUME RecordsInv, [Records!Next]_(Records!vars),
                    NEW f \in Attribute, recordRow[f] # Nil, recordRow'[f] = Nil,
                    recordStatus' # "none"
             PROVE  \E r \in Request : Cleared(r, f)
  BY DEF Records!ClearedAsAsked
<1>1. ASSUME NEW r \in Request, Records!CommitUpdate(r)
      PROVE  Cleared(r, f)
  <2>1. req'[r] = Records!Idle
    BY <1>1 DEF Records!CommitUpdate, Records!Leave, RecordsInv
  <2>2. recordRow'[f] = IF req[r].write[f] = Keep THEN recordRow[f] ELSE req[r].write[f]
    BY <1>1 DEF Records!CommitUpdate, Records!Written
  <2>3. req[r].body[f] = Nil
    BY <2>2, RecordsAssumed DEF RecordsInv, RecordsEditOK, Records!RecordsAssumption
  <2> QED  BY <1>1, <2>1, <2>3 DEF RecordsInv, RecordsEditOK, Records!CommitUpdate
<1>2. ASSUME NEW r \in Request, Records!CommitCreate(r) PROVE FALSE
  BY <1>2 DEF Records!CommitCreate, RecordsInv
<1>3. ASSUME NEW r \in Request, Records!CommitDelete(r) PROVE FALSE
  BY <1>3 DEF Records!CommitDelete
<1>4. recordRow' # recordRow
  OBVIOUS
<1> QED  BY <1>1, <1>2, <1>3, <1>4
         DEF Records!Next, Records!Start, Records!LoadUpdate, Records!LoadLink,
             Records!LoadCreate, Records!LoadArchive, Records!LoadUnarchive,
             Records!LoadDelete, Records!CommitArchive, Records!Fail, Records!Die,
             Records!data, Records!vars

-----------------------------------------------------------------------------
(* The website feed.  What a visit is about to show was open at some moment *)
(* since it began, and so was what it has shown.                            *)

LEMMA FeedAssumed == Feed!FeedAssumption
  BY WorkspaceAssumption

FeedVisits == [phase : {"away", "row", "item", "done"}, secret : BOOLEAN,
               shown : SUBSET {"row", "item"}, open : SUBSET {"row", "item", "specifics"}]

FeedInv ==
  /\ page \in Feed!Page /\ met \subseteq Feed!Condition /\ visit \in FeedVisits
  /\ visit.phase \in {"row", "item"} => Feed!Open \subseteq visit.open
  /\ visit.phase = "item" /\ ~ visit.secret => "specifics" \in visit.open
  /\ visit.phase \in {"away", "row"} => visit.shown = {}
  /\ visit.phase = "item" => "item" \notin visit.shown
  /\ Feed!NothingUnpublishedShown /\ Feed!FlagshipKeepsSecret

LEMMA FeedOpenSorts == Feed!Open \in SUBSET {"row", "item", "specifics"}
  BY DEF Feed!Open

(* What each page and each item asks of what it shows.                      *)
LEMMA FeedPublicRows ==
  ASSUME NEW p \in Feed!Page \ {"event preview", "packages"}
  PROVE  {"live", "public"} \subseteq Feed!RowConditions(p)
  BY DEF Feed!Page, Feed!RowConditions

LEMMA FeedPublicItems ==
  ASSUME NEW i \in Feed!OptIn
  PROVE  {"live", "public"} \subseteq Feed!ItemConditions(i)
  BY DEF Feed!OptIn, Feed!ItemConditions, Feed!Lead

LEMMA FeedRowShown ==
  ASSUME FeedInv, visit.phase = "row", Feed!Meets("row", Feed!RowConditions(page)),
         page \notin {"event preview", "packages"}
  PROVE  "row" \in visit.open
<1>1. {"live", "public"} \subseteq Feed!RowConditions(page)
  BY FeedPublicRows DEF FeedInv
<1>2. {<<"row", "live">>, <<"row", "public">>} \subseteq met
  BY <1>1 DEF Feed!Meets
<1>3. "row" \in Feed!Open
  BY <1>2 DEF Feed!Open
<1> QED  BY <1>3 DEF FeedInv

LEMMA FeedItemShown ==
  ASSUME FeedInv, visit.phase = "item", Feed!Meets("item", Feed!ItemConditions(item)),
         item \in Feed!OptIn
  PROVE  "item" \in visit.open
<1>1. {"live", "public"} \subseteq Feed!ItemConditions(item)
  BY FeedPublicItems
<1>2. {<<"item", "live">>, <<"item", "public">>} \subseteq met
  BY <1>1 DEF Feed!Meets
<1>3. "item" \in Feed!Open
  BY <1>2 DEF Feed!Open
<1> QED  BY <1>3 DEF FeedInv

LEMMA FeedInit == Feed!Init => FeedInv
<1> SUFFICES ASSUME Feed!Init PROVE FeedInv
  OBVIOUS
<1>1. visit \in FeedVisits /\ visit.phase = "away" /\ visit.shown = {}
  BY DEF Feed!Init, Feed!Away, FeedVisits
<1>2. met \subseteq Feed!Condition
  BY DEF Feed!Init
<1> QED  BY <1>1, <1>2 DEF Feed!Init, FeedInv, Feed!NothingUnpublishedShown,
             Feed!FlagshipKeepsSecret

LEMMA FeedComeKeeps == ASSUME FeedInv, Feed!Come PROVE FeedInv'
<1> DEFINE new == [Feed!Away EXCEPT !.phase = "row", !.open = Feed!Open]
<1>1. Feed!Open \in SUBSET {"row", "item", "specifics"}
  BY FeedOpenSorts
<1>2. new \in FeedVisits
  BY <1>1 DEF Feed!Away, FeedVisits
<1>3. new.phase = "row"
  BY DEF Feed!Away
<1>4. new.shown = {}
  BY DEF Feed!Away
<1>5. new.open = Feed!Open
  BY DEF Feed!Away
<1>6. visit' = new /\ UNCHANGED <<page, item, met, reveal>>
  BY DEF Feed!Come
<1> HIDE DEF new
<1>7. Feed!Open' = Feed!Open
  BY <1>6 DEF Feed!Open
<1> QED  BY <1>2, <1>3, <1>4, <1>5, <1>6, <1>7
         DEF FeedInv, Feed!NothingUnpublishedShown, Feed!FlagshipKeepsSecret

LEMMA FeedSelectRowKeeps == ASSUME FeedInv, Feed!SelectRow PROVE FeedInv'
<1>0. /\ visit.phase = "row" /\ visit.shown = {} /\ UNCHANGED <<page, item, met, reveal>>
      /\ visit \in FeedVisits /\ Feed!Open \subseteq visit.open
  BY DEF Feed!SelectRow, FeedInv
<1>1. CASE Feed!Meets("row", Feed!RowConditions(page))
  <2> DEFINE new == [visit EXCEPT !.phase = "item", !.secret = Feed!Secret, !.shown = {"row"}]
  <2>1. new \in FeedVisits
    BY <1>0 DEF FeedVisits, Feed!Secret
  <2>2. new.phase = "item"
    BY <1>0 DEF FeedVisits
  <2>3. new.shown = {"row"}
    BY <1>0 DEF FeedVisits
  <2>4. new.open = visit.open
    BY <1>0 DEF FeedVisits
  <2>5. new.secret = Feed!Secret
    BY <1>0 DEF FeedVisits
  <2>6. visit' = new
    BY <1>1 DEF Feed!SelectRow
  <2> HIDE DEF new
  <2>7. ~ Feed!Secret => "specifics" \in Feed!Open
    BY DEF Feed!Secret, Feed!Open
  <2>8. Feed!Open' = Feed!Open
    BY <1>0 DEF Feed!Open
  <2> QED  BY <1>0, <1>1, <2>1, <2>2, <2>3, <2>4, <2>5, <2>6, <2>7, <2>8, FeedRowShown
           DEF FeedInv, Feed!NothingUnpublishedShown, Feed!FlagshipKeepsSecret
<1>2. CASE ~ Feed!Meets("row", Feed!RowConditions(page))
  <2>1. visit' = [visit EXCEPT !.phase = "done"]
    BY <1>2 DEF Feed!SelectRow
  <2>2. visit' \in FeedVisits /\ visit'.phase = "done" /\ visit'.shown = {}
    BY <1>0, <2>1 DEF FeedVisits
  <2> QED  BY <1>0, <2>2 DEF FeedInv, Feed!NothingUnpublishedShown,
               Feed!FlagshipKeepsSecret
<1> QED  BY <1>1, <1>2

LEMMA FeedSelectItemKeeps == ASSUME FeedInv, Feed!SelectItem PROVE FeedInv'
<1> DEFINE seen == item # Nil /\ Feed!Meets("item", Feed!ItemConditions(item))
                     /\ ~ (visit.secret /\ item \in Feed!Specific)
           shown == IF seen THEN visit.shown \cup {"item"} ELSE visit.shown
           new == [visit EXCEPT !.phase = "done", !.shown = shown]
<1>0. /\ visit.phase = "item" /\ visit \in FeedVisits /\ "item" \notin visit.shown
      /\ visit.shown \in SUBSET {"row", "item"}
  BY DEF Feed!SelectItem, FeedInv, FeedVisits
<1>1. shown \in SUBSET {"row", "item"}
  BY <1>0
<1>2. visit' = new /\ UNCHANGED <<page, item, met, reveal>>
  BY DEF Feed!SelectItem
<1>3. /\ "item" \in shown => Feed!Meets("item", Feed!ItemConditions(item))
                               /\ ~ (visit.secret /\ item \in Feed!Specific)
      /\ "row" \in shown => "row" \in visit.shown
  BY <1>0
<1> HIDE DEF shown
<1>4. new \in FeedVisits
  BY <1>0, <1>1 DEF FeedVisits
<1>5. new.phase = "done"
  BY <1>0 DEF FeedVisits
<1>6. new.shown = shown
  BY <1>0 DEF FeedVisits
<1>7. new.open = visit.open
  BY <1>0 DEF FeedVisits
<1> HIDE DEF new
<1>8. Feed!NothingUnpublishedShown'
  BY <1>0, <1>2, <1>3, <1>6, <1>7, FeedItemShown DEF FeedInv,
      Feed!NothingUnpublishedShown
<1>9. Feed!FlagshipKeepsSecret'
  BY <1>0, <1>2, <1>3, <1>6, <1>7 DEF FeedInv, Feed!FlagshipKeepsSecret
<1> QED  BY <1>2, <1>4, <1>5, <1>8, <1>9 DEF FeedInv

LEMMA FeedDecideKeeps == ASSUME FeedInv, Feed!Decide PROVE FeedInv'
<1>1. met' \subseteq Feed!Condition /\ UNCHANGED <<page, item>>
  BY DEF Feed!Decide, FeedInv
<1>2. CASE visit.phase = "away"
  BY <1>1, <1>2 DEF Feed!Decide, FeedInv, Feed!NothingUnpublishedShown,
      Feed!FlagshipKeepsSecret
<1>3. CASE visit.phase # "away"
  <2> DEFINE new == [visit EXCEPT !.open = visit.open \cup Feed!Open']
  <2>1. visit \in FeedVisits /\ Feed!Open' \in SUBSET {"row", "item", "specifics"}
    BY FeedOpenSorts DEF FeedInv, Feed!Open
  <2>2. visit' = new
    BY <1>3 DEF Feed!Decide
  <2>3. /\ new \in FeedVisits /\ new.phase = visit.phase /\ new.shown = visit.shown
        /\ new.secret = visit.secret /\ new.open = visit.open \cup Feed!Open'
    BY <2>1 DEF FeedVisits
  <2> HIDE DEF new
  <2> QED  BY <1>1, <2>2, <2>3 DEF FeedInv, Feed!NothingUnpublishedShown,
               Feed!FlagshipKeepsSecret
<1> QED  BY <1>2, <1>3

LEMMA FeedStep == FeedInv /\ [Feed!Next]_(Feed!vars) => FeedInv'
<1>1. ASSUME FeedInv, UNCHANGED Feed!vars PROVE FeedInv'
  BY <1>1 DEF Feed!vars, FeedInv, Feed!NothingUnpublishedShown,
      Feed!FlagshipKeepsSecret, Feed!Open
<1> QED  BY <1>1, FeedComeKeeps, FeedSelectRowKeeps, FeedSelectItemKeeps,
             FeedDecideKeeps DEF Feed!Next

LEMMA FeedPromises == FeedInv
  => Feed!TypeOK /\ Feed!NothingUnpublishedShown /\ Feed!FlagshipKeepsSecret
  BY DEF FeedInv, Feed!TypeOK, FeedVisits

-----------------------------------------------------------------------------
(* Sign-ups, leads and bookings.  For each address, a sponsor's sign-up     *)
(* that did not fail has one lead or one request that is about to write it. *)

LEMMA FunnelAssumed == Funnel!FunnelAssumption
  BY WorkspaceAssumption

LEMMA FunnelSizes == \A S : Funnel!Cardinality(S) = Cardinality(S)
  BY DEF Funnel!IsFiniteSet, IsFiniteSet, Funnel!Cardinality, Cardinality

FunnelSender == Email \cup Booking

FunnelVisits ==
  [phase : {"idle", "insert", "lead", "book", "answer"}, kind : Funnel!Kind \cup {Nil},
                 from : FunnelSender \cup {Nil}]

FunnelVisitOK(r) ==
  /\ Funnel!At(r, "insert") => req[r].kind \in Funnel!Kind /\ req[r].from \in Email
  /\ Funnel!At(r, "lead") => req[r].from \in Email
  /\ Funnel!At(r, "book") => req[r].from \in Booking
  /\ Funnel!At(r, "answer") => req[r].from \in Booking /\ leads[req[r].from] > 0

FunnelPending(e, r) == Funnel!At(r, "lead") /\ req[r].from = e

(* A sponsor's signup is one lead, by now or by one request still at it.    *)
FunnelOneLead(e) ==
  /\ \A r, q \in Request : FunnelPending(e, r) /\ FunnelPending(e, q) => r = q
  /\ <<"sponsor", e>> \notin signups \/ e \in missed =>
       leads[e] = 0 /\ \A r \in Request : ~ FunnelPending(e, r)
  /\ <<"sponsor", e>> \notin signups => e \notin missed
  /\ <<"sponsor", e>> \in signups /\ e \notin missed =>
       \/ leads[e] = 1 /\ \A r \in Request : ~ FunnelPending(e, r)
       \/ leads[e] = 0 /\ \E r \in Request : FunnelPending(e, r)

FunnelInv ==
  /\ Funnel!TypeOK
  /\ req \in [Request -> FunnelVisits]
  /\ \A r \in Request : FunnelVisitOK(r)
  /\ Funnel!NoBookingLost
  /\ \A e \in Email : FunnelOneLead(e)

LEMMA FunnelIdleVisit == Funnel!Idle \in FunnelVisits /\ Funnel!Idle.phase = "idle"
  BY DEF Funnel!Idle, FunnelVisits

LEMMA FunnelInit == Funnel!Init => FunnelInv
<1> SUFFICES ASSUME Funnel!Init PROVE FunnelInv
  OBVIOUS
<1>1. req \in [Request -> FunnelVisits] /\ \A r \in Request : req[r].phase = "idle"
  BY FunnelIdleVisit DEF Funnel!Init
<1>2. \A e \in Email : FunnelOneLead(e)
  BY <1>1 DEF Funnel!Init, FunnelOneLead, FunnelPending, Funnel!At
<1>3. \A r \in Request : FunnelVisitOK(r)
  BY <1>1 DEF FunnelVisitOK, Funnel!At
<1> QED  BY <1>1, <1>2, <1>3 DEF Funnel!Init, FunnelInv, Funnel!TypeOK,
             Funnel!NoBookingLost

LEMMA FunnelGoPhase ==
  ASSUME FunnelInv, NEW r \in Request, NEW p \in {"idle", "insert", "lead", "book", "answer"},
         Funnel!Go(r, p)
  PROVE  /\ req' \in [Request -> FunnelVisits] /\ req'[r].phase = p
         /\ req'[r].kind = req[r].kind /\ req'[r].from = req[r].from
         /\ \A q \in Request \ {r} : req'[q] = req[q]
  BY DEF FunnelInv, Funnel!Go, FunnelVisits

LEMMA FunnelLeavePhase ==
  ASSUME FunnelInv, NEW r \in Request, Funnel!Leave(r)
  PROVE  /\ req' \in [Request -> FunnelVisits] /\ req'[r].phase = "idle"
         /\ \A q \in Request \ {r} : req'[q] = req[q]
  BY FunnelIdleVisit DEF FunnelInv, Funnel!Leave

LEMMA FunnelStartKeeps ==
  ASSUME FunnelInv, NEW r \in Request, NEW p \in {"insert", "book"},
         NEW k \in Funnel!Kind \cup {Nil}, NEW s \in FunnelSender, Funnel!Start(r, p, k, s),
         p = "insert" => k \in Funnel!Kind /\ s \in Email, p = "book" => s \in Booking
  PROVE  FunnelInv'
<1> DEFINE new == [phase |-> p, kind |-> k, from |-> s]
<1>1. new \in FunnelVisits /\ new.phase = p /\ new.kind = k /\ new.from = s
  BY DEF FunnelVisits
<1>2. /\ req' = [req EXCEPT ![r] = new] /\ Funnel!At(r, "idle")
      /\ UNCHANGED <<signups, leads, answeredBookings, missed>>
  BY DEF Funnel!Start
<1> HIDE DEF new
<1>3. req' \in [Request -> FunnelVisits] /\ req'[r] = new
        /\ \A q \in Request \ {r} : req'[q] = req[q]
  BY <1>1, <1>2 DEF FunnelInv
<1>4. \A e \in Email, q \in Request : FunnelPending(e, q)' <=> FunnelPending(e, q)
  BY <1>1, <1>2, <1>3 DEF FunnelPending, Funnel!At
<1>5. \A e \in Email : FunnelOneLead(e)'
  BY <1>2, <1>4 DEF FunnelInv, FunnelOneLead
<1>6. \A q \in Request : FunnelVisitOK(q)'
  BY <1>1, <1>2, <1>3 DEF FunnelInv, FunnelVisitOK, Funnel!At
<1> QED  BY <1>2, <1>3, <1>5, <1>6 DEF FunnelInv, Funnel!TypeOK, Funnel!NoBookingLost

LEMMA FunnelInsertKeeps ==
  ASSUME FunnelInv, NEW r \in Request, Funnel!InsertSignup(r)
  PROVE  FunnelInv'
<1>a. PICK a \in Email : a = req[r].from
  BY DEF Funnel!InsertSignup, FunnelInv, FunnelVisitOK
<1> DEFINE signup == <<req[r].kind, a>>
<1>0. a = req[r].from /\ req[r].kind \in Funnel!Kind /\ Funnel!At(r, "insert")
  BY <1>a DEF Funnel!InsertSignup, FunnelInv, FunnelVisitOK
<1>1. UNCHANGED <<leads, answeredBookings, missed>> /\ signups' = signups \cup {signup}
  BY <1>0 DEF Funnel!InsertSignup
<1>2. Funnel!TypeOK'
  BY <1>0, <1>1 DEF FunnelInv, Funnel!TypeOK
<1>3. CASE signup \notin signups /\ req[r].kind = "sponsor"
  <2>1. /\ req' \in [Request -> FunnelVisits] /\ req'[r].phase = "lead" /\ req'[r].from = a
        /\ \A q \in Request \ {r} : req'[q] = req[q]
    BY <1>0, <1>3, FunnelGoPhase DEF Funnel!InsertSignup
  <2>2. <<"sponsor", a>> \notin signups /\ signups' = signups \cup {<<"sponsor", a>>}
    BY <1>1, <1>3
  <2>3. FunnelOneLead(a)'
    <3>1. a \notin missed /\ leads[a] = 0 /\ \A q \in Request : ~ FunnelPending(a, q)
      BY <1>0, <2>2 DEF FunnelInv, FunnelOneLead
    <3>2. FunnelPending(a, r)' /\ \A q \in Request : FunnelPending(a, q)' => q = r
      BY <2>1, <3>1 DEF FunnelPending, Funnel!At
    <3> QED  BY <1>1, <2>2, <3>1, <3>2 DEF FunnelOneLead
  <2>4. ASSUME NEW e \in Email, e # a PROVE FunnelOneLead(e)'
    <3>1. \A q \in Request : FunnelPending(e, q)' <=> FunnelPending(e, q)
      BY <1>0, <2>1, <2>4 DEF FunnelPending, Funnel!At
    <3>2. <<"sponsor", e>> \in signups' <=> <<"sponsor", e>> \in signups
      BY <2>2, <2>4
    <3> QED  BY <1>1, <3>1, <3>2 DEF FunnelInv, FunnelOneLead
  <2>5. \A q \in Request : FunnelVisitOK(q)'
    BY <1>0, <1>1, <2>1 DEF FunnelInv, FunnelVisitOK, Funnel!At
  <2> QED  BY <1>1, <1>2, <2>1, <2>3, <2>4, <2>5 DEF FunnelInv, Funnel!NoBookingLost
<1>4. CASE ~ (signup \notin signups /\ req[r].kind = "sponsor")
  <2>1. /\ req' \in [Request -> FunnelVisits] /\ req'[r].phase = "idle"
        /\ \A q \in Request \ {r} : req'[q] = req[q]
    BY <1>0, <1>4, FunnelLeavePhase DEF Funnel!InsertSignup
  <2>2. \A e \in Email : <<"sponsor", e>> \in signups' <=> <<"sponsor", e>> \in signups
    BY <1>1, <1>4
  <2>3. \A e \in Email, q \in Request : FunnelPending(e, q)' <=> FunnelPending(e, q)
    BY <1>0, <2>1 DEF FunnelPending, Funnel!At
  <2>4. \A e \in Email : FunnelOneLead(e)'
    BY <1>1, <2>2, <2>3 DEF FunnelInv, FunnelOneLead
  <2>5. \A q \in Request : FunnelVisitOK(q)'
    BY <1>1, <2>1 DEF FunnelInv, FunnelVisitOK, Funnel!At
  <2> QED  BY <1>1, <1>2, <2>1, <2>4, <2>5 DEF FunnelInv, Funnel!NoBookingLost
<1> QED  BY <1>3, <1>4

LEMMA FunnelLeadKeeps ==
  ASSUME FunnelInv, NEW r \in Request, Funnel!CreateLead(r)
         \/ (Funnel!Die(r) /\ Funnel!At(r, "lead"))
  PROVE  FunnelInv'
<1>a. PICK a \in Email : a = req[r].from
  BY DEF Funnel!CreateLead, FunnelInv, FunnelVisitOK
<1>0. a = req[r].from /\ a \notin Booking /\ Funnel!At(r, "lead") /\ FunnelPending(a, r)
  BY <1>a, FunnelAssumed DEF Funnel!CreateLead, FunnelInv, FunnelVisitOK,
      FunnelPending, Funnel!FunnelAssumption
<1>1. /\ UNCHANGED <<signups, answeredBookings>>
      /\ \/ leads' = [leads EXCEPT ![a] = leads[a] + 1] /\ UNCHANGED missed
         \/ missed' = missed \cup {a} /\ UNCHANGED leads
  BY <1>0 DEF Funnel!CreateLead, Funnel!Die
<1>2. /\ req' \in [Request -> FunnelVisits] /\ req'[r].phase = "idle"
      /\ \A q \in Request \ {r} : req'[q] = req[q]
  BY FunnelLeavePhase DEF Funnel!CreateLead, Funnel!Die
<1>3. Funnel!TypeOK'
  BY <1>0, <1>1 DEF FunnelInv, Funnel!TypeOK
<1>4. FunnelOneLead(a)'
  <2>1. /\ <<"sponsor", a>> \in signups /\ a \notin missed /\ leads[a] = 0
        /\ \A q \in Request : FunnelPending(a, q) => q = r
    BY <1>0 DEF FunnelInv, FunnelOneLead
  <2>2. \A q \in Request : ~ FunnelPending(a, q)'
    BY <1>2, <2>1 DEF FunnelPending, Funnel!At
  <2>3. leads' = [leads EXCEPT ![a] = leads[a] + 1] => leads'[a] = 1
    BY <1>0, <2>1 DEF FunnelInv, Funnel!TypeOK
  <2> QED  BY <1>1, <2>1, <2>2, <2>3 DEF FunnelOneLead
<1>5. \A s \in FunnelSender \ {a} : leads'[s] = leads[s]
  BY <1>1 DEF FunnelInv, Funnel!TypeOK, FunnelSender
<1>6. ASSUME NEW e \in Email, e # a PROVE FunnelOneLead(e)'
  <2>1. \A q \in Request : FunnelPending(e, q)' <=> FunnelPending(e, q)
    BY <1>2, <1>6, <1>0 DEF FunnelPending, Funnel!At
  <2>2. e \in missed' <=> e \in missed
    BY <1>1, <1>6
  <2>3. leads'[e] = leads[e]
    BY <1>5, <1>6 DEF FunnelSender
  <2> QED  BY <1>1, <2>1, <2>2, <2>3 DEF FunnelInv, FunnelOneLead
<1>7. \A b \in Booking : leads'[b] = leads[b]
  BY <1>0, <1>5 DEF FunnelSender
<1>8. \A q \in Request : FunnelVisitOK(q)'
  BY <1>2, <1>7 DEF FunnelInv, FunnelVisitOK, Funnel!At
<1>9. Funnel!NoBookingLost'
  BY <1>1, <1>7 DEF FunnelInv, Funnel!NoBookingLost, Funnel!TypeOK
<1> QED  BY <1>2, <1>3, <1>4, <1>6, <1>8, <1>9 DEF FunnelInv

LEMMA FunnelBookKeeps ==
  ASSUME FunnelInv, NEW r \in Request, Funnel!BookLead(r)
  PROVE  FunnelInv'
<1> DEFINE b == req[r].from
<1>0. b \in Booking /\ b \notin Email /\ Funnel!At(r, "book")
  BY FunnelAssumed DEF Funnel!BookLead, FunnelInv, FunnelVisitOK,
      Funnel!FunnelAssumption
<1>1. /\ UNCHANGED <<signups, answeredBookings, missed>>
      /\ leads' = [leads EXCEPT ![b] = leads[b] + 1]
  BY DEF Funnel!BookLead
<1>2. /\ req' \in [Request -> FunnelVisits] /\ req'[r].phase = "answer" /\ req'[r].from = b
      /\ \A q \in Request \ {r} : req'[q] = req[q]
  BY FunnelGoPhase DEF Funnel!BookLead
<1>3. Funnel!TypeOK' /\ leads'[b] > 0 /\ (\A s \in FunnelSender \ {b} : leads'[s] = leads[s])
  BY <1>0, <1>1 DEF FunnelInv, Funnel!TypeOK, FunnelSender
<1>4. \A e \in Email : leads'[e] = leads[e]
  BY <1>0, <1>3 DEF FunnelSender
<1>5. \A e \in Email, q \in Request : FunnelPending(e, q)' <=> FunnelPending(e, q)
  BY <1>0, <1>2 DEF FunnelPending, Funnel!At
<1>6. \A e \in Email : FunnelOneLead(e)'
  BY <1>1, <1>4, <1>5 DEF FunnelInv, FunnelOneLead
<1>7. \A s \in Booking : leads[s] > 0 => leads'[s] > 0
  BY <1>3 DEF FunnelSender
<1>8. \A q \in Request : FunnelVisitOK(q)'
  BY <1>0, <1>2, <1>3, <1>7 DEF FunnelInv, FunnelVisitOK, Funnel!At
<1>9. Funnel!NoBookingLost'
  BY <1>1, <1>7 DEF FunnelInv, Funnel!NoBookingLost, Funnel!TypeOK
<1> QED  BY <1>2, <1>3, <1>6, <1>8, <1>9 DEF FunnelInv

(* A request ends that has no lead to create.                               *)
LEMMA FunnelEndKeeps ==
  ASSUME FunnelInv, NEW r \in Request, Funnel!Leave(r), ~ Funnel!At(r, "lead"),
         UNCHANGED <<signups, leads, missed>>,
         answeredBookings' \subseteq Booking, \A b \in answeredBookings' : leads[b] > 0
  PROVE  FunnelInv'
<1>1. /\ req' \in [Request -> FunnelVisits] /\ req'[r].phase = "idle"
      /\ \A q \in Request \ {r} : req'[q] = req[q]
  BY FunnelLeavePhase
<1>2. \A e \in Email, q \in Request : FunnelPending(e, q)' <=> FunnelPending(e, q)
  BY <1>1 DEF FunnelPending, Funnel!At
<1>3. \A e \in Email : FunnelOneLead(e)'
  BY <1>2 DEF FunnelInv, FunnelOneLead
<1>4. \A q \in Request : FunnelVisitOK(q)'
  BY <1>1 DEF FunnelInv, FunnelVisitOK, Funnel!At
<1> QED  BY <1>1, <1>3, <1>4 DEF FunnelInv, Funnel!TypeOK, Funnel!NoBookingLost

LEMMA FunnelStep == FunnelInv /\ [Funnel!Next]_(Funnel!vars) => FunnelInv'
<1> SUFFICES ASSUME FunnelInv, [Funnel!Next]_(Funnel!vars) PROVE FunnelInv'
  OBVIOUS
<1>1. ASSUME NEW r \in Request, NEW k \in Funnel!Kind, NEW e \in Email, Funnel!SignUp(r, k, e)
      PROVE  FunnelInv'
  BY <1>1, FunnelStartKeeps DEF Funnel!SignUp, FunnelSender
<1>2. ASSUME NEW r \in Request, NEW b \in Booking, Funnel!DeliverBooking(r, b) PROVE FunnelInv'
  BY <1>2, FunnelStartKeeps DEF Funnel!DeliverBooking, FunnelSender
<1>3. ASSUME NEW r \in Request, Funnel!AnswerBooking(r) PROVE FunnelInv'
  <2>1. Funnel!At(r, "answer") /\ ~ Funnel!At(r, "lead") /\ req[r].from \in Booking
          /\ leads[req[r].from] > 0
    BY <1>3 DEF Funnel!AnswerBooking, FunnelInv, FunnelVisitOK, Funnel!At
  <2>2. answeredBookings' = answeredBookings \cup {req[r].from} /\ UNCHANGED <<signups, leads,
        missed>> /\ Funnel!Leave(r)
    BY <1>3 DEF Funnel!AnswerBooking
  <2> QED  BY <2>1, <2>2, FunnelEndKeeps DEF FunnelInv, Funnel!TypeOK,
               Funnel!NoBookingLost
<1>4. ASSUME NEW r \in Request, Funnel!Die(r) PROVE FunnelInv'
  <2>1. CASE Funnel!At(r, "lead")
    BY <1>4, <2>1, FunnelLeadKeeps
  <2>2. CASE ~ Funnel!At(r, "lead")
    BY <1>4, <2>2, FunnelEndKeeps DEF Funnel!Die, FunnelInv, Funnel!TypeOK,
        Funnel!NoBookingLost
  <2> QED  BY <2>1, <2>2
<1>5. CASE Funnel!EditEvent
  BY <1>5 DEF Funnel!EditEvent, FunnelInv, Funnel!TypeOK, Funnel!NoBookingLost,
      FunnelVisitOK, FunnelOneLead, FunnelPending, Funnel!At
<1>6. CASE UNCHANGED Funnel!vars
  BY <1>6 DEF Funnel!vars, FunnelInv, Funnel!TypeOK, Funnel!NoBookingLost,
      FunnelVisitOK, FunnelOneLead, FunnelPending, Funnel!At
<1> QED  BY <1>1, <1>2, <1>3, <1>4, <1>5, <1>6, FunnelInsertKeeps, FunnelLeadKeeps,
             FunnelBookKeeps DEF Funnel!Next

LEMMA FunnelPromises == FunnelInv => Funnel!TypeOK /\ Funnel!LeadOnce /\ Funnel!NoBookingLost
<1> SUFFICES ASSUME FunnelInv PROVE Funnel!LeadOnce
  BY DEF FunnelInv
<1> SUFFICES ASSUME NEW e \in Email
             PROVE  leads[e] + Cardinality({r \in Request : Funnel!At(r, "lead") /\ req[r].from = e})
                      = IF <<"sponsor", e>> \in signups /\ e \notin missed THEN 1 ELSE 0
  BY FunnelSizes DEF Funnel!LeadOnce
<1> DEFINE pending == {r \in Request : Funnel!At(r, "lead") /\ req[r].from = e}
<1>1. pending = {r \in Request : FunnelPending(e, r)} /\ FunnelOneLead(e)
  BY DEF FunnelPending, FunnelInv
<1>2. CASE \A r \in Request : ~ FunnelPending(e, r)
  <2>1. pending = {}
    BY <1>1, <1>2
  <2>2. Cardinality(pending) = 0
    BY <2>1, FS_EmptySet
  <2> HIDE DEF pending
  <2>3. leads[e] = IF <<"sponsor", e>> \in signups /\ e \notin missed THEN 1 ELSE 0
    BY <1>1, <1>2 DEF FunnelOneLead
  <2> QED  BY <2>2, <2>3 DEF pending
<1>3. CASE \E r \in Request : FunnelPending(e, r)
  <2>1. PICK r \in Request : FunnelPending(e, r)
    BY <1>3
  <2>2. pending = {r}
    BY <1>1, <2>1 DEF FunnelOneLead
  <2>3. Cardinality(pending) = 1
    BY <2>2, FS_Singleton
  <2> HIDE DEF pending
  <2>4. leads[e] = 0 /\ <<"sponsor", e>> \in signups /\ e \notin missed
    BY <1>1, <2>1 DEF FunnelOneLead
  <2> QED  BY <2>3, <2>4 DEF pending
<1> QED  BY <1>2, <1>3

-----------------------------------------------------------------------------
(* The link of a Discord account.  A user whose claims never overlapped has *)
(* one request at work at most, and that one knows the link the user has.   *)

LEMMA DiscordAssumed == Discord!LinkAssumption
  BY WorkspaceAssumption

DiscordClaims == [phase : {"idle", "player", "find", "commit"}, user : DiscordUser \cup {Nil},
                  account : Account \cup {Nil}, found : Account \cup {Nil}]

(* Where a request is decides what it holds.                                *)
DiscordHolds(r) ==
  /\ Discord!At(r, "player") => req[r].account \in Account
  /\ req[r].phase \in {"idle", "player"} => req[r].user = Nil
  /\ req[r].phase \in {"find", "commit"} =>
       req[r].user \in DiscordUser /\ req[r].account \in players

(* A user whose claims never overlapped has one at work at most, and it     *)
(* knows the link there is.                                                 *)
DiscordAloneAtWork ==
  \A r \in Request : req[r].user \in DiscordUser \ racedUsers =>
    /\ \A q \in Request : req[q].user = req[r].user => q = r
    /\ Discord!At(r, "commit") => req[r].found = link[req[r].user]

DiscordInv ==
  /\ Discord!TypeOK /\ Discord!LastClaimHolds /\ DiscordAloneAtWork
  /\ link \in [DiscordUser -> Account \cup {Nil}]
  /\ claimed \in [DiscordUser -> Account \cup {Nil}]
  /\ req \in [Request -> DiscordClaims]
  /\ \A r \in Request : DiscordHolds(r)

LEMMA DiscordInit == Discord!Init => DiscordInv
<1> SUFFICES ASSUME Discord!Init PROVE DiscordInv
  OBVIOUS
<1>1. /\ Discord!Idle \in DiscordClaims /\ Discord!Idle.phase = "idle"
      /\ Discord!Idle.user = Nil /\ Nil \notin DiscordUser
  BY DiscordAssumed DEF Discord!Idle, DiscordClaims, Discord!LinkAssumption
<1>2. /\ req \in [Request -> DiscordClaims]
      /\ \A r \in Request : req[r].phase = "idle" /\ req[r].user = Nil
  BY <1>1 DEF Discord!Init
<1> QED
  BY <1>1, <1>2 DEF Discord!Init, DiscordInv, Discord!TypeOK, Discord!LastClaimHolds,
      DiscordAloneAtWork, DiscordHolds, Discord!At

(* A step of r that leaves the links alone.                                 *)
LEMMA DiscordLinksKept ==
  ASSUME DiscordInv, NEW r \in Request,
         NEW new \in DiscordClaims, req' = [req EXCEPT ![r] = new],
         UNCHANGED <<link, claimed>>, players \subseteq players', players' \subseteq Account,
         racedUsers \subseteq racedUsers', racedUsers' \subseteq DiscordUser,
         new.phase = "player" => new.account \in Account,
         new.phase \in {"idle", "player"} => new.user = Nil,
         new.phase \in {"find", "commit"}
           => new.user \in DiscordUser /\ new.account \in players,
         new.user \in DiscordUser \ racedUsers' =>
           /\ \A q \in Request : req[q].user = new.user => q = r
           /\ new.phase = "commit" => new.found = link[new.user]
  PROVE  DiscordInv'
<1>1. /\ req' \in [Request -> DiscordClaims] /\ req'[r] = new
      /\ \A q \in Request \ {r} : req'[q] = req[q]
  BY DEF DiscordInv
<1>2. Discord!TypeOK'
  BY DEF DiscordInv, Discord!TypeOK
<1>3. Discord!LastClaimHolds'
  BY DEF DiscordInv, Discord!LastClaimHolds
<1>4. DiscordAloneAtWork'
  <2> SUFFICES ASSUME NEW q \in Request, req'[q].user \in DiscordUser \ racedUsers'
               PROVE  /\ \A p \in Request : req'[p].user = req'[q].user => p = q
                      /\ Discord!At(q, "commit")' => req'[q].found = link[req'[q].user]
    BY DEF DiscordAloneAtWork
  <2>1. CASE q = r
    BY <2>1, <1>1 DEF Discord!At
  <2>2. CASE q # r
    <3>1. req'[q] = req[q] /\ req[q].user \in DiscordUser \ racedUsers
      BY <2>2, <1>1
    <3>2. new.user # req[q].user
      BY <2>2, <3>1
    <3> QED  BY <2>2, <3>1, <3>2, <1>1 DEF DiscordInv, DiscordAloneAtWork, Discord!At
  <2> QED  BY <2>1, <2>2
<1>5. \A q \in Request : DiscordHolds(q)'
  BY <1>1 DEF DiscordInv, DiscordHolds, Discord!At
<1> QED  BY <1>1, <1>2, <1>3, <1>4, <1>5 DEF DiscordInv

LEMMA DiscordIdleClaim ==
  /\ Discord!Idle \in DiscordClaims /\ Discord!Idle.phase = "idle"
  /\ Discord!Idle.user = Nil /\ Nil \notin DiscordUser
  BY DiscordAssumed DEF Discord!Idle, DiscordClaims, Discord!LinkAssumption

LEMMA DiscordLeaveKeeps ==
  ASSUME DiscordInv, NEW r \in Request, Discord!Leave(r),
         UNCHANGED <<link, claimed, racedUsers>>, players \subseteq players',
         players' \subseteq Account
  PROVE  DiscordInv'
  BY DiscordIdleClaim, DiscordLinksKept DEF Discord!Leave, DiscordInv, Discord!TypeOK

LEMMA DiscordStartKeeps ==
  ASSUME DiscordInv, NEW r \in Request, NEW a \in Account, Discord!Start(r, a)
  PROVE  DiscordInv'
<1> DEFINE new == [Discord!Idle EXCEPT !.phase = "player", !.account = a]
<1>1. new \in DiscordClaims /\ new.phase = "player" /\ new.account = a /\ new.user = Nil
  BY DEF Discord!Idle, DiscordClaims
<1>2. req' = [req EXCEPT ![r] = new] /\ UNCHANGED <<players, link, claimed, racedUsers>>
  BY DEF Discord!Start
<1> HIDE DEF new
<1> QED  BY <1>1, <1>2, DiscordIdleClaim, DiscordLinksKept DEF DiscordInv,
             Discord!TypeOK

LEMMA DiscordClaimKeeps ==
  ASSUME DiscordInv, NEW r \in Request, NEW u \in DiscordUser,
         NEW a \in Account, Discord!Claim(r, u, a)
  PROVE  DiscordInv'
<1> DEFINE new == [Discord!Idle EXCEPT !.phase = "find", !.user = u, !.account = a]
<1>1. new \in DiscordClaims /\ new.phase = "find" /\ new.account = a /\ new.user = u
  BY DEF Discord!Idle, DiscordClaims
<1>2. /\ req' = [req EXCEPT ![r] = new] /\ a \in players
      /\ racedUsers' = (IF \E q \in Request : req[q].user = u THEN racedUsers \cup {u} ELSE racedUsers)
      /\ UNCHANGED <<players, link, claimed>>
  BY DEF Discord!Claim
<1> HIDE DEF new
<1>3. /\ racedUsers \subseteq racedUsers' /\ racedUsers' \subseteq DiscordUser
      /\ players \subseteq Account
      /\ u \notin racedUsers' => \A q \in Request : req[q].user # u
  BY <1>2 DEF DiscordInv, Discord!TypeOK
<1> QED  BY <1>1, <1>2, <1>3, DiscordLinksKept

LEMMA DiscordFindLinkKeeps ==
  ASSUME DiscordInv, NEW r \in Request, Discord!FindLink(r)
  PROVE  DiscordInv'
<1> DEFINE new == [req[r] EXCEPT !.phase = "commit", !.found = link[req[r].user]]
<1>1. /\ req[r] \in DiscordClaims /\ req[r].user \in DiscordUser /\ req[r].account \in players
      /\ link[req[r].user] \in Account \cup {Nil}
  BY DEF Discord!FindLink, DiscordInv, DiscordHolds, Discord!At
<1>2. /\ new \in DiscordClaims /\ new.phase = "commit" /\ new.account = req[r].account
      /\ new.user = req[r].user /\ new.found = link[req[r].user]
  BY <1>1 DEF DiscordClaims
<1>3. req' = [req EXCEPT ![r] = new] /\ UNCHANGED <<players, link, claimed, racedUsers>>
  BY DEF Discord!FindLink
<1> HIDE DEF new
<1>4. new.user \in DiscordUser \ racedUsers => \A q \in Request : req[q].user = new.user
        => q = r
  BY <1>2 DEF DiscordInv, DiscordAloneAtWork
<1> QED  BY <1>1, <1>2, <1>3, <1>4, DiscordLinksKept DEF DiscordInv, Discord!TypeOK

LEMMA DiscordCommitLinkKeeps ==
  ASSUME DiscordInv, NEW r \in Request, Discord!CommitLink(r)
  PROVE  DiscordInv'
<1> DEFINE u == req[r].user
           a == req[r].account
           f == req[r].found
<1>1. u \in DiscordUser /\ a \in players /\ players \subseteq Account
  BY DEF Discord!CommitLink, DiscordInv, DiscordHolds, Discord!At, Discord!TypeOK
<1>2. /\ link' = [link EXCEPT ![u] = IF f = a THEN @ ELSE a]
      /\ claimed' = [claimed EXCEPT ![u] = a]
      /\ UNCHANGED <<players, racedUsers>>
  BY DEF Discord!CommitLink, Discord!Answer
<1>3. u \notin racedUsers => f = link[u] /\ \A q \in Request : req[q].user = u => q = r
  BY <1>1 DEF Discord!CommitLink, DiscordInv, DiscordAloneAtWork
<1>4. /\ req' \in [Request -> DiscordClaims] /\ req'[r] = Discord!Idle
      /\ \A q \in Request \ {r} : req'[q] = req[q]
  BY DiscordIdleClaim DEF Discord!CommitLink, Discord!Answer, Discord!Leave, DiscordInv
<1> HIDE DEF u, a, f
<1>5. /\ link' \in [DiscordUser -> Account \cup {Nil}]
      /\ claimed' \in [DiscordUser -> Account \cup {Nil}]
      /\ claimed'[u] = a /\ link'[u] = (IF f = a THEN link[u] ELSE a)
      /\ \A v \in DiscordUser \ {u} : link'[v] = link[v] /\ claimed'[v] = claimed[v]
  BY <1>1, <1>2 DEF DiscordInv
<1>6. Discord!TypeOK'
  <2>1. link[u] \in players \cup {Nil}
    BY <1>1 DEF DiscordInv, Discord!TypeOK
  <2> QED  BY <1>1, <1>2, <1>5, <2>1 DEF DiscordInv, Discord!TypeOK
<1>7. Discord!LastClaimHolds'
  <2>1. u \notin racedUsers => link'[u] = a
    BY <1>3, <1>5
  <2> QED  BY <1>2, <1>5, <2>1 DEF DiscordInv, Discord!LastClaimHolds
<1>8. DiscordAloneAtWork'
  <2> SUFFICES ASSUME NEW q \in Request \ {r}, req[q].user \in DiscordUser \ racedUsers
               PROVE  /\ \A p \in Request : req'[p].user = req[q].user => p = q
                      /\ Discord!At(q, "commit") => req[q].found = link'[req[q].user]
    BY <1>2, <1>4, DiscordIdleClaim DEF DiscordAloneAtWork, Discord!At
  <2>1. /\ \A p \in Request : req[p].user = req[q].user => p = q
        /\ Discord!At(q, "commit") => req[q].found = link[req[q].user]
    BY DEF DiscordInv, DiscordAloneAtWork
  <2>2. req[q].user # u
    BY <2>1 DEF u
  <2> QED  BY <1>4, <1>5, <2>1, <2>2, DiscordIdleClaim
<1>9. \A q \in Request : DiscordHolds(q)'
  BY <1>2, <1>4, DiscordIdleClaim DEF DiscordInv, DiscordHolds, Discord!At
<1> QED  BY <1>4, <1>5, <1>6, <1>7, <1>8, <1>9 DEF DiscordInv

LEMMA DiscordStep == DiscordInv /\ [Discord!Next]_(Discord!vars) => DiscordInv'
<1> SUFFICES ASSUME DiscordInv, [Discord!Next]_(Discord!vars) PROVE DiscordInv'
  OBVIOUS
<1>1. ASSUME NEW r \in Request, NEW a \in Account, Discord!Start(r, a) PROVE DiscordInv'
  BY <1>1, DiscordStartKeeps
<1>2. ASSUME NEW r \in Request, NEW a \in Account, NEW u \in DiscordUser, Discord!Claim(r, u, a)
      PROVE  DiscordInv'
  BY <1>2, DiscordClaimKeeps
<1>3. ASSUME NEW r \in Request, Discord!InsertPlayer(r) PROVE DiscordInv'
  <2>1. /\ Discord!Leave(r) /\ UNCHANGED <<link, claimed, racedUsers>>
        /\ players' = players \cup {req[r].account} /\ req[r].account \in Account
        /\ players \subseteq Account
    BY <1>3 DEF Discord!InsertPlayer, DiscordInv, DiscordHolds, Discord!TypeOK
  <2> QED  BY <2>1, DiscordLeaveKeeps
<1>4. ASSUME NEW r \in Request, Discord!FindLink(r) PROVE DiscordInv'
  BY <1>4, DiscordFindLinkKeeps
<1>5. ASSUME NEW r \in Request, Discord!CommitLink(r) PROVE DiscordInv'
  BY <1>5, DiscordCommitLinkKeeps
<1>6. ASSUME NEW r \in Request, Discord!Fail(r) PROVE DiscordInv'
  BY <1>6, DiscordLeaveKeeps DEF Discord!Fail, DiscordInv, Discord!TypeOK
<1>7. CASE UNCHANGED Discord!vars
  BY <1>7 DEF Discord!vars, DiscordInv, Discord!TypeOK, Discord!LastClaimHolds,
      DiscordAloneAtWork, DiscordHolds, Discord!At
<1> QED  BY <1>1, <1>2, <1>3, <1>4, <1>5, <1>6, <1>7 DEF Discord!Next

-----------------------------------------------------------------------------
(* The projects.  Two projects never share a slug, and a public one has a   *)
(* review that approved it, whatever the requests at work have loaded.      *)

LEMMA ProjectsAssumed == Projects!ProjectsAssumption
  BY WorkspaceAssumption

(* What a request has read is a guess: the row is looked at again when it   *)
(* is written, by the CHECK and by the index.                               *)
ProjectsEdits == [phase : {"idle", "check", "commit"}, project : Project \cup {Nil},
                  slug : ProjectSlug \cup {Nil, Keep}, public : BOOLEAN \cup {Keep},
                  review : Projects!State \cup {Keep}]

ProjectsInv ==
  /\ Projects!TypeOK /\ Projects!PublicIsApproved /\ Projects!OneProjectPerSlug
  /\ req \in [Request -> ProjectsEdits]
  /\ \A r \in Request : ~ Projects!At(r, "idle") => req[r].project \in Project

LEMMA ProjectsInit == Projects!Init => ProjectsInv
<1>1. Projects!Idle \in ProjectsEdits
  BY ProjectsAssumed DEF Projects!Idle, ProjectsEdits
<1> QED
  BY <1>1 DEF Projects!Init, ProjectsInv, Projects!TypeOK, Projects!PublicIsApproved,
      Projects!OneProjectPerSlug, Projects!Idle, Projects!At, Projects!State

(* A step of r that leaves the table alone.                                 *)
LEMMA ProjectsTableKept ==
  ASSUME ProjectsInv, NEW r \in Request,
         NEW new \in ProjectsEdits, req' = [req EXCEPT ![r] = new],
         new.phase # "idle" => new.project \in Project, UNCHANGED Projects!table
  PROVE  ProjectsInv'
<1>1. /\ req' \in [Request -> ProjectsEdits] /\ req'[r] = new
      /\ \A q \in Request \ {r} : req'[q] = req[q]
  BY DEF ProjectsInv
<1> QED
  BY <1>1 DEF ProjectsInv, Projects!TypeOK, Projects!PublicIsApproved,
      Projects!OneProjectPerSlug, Projects!At, Projects!table

LEMMA ProjectsLeaveKeeps ==
  ASSUME ProjectsInv, NEW r \in Request, Projects!Leave(r), UNCHANGED Projects!table
  PROVE  ProjectsInv'
<1>1. Projects!Idle \in ProjectsEdits /\ Projects!Idle.phase = "idle"
  BY ProjectsAssumed DEF Projects!Idle, ProjectsEdits
<1> QED  BY <1>1, ProjectsTableKept DEF Projects!Leave

LEMMA ProjectsLoadKeeps ==
  ASSUME ProjectsInv, NEW r \in Request, NEW p \in Project, NEW s \in ProjectSlug \cup {Keep},
         NEW pub \in BOOLEAN \cup {Keep}, Projects!Load(r, p, s, pub)
  PROVE  ProjectsInv'
<1> DEFINE new == [phase |-> IF s \in {Keep, projectSlug[p]} THEN "commit" ELSE "check", project |-> p,
                   slug |-> Projects!Changed(s, projectSlug[p]),
                   public |-> Projects!Changed(pub, public[p]),
                   review |-> Projects!Changed(Projects!Gate(p, pub), review[p])]
<1>1. /\ Projects!Changed(s, projectSlug[p]) \in ProjectSlug \cup {Nil, Keep}
      /\ Projects!Changed(pub, public[p]) \in BOOLEAN \cup {Keep}
      /\ Projects!Changed(Projects!Gate(p, pub), review[p]) \in Projects!State \cup {Keep}
  BY DEF Projects!Changed, Projects!Gate, Projects!State
<1>2. new \in ProjectsEdits /\ new.project = p
  BY <1>1 DEF ProjectsEdits
<1>3. req' = [req EXCEPT ![r] = new] /\ UNCHANGED Projects!table
  BY DEF Projects!Load
<1> HIDE DEF new
<1> QED  BY <1>2, <1>3, ProjectsTableKept

LEMMA ProjectsCheckKeeps ==
  ASSUME ProjectsInv, NEW r \in Request, Projects!CheckSlug(r)
  PROVE  ProjectsInv'
<1>1. CASE Projects!Leave(r)
  BY <1>1, ProjectsLeaveKeeps DEF Projects!CheckSlug
<1>2. CASE req' = [req EXCEPT ![r].phase = "commit"]
  <2> DEFINE new == [req[r] EXCEPT !.phase = "commit"]
  <2>1. req[r] \in ProjectsEdits /\ req[r].project \in Project
    BY DEF Projects!CheckSlug, ProjectsInv, Projects!At
  <2>2. new \in ProjectsEdits /\ new.project = req[r].project
    BY <2>1 DEF ProjectsEdits
  <2>3. req' = [req EXCEPT ![r] = new] /\ UNCHANGED Projects!table
    BY <1>2 DEF Projects!CheckSlug
  <2> HIDE DEF new
  <2> QED  BY <2>1, <2>2, <2>3, ProjectsTableKept
<1> QED  BY <1>1, <1>2 DEF Projects!CheckSlug

LEMMA ProjectsCommitKeeps ==
  ASSUME ProjectsInv, NEW r \in Request, Projects!Commit(r)
  PROVE  ProjectsInv'
<1> DEFINE p == req[r].project
<1>1. p \in Project /\ req[r] \in ProjectsEdits
  BY DEF Projects!Commit, ProjectsInv, Projects!At
<1>2. Projects!Idle \in ProjectsEdits /\ Projects!Idle.phase = "idle"
  BY ProjectsAssumed DEF Projects!Idle, ProjectsEdits
<1>3. /\ Projects!Apply(projectSlug[p], req[r].slug) \in ProjectSlug \cup {Nil}
      /\ Projects!Apply(public[p], req[r].public) \in BOOLEAN
      /\ Projects!Apply(review[p], req[r].review) \in Projects!State
  BY <1>1 DEF Projects!Apply, ProjectsEdits, ProjectsInv, Projects!TypeOK
<1>4. /\ projectRows' = projectRows \cup {p}
      /\ projectSlug' \in [Project -> ProjectSlug \cup {Nil}]
      /\ public' \in [Project -> BOOLEAN]
      /\ review' \in [Project -> Projects!State]
      /\ \A q \in Project \ {p} :
           projectSlug'[q] = projectSlug[q] /\ public'[q] = public[q] /\ review'[q] = review[q]
      /\ Projects!Passes(public'[p], review'[p]) /\ Projects!Unique(p, projectSlug'[p])
  BY <1>1, <1>3 DEF Projects!Commit, ProjectsInv, Projects!TypeOK
<1>5. /\ req' \in [Request -> ProjectsEdits] /\ req'[r] = Projects!Idle
      /\ \A q \in Request \ {r} : req'[q] = req[q]
  BY <1>2 DEF Projects!Commit, Projects!Leave, ProjectsInv
<1> HIDE DEF p
<1>6. Projects!TypeOK'
  BY <1>1, <1>4 DEF ProjectsInv, Projects!TypeOK
<1>7. Projects!PublicIsApproved'
  BY <1>4 DEF ProjectsInv, Projects!PublicIsApproved, Projects!Passes
<1>8. Projects!OneProjectPerSlug'
  <2>1. projectSlug'[p] = Nil \/ \A o \in projectRows \ {p} : projectSlug[o] # projectSlug'[p]
    BY <1>4 DEF Projects!Unique, Projects!Taken
  <2>2. \A o \in projectRows \ {p} : projectSlug'[o] = projectSlug[o]
    BY <1>4 DEF ProjectsInv, Projects!TypeOK
  <2> QED  BY <1>4, <2>1, <2>2 DEF ProjectsInv, Projects!OneProjectPerSlug
<1> QED  BY <1>2, <1>5, <1>6, <1>7, <1>8 DEF ProjectsInv, Projects!At

LEMMA ProjectsStep == ProjectsInv /\ [Projects!Next]_(Projects!vars) => ProjectsInv'
<1> SUFFICES ASSUME ProjectsInv, [Projects!Next]_(Projects!vars) PROVE ProjectsInv'
  OBVIOUS
<1>1. ASSUME NEW r \in Request, NEW p \in Project, NEW s \in ProjectSlug \cup {Keep},
             NEW pub \in BOOLEAN \cup {Keep}, Projects!Load(r, p, s, pub)
      PROVE  ProjectsInv'
  BY <1>1, ProjectsLoadKeeps
<1>2. ASSUME NEW r \in Request, Projects!CheckSlug(r) PROVE ProjectsInv'
  BY <1>2, ProjectsCheckKeeps
<1>3. ASSUME NEW r \in Request, Projects!Commit(r) PROVE ProjectsInv'
  BY <1>3, ProjectsCommitKeeps
<1>4. ASSUME NEW r \in Request, Projects!Fail(r) PROVE ProjectsInv'
  BY <1>4, ProjectsLeaveKeeps DEF Projects!Fail
<1>5. ASSUME NEW p \in Project, Projects!Moderate(p) PROVE ProjectsInv'
  BY <1>5 DEF Projects!Moderate, ProjectsInv, Projects!TypeOK,
      Projects!PublicIsApproved, Projects!OneProjectPerSlug, Projects!At,
      Projects!State
<1>6. CASE UNCHANGED Projects!vars
  BY <1>6 DEF Projects!vars, ProjectsInv, Projects!TypeOK, Projects!PublicIsApproved,
      Projects!OneProjectPerSlug, Projects!At
<1> QED  BY <1>1, <1>2, <1>3, <1>4, <1>5, <1>6 DEF Projects!Next

-----------------------------------------------------------------------------
(* The review form of an event.  Unless two requests made a form at once,   *)
(* one request at most is making one, and no form but the stored one was    *)
(* handed out.                                                              *)

LEMMA ReviewAssumed == Review!ReviewAssumption
  BY WorkspaceAssumption

ReviewForms == [phase : {"idle", "create", "commit", "answer"}, form : Form \cup {Nil}]

ReviewMaking(r) == Review!At(r, "create") \/ Review!At(r, "commit")

(* Unspoilt: one request makes the first form, and until it is stored there *)
(* is no other.                                                             *)
ReviewOneForm ==
  /\ handedForms \subseteq {stored}
  /\ \A f \in created : f = stored \/ \E r \in Request : Review!At(r, "commit")
       /\ req[r].form = f
  /\ \A r, q \in Request : ReviewMaking(r) /\ ReviewMaking(q) => r = q
  /\ \A r \in Request : ReviewMaking(r) => stored = Nil /\ handedForms = {}
  /\ \A r \in Request : Review!At(r, "create") => created = {}

ReviewInv ==
  /\ Review!TypeOK
  /\ spoilt \in BOOLEAN
  /\ req \in [Request -> ReviewForms]
  /\ \A r \in Request : Review!At(r, "commit") => req[r].form \in created
  /\ \A r \in Request : Review!At(r, "answer") => stored # Nil
  /\ ~ spoilt => ReviewOneForm

LEMMA ReviewIdleForm == Review!Idle \in ReviewForms /\ Review!Idle.phase = "idle"
  BY DEF Review!Idle, ReviewForms

LEMMA ReviewInit == Review!Init => ReviewInv
<1> SUFFICES ASSUME Review!Init PROVE ReviewInv
  OBVIOUS
<1>1. req \in [Request -> ReviewForms] /\ \A r \in Request : req[r].phase = "idle"
  BY ReviewIdleForm DEF Review!Init
<1> QED  BY <1>1 DEF Review!Init, ReviewInv, Review!TypeOK, ReviewOneForm,
             ReviewMaking, Review!At

LEMMA ReviewGoPhase ==
  ASSUME ReviewInv, NEW r \in Request,
         NEW p \in {"idle", "create", "commit", "answer"}, Review!Go(r, p)
  PROVE  /\ req' \in [Request -> ReviewForms] /\ req'[r].phase = p /\ req'[r].form = req[r].form
         /\ \A q \in Request \ {r} : req'[q] = req[q]
  BY DEF ReviewInv, Review!Go, ReviewForms

LEMMA ReviewLeavePhase ==
  ASSUME ReviewInv, NEW r \in Request, Review!Leave(r)
  PROVE  /\ req' \in [Request -> ReviewForms] /\ req'[r].phase = "idle"
         /\ \A q \in Request \ {r} : req'[q] = req[q]
  BY ReviewIdleForm DEF ReviewInv, Review!Leave

LEMMA ReviewAskKeeps ==
  ASSUME ReviewInv, NEW r \in Request, NEW force \in BOOLEAN, Review!Ask(r, force)
  PROVE  ReviewInv'
<1>0. Review!At(r, "idle") /\ UNCHANGED <<stored, created, handedForms>>
  BY DEF Review!Ask
<1>1. CASE stored # Nil /\ ~ force
  <2>1. /\ req' \in [Request -> ReviewForms] /\ req'[r].phase = "answer" /\ UNCHANGED spoilt
        /\ \A q \in Request \ {r} : req'[q] = req[q]
    BY <1>1, ReviewGoPhase DEF Review!Ask
  <2> QED  BY <1>0, <1>1, <2>1 DEF ReviewInv, Review!TypeOK, ReviewOneForm,
               ReviewMaking, Review!At
<1>2. CASE ~ (stored # Nil /\ ~ force)
  <2>1. /\ req' \in [Request -> ReviewForms] /\ req'[r].phase = "create"
        /\ \A q \in Request \ {r} : req'[q] = req[q]
        /\ spoilt' = (spoilt \/ force \/ \E q \in Request : Review!At(q, "create") \/ Review!At(q, "commit"))
    BY <1>2, ReviewGoPhase DEF Review!Ask
  <2>2. ASSUME ~ spoilt' PROVE ReviewOneForm'
    <3>1. ~ spoilt /\ stored = Nil /\ \A q \in Request : ~ ReviewMaking(q)
      BY <1>2, <2>1, <2>2 DEF ReviewMaking
    <3>2. created = {} /\ handedForms = {}
      BY <3>1, ReviewAssumed DEF ReviewInv, ReviewOneForm, ReviewMaking, Review!TypeOK,
          Review!ReviewAssumption
    <3> QED  BY <1>0, <2>1, <3>1, <3>2 DEF ReviewOneForm, ReviewMaking, Review!At
  <2>3. spoilt' \in BOOLEAN
    BY <2>1
  <2> QED  BY <1>0, <2>1, <2>2, <2>3 DEF ReviewInv, Review!TypeOK, Review!At
<1> QED  BY <1>1, <1>2

LEMMA ReviewCreateKeeps ==
  ASSUME ReviewInv, NEW r \in Request, NEW f \in Form, Review!CreateForm(r, f)
  PROVE  ReviewInv'
<1> DEFINE new == [phase |-> "commit", form |-> f]
<1>1. new \in ReviewForms /\ new.phase = "commit" /\ new.form = f
  BY DEF ReviewForms
<1>2. /\ req' = [req EXCEPT ![r] = new] /\ created' = created \cup {f} /\ Review!At(r, "create")
      /\ UNCHANGED <<stored, handedForms, spoilt>>
  BY DEF Review!CreateForm
<1> HIDE DEF new
<1>3. /\ req' \in [Request -> ReviewForms] /\ req'[r] = new
      /\ \A q \in Request \ {r} : req'[q] = req[q]
  BY <1>1, <1>2 DEF ReviewInv
<1>4. ~ spoilt' => ReviewOneForm'
  BY <1>1, <1>2, <1>3 DEF ReviewInv, ReviewOneForm, ReviewMaking, Review!At
<1> QED  BY <1>1, <1>2, <1>3, <1>4 DEF ReviewInv, Review!TypeOK, Review!At

LEMMA ReviewStoreKeeps ==
  ASSUME ReviewInv, NEW r \in Request, Review!Store(r)
  PROVE  ReviewInv'
<1>1. /\ req' \in [Request -> ReviewForms] /\ req'[r].phase = "answer"
      /\ \A q \in Request \ {r} : req'[q] = req[q]
      /\ stored' = req[r].form /\ Review!At(r, "commit") /\ UNCHANGED <<created, handedForms,
         spoilt>>
  BY ReviewGoPhase DEF Review!Store
<1>2. stored' \in created /\ stored' # Nil
  BY <1>1, ReviewAssumed DEF ReviewInv, Review!TypeOK, Review!ReviewAssumption
<1>3. ASSUME ~ spoilt' PROVE ReviewOneForm'
  <2>1. \A q \in Request : ReviewMaking(q) => q = r
    BY <1>1, <1>3 DEF ReviewInv, ReviewOneForm, ReviewMaking
  <2>2. \A f \in created : f = stored'
    BY <1>1, <1>3, <2>1, ReviewAssumed DEF ReviewInv, ReviewOneForm, ReviewMaking,
        Review!TypeOK, Review!ReviewAssumption
  <2>3. \A q \in Request : ~ ReviewMaking(q)'
    BY <1>1, <2>1 DEF ReviewMaking, Review!At
  <2>4. handedForms' = {}
    BY <1>1, <1>3 DEF ReviewInv, ReviewOneForm, ReviewMaking
  <2> QED  BY <1>1, <2>2, <2>3, <2>4 DEF ReviewOneForm, ReviewMaking
<1> QED  BY <1>1, <1>2, <1>3 DEF ReviewInv, Review!TypeOK, Review!At

LEMMA ReviewHandOutKeeps ==
  ASSUME ReviewInv, NEW r \in Request, Review!HandOut(r)
  PROVE  ReviewInv'
<1>1. /\ req' \in [Request -> ReviewForms] /\ req'[r].phase = "idle"
      /\ \A q \in Request \ {r} : req'[q] = req[q]
      /\ handedForms' = handedForms \cup {stored} /\ Review!At(r, "answer")
      /\ UNCHANGED <<stored, created, spoilt>>
  BY ReviewLeavePhase DEF Review!HandOut
<1>2. stored # Nil
  BY <1>1 DEF ReviewInv
<1>3. ~ spoilt' => ReviewOneForm'
  BY <1>1, <1>2 DEF ReviewInv, ReviewOneForm, ReviewMaking, Review!At
<1> QED  BY <1>1, <1>2, <1>3 DEF ReviewInv, Review!TypeOK, Review!At

LEMMA ReviewFailKeeps ==
  ASSUME ReviewInv, NEW r \in Request, Review!Fail(r)
  PROVE  ReviewInv'
<1>1. /\ req' \in [Request -> ReviewForms] /\ req'[r].phase = "idle"
      /\ \A q \in Request \ {r} : req'[q] = req[q]
      /\ spoilt' = (spoilt \/ Review!At(r, "commit")) /\ UNCHANGED <<stored, created,
         handedForms>>
  BY ReviewLeavePhase DEF Review!Fail
<1>2. ASSUME ~ spoilt' PROVE ReviewOneForm'
  <2>1. ~ spoilt /\ ~ Review!At(r, "commit") /\ ReviewOneForm
    BY <1>1, <1>2 DEF ReviewInv
  <2>2. \A q \in Request : ReviewMaking(q)' => ReviewMaking(q) /\ q # r
    BY <1>1 DEF ReviewMaking, Review!At
  <2>3. \A f \in created : f = stored \/ \E q \in Request : Review!At(q, "commit")'
          /\ req'[q].form = f
    BY <1>1, <2>1 DEF ReviewOneForm, Review!At
  <2> QED  BY <1>1, <2>1, <2>2, <2>3 DEF ReviewOneForm, ReviewMaking, Review!At
<1>3. spoilt' \in BOOLEAN
  BY <1>1
<1> QED  BY <1>1, <1>2, <1>3 DEF ReviewInv, Review!TypeOK, Review!At

LEMMA ReviewStep == ReviewInv /\ [Review!Next]_(Review!vars) => ReviewInv'
<1>1. ASSUME ReviewInv, UNCHANGED Review!vars PROVE ReviewInv'
  BY <1>1 DEF Review!vars, ReviewInv, Review!TypeOK, ReviewOneForm, ReviewMaking,
      Review!At
<1> QED  BY <1>1, ReviewAskKeeps, ReviewCreateKeeps, ReviewStoreKeeps,
             ReviewHandOutKeeps, ReviewFailKeeps DEF Review!Next

LEMMA ReviewPromises == ReviewInv => Review!TypeOK /\ Review!LinksCollect
<1>1. ASSUME ReviewInv, ~ spoilt, NEW f \in created
      PROVE  f \in {stored} \cup {req[r].form : r \in Request}
  BY <1>1 DEF ReviewInv, ReviewOneForm
<1> QED  BY <1>1 DEF ReviewInv, ReviewOneForm, Review!LinksCollect

-----------------------------------------------------------------------------
(* The budget of an event.  A request that no other has overlapped writes   *)
(* what turns the row into the pair it asks for, and while others overlap   *)
(* the row counts as raced; the row is the pair of the last setting, unless *)
(* an amount was written by hand since.                                     *)

LEMMA BudgetAssumed == Budget!BudgetAssumption
  BY WorkspaceAssumption

BudgetSums == Nat \cup {Nil}

BudgetAsks == BudgetSums \cup {Keep}

BudgetWriters ==
  [phase : {"idle", "patch", "set"}, budget : BudgetAsks, grant : BudgetAsks,
   asks : BudgetAsks \X BudgetAsks, alone : BOOLEAN]

BudgetBusy(r) == req[r].phase # "idle"

BudgetApart == \A r, q \in Request : BudgetBusy(r) /\ BudgetBusy(q) /\ r # q => ~ req[r].alone

(* One that sets the budget to nothing asks for no grant either.            *)
BudgetWriterOK(r) ==
  BudgetBusy(r) =>
    /\ eventMade
    /\ IF req[r].alone
         THEN /\ req[r].budget = Budget!Changed(req[r].asks[1], budget)
              /\ req[r].grant = Budget!Changed(req[r].asks[2], grant)
         ELSE budgetRaced
    /\ req[r].phase = "set" =>
         /\ req[r].asks[1] \in BudgetSums /\ req[r].asks[2] \in BudgetSums
         /\ req[r].asks[1] = Nil => req[r].asks[2] = Nil

BudgetInv ==
  /\ Budget!TypeOK /\ BudgetApart
  /\ req \in [Request -> BudgetWriters]
  /\ askedBudget \in BudgetSums \X BudgetSums /\ (askedBudget[1] = Nil => askedBudget[2] = Nil)
  /\ ~ eventMade => askedBudget[1] = Nil /\ askedBudget[2] = Nil
  /\ \A r \in Request : BudgetWriterOK(r)
  /\ ~ byHand /\ ~ budgetRaced => budget = askedBudget[1] /\ grant = askedBudget[2]

LEMMA BudgetInit == Budget!Init => BudgetInv
<1> SUFFICES ASSUME Budget!Init PROVE BudgetInv
  OBVIOUS
<1>1. Budget!Idle \in BudgetWriters /\ Budget!Idle.phase = "idle"
  <2>1. Nil \in BudgetAsks /\ Keep \in BudgetAsks
    BY DEF BudgetAsks, BudgetSums
  <2> QED  BY <2>1 DEF Budget!Idle, BudgetWriters
<1> QED
  BY <1>1 DEF Budget!Init, BudgetInv, Budget!TypeOK, BudgetApart, BudgetBusy, BudgetWriterOK,
      BudgetSums

LEMMA BudgetCreateKeeps ==
  ASSUME BudgetInv, NEW b \in BudgetSums, NEW g \in BudgetSums, Budget!CreateEvent(b, g)
  PROVE  BudgetInv'
<1>1. /\ ~ eventMade /\ budget' = b /\ grant' = g
      /\ byHand' = (<<b, g>> # <<Nil, Nil>>)
      /\ UNCHANGED <<askedBudget, budgetRaced, req>>
  BY DEF Budget!CreateEvent
<1>2. \A r \in Request : ~ BudgetBusy(r) /\ ~ BudgetBusy(r)'
  BY <1>1 DEF BudgetInv, BudgetWriterOK, BudgetBusy
<1>3. Budget!TypeOK'
  BY <1>1 DEF BudgetInv, Budget!TypeOK, BudgetSums
<1>4. BudgetApart' /\ \A r \in Request : BudgetWriterOK(r)'
  BY <1>2 DEF BudgetApart, BudgetWriterOK
<1>5. ~ byHand' => b = Nil /\ g = Nil
  BY <1>1
<1>6. eventMade'
  BY DEF Budget!CreateEvent
<1> QED  BY <1>1, <1>3, <1>4, <1>5, <1>6 DEF BudgetInv

LEMMA BudgetBeginKeeps ==
  ASSUME BudgetInv, NEW r \in Request, NEW phase \in {"set", "patch"}, NEW b \in BudgetAsks,
         NEW g \in BudgetAsks, Budget!Begin(r, phase, b, g),
         phase = "set" => b \in BudgetSums /\ g \in BudgetSums /\ (b = Nil => g = Nil)
  PROVE  BudgetInv'
<1> DEFINE others == {q \in Request : BudgetBusy(q)}
           new == [phase |-> phase, budget |-> Budget!Changed(b, budget),
                   grant |-> Budget!Changed(g, grant), asks |-> <<b, g>>,
                   alone |-> others = {}]
<1>0. (others = {}) \in BOOLEAN /\ r \notin others /\ eventMade
  BY DEF Budget!Begin, BudgetBusy
<1>1. /\ new \in BudgetWriters /\ new.phase = phase /\ new.asks[1] = b /\ new.asks[2] = g
      /\ new.budget = Budget!Changed(b, budget) /\ new.grant = Budget!Changed(g, grant)
      /\ new.alone = (others = {})
  <2>1. Budget!Changed(b, budget) \in BudgetAsks /\ Budget!Changed(g, grant) \in BudgetAsks
    BY DEF Budget!Changed, BudgetAsks
  <2> HIDE DEF others
  <2> QED  BY <1>0, <2>1 DEF BudgetWriters
<1>2. /\ req' = [q \in Request |->
           CASE q = r -> new
             [] q \in others -> [req[q] EXCEPT !.alone = FALSE]
             [] OTHER -> req[q]]
      /\ budgetRaced' = (budgetRaced \/ others # {})
      /\ UNCHANGED <<eventMade, budget, grant, askedBudget, byHand>>
  BY DEF Budget!Begin, BudgetBusy
<1> HIDE DEF new
<1>3. /\ req'[r] = new
      /\ \A q \in Request \ {r} : BudgetBusy(q) => req'[q] = [req[q] EXCEPT !.alone = FALSE]
      /\ \A q \in Request \ {r} : ~ BudgetBusy(q) => req'[q] = req[q]
  BY <1>0, <1>2
<1>4. ASSUME NEW q \in Request \ {r}, BudgetBusy(q)
      PROVE  /\ req'[q] \in BudgetWriters /\ req'[q].phase = req[q].phase
             /\ req'[q].asks = req[q].asks /\ ~ req'[q].alone
  <2>1. req[q] \in BudgetWriters
    BY DEF BudgetInv
  <2> QED  BY <1>3, <1>4, <2>1 DEF BudgetWriters
<1>5. req' \in [Request -> BudgetWriters]
  <2>1. \A q \in Request : req'[q] \in BudgetWriters
    BY <1>1, <1>3, <1>4 DEF BudgetInv
  <2> QED  BY <1>2, <2>1
<1>6. Budget!TypeOK'
  BY <1>2, <1>5 DEF BudgetInv, Budget!TypeOK, BudgetWriters
<1>7. BudgetApart'
  <2>1. \A q \in Request \ {r} : BudgetBusy(q)' => BudgetBusy(q) /\ ~ req'[q].alone
    BY <1>3, <1>4 DEF BudgetBusy
  <2>2. ASSUME NEW q \in Request \ {r}, BudgetBusy(q) PROVE ~ req'[r].alone
    <3>1. others # {}
      BY <2>2
    <3> HIDE DEF others
    <3> QED  BY <1>1, <1>3, <3>1
  <2> QED  BY <2>1, <2>2 DEF BudgetApart
<1>8. \A q \in Request : BudgetWriterOK(q)'
  <2>1. BudgetWriterOK(r)'
    BY <1>0, <1>1, <1>2, <1>3 DEF BudgetWriterOK, BudgetBusy
  <2>2. ASSUME NEW q \in Request \ {r} PROVE BudgetWriterOK(q)'
    <3>1. CASE BudgetBusy(q)
      <4>1. budgetRaced'
        BY <1>2, <3>1
      <4> QED  BY <1>0, <1>2, <1>4, <3>1, <4>1 DEF BudgetInv, BudgetWriterOK, BudgetBusy
    <3>2. CASE ~ BudgetBusy(q)
      BY <1>3, <3>2 DEF BudgetWriterOK, BudgetBusy
    <3> QED  BY <3>1, <3>2
  <2> QED  BY <2>1, <2>2
<1>9. ~ budgetRaced' => ~ budgetRaced
  BY <1>2
<1> HIDE DEF others
<1> QED  BY <1>2, <1>5, <1>6, <1>7, <1>8, <1>9 DEF BudgetInv

LEMMA BudgetLeaveEffect ==
  ASSUME BudgetInv, NEW r \in Request, Budget!Leave(r)
  PROVE  /\ req' \in [Request -> BudgetWriters] /\ req'[r].phase = "idle"
         /\ \A q \in Request \ {r} : req'[q] = req[q]
<1>1. Budget!Idle \in BudgetWriters /\ Budget!Idle.phase = "idle"
  <2>1. Nil \in BudgetAsks /\ Keep \in BudgetAsks
    BY DEF BudgetAsks, BudgetSums
  <2> QED  BY <2>1 DEF Budget!Idle, BudgetWriters
<1> QED  BY <1>1 DEF Budget!Leave, BudgetInv

LEMMA BudgetDieKeeps ==
  ASSUME BudgetInv, NEW r \in Request, Budget!Die(r)
  PROVE  BudgetInv'
<1>1. /\ req' \in [Request -> BudgetWriters] /\ req'[r].phase = "idle"
      /\ \A q \in Request \ {r} : req'[q] = req[q]
      /\ UNCHANGED <<eventMade, budget, grant, askedBudget, byHand, budgetRaced>>
  BY BudgetLeaveEffect DEF Budget!Die
<1>2. Budget!TypeOK'
  BY <1>1 DEF BudgetInv, Budget!TypeOK
<1>3. BudgetApart' /\ \A q \in Request : BudgetWriterOK(q)'
  BY <1>1 DEF BudgetInv, BudgetApart, BudgetWriterOK, BudgetBusy, Budget!Changed
<1> QED  BY <1>1, <1>2, <1>3 DEF BudgetInv

LEMMA BudgetChangedThenApplied ==
  ASSUME NEW old \in BudgetSums, NEW new \in BudgetSums
  PROVE  Budget!Apply(old, Budget!Changed(new, old)) = new
<1>1. Keep \notin BudgetSums
  BY BudgetAssumed DEF Budget!BudgetAssumption, BudgetSums
<1> QED  BY <1>1 DEF Budget!Apply, Budget!Changed

LEMMA BudgetCommitKeeps ==
  ASSUME BudgetInv, NEW r \in Request, Budget!Commit(r)
  PROVE  BudgetInv'
<1>1. /\ req[r] \in BudgetWriters /\ BudgetBusy(r) /\ BudgetWriterOK(r)
      /\ budget \in BudgetSums /\ grant \in BudgetSums
  BY DEF Budget!Commit, BudgetInv, Budget!TypeOK, BudgetSums, BudgetBusy
<1>2. budget' \in BudgetSums /\ grant' \in BudgetSums /\ UNCHANGED eventMade
  BY <1>1 DEF Budget!Commit, Budget!Apply, BudgetWriters, BudgetAsks
<1>3. /\ req' \in [Request -> BudgetWriters] /\ req'[r].phase = "idle"
      /\ \A q \in Request \ {r} : req'[q] = req[q]
  BY BudgetLeaveEffect DEF Budget!Commit
<1>4. Budget!TypeOK'
  BY <1>2, <1>3 DEF BudgetInv, Budget!TypeOK, BudgetSums, BudgetWriters
<1>5. BudgetApart'
  BY <1>3 DEF BudgetInv, BudgetApart, BudgetBusy
<1>6. ASSUME NEW q \in Request PROVE BudgetWriterOK(q)'
  <2> SUFFICES ASSUME q # r, BudgetBusy(q) PROVE BudgetWriterOK(q)'
    BY <1>3 DEF BudgetWriterOK, BudgetBusy
  <2>1. ~ req[r].alone /\ ~ req[q].alone
    BY <1>1 DEF BudgetInv, BudgetApart
  <2>2. budgetRaced'
    BY <1>1, <2>1 DEF Budget!Commit, BudgetWriterOK
  <2>3. BudgetWriterOK(q)
    BY DEF BudgetInv
  <2> QED  BY <1>2, <1>3, <2>1, <2>2, <2>3 DEF BudgetWriterOK, BudgetBusy
<1>7. CASE req[r].phase = "set"
  <2> DEFINE asks == req[r].asks
  <2>1. /\ asks \in BudgetAsks \X BudgetAsks /\ asks[1] \in BudgetSums /\ asks[2] \in BudgetSums
        /\ (asks[1] = Nil => asks[2] = Nil)
    BY <1>1, <1>7 DEF BudgetWriters, BudgetWriterOK
  <2>2. askedBudget' = asks /\ budgetRaced' = (budgetRaced /\ ~ req[r].alone)
    BY <1>7 DEF Budget!Commit
  <2>3. asks \in BudgetSums \X BudgetSums
    BY <2>1
  <2>4. ASSUME ~ budgetRaced' PROVE budget' = asks[1] /\ grant' = asks[2]
    <3>1. req[r].alone
      BY <1>1, <2>2, <2>4 DEF BudgetWriterOK
    <3>2. req[r].budget = Budget!Changed(asks[1], budget)
            /\ req[r].grant = Budget!Changed(asks[2], grant)
      BY <1>1, <3>1 DEF BudgetWriterOK
    <3> QED  BY <1>1, <2>1, <3>2, BudgetChangedThenApplied DEF Budget!Commit
  <2>5. eventMade
    BY <1>1 DEF BudgetWriterOK
  <2> HIDE DEF asks
  <2> QED  BY <1>2, <1>3, <1>4, <1>5, <1>6, <2>1, <2>2, <2>3, <2>4, <2>5 DEF BudgetInv
<1>8. CASE req[r].phase # "set"
  <2>1. /\ UNCHANGED <<askedBudget, budgetRaced>>
        /\ byHand' = (byHand \/ req[r].budget # Keep \/ req[r].grant # Keep)
    BY <1>8 DEF Budget!Commit
  <2>2. ~ byHand' => ~ byHand /\ UNCHANGED <<budget, grant>>
    BY <2>1 DEF Budget!Commit, Budget!Apply
  <2> QED  BY <1>2, <1>3, <1>4, <1>5, <1>6, <2>1, <2>2 DEF BudgetInv
<1> QED  BY <1>7, <1>8

LEMMA BudgetGrantsAreSums ==
  ASSUME NEW b \in Amount \cup {Nil}, NEW rate \in Rate
  PROVE  b \in BudgetSums /\ Budget!GrantOf(b, rate) \in BudgetSums
           /\ (b = Nil => Budget!GrantOf(b, rate) = Nil)
<1>1. CASE b = Nil
  BY <1>1 DEF Budget!GrantOf, BudgetSums
<1>2. CASE b # Nil
  <2>1. b \in Nat /\ rate \in Nat
    BY <1>2, BudgetAssumed DEF Budget!BudgetAssumption
  <2>2. b * rate \in Nat
    BY <2>1
  <2>3. (b * rate) \div 100 \in Nat
    BY <2>2
  <2> QED  BY <1>2, <2>1, <2>3 DEF Budget!GrantOf, BudgetSums
<1> QED  BY <1>1, <1>2

LEMMA BudgetStep == BudgetInv /\ [Budget!Next]_(Budget!vars) => BudgetInv'
<1> SUFFICES ASSUME BudgetInv, [Budget!Next]_(Budget!vars) PROVE BudgetInv'
  OBVIOUS
<1>0. /\ \A b \in Amount \cup {Nil} : b \in BudgetSums
      /\ \A b \in Amount \cup {Nil, Keep} : b \in BudgetAsks
      /\ BudgetSums \subseteq BudgetAsks
  BY BudgetAssumed DEF Budget!BudgetAssumption, BudgetAsks, BudgetSums
<1>1. ASSUME NEW r \in Request, NEW b \in Amount \cup {Nil}, NEW rate \in Rate,
             Budget!SetBudget(r, b, rate)
      PROVE  BudgetInv'
  BY <1>0, <1>1, BudgetGrantsAreSums, BudgetBeginKeeps DEF Budget!SetBudget
<1>2. ASSUME NEW r \in Request, NEW b \in Amount \cup {Nil, Keep},
             NEW g \in Amount \cup {Nil, Keep}, Budget!PatchEvent(r, b, g)
      PROVE  BudgetInv'
  BY <1>0, <1>2, BudgetBeginKeeps DEF Budget!PatchEvent
<1>3. ASSUME NEW b \in Amount \cup {Nil}, NEW g \in Amount \cup {Nil}, Budget!CreateEvent(b, g)
      PROVE  BudgetInv'
  BY <1>0, <1>3, BudgetCreateKeeps
<1>4. ASSUME NEW r \in Request, Budget!Commit(r) PROVE BudgetInv'
  BY <1>4, BudgetCommitKeeps
<1>5. ASSUME NEW r \in Request, Budget!Die(r) PROVE BudgetInv'
  BY <1>5, BudgetDieKeeps
<1>6. CASE UNCHANGED Budget!vars
  BY <1>6 DEF Budget!vars, BudgetInv, Budget!TypeOK, BudgetApart, BudgetBusy, BudgetWriterOK,
      Budget!Changed
<1> QED  BY <1>1, <1>2, <1>3, <1>4, <1>5, <1>6 DEF Budget!Next

LEMMA BudgetPromises == BudgetInv => Budget!GrantFollowsBudget
<1> SUFFICES ASSUME BudgetInv, ~ byHand, ~ budgetRaced
             PROVE  <<budget, grant>> = askedBudget /\ (budget = Nil => grant = Nil)
  BY DEF Budget!GrantFollowsBudget
<1>1. budget = askedBudget[1] /\ grant = askedBudget[2]
        /\ askedBudget \in BudgetSums \X BudgetSums
  BY DEF BudgetInv
<1> QED  BY <1>1 DEF BudgetInv

-----------------------------------------------------------------------------
(* The link tree.  A link that one request alone is placing stands where    *)
(* that request found it, and one that several are placing counts as mixed. *)

LEMMA LinksAssumed == Links!LinkTreeAssumption
  BY WorkspaceAssumption

LinksHeaders == Title \cup {Nil, "default"}

LinksPhases == {"idle", "order", "create header", "header"}

LinksPlaces == UNION {[D -> Nat] : D \in SUBSET TreeLink}

LinksHandlers ==
  [phase : {"idle"}, loaded : {Nil}, want : {Nil}, alone : {{}}]
  \cup [phase : {"order"}, loaded : [TreeLink -> Nat], want : LinksPlaces, alone : SUBSET TreeLink]
  \cup [phase : {"create header", "header"}, loaded : LinksHeaders, want : Title \cup {"default"},
        alone : {{}}]

(* What a request that is placing links has to do with the order.           *)
LinksPlacing(r) ==
  Links!At(r, "order") =>
    /\ req[r].alone \subseteq DOMAIN req[r].want /\ DOMAIN req[r].want \subseteq links
    /\ \A l \in DOMAIN req[r].want :
         IF l \in req[r].alone THEN req[r].loaded[l] = order[l] ELSE l \in ordersMixed

LinksApart ==
  \A r, q \in Request : Links!At(r, "order") /\ Links!At(q, "order") /\ r # q =>
    \A l \in DOMAIN req[r].want \cap DOMAIN req[q].want : l \notin req[r].alone

LinksInv ==
  /\ Links!TypeOK /\ Links!OrderAsAsked /\ LinksApart
  /\ askedOrder \in [TreeLink -> Nat]
  /\ req \in [Request -> LinksHandlers]
  /\ \A r \in Request : LinksPlacing(r)

LEMMA LinksHandlerPhases == \A h \in LinksHandlers : h.phase \in LinksPhases
  BY DEF LinksHandlers, LinksPhases

LEMMA LinksOrderHandler ==
  ASSUME NEW h \in LinksHandlers, h.phase = "order"
  PROVE  h \in [phase : {"order"}, loaded : [TreeLink -> Nat], want : LinksPlaces,
                alone : SUBSET TreeLink]
  BY DEF LinksHandlers

(* One that another request overlaps.                                       *)
LinksLess(new, h, d) ==
  /\ new \in LinksHandlers /\ new.phase = "order"
  /\ new.want = h.want /\ new.loaded = h.loaded /\ new.alone = h.alone \ d

LEMMA LinksLessAlone ==
  ASSUME NEW h \in LinksHandlers, h.phase = "order", NEW d
  PROVE  LinksLess([h EXCEPT !.alone = h.alone \ d], h, d)
<1> DEFINE less == h.alone \ d
           Ordering == [phase : {"order"}, loaded : [TreeLink -> Nat], want : LinksPlaces,
                        alone : SUBSET TreeLink]
           new == [h EXCEPT !.alone = less]
<1>1. h \in Ordering
  BY LinksOrderHandler
<1>2. less \in SUBSET TreeLink
  BY <1>1
<1>3. Ordering \subseteq LinksHandlers
  BY DEF LinksHandlers
<1> HIDE DEF less
<1>4. new \in Ordering /\ new.phase = "order"
  BY <1>1, <1>2
<1>5. new.want = h.want /\ new.loaded = h.loaded /\ new.alone = less
  BY <1>1
<1> HIDE DEF Ordering, new
<1>6. LinksLess(new, h, d)
  BY <1>3, <1>4, <1>5 DEF LinksLess, less
<1> QED  BY <1>6 DEF new, less

LEMMA LinksPlacesAre ==
  ASSUME NEW w \in LinksPlaces
  PROVE  DOMAIN w \in SUBSET TreeLink /\ \A l \in DOMAIN w : w[l] \in Nat
  BY DEF LinksPlaces

LEMMA LinksInit == Links!Init => LinksInv
<1>1. Links!Idle \in LinksHandlers
  BY DEF Links!Idle, LinksHandlers
<1> SUFFICES ASSUME Links!Init PROVE LinksInv
  OBVIOUS
<1>2. /\ \A r \in Request : req[r].phase = "idle"
      /\ links \subseteq TreeLink
      /\ order \in [TreeLink -> Nat] /\ askedOrder = order /\ title = Nil
  BY DEF Links!Init, Links!Idle
<1>3. req \in [Request -> LinksHandlers]
  BY <1>1 DEF Links!Init
<1> QED
  BY <1>2, <1>3 DEF LinksInv, Links!TypeOK, Links!OrderAsAsked, LinksApart, LinksPlacing,
      Links!At

LEMMA LinksCreateKeeps ==
  ASSUME LinksInv, NEW l \in TreeLink, NEW p \in Position \cup {0}, Links!CreateLink(l, p)
  PROVE  LinksInv'
<1>1. /\ l \notin links /\ links' = links \cup {l} /\ UNCHANGED <<title, ordersMixed, req>>
      /\ order' = [order EXCEPT ![l] = p] /\ askedOrder' = [askedOrder EXCEPT ![l] = p]
  BY DEF Links!CreateLink
<1>2. p \in Nat
  BY LinksAssumed DEF Links!LinkTreeAssumption
<1>3. Links!TypeOK' /\ askedOrder' \in [TreeLink -> Nat]
  BY <1>1, <1>2 DEF LinksInv, Links!TypeOK, Links!At
<1>4. Links!OrderAsAsked'
  BY <1>1 DEF LinksInv, Links!TypeOK, Links!OrderAsAsked
<1>5. ASSUME NEW r \in Request, Links!At(r, "order") PROVE LinksPlacing(r)'
  <2>1. \A k \in DOMAIN req[r].want : k \in links /\ order'[k] = order[k]
    BY <1>1, <1>5 DEF LinksInv, Links!TypeOK, LinksPlacing
  <2> QED  BY <1>1, <1>5, <2>1 DEF LinksInv, LinksPlacing
<1>6. LinksApart' /\ \A r \in Request : LinksPlacing(r)'
  BY <1>1, <1>5 DEF LinksInv, LinksApart, LinksPlacing, Links!At
<1> QED  BY <1>1, <1>3, <1>4, <1>6 DEF LinksInv

(* A step of one request that leaves the order alone.                       *)
LEMMA LinksStepKeeps ==
  ASSUME LinksInv, NEW r \in Request, NEW new \in LinksHandlers, req' = [req EXCEPT ![r] = new],
         new.phase # "order", UNCHANGED <<links, order, askedOrder, ordersMixed>>,
         title' \in LinksHeaders
  PROVE  LinksInv'
<1>1. /\ req' \in [Request -> LinksHandlers] /\ req'[r] = new
      /\ \A q \in Request \ {r} : req'[q] = req[q]
  BY DEF LinksInv
<1>2. Links!TypeOK'
  BY <1>1, LinksHandlerPhases DEF LinksInv, Links!TypeOK, LinksHeaders, LinksPhases
<1>3. LinksApart' /\ \A q \in Request : LinksPlacing(q)'
  BY <1>1 DEF LinksInv, LinksApart, LinksPlacing, Links!At
<1> QED  BY <1>1, <1>2, <1>3 DEF LinksInv, Links!OrderAsAsked

LEMMA LinksLeaveKeeps ==
  ASSUME LinksInv, NEW r \in Request, Links!Leave(r), UNCHANGED <<links, order, askedOrder,
         ordersMixed>>,
         title' \in LinksHeaders
  PROVE  LinksInv'
<1>1. Links!Idle \in LinksHandlers /\ Links!Idle.phase = "idle"
  BY DEF Links!Idle, LinksHandlers
<1> QED  BY <1>1, LinksStepKeeps DEF Links!Leave

LEMMA LinksLoadPositionsKeeps ==
  ASSUME LinksInv, NEW r \in Request, NEW want \in LinksPlaces, DOMAIN want \subseteq links,
         Links!LoadPositions(r, want)
  PROVE  LinksInv'
<1> DEFINE others == {q \in Request \ {r} : Links!At(q, "order")}
           theirs == UNION {DOMAIN req[q].want : q \in others}
           shared == DOMAIN want \cap theirs
           new == [phase |-> "order", loaded |-> order, want |-> want,
                   alone |-> DOMAIN want \ shared]
<1>0. ~ Links!At(r, "order")
  BY DEF Links!LoadPositions, Links!Begin, Links!At
<1>1. /\ req' = [q \in Request |->
           CASE q = r -> new
             [] q \in others -> [req[q] EXCEPT !.alone = req[q].alone \ DOMAIN want]
             [] OTHER -> req[q]]
      /\ ordersMixed' = ordersMixed \cup shared
      /\ UNCHANGED <<links, order, askedOrder, title>>
  BY DEF Links!LoadPositions, Links!positions
<1>2. r \notin others /\ \A q \in Request \ {r} : q \in others <=> Links!At(q, "order")
  OBVIOUS
<1>3. \A q \in others : \A l \in DOMAIN want \cap DOMAIN req[q].want : l \in shared
  OBVIOUS
<1>4. new \in LinksHandlers
  BY LinksPlacesAre DEF LinksHandlers, LinksInv, Links!TypeOK
<1>5. /\ new.phase = "order" /\ new.loaded = order /\ new.want = want
      /\ new.alone = DOMAIN want \ shared
  OBVIOUS
<1> HIDE DEF new, others, shared, theirs
<1>6. /\ req'[r] = new
      /\ \A q \in Request \ {r} : q \notin others => req'[q] = req[q]
      /\ \A q \in others : req'[q] = [req[q] EXCEPT !.alone = req[q].alone \ DOMAIN want]
  <2>1. others \subseteq Request
    BY DEF others
  <2> QED  BY <1>1, <1>2, <2>1
<1>7. ASSUME NEW q \in others
      PROVE  /\ q \in Request \ {r} /\ req'[q] \in LinksHandlers /\ req'[q].phase = "order"
             /\ req'[q].want = req[q].want /\ req'[q].loaded = req[q].loaded
             /\ req'[q].alone = req[q].alone \ DOMAIN want
  <2>1. q \in Request \ {r} /\ req[q].phase = "order"
    BY <1>2, <1>7 DEF others, Links!At
  <2>2. req[q] \in LinksHandlers
    BY <2>1 DEF LinksInv
  <2>3. LinksLess([req[q] EXCEPT !.alone = req[q].alone \ DOMAIN want], req[q], DOMAIN want)
    BY <2>1, <2>2, LinksLessAlone, Zenon
  <2>4. /\ req'[q] \in LinksHandlers /\ req'[q].phase = "order"
        /\ req'[q].want = req[q].want /\ req'[q].loaded = req[q].loaded
        /\ req'[q].alone = req[q].alone \ DOMAIN want
    BY <1>6, <2>3 DEF LinksLess
  <2> QED  BY <2>1, <2>4
<1>8. req' \in [Request -> LinksHandlers]
  <2>1. \A q \in Request : req'[q] \in LinksHandlers
    BY <1>4, <1>6, <1>7 DEF LinksInv
  <2> QED  BY <1>1, <2>1
<1>9. Links!TypeOK' /\ Links!OrderAsAsked'
  BY <1>1, <1>8, LinksHandlerPhases DEF LinksInv, Links!TypeOK, Links!OrderAsAsked, LinksPhases
<1>10. \A q \in Request \ {r} : Links!At(q, "order")' => q \in others
  BY <1>2, <1>6 DEF Links!At
<1>11. LinksApart'
  <2>1. ASSUME NEW q \in others, NEW l \in DOMAIN want \cap DOMAIN req[q].want
        PROVE  l \notin req'[r].alone /\ l \notin req'[q].alone
    BY <1>3, <1>5, <1>6, <1>7, <2>1
  <2>2. ASSUME NEW q \in others, NEW p \in others, p # q,
               NEW l \in DOMAIN req[p].want \cap DOMAIN req[q].want
        PROVE  l \notin req'[p].alone
    <3>1. l \notin req[p].alone
      BY <1>2, <1>7, <2>2 DEF LinksInv, LinksApart
    <3> QED  BY <1>7, <3>1
  <2> QED  BY <1>5, <1>6, <1>7, <1>10, <2>1, <2>2 DEF LinksApart
<1>12. ASSUME NEW q \in Request, Links!At(q, "order")' PROVE LinksPlacing(q)'
  <2>1. CASE q = r
    BY <1>1, <1>5, <1>6, <2>1 DEF LinksPlacing
  <2>2. CASE q # r
    <3>1. q \in others /\ LinksPlacing(q) /\ Links!At(q, "order")
      BY <1>2, <1>10, <1>12, <2>2 DEF LinksInv
    <3>2. ASSUME NEW l \in DOMAIN req[q].want
          PROVE  IF l \in req'[q].alone THEN req[q].loaded[l] = order[l] ELSE l \in ordersMixed'
      BY <1>1, <1>3, <1>7, <3>1, <3>2 DEF LinksPlacing
    <3> QED  BY <1>1, <1>7, <3>1, <3>2 DEF LinksPlacing
  <2> QED  BY <2>1, <2>2
<1>13. \A q \in Request : LinksPlacing(q)'
  BY <1>12 DEF LinksPlacing
<1> QED  BY <1>1, <1>8, <1>9, <1>11, <1>13 DEF LinksInv

LEMMA LinksLoadHeaderKeeps ==
  ASSUME LinksInv, NEW r \in Request, NEW t \in Title \cup {"default"}, Links!LoadHeader(r, t)
  PROVE  LinksInv'
<1> DEFINE new == [Links!Idle EXCEPT
                     !.phase = IF title = Nil THEN "create header" ELSE "header",
                     !.loaded = title, !.want = t]
<1>1. new \in LinksHandlers /\ new.phase # "order" /\ title \in LinksHeaders
  BY DEF LinksHandlers, LinksHeaders, LinksInv, Links!TypeOK, Links!Idle
<1>2. /\ req' = [req EXCEPT ![r] = new]
      /\ UNCHANGED <<links, order, title, askedOrder, ordersMixed>>
  BY DEF Links!LoadHeader, Links!positions
<1> HIDE DEF new
<1> QED  BY <1>1, <1>2, LinksStepKeeps

LEMMA LinksCreateHeaderKeeps ==
  ASSUME LinksInv, NEW r \in Request, Links!CreateHeader(r)
  PROVE  LinksInv'
<1> DEFINE new == [req[r] EXCEPT !.phase = "header", !.loaded = "default"]
<1>1. req[r] \in [phase : {"create header", "header"}, loaded : LinksHeaders,
                  want : Title \cup {"default"}, alone : {{}}]
  BY DEF Links!CreateHeader, Links!At, LinksInv, LinksHandlers
<1>2. new \in LinksHandlers /\ new.phase # "order" /\ "default" \in LinksHeaders
  BY <1>1 DEF LinksHandlers, LinksHeaders
<1>3. /\ req' = [req EXCEPT ![r] = new]
      /\ UNCHANGED <<links, order, askedOrder, ordersMixed>> /\ title' = "default"
  BY DEF Links!CreateHeader, Links!positions
<1> HIDE DEF new
<1> QED  BY <1>2, <1>3, LinksStepKeeps

LEMMA LinksCommitHeaderTitle ==
  ASSUME LinksInv, NEW r \in Request, Links!CommitHeader(r)
  PROVE  /\ title' = title \/ title' = req[r].want
         /\ req[r].want \in Title \cup {"default"} /\ title' \in LinksHeaders
<1>1. req[r] \in [phase : {"create header", "header"}, loaded : LinksHeaders,
                  want : Title \cup {"default"}, alone : {{}}]
  BY DEF Links!CommitHeader, Links!At, LinksInv, LinksHandlers
<1> QED  BY <1>1 DEF Links!CommitHeader, LinksInv, Links!TypeOK, LinksHeaders

LEMMA LinksCommitOrderKeeps ==
  ASSUME LinksInv, NEW r \in Request, Links!CommitOrder(r)
  PROVE  LinksInv'
<1> DEFINE o == req[r].want
           loaded == req[r].loaded
           alone == req[r].alone
<1>0. /\ Links!At(r, "order") /\ LinksPlacing(r)
      /\ o \in LinksPlaces /\ DOMAIN o \in SUBSET TreeLink
      /\ \A l \in DOMAIN o : o[l] \in Nat
  <2>1. Links!At(r, "order")
    BY DEF Links!CommitOrder
  <2>2. req[r] \in [phase : {"order"}, loaded : [TreeLink -> Nat], want : LinksPlaces,
                    alone : SUBSET TreeLink]
    BY <2>1, LinksOrderHandler DEF LinksInv, Links!At
  <2>3. o \in LinksPlaces
    BY <2>2
  <2> QED  BY <2>1, <2>3, LinksPlacesAre DEF LinksInv
<1>1. /\ order' = [l \in TreeLink |-> IF l \in DOMAIN o /\ o[l] # loaded[l] THEN o[l] ELSE order[l]]
      /\ askedOrder' = [l \in TreeLink |-> IF l \in DOMAIN o THEN o[l] ELSE askedOrder[l]]
      /\ ordersMixed' = ordersMixed \ alone /\ UNCHANGED <<links, title>>
  BY DEF Links!CommitOrder, Links!Placed, Links!Last
<1>2. Links!Idle \in LinksHandlers /\ Links!Idle.phase = "idle"
  BY DEF Links!Idle, LinksHandlers
<1>3. /\ req' \in [Request -> LinksHandlers] /\ req'[r] = Links!Idle
      /\ \A q \in Request \ {r} : req'[q] = req[q]
  BY <1>2 DEF LinksInv, Links!CommitOrder, Links!Leave
<1>4. order' \in [TreeLink -> Nat] /\ askedOrder' \in [TreeLink -> Nat]
  BY <1>0, <1>1 DEF LinksInv, Links!TypeOK
<1>5. Links!TypeOK'
  BY <1>1, <1>3, <1>4, LinksHandlerPhases DEF LinksInv, Links!TypeOK, LinksPhases
<1>6. ASSUME NEW l \in links PROVE l \in ordersMixed' \/ order'[l] = askedOrder'[l]
  <2>0. l \in TreeLink
    BY <1>6 DEF LinksInv, Links!TypeOK
  <2>1. CASE l \in alone
    <3>1. l \in DOMAIN o /\ loaded[l] = order[l]
      BY <1>0, <2>1 DEF LinksPlacing
    <3> QED  BY <1>1, <2>0, <3>1
  <2>2. CASE l \notin alone /\ l \in DOMAIN o
    BY <1>0, <1>1, <2>2 DEF LinksPlacing
  <2>3. CASE l \notin alone /\ l \notin DOMAIN o
    <3>1. l \in ordersMixed \/ order[l] = askedOrder[l]
      BY <1>6 DEF LinksInv, Links!OrderAsAsked
    <3> QED  BY <1>1, <2>0, <2>3, <3>1
  <2> QED  BY <2>1, <2>2, <2>3
<1>7. Links!OrderAsAsked'
  BY <1>1, <1>6 DEF Links!OrderAsAsked
<1>8. LinksApart'
  BY <1>2, <1>3 DEF LinksInv, LinksApart, Links!At
<1>9. ASSUME NEW q \in Request \ {r}, Links!At(q, "order") PROVE LinksPlacing(q)'
  <2>1. LinksPlacing(q) /\ req'[q] = req[q]
    BY <1>3, <1>9 DEF LinksInv
  <2>2. \A l \in DOMAIN req[q].want : l \in DOMAIN o => l \notin req[q].alone /\ l \notin alone
    BY <1>0, <1>9 DEF LinksInv, LinksApart
  <2>3. alone \subseteq DOMAIN o
    BY <1>0 DEF LinksPlacing
  <2>4. \A l \in DOMAIN req[q].want : l \in TreeLink /\ l \in links
    BY <1>9, <2>1 DEF LinksInv, Links!TypeOK, LinksPlacing
  <2>5. ASSUME NEW l \in DOMAIN req[q].want
        PROVE  IF l \in req[q].alone THEN req[q].loaded[l] = order'[l] ELSE l \in ordersMixed'
    <3>1. CASE l \in req[q].alone
      <4>1. req[q].loaded[l] = order[l] /\ l \notin DOMAIN o
        BY <1>9, <2>1, <2>2, <3>1 DEF LinksPlacing
      <4> QED  BY <1>1, <2>4, <2>5, <3>1, <4>1
    <3>2. CASE l \notin req[q].alone
      <4>1. l \in ordersMixed /\ l \notin alone
        BY <1>9, <2>1, <2>2, <2>3, <3>2 DEF LinksPlacing
      <4> QED  BY <1>1, <3>2, <4>1
    <3> QED  BY <3>1, <3>2
  <2> QED  BY <1>1, <1>9, <2>1, <2>5 DEF LinksPlacing
<1>10. \A q \in Request : LinksPlacing(q)'
  BY <1>2, <1>3, <1>9 DEF LinksPlacing, Links!At
<1> QED  BY <1>3, <1>4, <1>5, <1>7, <1>8, <1>10 DEF LinksInv

LEMMA LinksStep == LinksInv /\ [Links!Next]_(Links!vars) => LinksInv'
<1> SUFFICES ASSUME LinksInv, [Links!Next]_(Links!vars) PROVE LinksInv'
  OBVIOUS
<1>1. ASSUME NEW r \in Request, NEW o \in Orders, Links!Reorder(r, o) PROVE LinksInv'
  <2> DEFINE want == [l \in DOMAIN o \cap links |-> o[l]]
  <2>1. DOMAIN o \cap links \subseteq TreeLink /\ \A l \in DOMAIN o \cap links : o[l] \in Nat
    BY LinksAssumed DEF Links!LinkTreeAssumption
  <2>2. want \in [DOMAIN o \cap links -> Nat]
    BY <2>1
  <2>3. want \in LinksPlaces /\ DOMAIN want \subseteq links /\ Links!LoadPositions(r, want)
    BY <1>1, <2>1, <2>2 DEF LinksPlaces, Links!Reorder
  <2> HIDE DEF want
  <2> QED  BY <2>3, LinksLoadPositionsKeeps
<1>2. ASSUME NEW r \in Request, NEW l \in TreeLink, NEW p \in Position,
             Links!Reposition(r, l, p)
      PROVE  LinksInv'
  <2> DEFINE want == [x \in {l} |-> p]
  <2>1. l \in links /\ p \in Nat
    BY <1>2, LinksAssumed DEF Links!LinkTreeAssumption, Links!Reposition
  <2>2. want \in [{l} -> Nat] /\ {l} \in SUBSET TreeLink
    BY <2>1
  <2>3. want \in LinksPlaces /\ DOMAIN want \subseteq links /\ Links!LoadPositions(r, want)
    BY <1>2, <2>1, <2>2 DEF LinksPlaces, Links!Reposition
  <2> HIDE DEF want
  <2> QED  BY <2>3, LinksLoadPositionsKeeps
<1>3. ASSUME NEW l \in TreeLink, NEW p \in Position \cup {0}, Links!CreateLink(l, p)
      PROVE  LinksInv'
  BY <1>3, LinksCreateKeeps
<1>4. ASSUME NEW r \in Request, NEW t \in Title \cup {"default"}, Links!LoadHeader(r, t)
      PROVE  LinksInv'
  BY <1>4, LinksLoadHeaderKeeps
<1>5. ASSUME NEW r \in Request, Links!CommitOrder(r) PROVE LinksInv'
  BY <1>5, LinksCommitOrderKeeps
<1>6. ASSUME NEW r \in Request, Links!CreateHeader(r) PROVE LinksInv'
  BY <1>6, LinksCreateHeaderKeeps
<1>7. ASSUME NEW r \in Request, Links!CommitHeader(r) PROVE LinksInv'
  BY <1>7, LinksCommitHeaderTitle, LinksLeaveKeeps DEF Links!CommitHeader, Links!positions
<1>8. ASSUME NEW r \in Request, Links!Fail(r) PROVE LinksInv'
  <2>1. title \in LinksHeaders
    BY DEF LinksInv, Links!TypeOK, LinksHeaders
  <2> QED  BY <1>8, <2>1, LinksLeaveKeeps DEF Links!Fail, Links!positions
<1>9. CASE UNCHANGED Links!vars
  BY <1>9 DEF Links!vars, LinksInv, Links!TypeOK, Links!OrderAsAsked,
      LinksApart, LinksPlacing, Links!At
<1> QED  BY <1>1, <1>2, <1>3, <1>4, <1>5, <1>6, <1>7, <1>8, <1>9 DEF Links!Next

LEMMA LinksSettle == LinksInv /\ [Links!Next]_(Links!vars) => Links!TitleKept
<1> SUFFICES ASSUME LinksInv, [Links!Next]_(Links!vars), title' # title PROVE Links!TitleKept
  BY DEF Links!TitleKept
<1>1. ASSUME NEW r \in Request, Links!CreateHeader(r) PROVE Links!TitleKept
  BY <1>1, LinksAssumed DEF Links!CreateHeader, Links!TitleKept,
      Links!LinkTreeAssumption
<1>2. ASSUME NEW r \in Request, Links!CommitHeader(r) PROVE Links!TitleKept
  BY <1>2, LinksCommitHeaderTitle, LinksAssumed DEF Links!CommitHeader,
      Links!TitleKept, Links!LinkTreeAssumption
<1> QED
  BY <1>1, <1>2 DEF Links!Next, Links!vars, Links!CreateLink, Links!Reorder, Links!Reposition,
      Links!LoadPositions, Links!LoadHeader, Links!CommitOrder, Links!Fail

-----------------------------------------------------------------------------
(* The parts together.  A behaviour explores one part, whose invariant is   *)
(* above; a step of the workspace is a step of that part, or leaves its     *)
(* variables alone.                                                         *)
Part == {"capture", "pipeline", "pages", "agenda", "minutes", "files", "assignment", "access",
         "records", "feed", "funnel", "discord", "projects", "review", "budget", "links"}

WorkspaceInv ==
  /\ part \in Part
  /\ part = "capture" => CaptureInv
  /\ part = "pipeline" => PipelineInv
  /\ part = "pages" => PagesInv
  /\ part = "agenda" => AgendaInv
  /\ part = "minutes" => MinutesInv
  /\ part = "files" => FilesInv
  /\ part = "assignment" => AssignmentInv
  /\ part = "access" => AccessInv
  /\ part = "records" => RecordsInv
  /\ part = "feed" => FeedInv
  /\ part = "funnel" => FunnelInv
  /\ part = "discord" => DiscordInv
  /\ part = "projects" => ProjectsInv
  /\ part = "review" => ReviewInv
  /\ part = "budget" => BudgetInv
  /\ part = "links" => LinksInv

LEMMA WorkspaceMoves ==
  ASSUME [WorkspaceNext]_vars
  PROVE  /\ part' = part
         /\ part = "capture" => [Capture!Next]_(Capture!vars)
         /\ part = "pipeline" => [Pipeline!Next]_(Pipeline!vars)
         /\ part = "pages" => [Pages!Next]_(Pages!vars)
         /\ part = "agenda" => [Agenda!Next]_(Agenda!vars)
         /\ part = "minutes" => [Minutes!Next]_(Minutes!vars)
         /\ part = "files" => [Files!Next]_(Files!vars)
         /\ part = "assignment" => [Assignment!Next]_(Assignment!vars)
         /\ part = "access" => [Access!Next]_(Access!vars)
         /\ part = "records" => [Records!Next]_(Records!vars)
         /\ part = "feed" => [Feed!Next]_(Feed!vars)
         /\ part = "funnel" => [Funnel!Next]_(Funnel!vars)
         /\ part = "discord" => [Discord!Next]_(Discord!vars)
         /\ part = "projects" => [Projects!Next]_(Projects!vars)
         /\ part = "review" => [Review!Next]_(Review!vars)
         /\ part = "budget" => [Budget!Next]_(Budget!vars)
         /\ part = "links" => [Links!Next]_(Links!vars)
<1>1. CASE UNCHANGED vars
  <2>1. part' = part
    BY <1>1 DEF vars
  <2>2. UNCHANGED Capture!vars
    BY <1>1 DEF vars, captureState, Capture!vars
  <2>3. UNCHANGED Pipeline!vars
    BY <1>1 DEF vars, pipelineState, Pipeline!vars
  <2>4. UNCHANGED Pages!vars
    BY <1>1 DEF vars, pagesState, Pages!vars
  <2>5. UNCHANGED Agenda!vars
    BY <1>1 DEF vars, agendaState, Agenda!vars
  <2>6. UNCHANGED Minutes!vars
    BY <1>1 DEF vars, minutesState, Minutes!vars
  <2>7. UNCHANGED Files!vars
    BY <1>1 DEF vars, filesState, Files!vars
  <2>8. UNCHANGED Assignment!vars
    BY <1>1 DEF vars, assignmentState, Assignment!vars
  <2>9. UNCHANGED Access!vars
    BY <1>1 DEF vars, accessState, Access!vars
  <2>10. UNCHANGED Records!vars
    BY <1>1 DEF vars, recordsState, Records!vars
  <2>11. UNCHANGED Feed!vars
    BY <1>1 DEF vars, feedState, Feed!vars
  <2>12. UNCHANGED Funnel!vars
    BY <1>1 DEF vars, funnelState, Funnel!vars
  <2>13. UNCHANGED Discord!vars
    BY <1>1 DEF vars, discordState, Discord!vars
  <2>14. UNCHANGED Projects!vars
    BY <1>1 DEF vars, projectsState, Projects!vars
  <2>15. UNCHANGED Review!vars
    BY <1>1 DEF vars, reviewState, Review!vars
  <2>16. UNCHANGED Budget!vars
    BY <1>1 DEF vars, budgetState, Budget!vars
  <2>17. UNCHANGED Links!vars
    BY <1>1 DEF vars, linksState, Links!vars
  <2> QED
    BY <2>1, <2>2, <2>3, <2>4, <2>5, <2>6, <2>7, <2>8, <2>9, <2>10, <2>11, <2>12, <2>13,
        <2>14, <2>15, <2>16, <2>17
<1>2. CASE WorkspaceNext
  <2>1. ASSUME part = "capture", Kept("capture"), Capture!Next
        PROVE  part' = part /\ part = "capture" /\ Capture!Next
    BY <2>1 DEF Kept
  <2>2. ASSUME part = "pipeline", Kept("pipeline"), Pipeline!Next
        PROVE  part' = part /\ part = "pipeline" /\ Pipeline!Next
    BY <2>2 DEF Kept
  <2>3. ASSUME part = "pages", Kept("pages"), Pages!Next
        PROVE  part' = part /\ part = "pages" /\ Pages!Next
    BY <2>3 DEF Kept
  <2>4. ASSUME part = "agenda", Kept("agenda"), Agenda!Next
        PROVE  part' = part /\ part = "agenda" /\ Agenda!Next
    BY <2>4 DEF Kept
  <2>5. ASSUME part = "minutes", Kept("minutes"), Minutes!Next
        PROVE  part' = part /\ part = "minutes" /\ Minutes!Next
    BY <2>5 DEF Kept
  <2>6. ASSUME part = "files", Kept("files"), Files!Next
        PROVE  part' = part /\ part = "files" /\ Files!Next
    BY <2>6 DEF Kept
  <2>7. ASSUME part = "assignment", Kept("assignment"), Assignment!Next
        PROVE  part' = part /\ part = "assignment" /\ Assignment!Next
    BY <2>7 DEF Kept
  <2>8. ASSUME part = "access", Kept("access"), Access!Next
        PROVE  part' = part /\ part = "access" /\ Access!Next
    BY <2>8 DEF Kept
  <2>9. ASSUME part = "records", Kept("records"), Records!Next
        PROVE  part' = part /\ part = "records" /\ Records!Next
    BY <2>9 DEF Kept
  <2>10. ASSUME part = "feed", Kept("feed"), Feed!Next
        PROVE  part' = part /\ part = "feed" /\ Feed!Next
    BY <2>10 DEF Kept
  <2>11. ASSUME part = "funnel", Kept("funnel"), Funnel!Next
        PROVE  part' = part /\ part = "funnel" /\ Funnel!Next
    BY <2>11 DEF Kept
  <2>12. ASSUME part = "discord", Kept("discord"), Discord!Next
        PROVE  part' = part /\ part = "discord" /\ Discord!Next
    BY <2>12 DEF Kept
  <2>13. ASSUME part = "projects", Kept("projects"), Projects!Next
        PROVE  part' = part /\ part = "projects" /\ Projects!Next
    BY <2>13 DEF Kept
  <2>14. ASSUME part = "review", Kept("review"), Review!Next
        PROVE  part' = part /\ part = "review" /\ Review!Next
    BY <2>14 DEF Kept
  <2>15. ASSUME part = "budget", Kept("budget"), Budget!Next
        PROVE  part' = part /\ part = "budget" /\ Budget!Next
    BY <2>15 DEF Kept
  <2>16. ASSUME part = "links", Kept("links"), Links!Next
        PROVE  part' = part /\ part = "links" /\ Links!Next
    BY <2>16 DEF Kept
  <2> QED
    BY <1>2, <2>1, <2>2, <2>3, <2>4, <2>5, <2>6, <2>7, <2>8, <2>9, <2>10, <2>11, <2>12,
        <2>13, <2>14, <2>15, <2>16 DEF WorkspaceNext
<1> QED  BY <1>1, <1>2

LEMMA WorkspaceStarts == WorkspaceInit => WorkspaceInv
  BY CaptureInit, PipelineInit, PagesInit, AgendaInit, MinutesInit, FilesInit,
      AssignmentInit, AccessInit, RecordsInit, FeedInit, FunnelInit, DiscordInit,
      ProjectsInit, ReviewInit, BudgetInit, LinksInit DEF WorkspaceInit, WorkspaceInv,
      Part

LEMMA WorkspaceSteps == WorkspaceInv /\ [WorkspaceNext]_vars => WorkspaceInv'
<1> SUFFICES ASSUME WorkspaceInv, [WorkspaceNext]_vars PROVE WorkspaceInv'
  OBVIOUS
<1>1. part = "capture" => CaptureInv'
  BY WorkspaceMoves, CaptureStep DEF WorkspaceInv
<1>2. part = "pipeline" => PipelineInv'
  BY WorkspaceMoves, PipelineStep DEF WorkspaceInv
<1>3. part = "pages" => PagesInv'
  BY WorkspaceMoves, PagesStep DEF WorkspaceInv
<1>4. part = "agenda" => AgendaInv'
  BY WorkspaceMoves, AgendaStep DEF WorkspaceInv
<1>5. part = "minutes" => MinutesInv'
  BY WorkspaceMoves, MinutesStep DEF WorkspaceInv
<1>6. part = "files" => FilesInv'
  BY WorkspaceMoves, FilesStep DEF WorkspaceInv
<1>7. part = "assignment" => AssignmentInv'
  BY WorkspaceMoves, AssignmentStep DEF WorkspaceInv
<1>8. part = "access" => AccessInv'
  BY WorkspaceMoves, AccessStep DEF WorkspaceInv
<1>9. part = "records" => RecordsInv'
  BY WorkspaceMoves, RecordsStep DEF WorkspaceInv
<1>10. part = "feed" => FeedInv'
  BY WorkspaceMoves, FeedStep DEF WorkspaceInv
<1>11. part = "funnel" => FunnelInv'
  BY WorkspaceMoves, FunnelStep DEF WorkspaceInv
<1>12. part = "discord" => DiscordInv'
  BY WorkspaceMoves, DiscordStep DEF WorkspaceInv
<1>13. part = "projects" => ProjectsInv'
  BY WorkspaceMoves, ProjectsStep DEF WorkspaceInv
<1>14. part = "review" => ReviewInv'
  BY WorkspaceMoves, ReviewStep DEF WorkspaceInv
<1>15. part = "budget" => BudgetInv'
  BY WorkspaceMoves, BudgetStep DEF WorkspaceInv
<1>16. part = "links" => LinksInv'
  BY WorkspaceMoves, LinksStep DEF WorkspaceInv
<1>17. part' = part /\ part' \in Part
  BY WorkspaceMoves DEF WorkspaceInv
<1> QED
  BY <1>1, <1>2, <1>3, <1>4, <1>5, <1>6, <1>7, <1>8, <1>9, <1>10, <1>11, <1>12, <1>13,
      <1>14, <1>15, <1>16, <1>17 DEF WorkspaceInv

LEMMA WorkspaceInvHolds == WorkspaceSpec => []WorkspaceInv
  BY WorkspaceStarts, WorkspaceSteps, PTL DEF WorkspaceSpec

(* The state of the part that is explored has its type, whatever the        *)
(* constants of the sixteen modules are.                                    *)
THEOREM WorkspaceTyped == WorkspaceSpec => []TypeOK
<1>1. WorkspaceInv => TypeOK
  <2> SUFFICES ASSUME WorkspaceInv PROVE TypeOK
    OBVIOUS
  <2>1. CASE part = "capture"
    BY <2>1, CapturePromises DEF TypeOK, WorkspaceInv
  <2>2. CASE part = "pipeline"
    BY <2>2, PipelinePromises DEF TypeOK, WorkspaceInv
  <2>3. CASE part = "pages"
    BY <2>3 DEF TypeOK, WorkspaceInv, PagesInv
  <2>4. CASE part = "agenda"
    BY <2>4, AgendaPromises DEF TypeOK, WorkspaceInv
  <2>5. CASE part = "minutes"
    BY <2>5 DEF TypeOK, WorkspaceInv, MinutesInv
  <2>6. CASE part = "files"
    BY <2>6, FilesPromises DEF TypeOK, WorkspaceInv
  <2>7. CASE part = "assignment"
    BY <2>7, AssignmentPromises DEF TypeOK, WorkspaceInv
  <2>8. CASE part = "access"
    BY <2>8, AccessPromises DEF TypeOK, WorkspaceInv
  <2>9. CASE part = "records"
    BY <2>9, RecordsPromises DEF TypeOK, WorkspaceInv
  <2>10. CASE part = "feed"
    BY <2>10, FeedPromises DEF TypeOK, WorkspaceInv
  <2>11. CASE part = "funnel"
    BY <2>11, FunnelPromises DEF TypeOK, WorkspaceInv
  <2>12. CASE part = "discord"
    BY <2>12 DEF TypeOK, WorkspaceInv, DiscordInv
  <2>13. CASE part = "projects"
    BY <2>13 DEF TypeOK, WorkspaceInv, ProjectsInv
  <2>14. CASE part = "review"
    BY <2>14, ReviewPromises DEF TypeOK, WorkspaceInv
  <2>15. CASE part = "budget"
    BY <2>15 DEF TypeOK, WorkspaceInv, BudgetInv
  <2>16. CASE part = "links"
    BY <2>16 DEF TypeOK, WorkspaceInv, LinksInv
  <2> QED
    BY <2>1, <2>2, <2>3, <2>4, <2>5, <2>6, <2>7, <2>8, <2>9, <2>10, <2>11, <2>12, <2>13,
        <2>14, <2>15, <2>16 DEF WorkspaceInv, Part
<1> QED  BY <1>1, WorkspaceInvHolds, PTL

(* What a sender repeats is done once: unless requests for it overlapped, a *)
(* message has one row and a mail is answered once more than its drafts     *)
(* failed to be logged; a sponsor who signs up again has one lead; and a    *)
(* booking that Cal.com was answered has its lead (ingest, email, website   *)
(* and calcom routers).                                                     *)
THEOREM RepeatsCount == WorkspaceSpec => []RepeatsCountOnce
<1>1. WorkspaceInv => RepeatsCountOnce
  BY CapturePromises, PipelinePromises, FunnelPromises
     DEF WorkspaceInv, RepeatsCountOnce
<1> QED  BY <1>1, WorkspaceInvHolds, PTL

(* For every set of scopes a credential may carry: the guide lists the      *)
(* tools the server lets it call, the two surfaces agree tool by tool, and  *)
(* a record is seen, in an answer to a change too, only with a scope of its *)
(* module, and changed only with the write scope; plain scopes do not open  *)
(* the isolated modules, and "trigger" opens meetings only (require_scope,  *)
(* require_api_key, catalog.py).  The pipeline moves an event only by a     *)
(* trusted mail that fits it well enough (execute_decision).                *)
THEOREM EntitledOnly == WorkspaceSpec => []OnlyTheEntitled
<1>1. WorkspaceInv => OnlyTheEntitled
  BY AccessPromises, PipelinePromises DEF WorkspaceInv, OnlyTheEntitled
<1> QED  BY <1>1, WorkspaceInvHolds, PTL

(* A visitor sees nothing that was not published or revealed at some time   *)
(* of the visit (website/router.py), and a project is public only with a    *)
(* review that approved it (projects/service.py).                           *)
THEOREM PublicOnly == WorkspaceSpec => []OnlyThePublicShown
<1>1. WorkspaceInv => OnlyThePublicShown
  BY FeedPromises DEF WorkspaceInv, OnlyThePublicShown, ProjectsInv
<1> QED  BY <1>1, WorkspaceInvHolds, PTL

(* Two documents or projects never share a slug, what the preview shows is  *)
(* what the site serves, a link that was handed out opens its agenda, and a *)
(* review form that was handed out collects: the check-then-write of the    *)
(* slugs, of share_agenda and of create_form, whatever overlaps that the    *)
(* properties allow.                                                        *)
THEOREM AddressesLead == WorkspaceSpec => []AddressesHold
<1>1. WorkspaceInv => AddressesHold
  BY PagesPromises, AgendaPromises, ReviewPromises
     DEF WorkspaceInv, AddressesHold, ProjectsInv
<1> QED  BY <1>1, WorkspaceInvHolds, PTL

(* What stands is what the last request to name it asked for: attributes,   *)
(* owners, the budget with its grant, claims and the order of the links, as *)
(* POST, PATCH, set_owners, set_event_budget, the claim of a Discord user   *)
(* and reorder_links write them, except where requests overlapped in a way  *)
(* that the properties name.                                                *)
THEOREM LastRequestStands == WorkspaceSpec => []LastRequestHolds
<1>1. WorkspaceInv => LastRequestHolds
  BY RecordsPromises, AssignmentPromises, BudgetPromises
     DEF WorkspaceInv, LastRequestHolds, DiscordInv, LinksInv
<1> QED  BY <1>1, WorkspaceInvHolds, PTL

(* Objects of the bucket and their rows, notes and their cost, assignees    *)
(* and their notices agree, except where a request is between its two       *)
(* writes or was cut off there (media, attachments, meetings and tasks      *)
(* services).                                                               *)
THEOREM PlacesKeepTogether == WorkspaceSpec => []PlacesAgree
<1>1. WorkspaceInv => PlacesAgree
  BY FilesPromises, MinutesPromises, AssignmentPromises
     DEF WorkspaceInv, PlacesAgree
<1> QED  BY <1>1, WorkspaceInvHolds, PTL

(* No step undoes what was settled: a mail whose draft is logged moves no   *)
(* event again, a locked agenda keeps its items, a header keeps a title     *)
(* that nobody changes, and no attribute is cleared but by a PATCH that     *)
(* nulls it or a caller that blanks it.                                     *)
THEOREM SettledIsKept == WorkspaceSpec => SettledStays
<1>1. ASSUME WorkspaceInv, [WorkspaceNext]_vars
      PROVE  /\ part = "pipeline" => Pipeline!SettledMailKept
             /\ part = "agenda" => Agenda!LockKept
             /\ part = "records" => Records!ClearedAsAsked
             /\ part = "links" => Links!TitleKept
  <2>1. CASE part = "pipeline"
    <3>1. [Pipeline!SettledMailKept]_(Pipeline!vars)
      BY <1>1, <2>1, WorkspaceMoves, PipelineSettle DEF WorkspaceInv
    <3>2. UNCHANGED Pipeline!vars => Pipeline!SettledMailKept
      BY DEF Pipeline!vars, Pipeline!SettledMailKept
    <3> QED  BY <2>1, <3>1, <3>2
  <2>2. CASE part = "agenda"
    <3>1. [Agenda!LockKept]_(Agenda!vars)
      BY <1>1, <2>2, WorkspaceMoves, AgendaSettle DEF WorkspaceInv
    <3>2. UNCHANGED Agenda!vars => Agenda!LockKept
      BY DEF Agenda!vars, Agenda!LockKept
    <3> QED  BY <2>2, <3>1, <3>2
  <2>3. CASE part = "records"
    <3>1. [Records!ClearedAsAsked]_(Records!vars)
      BY <1>1, <2>3, WorkspaceMoves, RecordsSettle DEF WorkspaceInv
    <3>2. UNCHANGED Records!vars => Records!ClearedAsAsked
      BY DEF Records!vars, Records!ClearedAsAsked
    <3> QED  BY <2>3, <3>1, <3>2
  <2>4. CASE part = "links"
    BY <1>1, <2>4, WorkspaceMoves, LinksSettle DEF WorkspaceInv
  <2> QED  BY <2>1, <2>2, <2>3, <2>4
<1> QED  BY <1>1, WorkspaceInvHolds, PTL DEF WorkspaceSpec, SettledStays

=============================================================================
