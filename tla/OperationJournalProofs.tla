----------------------- MODULE OperationJournalProofs -----------------------
(***************************************************************************)
(* Machine-checked theorems about OperationJournal, for every number of    *)
(* attempts and workers, every window, separation and lease, every         *)
(* backend and every kind of outer lease.                                  *)
(***************************************************************************)
EXTENDS OperationJournal, FiniteSetTheorems, WellFoundedInduction, TLAPS

Steps == SinkSteps \cup SharedSteps \cup PassSteps
SinkRecord == [tries : 0..MaxAttempts, ambiguous : BOOLEAN]
OuterLease == [holder : {Sink} \cup Workers, live : BOOLEAN]

\* The steps of the sink from which another attempt may follow.
Early == {"new", "writing", "verified", "opening", "launch", "launching", "send"}

\* The retry loop never sends more than MaxAttempts requests, and the provider
\* stores no more versions than were sent.
Budget ==
    /\ act[Sink].pc \in Early => put.tries < MaxAttempts
    /\ prov.flight \subseteq 1..put.tries
    /\ prov.landings + Cardinality(prov.flight) <= put.tries

\* The row does not exist before the sink inserts it.
Fresh == act[Sink].pc = "new" => row.st = "none"

\* An actor on its way to a verdict has selected a version.
Picked == \A a \in Actors : act[a].pc = "delete" => act[a].pick \in Attempts

\* A committed row names its version.
Named == row.st = "Committed" => row.sel \in Attempts

\* The inductive invariant.
JournalInv == TypeOK /\ Budget /\ Fresh /\ Picked /\ Named /\ AnswerRecorded

-----------------------------------------------------------------------------
(* What a step does to the row, the actors and the provider                *)

KeepsResult ==
    row.st \in Terminal =>
        row'.st = row.st /\ row'.sel = row.sel /\ row'.complete = row.complete

RowStep ==
    /\ row' \in Row /\ KeepsResult /\ Named'
    /\ row.st = "none" => row'.st = "none" \/ act'[Sink].pc # "new"

ActStep ==
    /\ act' \in [Actors -> Actor] /\ Picked'
    /\ act'[Sink].pc = "new" => act[Sink].pc = "new"
    /\ act'[Sink].pc = "done" =>
          \/ act[Sink].pc = "done" /\ act'[Sink].pick = act[Sink].pick
          \/ AnswerRecorded'

EnvStep == prov' \in Provider /\ put' \in SinkRecord /\ outer' \in OuterLease /\ Budget'

\* The three together preserve the invariant and the recorded result.
LEMMA StepsSuffice ==
    ASSUME JournalInv, RowStep, ActStep, EnvStep
    PROVE  JournalInv' /\ KeepsResult
<1>1. TypeOK'
  BY DEF RowStep, ActStep, EnvStep, TypeOK, SinkRecord, OuterLease
<1>2. Budget' /\ Picked' /\ Named' /\ KeepsResult
  BY DEF RowStep, ActStep, EnvStep
<1>3. Fresh'
  BY DEF JournalInv, RowStep, ActStep, Fresh
<1>4. AnswerRecorded'
  BY DEF JournalInv, RowStep, ActStep, KeepsResult, AnswerRecorded, Terminal
<1> QED BY <1>1, <1>2, <1>3, <1>4 DEF JournalInv

-----------------------------------------------------------------------------
(* Types                                                                   *)

\* The constants as the provers need them.
LEMMA Constants ==
    /\ Sink \in Actors /\ Drop \in Actors /\ Workers \subseteq Actors
    /\ Sink # Drop /\ Sink \notin Workers /\ Drop \notin Workers
    /\ MaxAttempts \in Nat /\ MaxAttempts > 0 /\ Window \in Nat /\ Separation \in Nat
    /\ Stale \in Nat /\ Lease \in Nat /\ MaxStall \in Nat
    /\ Nobody \notin Actors
BY JournalAssumption DEF Actors

\* TypeOK gives every record its type.
LEMMA RecordTypes ==
    ASSUME TypeOK
    PROVE  /\ row \in Row /\ prov \in Provider /\ put \in SinkRecord /\ outer \in OuterLease
           /\ act \in [Actors -> Actor] /\ \A a \in Actors : act[a] \in Actor
BY DEF TypeOK, SinkRecord, OuterLease

\* An actor at rest holds nothing.
LEMMA AtRestType ==
    ASSUME NEW pc \in Steps
    PROVE  AtRest(pc) \in Actor /\ AtRest(pc).pc = pc /\ AtRest(pc).pick = None
BY Constants DEF AtRest, Actor, Steps, States

\* A stored version is an attempt, and the latest one is stored: strict
\* inclusion of finite sets is well-founded, so some version has no later one.
LEMMA LatestStored ==
    ASSUME TypeOK, Stored # {}
    PROVE  Latest \in Stored /\ Latest \in Attempts
<1> DEFINE Later(v) == {u \in Stored : prov.landed[u] > prov.landed[v]}
           T == {Later(v) : v \in Stored}
<1>1. \A v \in Attempts : prov.landed[v] \in Int
  BY DEF TypeOK, Provider
<1>2. Stored \subseteq Attempts
  BY DEF Stored
<1>3. IsFiniteSet(Attempts)
  BY Constants, FS_Interval DEF Attempts
<1>4. T \subseteq FiniteSubsetsOf(Attempts)
  BY <1>2, <1>3, FS_Subset DEF FiniteSubsetsOf
<1>5. T # {}
  OBVIOUS
<1>6. IsWellFoundedOn(StrictSubsetOrdering(Attempts), FiniteSubsetsOf(Attempts))
  BY FS_StrictSubsetOrderingWellFounded
<1>7. \E x \in T : \A y \in T : ~(<<y, x>> \in StrictSubsetOrdering(Attempts))
  BY <1>4, <1>5, <1>6, WFMin
<1>8. PICK w \in Stored : \A v \in Stored : ~(<<Later(v), Later(w)>> \in StrictSubsetOrdering(Attempts))
  BY <1>7
<1>9. \A u \in Stored : prov.landed[u] <= prov.landed[w]
  <2> SUFFICES ASSUME NEW u \in Stored, prov.landed[u] > prov.landed[w]
               PROVE  FALSE
    BY <1>1, <1>2, <1>8
  <2>1. u \in Later(w) /\ u \notin Later(u)
    BY <1>1, <1>2
  <2>2. Later(u) \subseteq Later(w)
    BY <1>1, <1>2, <1>8
  <2>3. Later(u) \subseteq Attempts /\ Later(w) \subseteq Attempts
    BY <1>2
  <2>4. <<Later(u), Later(w)>> \in StrictSubsetOrdering(Attempts)
    BY <2>1, <2>2, <2>3 DEF StrictSubsetOrdering
  <2> QED BY <2>4, <1>8
<1> QED BY <1>2, <1>8, <1>9 DEF Latest

-----------------------------------------------------------------------------
(* Actors: what moves one of them does to the rest                         *)

\* A version number is not None.
LEMMA AttemptsAreVersions == \A v \in Attempts : v \in Int /\ v # None
BY Constants DEF Attempts, None

\* One actor is replaced by another well-formed record.
LEMMA ActorReplaced ==
    ASSUME JournalInv, NEW a \in Actors, NEW r \in Actor, act' = [act EXCEPT ![a] = r],
           r.pc # "new", r.pc = "delete" => r.pick \in Attempts,
           a = Sink /\ r.pc = "done" => AnswerRecorded'
    PROVE  /\ ActStep
           /\ act'[a] = r /\ \A b \in Actors : b # a => act'[b] = act[b]
<1>1. act \in [Actors -> Actor] /\ Sink \in Actors
  BY Constants DEF JournalInv, TypeOK
<1>2. act'[a] = r /\ \A b \in Actors : b # a => act'[b] = act[b]
  BY <1>1
<1>3. act' \in [Actors -> Actor]
  BY <1>1
<1>4. Picked'
  BY <1>2 DEF JournalInv, Picked
<1>5. act'[Sink].pc = "new" => act[Sink].pc = "new"
  BY <1>1, <1>2
<1>6. act'[Sink].pc = "done" =>
         \/ act[Sink].pc = "done" /\ act'[Sink].pick = act[Sink].pick
         \/ AnswerRecorded'
  BY <1>1, <1>2
<1> QED BY <1>2, <1>3, <1>4, <1>5, <1>6 DEF ActStep

\* An actor only moves to its next step.
LEMMA ActorGoes ==
    ASSUME JournalInv, NEW a \in Actors, NEW pc \in Steps, Goes(a, pc),
           pc \notin {"new", "delete", "done"}
    PROVE  /\ ActStep
           /\ act'[a].pc = pc /\ \A b \in Actors : b # a => act'[b] = act[b]
<1> DEFINE r == [act[a] EXCEPT !.pc = pc]
<1>1. act[a] \in Actor
  BY RecordTypes DEF JournalInv
<1>2. r \in Actor /\ r.pc = pc
  BY <1>1 DEF Actor, Steps
<1>3. act' = [act EXCEPT ![a] = r]
  BY DEF Goes
<1> QED BY <1>2, <1>3, ActorReplaced

\* An actor's call returns.
LEMMA ActorEnds ==
    ASSUME JournalInv, NEW a \in Actors, Ended(a)
    PROVE  /\ ActStep
           /\ act'[a].pc \notin Early /\ \A b \in Actors : b # a => act'[b] = act[b]
<1> DEFINE pc == CASE a = Sink -> "dropped" [] a = Drop -> "done" [] OTHER -> "idle"
<1>1. pc \in {"dropped", "done", "idle"} /\ (a = Sink => pc = "dropped")
  BY Constants
<1>2. pc \in Steps
  BY <1>1 DEF Steps, SinkSteps, PassSteps
<1>3. AtRest(pc) \in Actor /\ AtRest(pc).pc = pc
  BY <1>2, AtRestType
<1>4. act' = [act EXCEPT ![a] = AtRest(pc)]
  BY DEF Ended
<1> HIDE DEF pc
<1>5. ActStep /\ act'[a] = AtRest(pc) /\ \A b \in Actors : b # a => act'[b] = act[b]
  BY <1>1, <1>3, <1>4, ActorReplaced
<1> QED BY <1>1, <1>3, <1>5 DEF Early

\* The sink's call succeeds with what the journal records.
LEMMA SinkFinishes ==
    ASSUME JournalInv, NEW v \in Attempts \cup {None}, Finished(v),
           IF v = None THEN row'.st = "ProvenAborted"
           ELSE row'.st = "Committed" /\ row'.sel = v
    PROVE  /\ ActStep
           /\ act'[Sink].pc \notin Early /\ \A b \in Actors : b # Sink => act'[b] = act[b]
<1> DEFINE r == [AtRest("done") EXCEPT !.pick = v]
<1>1. AtRest("done") \in Actor
  BY AtRestType DEF Steps, SinkSteps
<1>2. r \in Actor /\ r.pc = "done" /\ r.pick = v
  BY <1>1 DEF Actor, AtRest
<1>3. act' = [act EXCEPT ![Sink] = r]
  BY DEF Finished
<1> HIDE DEF r
<1>4. act'[Sink] = r
  BY <1>3, Constants DEF JournalInv, TypeOK
<1>5. AnswerRecorded'
  BY <1>2, <1>4 DEF AnswerRecorded
<1> QED BY <1>2, <1>3, <1>4, <1>5, ActorReplaced, Constants DEF Early

-----------------------------------------------------------------------------
(* The row                                                                 *)

\* A step that leaves the row alone.
LEMMA RowUntouched ==
    ASSUME JournalInv, UNCHANGED row
    PROVE  RowStep
BY RecordTypes DEF JournalInv, RowStep, KeepsResult, Named

\* A step that only touches times, claim and observation.
LEMMA RowBookkept ==
    ASSUME JournalInv, row' \in Row, row'.st = row.st, row'.sel = row.sel,
           row'.complete = row.complete
    PROVE  RowStep
BY DEF JournalInv, RowStep, KeepsResult, Named

\* A compare-and-set never leaves a terminal state.
LEMMA RowMoves ==
    ASSUME JournalInv, NEW from, NEW to \in States \ {"Committed"}, Transition(from, to)
    PROVE  RowStep /\ row'.st = to /\ row.st = from
<1>1. row \in Row
  BY RecordTypes DEF JournalInv
<1>2. row'.st = to /\ row'.sel = row.sel /\ row'.complete = row.complete /\ row.st = from
  BY <1>1 DEF Transition, Row
<1>3. row' \in Row
  <2>1. 0 \in 0..Stale /\ 0 \in 0..Lease
    BY Constants
  <2> QED BY <1>1, <2>1 DEF Transition, Row
<1>4. from \notin Terminal \cup {"none"}
  BY DEF Transition, CanTransition, Terminal
<1> QED BY <1>2, <1>3, <1>4 DEF RowStep, KeepsResult, Named

\* A verdict is recorded on a row that has none, with the selected version.
LEMMA RowCommits ==
    ASSUME JournalInv, NEW a \in Actors, act[a].pc = "delete",
           act[a].seen \in {"Completing", "CommitUnknown"}, RecordCommit(a)
    PROVE  /\ RowStep
           /\ row'.st = "Committed" /\ row'.sel = act[a].pick /\ act[a].pick \in Attempts
<1>1. row \in Row /\ act[a] \in Actor
  BY RecordTypes DEF JournalInv
<1>2. act[a].pick \in Attempts
  BY DEF JournalInv, Picked
<1>3. row'.st = "Committed" /\ row'.sel = act[a].pick
  BY <1>1 DEF RecordCommit, Row
<1>4. row' \in Row
  <2>1. 0 \in 0..Stale /\ 0 \in 0..Lease /\ "Committed" \in States
    BY Constants DEF States
  <2>2. act[a].pick \in Attempts \cup {None} /\ act[a].full \in BOOLEAN
    BY <1>1 DEF Actor
  <2> QED BY <1>1, <2>1, <2>2 DEF RecordCommit, Row
<1>5. row.st \notin Terminal \cup {"none"}
  BY DEF RecordCommit, Terminal
<1> QED BY <1>2, <1>3, <1>4, <1>5 DEF RowStep, KeepsResult, Named

-----------------------------------------------------------------------------
(* The provider, the retry loop and the outer lease                        *)

\* A step that changes neither, and does not bring the sink back to sending.
LEMMA EnvUntouched ==
    ASSUME JournalInv, UNCHANGED <<prov, put>>, outer' \in OuterLease,
           act'[Sink].pc \in Early => act[Sink].pc \in Early
    PROVE  EnvStep
BY RecordTypes DEF JournalInv, EnvStep, Budget

\* The attempts in flight are finitely many.
LEMMA FlightFinite ==
    ASSUME JournalInv
    PROVE  /\ IsFiniteSet(prov.flight) /\ Cardinality(prov.flight) \in Nat
           /\ put.tries \in Nat /\ put.tries <= MaxAttempts /\ prov.landings \in Nat
<1>1. put.tries \in 0..MaxAttempts /\ prov.flight \subseteq Attempts /\ prov.landings \in 0..MaxAttempts
  BY DEF JournalInv, TypeOK, Provider
<1>2. IsFiniteSet(Attempts)
  BY Constants, FS_Interval DEF Attempts
<1> QED BY <1>1, <1>2, FS_Subset, FS_CardinalityType, Constants

\* A step of one actor that changes neither.
LEMMA EnvQuiet ==
    ASSUME JournalInv, NEW a \in Actors, UNCHANGED <<prov, put>>, outer' \in OuterLease,
           \A b \in Actors : b # a => act'[b] = act[b],
           act'[a].pc \notin Early \/ act[a].pc \in Early
    PROVE  EnvStep
<1>1. act'[Sink].pc \in Early => act[Sink].pc \in Early
  BY Constants
<1> QED BY <1>1, EnvUntouched

\* The outer lease is left alone.
LEMMA OuterUntouched == ASSUME JournalInv, UNCHANGED outer PROVE outer' \in OuterLease
BY RecordTypes DEF JournalInv

-----------------------------------------------------------------------------
(* The sink                                                                *)

StepOK == RowStep /\ ActStep /\ EnvStep

\* insert_intent, set_expected, set_open and the first transition.
LEMMA SinkOpens ==
    ASSUME JournalInv, InsertIntent \/ VerifyOutput \/ SetOpen \/ StartCompleting
    PROVE  StepOK
<1>0. /\ row \in Row /\ act[Sink] \in Actor /\ Sink \in Actors /\ 0 \in 0..Stale
      /\ {"writing", "verified", "opening", "launch"} \subseteq Steps \cap Early
  BY RecordTypes, Constants DEF JournalInv, Steps, SinkSteps, Early
<1>1. CASE InsertIntent
  <2>1. act[Sink].pc = "new" /\ row.st = "none"
    BY <1>1 DEF InsertIntent, JournalInv, Fresh
  <2>2. ActStep /\ act'[Sink].pc = "writing" /\ \A b \in Actors : b # Sink => act'[b] = act[b]
    BY <1>0, <1>1, ActorGoes DEF InsertIntent
  <2>3. row' \in Row /\ row'.st = "Intent"
    BY <1>0, <1>1 DEF InsertIntent, Row, States
  <2>4. RowStep
    BY <2>1, <2>2, <2>3 DEF RowStep, KeepsResult, Named, Terminal
  <2> QED BY <1>0, <1>1, <2>1, <2>2, <2>4, EnvQuiet, OuterUntouched
          DEF InsertIntent, StepOK, Early
<1>2. CASE VerifyOutput
  <2>1. act[Sink].pc \in Early /\ UNCHANGED <<prov, put, outer>>
    BY <1>2 DEF VerifyOutput, Early
  <2>2. CASE row' = [row EXCEPT !.age = 0] /\ Goes(Sink, "verified")
    <3>1. row' \in Row /\ row'.st = row.st /\ row'.sel = row.sel /\ row'.complete = row.complete
      BY <1>0, <2>2 DEF Row
    <3> QED BY <1>0, <2>1, <2>2, <3>1, RowBookkept, ActorGoes, EnvQuiet, OuterUntouched
            DEF StepOK
  <2>3. CASE UNCHANGED row /\ Ended(Sink)
    BY <1>0, <2>1, <2>3, RowUntouched, ActorEnds, EnvQuiet, OuterUntouched DEF StepOK
  <2> QED BY <1>2, <2>2, <2>3 DEF VerifyOutput
<1>3. CASE SetOpen
  <2>1. act[Sink].pc \in Early /\ UNCHANGED <<prov, put, outer>>
    BY <1>3 DEF SetOpen, Early
  <2>2. CASE /\ row.st = "Intent" /\ row' = [row EXCEPT !.st = "Open", !.age = 0]
             /\ act' = [act EXCEPT ![Sink].pc = "opening", ![Sink].seen = "Open"]
    <3> DEFINE r == [act[Sink] EXCEPT !.pc = "opening", !.seen = "Open"]
    <3>1. r \in Actor /\ r.pc = "opening"
      BY <1>0 DEF Actor, Steps, States
    <3>2. act' = [act EXCEPT ![Sink] = r]
      BY <2>2, RecordTypes, <1>0 DEF JournalInv
    <3>3. ActStep /\ \A b \in Actors : b # Sink => act'[b] = act[b]
      BY <1>0, <3>1, <3>2, ActorReplaced
    <3>4. row' \in Row /\ row'.st = "Open"
      BY <1>0, <2>2 DEF Row, States
    <3>5. RowStep
      BY <2>2, <3>4 DEF RowStep, KeepsResult, Named, Terminal
    <3> QED BY <1>0, <2>1, <3>3, <3>5, EnvQuiet, OuterUntouched DEF StepOK
  <2>3. CASE UNCHANGED row /\ Ended(Sink)
    BY <1>0, <2>1, <2>3, RowUntouched, ActorEnds, EnvQuiet, OuterUntouched DEF StepOK
  <2> QED BY <1>3, <2>2, <2>3 DEF SetOpen
<1>4. CASE StartCompleting
  <2>1. act[Sink].pc \in Early /\ UNCHANGED <<prov, put, outer>>
    BY <1>4 DEF StartCompleting, Early
  <2>2. CASE /\ Transition("Open", "Completing")
             /\ act' = [act EXCEPT ![Sink].pc = "launch", ![Sink].seen = "Completing"]
    <3> DEFINE r == [act[Sink] EXCEPT !.pc = "launch", !.seen = "Completing"]
    <3>1. r \in Actor /\ r.pc = "launch"
      BY <1>0 DEF Actor, Steps, States
    <3>2. act' = [act EXCEPT ![Sink] = r]
      BY <2>2, RecordTypes, <1>0 DEF JournalInv
    <3>3. ActStep /\ \A b \in Actors : b # Sink => act'[b] = act[b]
      BY <1>0, <3>1, <3>2, ActorReplaced
    <3>4. RowStep
      BY <2>2, RowMoves DEF States
    <3> QED BY <1>0, <2>1, <3>3, <3>4, EnvQuiet, OuterUntouched DEF StepOK
  <2>3. CASE UNCHANGED row /\ Ended(Sink)
    BY <1>0, <2>1, <2>3, RowUntouched, ActorEnds, EnvQuiet, OuterUntouched DEF StepOK
  <2> QED BY <1>4, <2>2, <2>3 DEF StartCompleting
<1> QED BY <1>1, <1>2, <1>3, <1>4

\* The retry loop goes on after an attempt of unknown outcome.
LEMMA SinkRetries ==
    ASSUME JournalInv, NEW n \in 0..MaxAttempts, Ambiguous(n), UNCHANGED outer,
           prov' \in Provider, prov'.flight \subseteq 1..n,
           prov'.landings + Cardinality(prov'.flight) <= n
    PROVE  ActStep /\ EnvStep
<1> DEFINE pc == IF n < MaxAttempts THEN "launch" ELSE "exhausted"
<1>1. pc \in Steps /\ pc \notin {"new", "delete", "done"}
  BY DEF Steps, SinkSteps
<1>2. ActStep /\ act'[Sink].pc = pc
  BY <1>1, ActorGoes, Constants DEF Ambiguous
<1>3. put' \in SinkRecord /\ put'.tries = n
  BY DEF Ambiguous, SinkRecord
<1>4. Budget'
  BY <1>2, <1>3 DEF Budget, Early
<1> QED BY <1>2, <1>3, <1>4, OuterUntouched DEF EnvStep

\* record_mutation_launch: the window is extended within its bounds.
LEMMA SinkLaunches ==
    ASSUME JournalInv, LaunchRead \/ LaunchWrite
    PROVE  StepOK
<1>0. row \in Row /\ act[Sink] \in Actor /\ Sink \in Actors /\ 0 \in 0..MaxStall
  BY RecordTypes, Constants DEF JournalInv
<1>1. CASE LaunchRead
  <2>1. act[Sink].pc \in Early /\ UNCHANGED <<row, prov, put, outer>>
    BY <1>1 DEF LaunchRead, Early
  <2>2. CASE act' = [act EXCEPT ![Sink].pc = "launching", ![Sink].obs = 0]
    <3> DEFINE r == [act[Sink] EXCEPT !.pc = "launching", !.obs = 0]
    <3>1. r \in Actor /\ r.pc = "launching"
      BY <1>0 DEF Actor, Steps, SinkSteps
    <3>2. act' = [act EXCEPT ![Sink] = r]
      BY <2>2, RecordTypes, <1>0 DEF JournalInv
    <3>3. ActStep /\ \A b \in Actors : b # Sink => act'[b] = act[b]
      BY <1>0, <3>1, <3>2, ActorReplaced
    <3> QED BY <1>0, <2>1, <3>3, RowUntouched, EnvQuiet, OuterUntouched DEF StepOK
  <2>3. CASE Ended(Sink)
    BY <1>0, <2>1, <2>3, RowUntouched, ActorEnds, EnvQuiet, OuterUntouched DEF StepOK
  <2> QED BY <1>1, <2>2, <2>3 DEF LaunchRead
<1>2. CASE LaunchWrite
  <2>1. act[Sink].pc \in Early /\ UNCHANGED <<prov, put, outer>>
    BY <1>2 DEF LaunchWrite, Early
  <2> DEFINE r == [act[Sink] EXCEPT !.pc = "send", !.obs = 0]
             nb == IF Window - act[Sink].obs > row.nb THEN Window - act[Sink].obs ELSE row.nb
  <2>2. r \in Actor /\ r.pc = "send"
    BY <1>0 DEF Actor, Steps, SinkSteps
  <2>3. act' = [act EXCEPT ![Sink] = r]
    BY <1>2, RecordTypes, <1>0 DEF JournalInv, LaunchWrite
  <2>4. ActStep /\ \A b \in Actors : b # Sink => act'[b] = act[b]
    BY <1>0, <2>2, <2>3, ActorReplaced
  <2>5. nb \in (-MaxStall)..Window
    <3>1. act[Sink].obs \in 0..MaxStall /\ row.nb \in (-MaxStall)..Window
      BY <1>0 DEF Actor, Row
    <3> QED BY <3>1, Constants
  <2>6. row' = [row EXCEPT !.nb = nb, !.absence = None, !.age = 0]
    BY <1>2 DEF LaunchWrite, RecordLaunch
  <2> HIDE DEF nb
  <2>7. row' \in Row /\ row'.st = row.st /\ row'.sel = row.sel /\ row'.complete = row.complete
    <3>1. 0 \in 0..Stale
      BY Constants
    <3> QED BY <1>0, <2>5, <2>6, <3>1 DEF Row
  <2> QED BY <1>0, <2>1, <2>4, <2>7, RowBookkept, EnvQuiet, OuterUntouched DEF StepOK
<1> QED BY <1>1, <1>2

\* An attempt leaves, is answered, times out or is refused.
LEMMA SinkSends ==
    ASSUME JournalInv, Send \/ Answered \/ Unanswered \/ Refused
    PROVE  StepOK
<1>0. /\ act[Sink] \in Actor /\ Sink \in Actors /\ prov \in Provider /\ put \in SinkRecord
      /\ {"sent", "refused"} \subseteq Steps \ Early
  BY RecordTypes, Constants DEF JournalInv, Steps, SinkSteps, Early
<1>a. /\ IsFiniteSet(prov.flight) /\ Cardinality(prov.flight) \in Nat
      /\ put.tries \in Nat /\ put.tries <= MaxAttempts /\ prov.landings \in Nat
      /\ prov.flight \subseteq 1..put.tries
      /\ prov.landings + Cardinality(prov.flight) <= put.tries
      /\ MaxAttempts \in Nat
  BY FlightFinite, Constants DEF JournalInv, Budget
<1>1. CASE Send
  <2> DEFINE n == put.tries + 1
  <2>1. /\ put.tries < MaxAttempts /\ n \in 0..MaxAttempts /\ n \in Attempts
        /\ prov.flight \subseteq 1..n /\ prov.landings + Cardinality(prov.flight) <= n
    BY <1>1, <1>a DEF Send, JournalInv, Budget, Early, Attempts
  <2>2. RowStep /\ UNCHANGED outer
    BY <1>1, RowUntouched DEF Send
  <2>3. CASE /\ prov' = [prov EXCEPT !.flight = @ \cup {n}]
             /\ put' = [put EXCEPT !.tries = n] /\ Goes(Sink, "sent")
    <3>1. ActStep /\ act'[Sink].pc = "sent"
      BY <1>0, <2>3, ActorGoes
    <3>2. prov' \in Provider /\ prov'.landings = prov.landings /\ prov'.flight = prov.flight \cup {n}
      BY <1>0, <2>1, <2>3 DEF Provider
    <3>3. put' \in SinkRecord /\ put'.tries = n
      BY <1>0, <2>1, <2>3 DEF SinkRecord
    <3>4. Cardinality(prov.flight \cup {n}) = Cardinality(prov.flight) + 1
      <4>1. n \notin prov.flight
        BY <1>a
      <4> QED BY <1>a, <4>1, FS_AddElement
    <3>5. prov.flight \cup {n} \subseteq 1..n
      BY <2>1, <1>a
    <3>6. Cardinality(prov.flight \cup {n}) \in Nat
      BY <1>a, FS_AddElement, FS_CardinalityType
    <3>7. prov.landings + Cardinality(prov.flight \cup {n}) <= n
      BY <1>a, <3>4, <3>6
    <3>8. Budget'
      BY <3>1, <3>2, <3>3, <3>5, <3>7 DEF Budget, Early
    <3> QED BY <2>2, <3>1, <3>2, <3>3, <3>8, OuterUntouched DEF StepOK, EnvStep
  <2>4. CASE Ambiguous(n) /\ UNCHANGED prov
    BY <1>0, <2>1, <2>2, <2>4, SinkRetries DEF StepOK
  <2> QED BY <1>1, <2>3, <2>4 DEF Send
<1>2. CASE Answered
  <2> DEFINE n == put.tries
             d == IF prov.exact THEN Stored \ {n} ELSE {}
             r == [act[Sink] EXCEPT !.pc = "delete", !.pick = n, !.doomed = d,
                                    !.full = WholeHistory(n)]
  <2>1. n \in Attempts /\ d \in SUBSET Attempts
    BY <1>2 DEF Answered, Stored
  <2>2. WholeHistory(n) \in BOOLEAN
    BY DEF WholeHistory
  <2>3. r \in Actor /\ r.pc = "delete" /\ r.pick = n
    BY <1>0, <2>1, <2>2 DEF Actor, SharedSteps
  <2>4. act' = [act EXCEPT ![Sink] = r] /\ UNCHANGED <<row, prov, put, outer>>
    BY <1>2 DEF Answered
  <2> HIDE DEF r
  <2>5. ActStep /\ act'[Sink].pc \notin Early /\ \A b \in Actors : b # Sink => act'[b] = act[b]
    BY <1>0, <2>1, <2>3, <2>4, ActorReplaced DEF Early
  <2> QED BY <1>0, <2>4, <2>5, RowUntouched, EnvQuiet, OuterUntouched DEF StepOK
<1>3. CASE Unanswered
  <2>1. Ambiguous(put.tries) /\ UNCHANGED <<row, prov, outer>>
    BY <1>3 DEF Unanswered
  <2>2. put.tries \in 0..MaxAttempts
    BY <1>a
  <2> QED BY <1>0, <1>a, <2>1, <2>2, RowUntouched, SinkRetries DEF StepOK
<1>4. CASE Refused
  <2>1. /\ prov' = [prov EXCEPT !.flight = @ \ {put.tries}] /\ UNCHANGED <<row, outer>>
        /\ put.tries \in prov.flight
    BY <1>4 DEF Refused
  <2>2. /\ prov' \in Provider /\ prov'.landings = prov.landings
        /\ prov'.flight = prov.flight \ {put.tries}
    BY <1>0, <2>1 DEF Provider
  <2>3. Cardinality(prov'.flight) = Cardinality(prov.flight) - 1
    BY <1>a, <2>1, <2>2, FS_RemoveElement
  <2>4. prov'.flight \subseteq 1..put.tries /\ prov'.landings + Cardinality(prov'.flight) <= put.tries
    BY <1>a, <2>2, <2>3
  <2>5. CASE Ambiguous(put.tries)
    <3>1. put.tries \in 0..MaxAttempts
      BY <1>a
    <3> QED BY <2>1, <2>2, <2>4, <2>5, <3>1, RowUntouched, SinkRetries DEF StepOK
  <2>6. CASE Goes(Sink, "refused") /\ UNCHANGED put
    <3>1. ActStep /\ act'[Sink].pc = "refused"
      BY <1>0, <2>6, ActorGoes
    <3>2. Budget'
      BY <2>4, <2>6, <3>1 DEF Budget, Early
    <3> QED BY <1>0, <2>1, <2>2, <2>6, <3>1, <3>2, RowUntouched, OuterUntouched
            DEF StepOK, EnvStep
  <2> QED BY <1>4, <2>5, <2>6 DEF Refused
<1> QED BY <1>1, <1>2, <1>3, <1>4

\* The sink records or looks up its verdict.
LEMMA SinkSettles ==
    ASSUME JournalInv, RefusedAborts \/ SinkCommits \/ Exhausted \/ Recheck
    PROVE  StepOK
<1>0. /\ act[Sink] \in Actor /\ Sink \in Actors /\ row \in Row
      /\ {"recheck", "mark", "probe"} \subseteq Steps \ Early
  BY RecordTypes, Constants DEF JournalInv, Steps, SinkSteps, SharedSteps, Early
<1>1. CASE RefusedAborts
  <2>1. UNCHANGED <<prov, put, outer>>
    BY <1>1 DEF RefusedAborts
  <2>2. CASE Transition("Completing", "ProvenAborted") /\ Finished(None)
    <3>1. RowStep /\ row'.st = "ProvenAborted"
      BY <2>2, RowMoves DEF States
    <3>2. ActStep /\ act'[Sink].pc \notin Early /\ \A b \in Actors : b # Sink => act'[b] = act[b]
      BY <2>2, <3>1, SinkFinishes
    <3> QED BY <1>0, <2>1, <3>1, <3>2, EnvQuiet, OuterUntouched DEF StepOK
  <2>3. CASE UNCHANGED row /\ Ended(Sink)
    BY <1>0, <2>1, <2>3, RowUntouched, ActorEnds, EnvQuiet, OuterUntouched DEF StepOK
  <2> QED BY <1>1, <2>2, <2>3 DEF RefusedAborts
<1>2. CASE SinkCommits
  <2>1. /\ UNCHANGED <<prov, put, outer>> /\ act[Sink].pc = "delete"
        /\ act[Sink].seen \in {"Completing", "CommitUnknown"}
    BY <1>2 DEF SinkCommits
  <2>2. CASE RecordCommit(Sink) /\ Finished(act[Sink].pick)
    <3>1. RowStep /\ row'.st = "Committed" /\ row'.sel = act[Sink].pick /\ act[Sink].pick \in Attempts
      BY <1>0, <2>1, <2>2, RowCommits
    <3>2. act[Sink].pick # None
      BY <3>1, AttemptsAreVersions
    <3>3. ActStep /\ act'[Sink].pc \notin Early /\ \A b \in Actors : b # Sink => act'[b] = act[b]
      BY <2>2, <3>1, <3>2, SinkFinishes
    <3> QED BY <1>0, <2>1, <3>1, <3>3, EnvQuiet, OuterUntouched DEF StepOK
  <2>3. CASE (RecordCommit(Sink) \/ UNCHANGED row) /\ Goes(Sink, "recheck")
    <3>1. RowStep
      BY <1>0, <2>1, <2>3, RowCommits, RowUntouched
    <3>2. ActStep /\ act'[Sink].pc = "recheck" /\ \A b \in Actors : b # Sink => act'[b] = act[b]
      BY <1>0, <2>3, ActorGoes
    <3> QED BY <1>0, <2>1, <3>1, <3>2, EnvQuiet, OuterUntouched DEF StepOK, Early
  <2> QED BY <1>2, <2>2, <2>3 DEF SinkCommits
<1>3. CASE Exhausted
  <2>1. UNCHANGED <<prov, put, outer>>
    BY <1>3 DEF Exhausted
  <2>2. CASE Transition("Completing", "CommitUnknown") /\ Goes(Sink, "recheck")
    <3>1. RowStep
      BY <2>2, RowMoves DEF States
    <3>2. ActStep /\ act'[Sink].pc = "recheck" /\ \A b \in Actors : b # Sink => act'[b] = act[b]
      BY <1>0, <2>2, ActorGoes
    <3> QED BY <1>0, <2>1, <3>1, <3>2, EnvQuiet, OuterUntouched DEF StepOK, Early
  <2>3. CASE UNCHANGED row /\ Ended(Sink)
    BY <1>0, <2>1, <2>3, RowUntouched, ActorEnds, EnvQuiet, OuterUntouched DEF StepOK
  <2> QED BY <1>3, <2>2, <2>3 DEF Exhausted, TransitionOrFail
<1>4. CASE Recheck
  <2>1. UNCHANGED <<row, prov, put, outer>>
    BY <1>4 DEF Recheck
  <2>2. CASE row.st = "Committed" /\ Finished(row.sel)
    <3>1. row.sel \in Attempts /\ row.sel # None
      BY <2>2, AttemptsAreVersions DEF JournalInv, Named
    <3>2. ActStep /\ act'[Sink].pc \notin Early /\ \A b \in Actors : b # Sink => act'[b] = act[b]
      BY <2>1, <2>2, <3>1, SinkFinishes
    <3> QED BY <1>0, <2>1, <3>2, RowUntouched, EnvQuiet, OuterUntouched DEF StepOK
  <2>3. CASE /\ row.st \in {"Completing", "CommitUnknown"}
             /\ act' = [act EXCEPT ![Sink] = [AtRest("probe") EXCEPT
                            !.pc = IF row.st = "Completing" THEN "mark" ELSE "probe",
                            !.seen = row.st]]
    <3> DEFINE pc == IF row.st = "Completing" THEN "mark" ELSE "probe"
               r == [AtRest("probe") EXCEPT !.pc = pc, !.seen = row.st]
    <3>1. AtRest("probe") \in Actor
      BY <1>0, AtRestType
    <3>2. r \in Actor /\ r.pc \in {"mark", "probe"}
      BY <1>0, <2>3, <3>1 DEF Actor, States, SharedSteps
    <3> HIDE DEF r
    <3>3. ActStep /\ act'[Sink].pc \notin Early /\ \A b \in Actors : b # Sink => act'[b] = act[b]
      BY <1>0, <2>3, <3>2, ActorReplaced DEF r, Early
    <3> QED BY <1>0, <2>1, <3>3, RowUntouched, EnvQuiet, OuterUntouched DEF StepOK
  <2>4. CASE Ended(Sink)
    BY <1>0, <2>1, <2>4, RowUntouched, ActorEnds, EnvQuiet, OuterUntouched DEF StepOK
  <2> QED BY <1>4, <2>2, <2>3, <2>4 DEF Recheck
<1> QED BY <1>1, <1>2, <1>3, <1>4

-----------------------------------------------------------------------------
(* Steps the sink and the reconcilers share                                *)

\* Aborts, and the mark that a completion is unknown.
LEMMA ActorAborts ==
    ASSUME JournalInv, NEW a \in Actors, BeginAbort(a) \/ FinishAbort(a) \/ MarkUnknown(a)
    PROVE  StepOK
<1>0. act[a] \in Actor /\ Sink \in Actors /\ {"abort"} \subseteq Steps \ Early
  BY RecordTypes, Constants DEF JournalInv, Steps, SharedSteps, Early
<1>1. CASE BeginAbort(a)
  <2>1. UNCHANGED <<prov, put, outer>>
    BY <1>1 DEF BeginAbort
  <2>2. CASE Transition(act[a].seen, "Aborting") /\ Goes(a, "abort")
    <3>1. RowStep
      BY <2>2, RowMoves DEF States
    <3>2. ActStep /\ act'[a].pc = "abort" /\ \A b \in Actors : b # a => act'[b] = act[b]
      BY <1>0, <2>2, ActorGoes
    <3> QED BY <2>1, <3>1, <3>2, EnvQuiet, OuterUntouched DEF StepOK, Early
  <2>3. CASE UNCHANGED row /\ Ended(a)
    BY <2>1, <2>3, RowUntouched, ActorEnds, EnvQuiet, OuterUntouched DEF StepOK
  <2> QED BY <1>1, <2>2, <2>3 DEF BeginAbort, TransitionOrFail
<1>2. CASE FinishAbort(a)
  <2>1. UNCHANGED <<prov, put, outer>>
    BY <1>2 DEF FinishAbort
  <2>2. CASE Transition("Aborting", "ProvenAborted") /\ a = Sink /\ Finished(None)
    <3>1. RowStep /\ row'.st = "ProvenAborted"
      BY <2>2, RowMoves DEF States
    <3>2. ActStep /\ act'[Sink].pc \notin Early /\ \A b \in Actors : b # Sink => act'[b] = act[b]
      BY <2>2, <3>1, SinkFinishes
    <3> QED BY <1>0, <2>1, <3>1, <3>2, EnvQuiet, OuterUntouched DEF StepOK
  <2>3. CASE (Transition("Aborting", "ProvenAborted") \/ UNCHANGED row) /\ Ended(a)
    <3>1. RowStep
      BY <2>3, RowMoves, RowUntouched DEF States
    <3> QED BY <2>1, <2>3, <3>1, ActorEnds, EnvQuiet, OuterUntouched DEF StepOK
  <2> QED BY <1>2, <2>2, <2>3 DEF FinishAbort
<1>3. CASE MarkUnknown(a)
  <2>1. UNCHANGED <<prov, put, outer>>
    BY <1>3 DEF MarkUnknown
  <2>2. CASE /\ Transition("Completing", "CommitUnknown")
             /\ act' = [act EXCEPT ![a].pc = "probe", ![a].seen = "CommitUnknown"]
    <3> DEFINE r == [act[a] EXCEPT !.pc = "probe", !.seen = "CommitUnknown"]
    <3>1. r \in Actor /\ r.pc = "probe"
      BY <1>0 DEF Actor, SharedSteps, States
    <3>2. act' = [act EXCEPT ![a] = r]
      BY <2>2, RecordTypes DEF JournalInv
    <3>3. ActStep /\ act'[a].pc \notin Early /\ \A b \in Actors : b # a => act'[b] = act[b]
      BY <3>1, <3>2, ActorReplaced DEF Early
    <3>4. RowStep
      BY <2>2, RowMoves DEF States
    <3> QED BY <2>1, <3>3, <3>4, EnvQuiet, OuterUntouched DEF StepOK
  <2>3. CASE UNCHANGED row /\ Ended(a)
    BY <2>1, <2>3, RowUntouched, ActorEnds, EnvQuiet, OuterUntouched DEF StepOK
  <2> QED BY <1>3, <2>2, <2>3 DEF MarkUnknown
<1> QED BY <1>1, <1>2, <1>3

\* The probe, the deletion of redundant versions and the verdict.
LEMMA ActorProbes ==
    ASSUME JournalInv, NEW a \in Actors, Probe(a) \/ DeleteRedundant(a) \/ CommitFound(a)
    PROVE  StepOK
<1>0. act[a] \in Actor /\ Sink \in Actors /\ prov \in Provider /\ put \in SinkRecord
  BY RecordTypes, Constants DEF JournalInv
<1>1. CASE Probe(a)
  <2>1. UNCHANGED <<row, prov, put, outer>>
    BY <1>1 DEF Probe
  <2>2. CASE /\ Stored # {}
             /\ act' = [act EXCEPT ![a] = [@ EXCEPT !.pc = "delete", !.pick = Latest,
                                             !.doomed = Redundant, !.full = prov.exact]]
    <3> DEFINE r == [act[a] EXCEPT !.pc = "delete", !.pick = Latest, !.doomed = Redundant,
                                   !.full = prov.exact]
    <3>1. Latest \in Attempts
      BY <2>2, LatestStored DEF JournalInv
    <3>2. Redundant \in SUBSET Attempts /\ prov.exact \in BOOLEAN
      BY <1>0 DEF Redundant, Stored, Provider
    <3>3. r \in Actor /\ r.pc = "delete" /\ r.pick = Latest
      BY <1>0, <3>1, <3>2 DEF Actor, SharedSteps
    <3>4. act' = [act EXCEPT ![a] = r]
      BY <2>2
    <3> HIDE DEF r
    <3>5. ActStep /\ act'[a].pc \notin Early /\ \A b \in Actors : b # a => act'[b] = act[b]
      BY <3>1, <3>3, <3>4, ActorReplaced DEF Early
    <3> QED BY <2>1, <3>5, RowUntouched, EnvQuiet, OuterUntouched DEF StepOK
  <2>3. CASE act' = [act EXCEPT ![a].pc = "observed", ![a].obs = 0]
    <3> DEFINE r == [act[a] EXCEPT !.pc = "observed", !.obs = 0]
    <3>0. 0 \in 0..MaxStall
      BY Constants
    <3>1. r \in Actor /\ r.pc = "observed"
      BY <1>0, <3>0 DEF Actor, SharedSteps
    <3>2. act' = [act EXCEPT ![a] = r]
      BY <2>3, RecordTypes DEF JournalInv
    <3>3. ActStep /\ act'[a].pc \notin Early /\ \A b \in Actors : b # a => act'[b] = act[b]
      BY <3>1, <3>2, ActorReplaced DEF Early
    <3> QED BY <2>1, <3>3, RowUntouched, EnvQuiet, OuterUntouched DEF StepOK
  <2>4. CASE Ended(a)
    BY <2>1, <2>4, RowUntouched, ActorEnds, EnvQuiet, OuterUntouched DEF StepOK
  <2> QED BY <1>1, <2>2, <2>3, <2>4 DEF Probe
<1>2. CASE DeleteRedundant(a)
  <2>1. PICK v \in act[a].doomed : /\ prov' = [prov EXCEPT !.landed[v] = 0]
                                   /\ act' = [act EXCEPT ![a].doomed = @ \ {v}]
    BY <1>2 DEF DeleteRedundant
  <2>2. act[a].pc = "delete" /\ UNCHANGED <<row, put, outer>>
    BY <1>2 DEF DeleteRedundant
  <2>3. v \in Attempts /\ 0 \in 0..MaxAttempts
    BY <1>0, Constants DEF Actor
  <2>4. prov' \in Provider /\ prov'.flight = prov.flight /\ prov'.landings = prov.landings
    BY <1>0, <2>1, <2>3 DEF Provider
  <2> DEFINE r == [act[a] EXCEPT !.doomed = @ \ {v}]
  <2>5. r \in Actor /\ r.pc = "delete" /\ r.pick = act[a].pick
    BY <1>0, <2>2 DEF Actor
  <2>6. act' = [act EXCEPT ![a] = r] /\ act[a].pick \in Attempts
    BY <2>1, <2>2 DEF JournalInv, Picked
  <2> HIDE DEF r
  <2>7. ActStep /\ act'[a].pc = "delete" /\ \A b \in Actors : b # a => act'[b] = act[b]
    BY <2>5, <2>6, ActorReplaced
  <2>8. Budget'
    <3>1. act'[Sink].pc = act[Sink].pc
      BY <1>0, <2>2, <2>7
    <3> QED BY <2>2, <2>4, <3>1 DEF JournalInv, Budget
  <2> QED BY <1>0, <2>2, <2>4, <2>7, <2>8, RowUntouched, OuterUntouched DEF StepOK, EnvStep
<1>3. CASE CommitFound(a)
  <2>1. /\ UNCHANGED <<prov, put, outer>> /\ act[a].pc = "delete"
        /\ act[a].seen \in {"Completing", "CommitUnknown"}
    BY <1>3 DEF CommitFound
  <2>2. CASE RecordCommit(a) /\ a = Sink /\ Finished(act[a].pick)
    <3>1. RowStep /\ row'.st = "Committed" /\ row'.sel = act[a].pick /\ act[a].pick \in Attempts
      BY <2>1, <2>2, RowCommits
    <3>2. act[a].pick # None
      BY <3>1, AttemptsAreVersions
    <3>3. ActStep /\ act'[Sink].pc \notin Early /\ \A b \in Actors : b # Sink => act'[b] = act[b]
      BY <2>2, <3>1, <3>2, SinkFinishes
    <3> QED BY <1>0, <2>1, <3>1, <3>3, EnvQuiet, OuterUntouched DEF StepOK
  <2>3. CASE (RecordCommit(a) \/ UNCHANGED row) /\ Ended(a)
    <3>1. RowStep
      BY <2>1, <2>3, RowCommits, RowUntouched
    <3> QED BY <2>1, <2>3, <3>1, ActorEnds, EnvQuiet, OuterUntouched DEF StepOK
  <2> QED BY <1>3, <2>2, <2>3 DEF CommitFound
<1> QED BY <1>1, <1>2, <1>3

\* The observations of an absence and the abort they justify.
LEMMA ActorConfirms ==
    ASSUME JournalInv, NEW a \in Actors, ConfirmRead(a) \/ ConfirmWrite(a) \/ AbsentAborts(a)
    PROVE  StepOK
<1>0. act[a] \in Actor /\ row \in Row /\ {"unseen", "absent"} \subseteq Steps \ Early
  BY RecordTypes, Constants DEF JournalInv, Steps, SharedSteps, Early
<1>1. CASE ConfirmRead(a)
  <2>1. UNCHANGED <<row, prov, put, outer>> /\ (Ended(a) \/ Goes(a, "unseen") \/ Goes(a, "absent"))
    BY <1>1 DEF ConfirmRead
  <2>2. ActStep /\ act'[a].pc \notin Early /\ \A b \in Actors : b # a => act'[b] = act[b]
    BY <1>0, <2>1, ActorEnds, ActorGoes
  <2> QED BY <2>1, <2>2, RowUntouched, EnvQuiet, OuterUntouched DEF StepOK
<1>2. CASE ConfirmWrite(a)
  <2>1. /\ row' = [row EXCEPT !.absence = act[a].obs, !.age = 0]
        /\ Ended(a) /\ UNCHANGED <<prov, put, outer>>
    BY <1>2 DEF ConfirmWrite
  <2>2. act[a].obs \in {None} \cup 0..(MaxStall + Separation) /\ 0 \in 0..Stale
    <3>1. act[a].obs \in 0..MaxStall
      BY <1>0 DEF Actor
    <3> QED BY <3>1, Constants
  <2>3. row' \in Row /\ row'.st = row.st /\ row'.sel = row.sel /\ row'.complete = row.complete
    BY <1>0, <2>1, <2>2 DEF Row
  <2> QED BY <2>1, <2>3, RowBookkept, ActorEnds, EnvQuiet, OuterUntouched DEF StepOK
<1>3. CASE AbsentAborts(a)
  <2>1. Ended(a) /\ UNCHANGED <<prov, put, outer>>
    BY <1>3 DEF AbsentAborts
  <2>2. RowStep
    BY <1>3, RowMoves, RowUntouched DEF AbsentAborts, States
  <2> QED BY <2>1, <2>2, ActorEnds, EnvQuiet, OuterUntouched DEF StepOK
<1> QED BY <1>1, <1>2, <1>3

-----------------------------------------------------------------------------
(* Reconcilers, failures, the provider, time                               *)

\* The steps of a pass before it works on the row.
LEMMA PassBegins ==
    ASSUME JournalInv, NEW a \in Actors,
           \/ ReadCandidate(a) \/ ClaimRow(a) \/ Fails(a)
           \/ a \in Workers /\ (TakePhysicalLease(a) \/ TakeRouteLease(a))
    PROVE  StepOK
<1>0. act[a] \in Actor /\ row \in Row /\ outer \in OuterLease
  BY RecordTypes DEF JournalInv
<1>a. \A st : FirstStep(st) \in (Steps \ Early) \ {"new", "delete", "done"}
  BY DEF FirstStep, Steps, SharedSteps, PassSteps, Early
<1>b. {"leased", "route"} \subseteq Steps \ Early
  BY DEF Steps, PassSteps, Early
<1>1. CASE ReadCandidate(a)
  <2>1. UNCHANGED <<row, prov, put, outer>>
    BY <1>1 DEF ReadCandidate
  <2>2. CASE Claimable /\ act' = [act EXCEPT ![a].pc = "candidate", ![a].seen = row.st]
    <3> DEFINE r == [act[a] EXCEPT !.pc = "candidate", !.seen = row.st]
    <3>1. row.st \in States
      BY <1>0, <2>2 DEF Claimable, Row
    <3>2. r \in Actor /\ r.pc = "candidate"
      BY <1>0, <3>1 DEF Actor, PassSteps
    <3>3. act' = [act EXCEPT ![a] = r]
      BY <2>2, RecordTypes DEF JournalInv
    <3>4. ActStep /\ act'[a].pc \notin Early /\ \A b \in Actors : b # a => act'[b] = act[b]
      BY <3>2, <3>3, ActorReplaced DEF Early
    <3> QED BY <2>1, <3>4, RowUntouched, EnvQuiet, OuterUntouched DEF StepOK
  <2>3. CASE Ended(a)
    BY <2>1, <2>3, RowUntouched, ActorEnds, EnvQuiet, OuterUntouched DEF StepOK
  <2> QED BY <1>1, <2>2, <2>3 DEF ReadCandidate
<1>2. CASE ClaimRow(a)
  <2>1. UNCHANGED <<prov, put, outer>>
    BY <1>2 DEF ClaimRow
  <2>2. CASE /\ row' = [row EXCEPT !.lease = Lease, !.owner = a]
             /\ Goes(a, IF Asserted /\ a \in Workers THEN "route" ELSE FirstStep(act[a].seen))
    <3>1. Lease \in 0..Lease
      BY Constants
    <3>2. row' \in Row /\ row'.st = row.st /\ row'.sel = row.sel /\ row'.complete = row.complete
      BY <1>0, <2>2, <3>1 DEF Row
    <3>3. ActStep /\ act'[a].pc \notin Early /\ \A b \in Actors : b # a => act'[b] = act[b]
      BY <1>a, <1>b, <2>2, ActorGoes
    <3> QED BY <2>1, <3>2, <3>3, RowBookkept, EnvQuiet, OuterUntouched DEF StepOK
  <2>3. CASE UNCHANGED row /\ Ended(a)
    BY <2>1, <2>3, RowUntouched, ActorEnds, EnvQuiet, OuterUntouched DEF StepOK
  <2> QED BY <1>2, <2>2, <2>3 DEF ClaimRow
<1>3. CASE Fails(a)
  BY <1>3, RowUntouched, ActorEnds, EnvQuiet, OuterUntouched DEF Fails, StepOK
<1>4. CASE a \in Workers /\ TakePhysicalLease(a)
  <2>1. UNCHANGED <<row, prov, put>> /\ outer' = [holder |-> a, live |-> TRUE] /\ Goes(a, "leased")
    BY <1>4 DEF TakePhysicalLease
  <2>2. outer' \in OuterLease
    BY <1>4, <2>1 DEF OuterLease
  <2>3. ActStep /\ act'[a].pc \notin Early /\ \A b \in Actors : b # a => act'[b] = act[b]
    BY <1>b, <2>1, ActorGoes
  <2> QED BY <2>1, <2>2, <2>3, RowUntouched, EnvQuiet DEF StepOK
<1>5. CASE a \in Workers /\ TakeRouteLease(a)
  <2>1. UNCHANGED <<row, prov, put>>
    BY <1>5 DEF TakeRouteLease
  <2>2. CASE outer' = [holder |-> a, live |-> TRUE] /\ Goes(a, FirstStep(act[a].seen))
    <3>1. outer' \in OuterLease
      BY <1>5, <2>2 DEF OuterLease
    <3>2. ActStep /\ act'[a].pc \notin Early /\ \A b \in Actors : b # a => act'[b] = act[b]
      BY <1>a, <2>2, ActorGoes
    <3> QED BY <2>1, <3>1, <3>2, RowUntouched, EnvQuiet DEF StepOK
  <2>3. CASE UNCHANGED outer /\ Ended(a)
    BY <2>1, <2>3, RowUntouched, ActorEnds, EnvQuiet, OuterUntouched DEF StepOK
  <2> QED BY <1>5, <2>2, <2>3 DEF TakeRouteLease
<1> QED BY <1>1, <1>2, <1>3, <1>4, <1>5

\* The process of the sink is lost.
LEMMA SinkLost ==
    ASSUME JournalInv, Crash
    PROVE  StepOK
<1> DEFINE r == AtRest("gone")
<1>0. r \in Actor /\ r.pc = "gone"
  BY AtRestType DEF Steps, SinkSteps
<1>1. act \in [Actors -> Actor] /\ Sink \in Actors /\ Drop \in Actors
  BY RecordTypes, Constants DEF JournalInv
<1>2. act' = [act EXCEPT ![Sink] = r, ![Drop] = r] /\ UNCHANGED <<row, prov, put, outer>>
  BY DEF Crash
<1> HIDE DEF r
<1>3. act' \in [Actors -> Actor] /\ act'[Sink].pc = "gone"
  BY <1>0, <1>1, <1>2
<1>4. Picked'
  BY <1>0, <1>1, <1>2 DEF JournalInv, Picked
<1>5. ActStep
  BY <1>3, <1>4 DEF ActStep
<1> QED BY <1>2, <1>3, <1>5, RowUntouched, EnvUntouched, OuterUntouched DEF StepOK, Early

\* The provider settles an attempt.
LEMMA ProviderSettles ==
    ASSUME JournalInv, NEW n \in Attempts, ProviderLands(n) \/ ProviderLoses(n)
    PROVE  StepOK
<1>0. prov \in Provider /\ put \in SinkRecord
  BY RecordTypes DEF JournalInv
<1>a. /\ IsFiniteSet(prov.flight) /\ Cardinality(prov.flight) \in Nat
      /\ put.tries \in Nat /\ put.tries <= MaxAttempts /\ prov.landings \in Nat
      /\ prov.flight \subseteq 1..put.tries
      /\ prov.landings + Cardinality(prov.flight) <= put.tries
      /\ MaxAttempts \in Nat
  BY FlightFinite, Constants DEF JournalInv, Budget
<1>1. n \in prov.flight /\ UNCHANGED <<row, act, put, outer>>
  BY DEF ProviderLands, ProviderLoses
<1>2. /\ Cardinality(prov.flight \ {n}) = Cardinality(prov.flight) - 1
      /\ Cardinality(prov.flight \ {n}) \in Nat
  BY <1>a, <1>1, FS_RemoveElement, FS_CardinalityType
<1>3. prov.landings + 1 \in 0..MaxAttempts
  BY <1>a, <1>2
<1>4. /\ prov' \in Provider /\ prov'.flight = prov.flight \ {n}
      /\ prov'.landings \in {prov.landings, prov.landings + 1}
  <2>1. CASE ProviderLands(n)
    <3>1. prov' = [prov EXCEPT !.flight = @ \ {n}, !.landings = @ + 1,
                               !.landed[n] = prov.landings + 1]
      BY <2>1 DEF ProviderLands
    <3>2. prov'.landed = [prov.landed EXCEPT ![n] = prov.landings + 1]
      BY <1>0, <3>1 DEF Provider
    <3>3. prov'.landed \in [Attempts -> 0..MaxAttempts]
      BY <1>0, <1>3, <3>2 DEF Provider
    <3> QED BY <1>0, <1>3, <3>1, <3>3 DEF Provider
  <2>2. CASE ProviderLoses(n)
    BY <1>0, <2>2 DEF ProviderLoses, Provider
  <2> QED BY <2>1, <2>2
<1>5. Budget'
  <2>1. prov'.landings + Cardinality(prov'.flight) <= put.tries
    BY <1>a, <1>2, <1>4
  <2>2. prov'.flight \subseteq 1..put.tries
    BY <1>a, <1>4
  <2> QED BY <1>1, <2>1, <2>2 DEF JournalInv, Budget
<1>6. ActStep
  BY <1>1, RecordTypes DEF JournalInv, ActStep, Picked
<1> QED BY <1>0, <1>1, <1>4, <1>5, <1>6, RowUntouched, OuterUntouched DEF StepOK, EnvStep

\* Leases lapse and time passes.
LEMMA TimePasses ==
    ASSUME JournalInv, OuterLapses \/ Tick
    PROVE  StepOK
<1>0. row \in Row /\ outer \in OuterLease /\ act \in [Actors -> Actor] /\ Sink \in Actors
  BY RecordTypes, Constants DEF JournalInv
<1>1. CASE OuterLapses
  <2>1. UNCHANGED <<row, prov, act, put>> /\ outer' = [outer EXCEPT !.live = FALSE]
    BY <1>1 DEF OuterLapses
  <2>2. outer' \in OuterLease
    BY <1>0, <2>1 DEF OuterLease
  <2>3. ActStep
    BY <2>1, RecordTypes DEF JournalInv, ActStep, Picked
  <2> QED BY <2>1, <2>2, <2>3, RowUntouched, EnvUntouched DEF StepOK
<1>2. CASE Tick
  <2> DEFINE nb == Most(row.nb - 1, -MaxStall)
             ab == IF row.absence = None THEN None ELSE Least(row.absence + 1, MaxStall + Separation)
             ag == Least(row.age + 1, Stale)
             le == Most(row.lease - 1, 0)
  <2>1. row' = [row EXCEPT !.nb = nb, !.absence = ab, !.age = ag, !.lease = le]
    BY <1>2, <1>0 DEF Tick, Row
  <2>2. nb \in (-MaxStall)..Window
    <3>1. row.nb \in (-MaxStall)..Window
      BY <1>0 DEF Row
    <3> QED BY <3>1, Constants DEF Most
  <2>3. ab \in {None} \cup 0..(MaxStall + Separation)
    <3>1. row.absence \in {None} \cup 0..(MaxStall + Separation)
      BY <1>0 DEF Row
    <3> QED BY <3>1, Constants DEF Least
  <2>4. ag \in 0..Stale /\ le \in 0..Lease
    <3>1. row.age \in 0..Stale /\ row.lease \in 0..Lease
      BY <1>0 DEF Row
    <3> QED BY <3>1, Constants DEF Least, Most
  <2> HIDE DEF nb, ab, ag, le
  <2>5. row' \in Row /\ row'.st = row.st /\ row'.sel = row.sel /\ row'.complete = row.complete
    BY <1>0, <2>1, <2>2, <2>3, <2>4 DEF Row
  <2>6. ASSUME NEW a \in Actors
        PROVE  act'[a] \in Actor /\ act'[a].pc = act[a].pc /\ act'[a].pick = act[a].pick
    <3>1. act[a] \in Actor /\ act'[a] = IF Dated(a) THEN [act[a] EXCEPT !.obs = @ + 1] ELSE act[a]
      BY <1>0, <1>2 DEF Tick
    <3>2. Dated(a) => act[a].obs + 1 \in 0..MaxStall
      <4>1. act[a].obs \in 0..MaxStall
        BY <3>1 DEF Actor
      <4> QED BY <1>2, <4>1, Constants DEF Tick
    <3> QED BY <3>1, <3>2 DEF Actor
  <2>7. act' \in [Actors -> Actor]
    <3>1. act' = [a \in Actors |-> IF Dated(a) THEN [act[a] EXCEPT !.obs = @ + 1] ELSE act[a]]
      BY <1>2 DEF Tick
    <3> QED BY <2>6, <3>1
  <2>8. Picked'
    BY <2>6 DEF JournalInv, Picked
  <2>9. ActStep
    BY <1>0, <2>6, <2>7, <2>8 DEF ActStep
  <2>10. UNCHANGED <<prov, put, outer>> /\ act'[Sink].pc = act[Sink].pc
    BY <1>0, <1>2, <2>6 DEF Tick
  <2> QED BY <2>5, <2>9, <2>10, RowBookkept, EnvUntouched, OuterUntouched DEF StepOK
<1> QED BY <1>1, <1>2

-----------------------------------------------------------------------------
(* Theorems                                                                *)

\* The initial states satisfy the invariant.
LEMMA InitialInv == Init => JournalInv
<1> SUFFICES ASSUME Init PROVE JournalInv
  OBVIOUS
<1>1. PICK e \in Exactness :
         prov = [flight |-> {}, landed |-> [v \in Attempts |-> 0], landings |-> 0, exact |-> e]
  BY DEF Init
<1>2. prov \in Provider
  BY <1>1, JournalAssumption, Constants DEF Provider
<1>3. row \in Row /\ row.st = "none"
  BY Constants DEF Init, Row
<1>4. put \in SinkRecord /\ put.tries = 0 /\ outer \in OuterLease
  BY Constants DEF Init, SinkRecord, OuterLease
<1>5. ASSUME NEW a \in Actors
      PROVE  act[a] \in Actor /\ act[a].pc = (IF a = Sink THEN "new" ELSE "idle")
  <2> DEFINE pc == IF a = Sink THEN "new" ELSE "idle"
  <2>1. pc \in Steps
    BY DEF Steps, SinkSteps, PassSteps
  <2>2. act[a] = AtRest(pc)
    BY DEF Init
  <2> QED BY <2>1, <2>2, AtRestType
<1>6. act \in [Actors -> Actor]
  BY <1>5 DEF Init
<1>7. TypeOK
  BY <1>2, <1>3, <1>4, <1>6 DEF TypeOK, SinkRecord, OuterLease
<1>8. Budget
  <2>1. prov.flight = {} /\ prov.landings = 0
    BY <1>1
  <2> QED BY <1>4, <2>1, FS_EmptySet, Constants DEF Budget
<1>9. Fresh /\ Picked /\ Named /\ AnswerRecorded
  BY <1>3, <1>5, Constants DEF Fresh, Picked, Named, AnswerRecorded
<1> QED BY <1>7, <1>8, <1>9 DEF JournalInv

\* Every step preserves the invariant and a recorded verdict.
LEMMA StepInv == JournalInv /\ [Next]_vars => JournalInv' /\ [KeepsResult]_vars
<1> SUFFICES ASSUME JournalInv, [Next]_vars
             PROVE  JournalInv' /\ [KeepsResult]_vars
  OBVIOUS
<1>1. CASE Next
  <2>1. ASSUME SinkStep PROVE StepOK
    BY <2>1, SinkOpens, SinkLaunches, SinkSends, SinkSettles DEF SinkStep
  <2>2. ASSUME NEW a \in Actors, SharedStep(a) \/ ReadCandidate(a) \/ ClaimRow(a) \/ Fails(a)
        PROVE  StepOK
    BY <2>2, ActorAborts, ActorProbes, ActorConfirms, PassBegins DEF SharedStep
  <2>3. ASSUME NEW w \in Workers, TakePhysicalLease(w) \/ TakeRouteLease(w)
        PROVE  StepOK
    BY <2>3, PassBegins, Constants
  <2>4. ASSUME Crash \/ OuterLapses \/ Tick PROVE StepOK
    BY <2>4, SinkLost, TimePasses
  <2>5. ASSUME NEW n \in Attempts, ProviderLands(n) \/ ProviderLoses(n)
        PROVE  StepOK
    BY <2>5, ProviderSettles
  <2>6. StepOK
    BY <1>1, <2>1, <2>2, <2>3, <2>4, <2>5 DEF Next, TakeOuterLease
  <2> QED BY <2>6, StepsSuffice DEF StepOK
<1>2. CASE UNCHANGED vars
  BY <1>2 DEF vars, JournalInv, TypeOK, Budget, Fresh, Picked, Named, AnswerRecorded
<1> QED BY <1>1, <1>2

\* The journal's row, the provider, the actors and the leases keep their types:
\* in particular the retry loop stays within its attempts, and the mutation
\* window of a launch, however late it is written, within its bounds.
THEOREM JournalTypes == Spec => []TypeOK
<1>1. JournalInv => TypeOK
  BY DEF JournalInv
<1>2. JournalInv /\ [Next]_vars => JournalInv'
  BY StepInv
<1> QED BY InitialInv, <1>1, <1>2, PTL DEF Spec

\* What the sink returned to its caller is what the journal records, for any
\* number of reconcilers working on the row at the same time.
THEOREM AnswersAreRecorded == Spec => []AnswerRecorded
<1>1. JournalInv => AnswerRecorded
  BY DEF JournalInv
<1>2. JournalInv /\ [Next]_vars => JournalInv'
  BY StepInv
<1> QED BY InitialInv, <1>1, <1>2, PTL DEF Spec

\* A verdict and its result are never rewritten, whatever sink, drop
\* reconciler and recovery workers still do to the row.
THEOREM ResultsAreFinal == Spec => ResultFinal
<1>1. JournalInv /\ [Next]_vars => JournalInv'
  BY StepInv
<1>2. JournalInv /\ [Next]_vars =>
         [row.st \in Terminal =>
             row'.st = row.st /\ row'.sel = row.sel /\ row'.complete = row.complete]_vars
  BY StepInv DEF KeepsResult
<1> QED BY InitialInv, <1>1, <1>2, PTL DEF Spec, ResultFinal
=============================================================================
