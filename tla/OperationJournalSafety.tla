----------------------- MODULE OperationJournalSafety -----------------------
(***************************************************************************)
(* What a verdict of the operation journal means at the provider, proved   *)
(* for every number of attempts and workers, every window, separation and  *)
(* lease.                                                                  *)
(*                                                                         *)
(* The arguments rest on the outer lease.  A timely one makes the actors   *)
(* take turns (Exclusive); an asserted one silences a sink that lost it    *)
(* (Mute).  Either way, whoever probes the provider or aborts the row does *)
(* so when no further request can leave, and a prompt provider settles     *)
(* what left while the window of its launch is open (InWindow): an absence *)
(* observed after the window is final.                                     *)
(***************************************************************************)
EXTENDS OperationJournalProofs

\* The steps of the sink from which a request may still leave, the ones from
\* the first launch on, and the states of the row before that launch.
Upstream == Early \cup {"sent"}
Launching == {"launch", "launching", "send", "sent"}
Blank == {"none", "Intent", "Open", "Aborting"}

\* Nothing is stored and nothing can arrive.
Nothing == Stored = {} /\ prov.flight = {}

\* The sink sends no further request.
Mute ==
    \/ act[Sink].pc \notin Upstream
    \/ Asserted /\ (outer.holder # Sink \/ ~outer.live)

\* The actor's steps need the outer lease.
Working(a) ==
    /\ Active(a) \/ (a = Sink /\ act[a].pc = "new")
    /\ ~(Asserted /\ a \in Workers /\ act[a].pc \in {"candidate", "route"})

\* The actor read the row before its verdict and has not recorded one.
Deciding(a) ==
    \/ act[a].pc \in SharedSteps \cup Launching \cup {"claimed", "refused", "exhausted"}
    \/ act[a].pc = "candidate" /\ ~(Asserted /\ a \in Workers)

\* What is stored was sent, and has left the wire.
Accounted == Stored \subseteq 1..put.tries /\ prov.flight \cap Stored = {}

\* Before the first launch there is nothing.
Untouched == row.st \in Blank => act[Sink].pc \notin Launching /\ Nothing

\* Without an ambiguous attempt there was at most one, and when the provider
\* refused that one there is nothing.
Loop ==
    /\ ~put.ambiguous => /\ act[Sink].pc \in Early => put.tries = 0
                         /\ act[Sink].pc = "sent" => put.tries = 1
    /\ act[Sink].pc = "refused" => Nothing

\* The drop reconciler works once its sink is dropped, a worker once it took
\* the lease of the sink over.
Handover ==
    /\ Active(Drop) => act[Sink].pc = "dropped"
    /\ outer.holder = Sink => \A w \in Workers : ~Working(w)

\* Under a timely lease the actors take turns.
Exclusive ==
    Timely =>
        /\ \A a \in Actors : Working(a) => outer.holder = Holder(a) /\ outer.live
        /\ outer.holder # Sink \/ ~outer.live =>
              ~(act[Sink].pc = "dropped" /\ act[Drop].pc = "idle")

\* A prompt request leaves and settles while the window of its launch is open.
InWindow ==
    Prompt =>
        /\ prov.flight # {} \/ act[Sink].pc = "send" => row.nb >= 1
        /\ act[Sink].pc = "launching" => act[Sink].obs < Window

\* Without exact recovery, a history taken for complete is that of a first and
\* only attempt.
Sure ==
    ~prov.exact =>
        /\ \A a \in Actors : act[a].pc = "delete" /\ act[a].full =>
              a = Sink /\ act[a].pick = 1 /\ put.tries = 1 /\ prov.flight = {}
        /\ row.complete => /\ row.st = "Committed" /\ act[Sink].pc \notin Upstream
                           /\ prov.flight = {} /\ Stored \subseteq {row.sel}

\* An absence observed after the window is final, and so is an abort.
Absence ==
    Prompt /\ (Asserted \/ Timely) =>
        /\ \A a \in Actors :
              /\ act[a].pc = "observed" => TooEarly(a) \/ Nothing
              /\ act[a].pc \in {"unseen", "absent"} => Nothing
        /\ row.st = "ProvenAborted" => Nothing /\ Mute

\* Under a timely lease nobody works towards a verdict the row already has.
Unresolved == Timely => \A a \in Actors : Deciding(a) => row.st \notin Terminal

\* Under a timely lease the selected version is there until it is recorded.
Chosen ==
    Timely =>
        /\ \A a \in Actors : act[a].pc = "delete" => act[a].pick \in Stored \ act[a].doomed
        /\ CommittedStored

\* The inductive invariant, on top of JournalInv.
SafeInv ==
    /\ Accounted /\ Untouched /\ Loop /\ Handover /\ Exclusive
    /\ InWindow /\ Sure /\ Absence /\ Unresolved /\ Chosen

-----------------------------------------------------------------------------
(* What a step does                                                        *)

Only(a) == \A b \in Actors : b # a => act'[b] = act[b]

\* Whose turn it is: an actor at work moves, the drop reconciler begins, a
\* worker without the lease moves on or gives up, a worker takes the lapsed
\* lease, or everyone stays where they are.
Turn(a) ==
    /\ Only(a) /\ UNCHANGED outer /\ Working(a) /\ act'[a].pc # "new"
    /\ a = Sink /\ act'[a].pc \in Upstream => act[a].pc \in Upstream
Begins == Only(Drop) /\ UNCHANGED outer /\ act[Drop].pc = "idle" /\ act[Sink].pc = "dropped"
Waits(w) == Only(w) /\ UNCHANGED outer /\ ~Working(w)'
Takes(w) == Only(w) /\ ~outer.live /\ outer' = [holder |-> w, live |-> TRUE]
Still == UNCHANGED outer /\ \A a \in Actors : act'[a].pc = act[a].pc

Turns ==
    \/ \E a \in Actors : Turn(a)
    \/ Begins
    \/ \E w \in Workers : Waits(w) \/ Takes(w)
    \/ Crash \/ OuterLapses \/ Still

\* The provider: a request leaves, or what left settles and is deleted.
Sends ==
    /\ act[Sink].pc = "send" /\ act'[Sink].pc = "sent" /\ Fenced(Sink) /\ UNCHANGED row
    /\ prov'.exact = prov.exact /\ prov'.flight = prov.flight \cup {put.tries + 1}
    /\ Stored' = Stored /\ put' = [put EXCEPT !.tries = put.tries + 1]
Shrinks ==
    /\ prov'.exact = prov.exact /\ prov'.flight \subseteq prov.flight
    /\ Stored' \subseteq Stored \cup (prov.flight \ prov'.flight)
    /\ put'.tries >= put.tries
    /\ put'.tries # put.tries => act[Sink].pc \in Upstream

\* Only a redundant version is deleted.
Deletes ==
    \/ Stored \subseteq Stored'
    \/ \E a \in Actors : /\ act[a].pc = "delete" /\ act'[a].pc = "delete" /\ Only(a) /\ UNCHANGED row
                         /\ \E v \in act[a].doomed : Stored' = Stored \ {v}

\* The row: a result is recorded by an actor that selected it, an abort by one
\* that has a reason, and whoever records a verdict is done with the row.
Commits(a) ==
    /\ act[a].pc = "delete" /\ act[a].doomed = {} /\ Only(a) /\ UNCHANGED <<prov, put>>
    /\ row'.st = "Committed" /\ row'.sel = act[a].pick /\ row'.complete = act[a].full
    /\ act'[a].pc \notin Upstream \cup {"delete"}
Proven ==
    \/ act[Sink].pc = "refused"
    \/ row.st = "Aborting" /\ \E a \in Actors : act[a].pc = "abort"
    \/ \E a \in Actors : act[a].pc = "absent"
RowAdvances ==
    /\ row'.nb >= row.nb
    /\ row'.st \in Blank => row.st \in Blank
    /\ row'.st = "ProvenAborted" /\ row.st # "ProvenAborted" => UNCHANGED prov /\ Proven
    /\ \/ /\ row'.sel = row.sel /\ row'.complete = row.complete
          /\ row'.st = "Committed" <=> row.st = "Committed"
       \/ \E a \in Actors : Commits(a)
    /\ row'.st \in Terminal /\ row.st \notin Terminal =>
          \E a \in Actors : Deciding(a) /\ ~Deciding(a)' /\ Only(a)

\* What an actor that moves does next, and on what grounds.
Selects(a) ==
    \/ /\ act[a].pc = "delete" /\ act'[a].pick = act[a].pick /\ act'[a].full = act[a].full
       /\ act'[a].doomed \subseteq act[a].doomed
    \/ /\ UNCHANGED <<prov, put>> /\ act'[a].pick \in Stored \ act'[a].doomed
       /\ act'[a].full => prov.exact \/ (a = Sink /\ act'[a].pick = 1 /\ put.tries = 1)
Resends ==
    /\ act'[Sink].pc \in Launching => act[Sink].pc \in Launching \/ row'.st \notin Blank
    /\ act'[Sink].pc = "send" =>
          act[Sink].pc = "launching" /\ row'.nb >= Window - act[Sink].obs
    /\ act'[Sink].pc = "launching" => act'[Sink].obs = 0
    /\ act'[Sink].pc \in Early =>
          put'.ambiguous \/ (act[Sink].pc \in Early /\ UNCHANGED put)
    /\ act'[Sink].pc = "sent" => Sends
    /\ act'[Sink].pc = "refused" =>
          /\ act[Sink].pc = "sent" /\ ~put.ambiguous /\ put.tries \in prov.flight
          /\ prov'.flight = prov.flight \ {put.tries} /\ Stored' = Stored
Advances(a) ==
    /\ act'[a].pc = "observed" => act'[a].obs = 0 /\ Stored = {} /\ UNCHANGED <<row, prov>>
    /\ act'[a].pc \in {"unseen", "absent"} => act[a].pc = "observed" /\ ~TooEarly(a) /\ UNCHANGED prov
    /\ act'[a].pc = "delete" => Selects(a)
    /\ Deciding(a)' => Deciding(a) \/ row'.st \notin Terminal
    /\ a = Sink => Resends
Stepped(a) == (act'[a] = act[a] /\ (a = Sink => UNCHANGED put)) \/ Advances(a)

\* Every step but the passing of time.
Effect ==
    /\ Turns /\ (Sends \/ Shrinks) /\ Deletes /\ RowAdvances
    /\ \A a \in Actors : Stepped(a)

-----------------------------------------------------------------------------
(* Turns                                                                   *)

\* Whoever works has the sink silenced.
LEMMA SharedMute ==
    ASSUME JournalInv, Handover, Exclusive, Asserted \/ Timely,
           NEW a \in Actors, act[a].pc \in SharedSteps
    PROVE  Mute
<1>1. Active(a) /\ act[a].pc \notin Upstream \cup {"candidate", "route"}
  BY DEF SharedSteps, Active, Upstream, Early
<1>2. Working(a)
  BY <1>1 DEF Working
<1>3. CASE a = Sink
  BY <1>1, <1>3 DEF Mute
<1>4. CASE a = Drop
  <2>1. act[Sink].pc = "dropped"
    BY <1>1, <1>4 DEF Handover
  <2> QED BY <2>1 DEF Mute, Upstream, Early
<1>5. CASE a \in Workers
  <2>1. outer.holder # Sink
    BY <1>2, <1>5 DEF Handover
  <2>2. CASE Asserted
    BY <2>1, <2>2 DEF Mute
  <2>3. CASE Timely
    <3>1. ~Working(Sink)
      BY <2>1, <2>3, Constants DEF Exclusive, Holder
    <3>2. act[Sink].pc \in {"idle", "dropped", "done", "gone"}
      BY <3>1, Constants DEF Working, Active
    <3> QED BY <3>2 DEF Mute, Upstream, Early
  <2> QED BY <2>2, <2>3
<1> QED BY <1>3, <1>4, <1>5 DEF Actors

\* The discipline of the outer lease is kept, and a silenced sink stays silent.
LEMMA TurnsKeep ==
    ASSUME JournalInv, Handover, Exclusive, Turns
    PROVE  Handover' /\ Exclusive' /\ (Mute => Mute')
<1>0. /\ Sink \in Actors /\ Drop \in Actors /\ Workers \subseteq Actors
      /\ Sink # Drop /\ Sink \notin Workers /\ Drop \notin Workers
      /\ outer \in OuterLease /\ act \in [Actors -> Actor]
  BY Constants, RecordTypes DEF JournalInv
<1>1. ASSUME NEW a \in Actors, Turn(a)
      PROVE  Handover' /\ Exclusive' /\ (Mute => Mute')
  <2>0. /\ UNCHANGED outer /\ Working(a) /\ act'[a].pc # "new"
        /\ a = Sink /\ act'[a].pc \in Upstream => act[a].pc \in Upstream
        /\ \A b \in Actors : b # a => act'[b] = act[b]
    BY <1>1 DEF Turn, Only
  <2>1. \A b \in Actors : Working(b)' => Working(b)
    BY <2>0 DEF Working, Active
  <2>2. Active(Drop)' => act'[Sink].pc = "dropped"
    <3>1. CASE a = Sink
      <4>1. act[Sink].pc # "dropped"
        BY <2>0, <3>1 DEF Working, Active
      <4> QED BY <1>0, <2>0, <3>1, <4>1 DEF Handover, Active
    <3>2. CASE a = Drop
      BY <1>0, <2>0, <3>2 DEF Handover, Working
    <3>3. CASE a \notin {Sink, Drop}
      BY <1>0, <2>0, <3>3 DEF Handover, Active
    <3> QED BY <3>1, <3>2, <3>3
  <2>3. Handover'
    BY <1>0, <2>0, <2>1, <2>2 DEF Handover
  <2>4. Exclusive'
    <3> SUFFICES ASSUME Timely PROVE Exclusive'
      BY DEF Exclusive
    <3>1. outer.holder = Holder(a) /\ outer.live
      BY <2>0 DEF Exclusive
    <3>2. \A b \in Actors : Working(b)' => outer'.holder = Holder(b)' /\ outer'.live
      BY <2>0, <2>1 DEF Exclusive, Holder
    <3>3. outer'.holder # Sink \/ ~outer'.live =>
             ~(act'[Sink].pc = "dropped" /\ act'[Drop].pc = "idle")
      BY <1>0, <2>0, <3>1 DEF Exclusive, Holder
    <3> QED BY <3>2, <3>3 DEF Exclusive
  <2>5. Mute => Mute'
    BY <1>0, <2>0 DEF Mute
  <2> QED BY <2>3, <2>4, <2>5
<1>2. CASE Begins
  <2>0. /\ UNCHANGED outer /\ act[Drop].pc = "idle" /\ act[Sink].pc = "dropped"
        /\ \A b \in Actors : b # Drop => act'[b] = act[b]
    BY <1>2 DEF Begins, Only
  <2>1. \A b \in Actors : b # Drop /\ Working(b)' => Working(b)
    BY <2>0 DEF Working, Active
  <2>2. Handover'
    BY <1>0, <2>0, <2>1 DEF Handover
  <2>3. Exclusive'
    BY <1>0, <2>0, <2>1 DEF Exclusive, Holder
  <2>4. Mute => Mute'
    BY <1>0, <2>0 DEF Mute
  <2> QED BY <2>2, <2>3, <2>4
<1>3. ASSUME NEW w \in Workers, Waits(w)
      PROVE  Handover' /\ Exclusive' /\ (Mute => Mute')
  <2>0. /\ UNCHANGED outer /\ ~Working(w)'
        /\ \A b \in Actors : b # w => act'[b] = act[b]
    BY <1>3 DEF Waits, Only
  <2>1. \A b \in Actors : Working(b)' => Working(b)
    BY <2>0 DEF Working, Active
  <2>2. Handover'
    BY <1>0, <2>0, <2>1 DEF Handover, Active
  <2>3. Exclusive'
    BY <1>0, <2>0, <2>1 DEF Exclusive, Holder
  <2>4. Mute => Mute'
    BY <1>0, <2>0 DEF Mute
  <2> QED BY <2>2, <2>3, <2>4
<1>4. ASSUME NEW w \in Workers, Takes(w)
      PROVE  Handover' /\ Exclusive' /\ (Mute => Mute')
  <2>0. /\ ~outer.live /\ outer' = [holder |-> w, live |-> TRUE]
        /\ \A b \in Actors : b # w => act'[b] = act[b]
    BY <1>4 DEF Takes, Only
  <2>1. \A b \in Actors : b # w /\ Working(b)' => Working(b)
    BY <2>0 DEF Working, Active
  <2>2. Handover'
    BY <1>0, <2>0 DEF Handover, Active
  <2>3. Exclusive'
    BY <1>0, <2>0, <2>1 DEF Exclusive, Holder
  <2>4. Mute => Mute'
    BY <1>0, <2>0 DEF Mute
  <2> QED BY <2>2, <2>3, <2>4
<1>5. CASE Crash
  <2>1. act'[Sink].pc = "gone" /\ act'[Drop].pc = "gone"
    BY <1>0, <1>5 DEF Crash, AtRest
  <2>2. UNCHANGED outer /\ \A b \in Actors : b \notin {Sink, Drop} => act'[b] = act[b]
    BY <1>0, <1>5 DEF Crash
  <2>3. \A b \in Actors : Working(b)' => Working(b)
    BY <2>1, <2>2 DEF Working, Active
  <2>4. Handover'
    BY <1>0, <2>1, <2>2, <2>3 DEF Handover, Active
  <2>5. Exclusive'
    BY <1>0, <2>1, <2>2, <2>3 DEF Exclusive, Holder
  <2>6. Mute'
    BY <2>1 DEF Mute, Upstream, Early
  <2> QED BY <2>4, <2>5, <2>6
<1>6. CASE OuterLapses
  <2>0. /\ UNCHANGED act /\ outer'.holder = outer.holder /\ ~outer'.live
        /\ Timely => ~AtWork
    BY <1>0, <1>6 DEF OuterLapses, OuterLease
  <2>1. Handover'
    BY <2>0 DEF Handover, Active, Working
  <2>2. Exclusive'
    <3> SUFFICES ASSUME Timely PROVE Exclusive'
      BY DEF Exclusive
    <3>1. CASE outer.holder = Sink
      <4>1. ~Working(Sink) /\ ~Working(Drop) /\ ~(act[Sink].pc = "dropped" /\ act[Drop].pc = "idle")
        BY <1>0, <2>0, <3>1 DEF AtWork, Working
      <4>2. \A b \in Actors : ~Working(b)
        BY <1>0, <3>1, <4>1 DEF Exclusive, Holder, Actors
      <4>3. \A b \in Actors : ~Working(b)'
        BY <2>0, <4>2 DEF Working, Active
      <4> QED BY <2>0, <4>1, <4>3 DEF Exclusive
    <3>2. CASE outer.holder # Sink
      <4>1. outer.holder \in Workers
        BY <1>0, <3>2 DEF OuterLease
      <4>2. ~Working(outer.holder)
        BY <1>0, <2>0, <3>2, <4>1 DEF AtWork, Working
      <4>3. \A b \in Actors : ~Working(b)
        BY <1>0, <3>2, <4>2 DEF Exclusive, Holder
      <4>4. \A b \in Actors : ~Working(b)'
        BY <2>0, <4>3 DEF Working, Active
      <4> QED BY <2>0, <3>2, <4>4 DEF Exclusive
    <3> QED BY <3>1, <3>2
  <2>3. Mute => Mute'
    BY <2>0 DEF Mute
  <2> QED BY <2>1, <2>2, <2>3
<1>7. CASE Still
  <2>0. UNCHANGED outer /\ \A b \in Actors : act'[b].pc = act[b].pc
    BY <1>7 DEF Still
  <2>1. \A b \in Actors : Working(b)' <=> Working(b)
    BY <2>0 DEF Working, Active
  <2>2. Handover'
    BY <1>0, <2>0, <2>1 DEF Handover, Active
  <2>3. Exclusive'
    BY <1>0, <2>0, <2>1 DEF Exclusive, Holder
  <2>4. Mute => Mute'
    BY <1>0, <2>0 DEF Mute
  <2> QED BY <2>2, <2>3, <2>4
<1> QED BY <1>1, <1>2, <1>3, <1>4, <1>5, <1>6, <1>7 DEF Turns

\* A sink past its attempts makes no other.
LEMMA SinkStays ==
    ASSUME JournalInv, Turns, act[Sink].pc \notin Upstream
    PROVE  act'[Sink].pc \notin Upstream
<1>0. Sink \in Actors /\ Sink # Drop /\ Sink \notin Workers /\ act \in [Actors -> Actor]
  BY Constants, RecordTypes DEF JournalInv
<1>1. CASE Crash
  BY <1>0, <1>1 DEF Crash, AtRest, Upstream, Early
<1>2. CASE OuterLapses
  BY <1>2 DEF OuterLapses
<1>3. CASE ~Crash /\ ~OuterLapses
  BY <1>0, <1>3 DEF Turns, Turn, Begins, Waits, Takes, Still, Only
<1> QED BY <1>1, <1>2, <1>3

\* Whoever decides is at work, and under a timely lease nobody else is.
LEMMA DecidersWork == ASSUME NEW a \in Actors, Deciding(a) PROVE Working(a)
BY DEF Deciding, Working, Active, SharedSteps, Launching

\* Under a lease nobody outlives, one actor works at a time.
LEMMA OneWorks ==
    ASSUME JournalInv, Handover, Exclusive, Timely,
           NEW a \in Actors, NEW b \in Actors, Working(a), Working(b)
    PROVE  a = b
<1>1. Holder(a) = Holder(b)
  BY DEF Exclusive
<1>2. Working(Drop) => ~Working(Sink)
  BY Constants DEF Handover, Working, Active
<1> QED BY <1>1, <1>2, Constants DEF Holder, Actors

-----------------------------------------------------------------------------
(* Every effect preserves the invariant                                    *)

\* What is there was sent.
LEMMA AccountedKept ==
    ASSUME JournalInv, Accounted, JournalInv', Sends \/ Shrinks
    PROVE  Accounted'
<1>1. put.tries \in Nat /\ put'.tries \in Nat
  BY RecordTypes, Constants DEF JournalInv, TypeOK
<1>2. prov.flight \subseteq 1..put.tries /\ prov'.flight \subseteq 1..put'.tries
  BY DEF JournalInv, Budget
<1>3. CASE Sends
  <2>1. put'.tries = put.tries + 1
    BY <1>3, RecordTypes DEF Sends, JournalInv, SinkRecord
  <2> QED BY <1>1, <1>2, <1>3, <2>1 DEF Sends, Accounted
<1>4. CASE Shrinks
  <2>1. 1..put.tries \subseteq 1..put'.tries
    BY <1>1, <1>4 DEF Shrinks
  <2> QED BY <1>2, <1>4, <2>1 DEF Shrinks, Accounted
<1> QED BY <1>3, <1>4

\* Where there is nothing, and no request leaves, nothing arrives.
LEMMA NothingArrives == ASSUME Nothing, Shrinks PROVE Nothing'
BY DEF Nothing, Shrinks

\* Without a launch nothing comes to be at the provider.
LEMMA NothingKept == ASSUME Nothing, Mute, Sends \/ Shrinks PROVE Nothing'
<1>1. ~Sends
  BY DEF Sends, Mute, Fenced, Holder, Upstream, Early
<1> QED BY <1>1, NothingArrives

\* Before its first launch a write leaves no trace.
LEMMA UntouchedKept ==
    ASSUME JournalInv, Untouched, Effect
    PROVE  Untouched'
<1> SUFFICES ASSUME row'.st \in Blank
             PROVE  act'[Sink].pc \notin Launching /\ Nothing'
  BY DEF Untouched
<1>1. act[Sink].pc \notin Launching /\ Nothing
  BY DEF Effect, RowAdvances, Untouched
<1>2. Shrinks
  BY <1>1 DEF Effect, Sends, Launching
<1>3. act'[Sink].pc \notin Launching
  BY <1>1, Constants DEF Effect, Stepped, Advances, Resends
<1> QED BY <1>1, <1>2, <1>3, NothingArrives

\* The retry loop of complete_single_put keeps its account of attempts.
LEMMA LoopKept ==
    ASSUME JournalInv, Accounted, Loop, Effect
    PROVE  Loop'
<1>0. put \in SinkRecord /\ put.tries \in Nat /\ prov.flight \subseteq 1..put.tries
  BY RecordTypes, Constants DEF JournalInv, SinkRecord, Budget
<1>1. CASE act'[Sink] = act[Sink] /\ UNCHANGED put
  <2>1. act[Sink].pc = "refused" => Shrinks
    BY DEF Effect, Sends
  <2> QED BY <1>1, <2>1, NothingArrives DEF Loop
<1>2. CASE Resends
  <2>1. ~put'.ambiguous /\ act'[Sink].pc \in Early => put'.tries = 0
    BY <1>2 DEF Resends, Loop
  <2>2. ~put'.ambiguous /\ act'[Sink].pc = "sent" => put'.tries = 1
    <3> SUFFICES ASSUME ~put'.ambiguous, act'[Sink].pc = "sent" PROVE put'.tries = 1
      OBVIOUS
    <3>1. Sends
      BY <1>2 DEF Resends
    <3>2. ~put.ambiguous /\ put'.tries = put.tries + 1 /\ act[Sink].pc \in Early
      BY <1>0, <3>1 DEF Sends, SinkRecord, Early
    <3> QED BY <3>2 DEF Loop
  <2>3. act'[Sink].pc = "refused" => Nothing'
    <3> SUFFICES ASSUME act'[Sink].pc = "refused" PROVE Nothing'
      OBVIOUS
    <3>1. /\ act[Sink].pc = "sent" /\ ~put.ambiguous /\ put.tries \in prov.flight
          /\ prov'.flight = prov.flight \ {put.tries} /\ Stored' = Stored
      BY <1>2 DEF Resends
    <3>2. put.tries = 1
      BY <3>1 DEF Loop
    <3> QED BY <1>0, <3>1, <3>2 DEF Accounted, Nothing
  <2> QED BY <2>1, <2>2, <2>3 DEF Loop
<1> QED BY <1>1, <1>2, Constants DEF Effect, Stepped, Advances

\* An attempt in flight stays within the window the row records.
LEMMA InWindowKept ==
    ASSUME JournalInv, JournalInv', InWindow, Effect
    PROVE  InWindow'
<1> SUFFICES ASSUME Prompt PROVE InWindow'
  BY DEF InWindow
<1>0. /\ row.nb \in Int /\ row'.nb \in Int /\ act[Sink].obs \in Nat
      /\ Window \in Nat /\ Window > 0 /\ Sink \in Actors
  BY RecordTypes, Constants, JournalAssumption DEF JournalInv, Row, TypeOK, Actor
<1>1. prov.flight # {} \/ act[Sink].pc = "send" => row.nb >= 1
  BY DEF InWindow
<1>2. row'.nb >= row.nb
  BY DEF Effect, RowAdvances
<1>3. prov'.flight # {} => row'.nb >= 1
  BY <1>0, <1>1, <1>2 DEF Effect, Sends, Shrinks
<1>4. act'[Sink] = act[Sink] \/ Resends
  BY <1>0 DEF Effect, Stepped, Advances
<1>5. act'[Sink].pc = "send" => row'.nb >= 1
  BY <1>0, <1>1, <1>2, <1>4 DEF Resends, InWindow
<1>6. act'[Sink].pc = "launching" => act'[Sink].obs < Window
  BY <1>0, <1>4 DEF Resends, InWindow
<1> QED BY <1>3, <1>5, <1>6 DEF InWindow

\* A history taken for complete stays that of the only attempt.
LEMMA SureKept ==
    ASSUME JournalInv, Accounted, Sure, Effect
    PROVE  Sure'
<1>0. /\ Sink \in Actors /\ put.tries \in Nat
      /\ prov.flight \subseteq 1..put.tries /\ Stored \subseteq 1..put.tries
      /\ prov.flight \cap Stored = {}
  BY RecordTypes, Constants DEF JournalInv, SinkRecord, Budget, Accounted
<1> SUFFICES ASSUME ~prov'.exact PROVE Sure'
  BY DEF Sure
<1>1. ~prov.exact
  BY DEF Effect, Sends, Shrinks
<1>2. ASSUME NEW a \in Actors, act[a].pc = "delete", act[a].full
      PROVE  /\ a = Sink /\ act[a].pick = 1 /\ put'.tries = 1 /\ prov.flight = {}
             /\ prov'.flight = {} /\ Stored \subseteq {1} /\ Stored' \subseteq {1}
  <2>1. a = Sink /\ act[a].pick = 1 /\ put.tries = 1 /\ prov.flight = {}
    BY <1>1, <1>2 DEF Sure
  <2>2. Stored \subseteq {1}
    BY <1>0, <2>1
  <2>3. ~Sends /\ act[Sink].pc \notin Upstream
    BY <1>2, <2>1 DEF Sends, Upstream, Early
  <2>4. Shrinks
    BY <2>3 DEF Effect
  <2> QED BY <2>1, <2>2, <2>3, <2>4 DEF Shrinks
<1>3. ASSUME NEW a \in Actors, act'[a].pc = "delete", act'[a].full
      PROVE  a = Sink /\ act'[a].pick = 1 /\ put'.tries = 1 /\ prov'.flight = {}
  <2>1. CASE act'[a] = act[a]
    BY <1>2, <1>3, <2>1
  <2>2. CASE Selects(a)
    <3>1. CASE act[a].pc = "delete" /\ act'[a].pick = act[a].pick /\ act'[a].full = act[a].full
      BY <1>2, <1>3, <3>1
    <3>2. CASE /\ UNCHANGED <<prov, put>> /\ act'[a].pick \in Stored
               /\ a = Sink /\ act'[a].pick = 1 /\ put.tries = 1
      BY <1>0, <3>2
    <3> QED BY <1>1, <1>3, <2>2, <3>1, <3>2 DEF Selects
  <2> QED BY <1>3, <2>1, <2>2 DEF Effect, Stepped, Advances
<1>4. ASSUME row'.complete
      PROVE  /\ row'.st = "Committed" /\ act'[Sink].pc \notin Upstream
             /\ prov'.flight = {} /\ Stored' \subseteq {row'.sel}
  <2>1. CASE /\ row'.sel = row.sel /\ row'.complete = row.complete
             /\ row'.st = "Committed" <=> row.st = "Committed"
    <3>1. /\ row.st = "Committed" /\ act[Sink].pc \notin Upstream
          /\ prov.flight = {} /\ Stored \subseteq {row.sel}
      BY <1>1, <1>4, <2>1 DEF Sure
    <3>2. act'[Sink].pc \notin Upstream
      BY <3>1, SinkStays DEF Effect
    <3>3. Shrinks
      BY <3>1 DEF Effect, Sends, Upstream, Early
    <3> QED BY <2>1, <3>1, <3>2, <3>3 DEF Shrinks
  <2>2. ASSUME NEW a \in Actors, Commits(a)
        PROVE  /\ row'.st = "Committed" /\ act'[Sink].pc \notin Upstream
               /\ prov'.flight = {} /\ Stored' \subseteq {row'.sel}
    <3>1. act[a].pc = "delete" /\ act[a].full
      BY <1>4, <2>2 DEF Commits
    <3> QED BY <1>2, <2>2, <3>1 DEF Commits
  <2> QED BY <2>1, <2>2 DEF Effect, RowAdvances
<1> QED BY <1>3, <1>4 DEF Sure

\* An absence observed after the window, and an abort, stay true.
LEMMA AbsenceKept ==
    ASSUME JournalInv, JournalInv', SafeInv, Effect
    PROVE  Absence'
<1> SUFFICES ASSUME Prompt, Asserted \/ Timely PROVE Absence'
  BY DEF Absence
<1>0. /\ row.nb \in Int /\ row'.nb \in Int /\ row'.nb >= row.nb
      /\ \A a \in Actors : act[a].obs \in Int /\ act'[a].obs \in Int
  BY RecordTypes, Constants DEF JournalInv, Row, TypeOK, Actor, Effect, RowAdvances
<1>1. ASSUME NEW a \in Actors, act[a].pc \in SharedSteps PROVE Mute
  BY <1>1, SharedMute DEF SafeInv
<1>2. ASSUME Nothing, Mute PROVE Nothing'
  BY <1>2, NothingKept DEF Effect
<1>3. ASSUME UNCHANGED prov, Nothing PROVE Nothing'
  BY <1>3 DEF Nothing, Stored
<1>4. ASSUME NEW a \in Actors, act'[a].pc = "observed" PROVE TooEarly(a)' \/ Nothing'
  <2>1. CASE act'[a] = act[a]
    <3>1. TooEarly(a) \/ Nothing
      BY <1>4, <2>1 DEF SafeInv, Absence
    <3>2. Mute
      BY <1>1, <1>4, <2>1 DEF SharedSteps
    <3>3. TooEarly(a) => TooEarly(a)'
      BY <1>0, <2>1 DEF TooEarly
    <3> QED BY <1>2, <3>1, <3>2, <3>3
  <2>2. CASE act'[a].obs = 0 /\ Stored = {} /\ UNCHANGED <<row, prov>>
    <3>1. CASE prov.flight = {}
      BY <1>3, <2>2, <3>1 DEF Nothing
    <3>2. CASE prov.flight # {}
      <4>1. row'.nb >= 1
        BY <2>2, <3>2 DEF SafeInv, InWindow
      <4> QED BY <1>0, <2>2, <4>1 DEF TooEarly
    <3> QED BY <3>1, <3>2
  <2> QED BY <1>4, <2>1, <2>2 DEF Effect, Stepped, Advances
<1>5. ASSUME NEW a \in Actors, act'[a].pc \in {"unseen", "absent"} PROVE Nothing'
  <2>1. CASE act'[a] = act[a]
    <3>1. Nothing
      BY <1>5, <2>1 DEF SafeInv, Absence
    <3> QED BY <1>1, <1>2, <1>5, <2>1, <3>1 DEF SharedSteps
  <2>2. CASE act[a].pc = "observed" /\ ~TooEarly(a) /\ UNCHANGED prov
    BY <1>3, <2>2 DEF SafeInv, Absence
  <2> QED BY <1>5, <2>1, <2>2 DEF Effect, Stepped, Advances
<1>6. ASSUME row'.st = "ProvenAborted" PROVE Nothing' /\ Mute'
  <2>1. Mute => Mute'
    BY TurnsKeep DEF SafeInv, Effect
  <2>2. CASE row.st = "ProvenAborted"
    BY <1>2, <2>1, <2>2 DEF SafeInv, Absence
  <2>3. CASE row.st # "ProvenAborted"
    <3>1. UNCHANGED prov /\ Proven
      BY <1>6, <2>3 DEF Effect, RowAdvances
    <3>2. CASE act[Sink].pc = "refused"
      <4>1. Nothing /\ Mute
        BY <3>2 DEF SafeInv, Loop, Mute, Upstream, Early
      <4> QED BY <1>3, <2>1, <3>1, <4>1
    <3>3. CASE row.st = "Aborting" /\ \E a \in Actors : act[a].pc = "abort"
      <4>1. Nothing /\ Mute
        BY <1>1, <3>3 DEF SafeInv, Untouched, Blank, SharedSteps
      <4> QED BY <1>3, <2>1, <3>1, <4>1
    <3>4. CASE \E a \in Actors : act[a].pc = "absent"
      <4>1. Nothing /\ Mute
        BY <1>1, <3>4 DEF SafeInv, Absence, SharedSteps
      <4> QED BY <1>3, <2>1, <3>1, <4>1
    <3> QED BY <3>1, <3>2, <3>3, <3>4 DEF Proven
  <2> QED BY <2>2, <2>3
<1> QED BY <1>4, <1>5, <1>6 DEF Absence

\* Nobody comes to work towards a verdict the row already has.
LEMMA UnresolvedKept ==
    ASSUME JournalInv, SafeInv, Effect
    PROVE  Unresolved'
<1> SUFFICES ASSUME Timely, NEW a \in Actors, Deciding(a)', row'.st \in Terminal
             PROVE  FALSE
  BY DEF Unresolved
<1>0. Stepped(a)
  BY DEF Effect
<1>1. Deciding(a)
  BY <1>0 DEF Stepped, Advances, Deciding
<1>2. row.st \notin Terminal
  BY <1>1 DEF SafeInv, Unresolved
<1>3. PICK b \in Actors : Deciding(b) /\ ~Deciding(b)' /\ Only(b)
  BY <1>2 DEF Effect, RowAdvances
<1>4. a = b
  BY <1>1, <1>3, DecidersWork, OneWorks DEF SafeInv
<1> QED BY <1>3, <1>4

\* The version an actor selected stays stored until it records it.
LEMMA ChosenKept ==
    ASSUME JournalInv, SafeInv, Effect
    PROVE  Chosen'
<1> SUFFICES ASSUME Timely PROVE Chosen'
  BY DEF Chosen
<1>0. ASSUME NEW a \in Actors, act[a].pc = "delete"
      PROVE  /\ Working(a) /\ act[a].pick \in Stored \ act[a].doomed /\ row.st \notin Terminal
  <2>1. Deciding(a)
    BY <1>0 DEF Deciding, SharedSteps
  <2> QED BY <1>0, <2>1, DecidersWork DEF SafeInv, Chosen, Unresolved
<1>1. UNCHANGED prov => Stored' = Stored
  BY DEF Stored
<1>2. ASSUME NEW a \in Actors, act'[a].pc = "delete"
      PROVE  act'[a].pick \in Stored' \ act'[a].doomed
  <2>1. \/ act[a].pc = "delete" /\ act'[a].pick = act[a].pick /\ act'[a].doomed \subseteq act[a].doomed
        \/ UNCHANGED prov /\ act'[a].pick \in Stored \ act'[a].doomed
    BY <1>2 DEF Effect, Stepped, Advances, Selects
  <2>2. CASE UNCHANGED prov /\ act'[a].pick \in Stored \ act'[a].doomed
    BY <1>1, <2>2
  <2>3. CASE act[a].pc = "delete" /\ act'[a].pick = act[a].pick /\ act'[a].doomed \subseteq act[a].doomed
    <3>1. act[a].pick \in Stored \ act[a].doomed
      BY <1>0, <2>3
    <3>2. CASE Stored \subseteq Stored'
      BY <2>3, <3>1, <3>2
    <3>3. ASSUME NEW b \in Actors, act[b].pc = "delete", NEW v \in act[b].doomed, Stored' = Stored \ {v}
          PROVE  act'[a].pick \in Stored' \ act'[a].doomed
      <4>1. a = b
        BY <1>0, <2>3, <3>3, OneWorks DEF SafeInv
      <4> QED BY <2>3, <3>1, <3>3, <4>1
    <3> QED BY <3>2, <3>3 DEF Effect, Deletes
  <2> QED BY <2>1, <2>2, <2>3
<1>3. ASSUME row'.st = "Committed" PROVE row'.sel \in Stored'
  <2>1. CASE row'.sel = row.sel /\ row.st = "Committed"
    <3>1. row.sel \in Stored
      BY <2>1 DEF SafeInv, Chosen, CommittedStored
    <3>2. Stored \subseteq Stored'
      BY <1>0, <2>1 DEF Effect, Deletes, Terminal
    <3> QED BY <2>1, <3>1, <3>2
  <2>2. ASSUME NEW a \in Actors, Commits(a) PROVE row'.sel \in Stored'
    BY <1>0, <1>1, <2>2 DEF Commits
  <2> QED BY <1>3, <2>1, <2>2 DEF Effect, RowAdvances
<1> QED BY <1>2, <1>3 DEF Chosen, CommittedStored

\* Together.
LEMMA EffectSafe ==
    ASSUME JournalInv, JournalInv', SafeInv, Effect
    PROVE  SafeInv'
<1>1. Accounted' /\ Untouched' /\ Loop'
  BY AccountedKept, UntouchedKept, LoopKept DEF SafeInv, Effect
<1>2. Handover' /\ Exclusive'
  BY TurnsKeep DEF SafeInv, Effect
<1>3. InWindow' /\ Sure'
  BY InWindowKept, SureKept DEF SafeInv
<1> QED BY <1>1, <1>2, <1>3, AbsenceKept, UnresolvedKept, ChosenKept DEF SafeInv

-----------------------------------------------------------------------------
(* The parts of an effect                                                  *)

\* The steps where nothing more is owed to the row.
Resting == {"dropped", "done", "idle", "gone", "recheck", "leased", "route"}

\* An actor that moves, ends or succeeds leaves the others alone.
LEMMA ActorMoves ==
    ASSUME JournalInv, NEW a \in Actors, NEW pc, Goes(a, pc)
    PROVE  /\ Only(a) /\ act'[a].pc = pc /\ act'[a].obs = act[a].obs /\ act'[a].pick = act[a].pick
           /\ act'[a].doomed = act[a].doomed /\ act'[a].full = act[a].full
<1>1. act \in [Actors -> Actor] /\ act[a] \in Actor
  BY RecordTypes DEF JournalInv
<1>2. act'[a] = [act[a] EXCEPT !.pc = pc]
  BY <1>1 DEF Goes
<1> QED BY <1>1, <1>2 DEF Goes, Only, Actor

\* Where an actor is after a pass that ended.
LEMMA ActorReturns ==
    ASSUME JournalInv, NEW a \in Actors, Ended(a)
    PROVE  /\ Only(a) /\ act'[a].pc \in Resting \ {"recheck", "leased", "route"}
           /\ a = Sink => act'[a].pc = "dropped"
           /\ a \in Workers => act'[a].pc = "idle"
<1>1. act \in [Actors -> Actor]
  BY RecordTypes DEF JournalInv
<1>2. act'[a] = AtRest(CASE a = Sink -> "dropped" [] a = Drop -> "done" [] OTHER -> "idle")
  BY <1>1 DEF Ended
<1>3. Only(a)
  BY <1>1 DEF Ended, Only
<1> QED BY <1>2, <1>3, Constants DEF AtRest, Resting

\* Where the sink is after it answered its caller.
LEMMA SinkReturns ==
    ASSUME JournalInv, NEW v, Finished(v)
    PROVE  Only(Sink) /\ act'[Sink].pc = "done"
<1>1. act \in [Actors -> Actor] /\ Sink \in Actors
  BY RecordTypes, Constants DEF JournalInv
<1>2. act'[Sink] = [AtRest("done") EXCEPT !.pick = v]
  BY <1>1 DEF Finished
<1> QED BY <1>1, <1>2 DEF Finished, Only, AtRest

\* An actor at rest owes nothing.
LEMMA RestAdvances ==
    ASSUME NEW a \in Actors, act'[a].pc \in Resting
    PROVE  Advances(a) /\ ~Deciding(a)' /\ act'[a].pc \notin Upstream \cup {"new", "delete"}
<1>1. ~Deciding(a)'
  BY DEF Deciding, Resting, SharedSteps, Launching
<1>2. a = Sink => Resends
  BY DEF Resends, Resting, Launching, Early
<1> QED BY <1>1, <1>2 DEF Advances, Resting, Upstream, Early

\* The provider and the retry loop are left alone.
LEMMA ProviderAlone ==
    ASSUME JournalInv, UNCHANGED <<prov, put>>
    PROVE  Shrinks /\ Deletes
<1>1. put.tries \in Nat
  BY RecordTypes, Constants DEF JournalInv, SinkRecord
<1> QED BY <1>1 DEF Shrinks, Deletes, Stored

\* The row keeps its state and result.
LEMMA RowStays ==
    ASSUME JournalInv, \/ UNCHANGED row
                       \/ /\ row'.nb >= row.nb /\ row'.st = row.st
                          /\ row'.sel = row.sel /\ row'.complete = row.complete
    PROVE  RowAdvances
<1>1. row.nb \in Int
  BY RecordTypes, Constants DEF JournalInv, Row
<1> QED BY <1>1 DEF RowAdvances

\* The row moves towards a verdict.
LEMMA RowProceeds ==
    ASSUME JournalInv, NEW from, NEW to \in States \ Terminal, Transition(from, to)
    PROVE  RowAdvances /\ row'.st = to /\ row.st = from
<1>1. row \in Row /\ row.nb \in Int
  BY RecordTypes, Constants DEF JournalInv, Row
<1>2. /\ row'.st = to /\ row.st = from /\ <<from, to>> \in CanTransition
      /\ row'.sel = row.sel /\ row'.complete = row.complete /\ row'.nb = row.nb
  BY <1>1 DEF Transition, Row
<1>3. to \in Blank => from \in Blank
  BY <1>2 DEF CanTransition, Blank
<1>4. from # "Committed" /\ to \notin {"Committed", "ProvenAborted"}
  BY <1>2 DEF CanTransition, Terminal
<1> QED BY <1>1, <1>2, <1>3, <1>4 DEF RowAdvances, Terminal

\* The row is aborted by an actor that has a reason and is done.
LEMMA RowAborts ==
    ASSUME JournalInv, NEW a \in Actors, NEW from, Transition(from, "ProvenAborted"), Only(a),
           Deciding(a), ~Deciding(a)', UNCHANGED prov, Proven
    PROVE  RowAdvances
<1>1. row \in Row /\ row.nb \in Int
  BY RecordTypes, Constants DEF JournalInv, Row
<1>2. /\ row'.st = "ProvenAborted" /\ row.st = from /\ <<from, "ProvenAborted">> \in CanTransition
      /\ row'.sel = row.sel /\ row'.complete = row.complete /\ row'.nb = row.nb
  BY <1>1 DEF Transition, Row
<1>3. from # "Committed"
  BY <1>2 DEF CanTransition
<1> QED BY <1>1, <1>2, <1>3 DEF RowAdvances, Blank

\* A result is recorded by an actor that selected it.
LEMMA ResultRecorded ==
    ASSUME JournalInv, NEW a \in Actors, act[a].pc = "delete", act[a].doomed = {},
           act[a].seen \in {"Completing", "CommitUnknown"}, RecordCommit(a), Only(a),
           UNCHANGED <<prov, put>>, act'[a].pc \in Resting
    PROVE  RowAdvances
<1>1. row \in Row /\ row.nb \in Int
  BY RecordTypes, Constants DEF JournalInv, Row
<1>2. /\ row'.st = "Committed" /\ row.st \in {"Completing", "CommitUnknown"}
      /\ row'.sel = act[a].pick /\ row'.complete = act[a].full /\ row'.nb = row.nb
  BY <1>1 DEF RecordCommit, Row
<1>3. Commits(a)
  BY <1>2, RestAdvances DEF Commits
<1>4. Deciding(a) /\ ~Deciding(a)'
  BY RestAdvances DEF Deciding, SharedSteps
<1> QED BY <1>1, <1>2, <1>3, <1>4 DEF RowAdvances, Blank

\* One actor moves, by rights, and leaves provider and retry loop alone.
LEMMA EffectOfOne ==
    ASSUME JournalInv, NEW a \in Actors, Only(a), Turns, UNCHANGED <<prov, put>>,
           RowAdvances, Advances(a)
    PROVE  Effect
<1>1. Shrinks /\ Deletes
  BY ProviderAlone
<1>2. \A b \in Actors : Stepped(b)
  BY DEF Only, Stepped
<1> QED BY <1>1, <1>2 DEF Effect

\* An actor at work moves.
LEMMA ActorsTurn ==
    ASSUME JournalInv, NEW a \in Actors, Only(a), UNCHANGED outer,
           act[a].pc \in SharedSteps \cup {"claimed", "leased"}
              \/ (act[a].pc = "candidate" /\ ~(Asserted /\ a \in Workers))
              \/ (a = Sink /\ act[a].pc \in SinkSteps \ {"dropped", "done", "gone"}),
           act'[a].pc # "new", act'[a].pc \in Upstream => act[a].pc \in Upstream
    PROVE  Turns
<1>1. Working(a)
  BY Constants DEF Working, Active, SharedSteps, SinkSteps
<1> QED BY <1>1 DEF Turns, Turn

-----------------------------------------------------------------------------
(* The sink                                                                *)

\* An error, or a success, of the sink.
LEMMA SinkRests ==
    ASSUME JournalInv, act[Sink].pc \in SinkSteps \cup SharedSteps, act[Sink].pc \notin {"dropped", "done", "gone"},
           Only(Sink), act'[Sink].pc \in Resting, UNCHANGED <<prov, put, outer>>, RowAdvances
    PROVE  Effect
<1>1. Advances(Sink) /\ act'[Sink].pc \notin Upstream \cup {"new"} /\ Sink \in Actors
  BY RestAdvances, Constants
<1>2. Turns
  BY <1>1, ActorsTurn
<1> QED BY <1>1, <1>2, EffectOfOne

\* insert_intent, set_expected, set_open and the first transition.
LEMMA OpeningEffect ==
    ASSUME JournalInv, InsertIntent \/ VerifyOutput \/ SetOpen \/ StartCompleting
    PROVE  Effect
<1>0. /\ Sink \in Actors /\ row \in Row /\ row.nb \in Int /\ UNCHANGED <<prov, put, outer>>
      /\ act \in [Actors -> Actor] /\ act[Sink] \in Actor
  BY Constants, RecordTypes DEF JournalInv, Row, InsertIntent, VerifyOutput, SetOpen, StartCompleting
<1>1. act[Sink].pc \in {"new", "writing", "verified", "opening"}
  BY DEF InsertIntent, VerifyOutput, SetOpen, StartCompleting
<1>2. ASSUME Only(Sink), act'[Sink].pc \in {"writing", "verified", "opening"}, RowAdvances
      PROVE  Effect
  <2>1. Advances(Sink)
    BY <1>0, <1>1, <1>2 DEF Advances, Resends, Deciding, SharedSteps, Launching, Early
  <2>2. Turns
    BY <1>0, <1>1, <1>2, ActorsTurn DEF SinkSteps, Upstream, Early
  <2> QED BY <1>0, <1>2, <2>1, <2>2, EffectOfOne
<1>3. ASSUME UNCHANGED row, Ended(Sink)
      PROVE  Effect
  BY <1>0, <1>1, <1>3, ActorReturns, RowStays, SinkRests DEF SinkSteps, Resting
<1>4. CASE InsertIntent
  <2>1. row.st = "none" /\ Goes(Sink, "writing")
    BY <1>4 DEF InsertIntent, JournalInv, Fresh
  <2>2. /\ row'.st = "Intent" /\ row'.nb = row.nb /\ row'.sel = row.sel
        /\ row'.complete = row.complete
    BY <1>0, <1>4 DEF InsertIntent, Row
  <2>3. RowAdvances
    BY <1>0, <2>1, <2>2 DEF RowAdvances, Blank, Terminal
  <2> QED BY <1>0, <1>2, <2>1, <2>3, ActorMoves
<1>5. CASE VerifyOutput
  <2>1. CASE row' = [row EXCEPT !.age = 0] /\ Goes(Sink, "verified")
    <3>1. /\ row'.st = row.st /\ row'.nb = row.nb /\ row'.sel = row.sel
          /\ row'.complete = row.complete
      BY <1>0, <2>1 DEF Row
    <3>2. RowAdvances
      BY <1>0, <3>1, RowStays
    <3> QED BY <1>0, <1>2, <2>1, <3>2, ActorMoves
  <2> QED BY <1>3, <1>5, <2>1 DEF VerifyOutput
<1>6. CASE SetOpen
  <2>1. CASE /\ row.st = "Intent" /\ row' = [row EXCEPT !.st = "Open", !.age = 0]
             /\ act' = [act EXCEPT ![Sink].pc = "opening", ![Sink].seen = "Open"]
    <3>1. /\ row'.st = "Open" /\ row'.nb = row.nb /\ row'.sel = row.sel
          /\ row'.complete = row.complete
      BY <1>0, <2>1 DEF Row
    <3>2. RowAdvances
      BY <1>0, <2>1, <3>1 DEF RowAdvances, Blank, Terminal
    <3>3. Only(Sink) /\ act'[Sink].pc = "opening"
      BY <1>0, <2>1 DEF Only, Actor
    <3> QED BY <1>2, <3>2, <3>3
  <2> QED BY <1>3, <1>6, <2>1 DEF SetOpen
<1>7. CASE StartCompleting
  <2>1. CASE /\ Transition("Open", "Completing")
             /\ act' = [act EXCEPT ![Sink].pc = "launch", ![Sink].seen = "Completing"]
    <3>1. RowAdvances /\ row'.st = "Completing"
      BY <2>1, RowProceeds DEF States, Terminal
    <3>2. Only(Sink) /\ act'[Sink].pc = "launch"
      BY <1>0, <2>1 DEF Only, Actor
    <3>3. Advances(Sink)
      BY <1>0, <1>1, <3>1, <3>2 DEF Advances, Resends, Blank, Terminal, Early
    <3>4. Turns
      BY <1>0, <1>1, <3>2, ActorsTurn DEF SinkSteps, Upstream, Early
    <3> QED BY <1>0, <3>1, <3>2, <3>3, <3>4, EffectOfOne
  <2> QED BY <1>3, <1>7, <2>1 DEF StartCompleting
<1> QED BY <1>4, <1>5, <1>6, <1>7

\* record_mutation_launch.
LEMMA LaunchEffect ==
    ASSUME JournalInv, LaunchRead \/ LaunchWrite
    PROVE  Effect
<1>0. /\ Sink \in Actors /\ row \in Row /\ row.nb \in Int /\ UNCHANGED <<prov, put, outer>>
      /\ act \in [Actors -> Actor] /\ act[Sink] \in Actor /\ act[Sink].obs \in Int /\ Window \in Int
  BY Constants, RecordTypes DEF JournalInv, Row, Actor, LaunchRead, LaunchWrite
<1>1. CASE LaunchRead
  <2>1. act[Sink].pc = "launch" /\ RowAdvances
    BY <1>1, RowStays DEF LaunchRead
  <2>2. CASE act' = [act EXCEPT ![Sink].pc = "launching", ![Sink].obs = 0]
    <3>1. Only(Sink) /\ act'[Sink].pc = "launching" /\ act'[Sink].obs = 0
      BY <1>0, <2>2 DEF Only, Actor
    <3>2. Advances(Sink)
      BY <1>0, <2>1, <3>1 DEF Advances, Resends, Launching, Early, Deciding
    <3>3. Turns
      BY <1>0, <2>1, <3>1, ActorsTurn DEF SinkSteps, Upstream, Early
    <3> QED BY <1>0, <2>1, <3>1, <3>2, <3>3, EffectOfOne
  <2>3. CASE Ended(Sink)
    BY <1>0, <2>1, <2>3, ActorReturns, SinkRests DEF SinkSteps, Resting
  <2> QED BY <1>1, <2>2, <2>3 DEF LaunchRead
<1>2. CASE LaunchWrite
  <2>1. /\ act[Sink].pc = "launching"
        /\ act' = [act EXCEPT ![Sink].pc = "send", ![Sink].obs = 0]
    BY <1>2 DEF LaunchWrite
  <2>2. /\ row'.nb = IF Window - act[Sink].obs > row.nb THEN Window - act[Sink].obs ELSE row.nb
        /\ row'.st = row.st /\ row'.sel = row.sel /\ row'.complete = row.complete
    BY <1>0, <1>2 DEF LaunchWrite, RecordLaunch, Row
  <2>3. row'.nb >= row.nb /\ row'.nb >= Window - act[Sink].obs
    BY <1>0, <2>2
  <2>4. RowAdvances
    BY <2>2, <2>3, RowStays
  <2>5. Only(Sink) /\ act'[Sink].pc = "send"
    BY <1>0, <2>1 DEF Only, Actor
  <2>6. Advances(Sink)
    BY <1>0, <2>1, <2>3, <2>5 DEF Advances, Resends, Launching, Early, Deciding
  <2>7. Turns
    BY <1>0, <2>1, <2>5, ActorsTurn DEF SinkSteps, Upstream, Early
  <2> QED BY <1>0, <2>4, <2>5, <2>6, <2>7, EffectOfOne
<1> QED BY <1>1, <1>2

\* An attempt without an answer, whatever became of the request.
LEMMA AmbiguousEffect ==
    ASSUME JournalInv, act[Sink].pc \in {"send", "sent"},
           NEW n \in Nat, Ambiguous(n), n >= put.tries, UNCHANGED <<row, outer>>,
           prov'.exact = prov.exact, prov'.flight \subseteq prov.flight, Stored' = Stored
    PROVE  Effect
<1>0. Sink \in Actors /\ put.tries \in Nat
  BY Constants, RecordTypes DEF JournalInv, SinkRecord
<1> DEFINE pc == IF n < MaxAttempts THEN "launch" ELSE "exhausted"
<1>1. put' = [tries |-> n, ambiguous |-> TRUE] /\ Goes(Sink, pc)
  BY DEF Ambiguous
<1>2. Only(Sink) /\ act'[Sink].pc \in {"launch", "exhausted"}
  <2>1. pc \in {"launch", "exhausted"}
    OBVIOUS
  <2> HIDE DEF pc
  <2> QED BY <1>0, <1>1, <2>1, ActorMoves
<1>3. Shrinks /\ Deletes
  BY <1>0, <1>1 DEF Shrinks, Deletes, Upstream, Early
<1>4. RowAdvances
  BY RowStays
<1>5. Deciding(Sink)
  BY DEF Deciding, Launching
<1>6. Advances(Sink)
  BY <1>1, <1>2, <1>5 DEF Advances, Resends, Launching
<1>7. Turns
  BY <1>0, <1>2, ActorsTurn DEF SinkSteps, Upstream, Early
<1>8. \A b \in Actors : Stepped(b)
  BY <1>2, <1>6, Constants DEF Only, Stepped
<1> QED BY <1>3, <1>4, <1>7, <1>8 DEF Effect

\* A request leaves, and is answered, unanswered or refused.
LEMMA SendEffect ==
    ASSUME JournalInv, Send \/ Answered \/ Unanswered \/ Refused
    PROVE  Effect
<1>0. /\ Sink \in Actors /\ put \in SinkRecord /\ put.tries \in Nat /\ prov \in Provider
      /\ act \in [Actors -> Actor] /\ act[Sink] \in Actor
      /\ UNCHANGED <<row, outer>>
  BY Constants, RecordTypes DEF JournalInv, SinkRecord, Send, Answered, Unanswered, Refused
<1>a. RowAdvances
  BY <1>0, RowStays
<1>1. CASE Send
  <2>0. act[Sink].pc = "send"
    BY <1>1 DEF Send
  <2>1. CASE /\ Fenced(Sink) /\ prov' = [prov EXCEPT !.flight = @ \cup {put.tries + 1}]
             /\ put' = [put EXCEPT !.tries = put.tries + 1] /\ Goes(Sink, "sent")
    <3>1. /\ prov'.exact = prov.exact /\ prov'.flight = prov.flight \cup {put.tries + 1}
          /\ prov'.landed = prov.landed
      BY <1>0, <2>1 DEF Provider
    <3>2. Only(Sink) /\ act'[Sink].pc = "sent"
      BY <1>0, <2>1, ActorMoves
    <3>3. Stored' = Stored
      BY <3>1 DEF Stored
    <3>4. Sends /\ Deletes
      BY <1>0, <2>0, <2>1, <3>1, <3>2, <3>3 DEF Sends, Deletes
    <3>5. Deciding(Sink)
      BY <2>0 DEF Deciding, Launching
    <3>6. Advances(Sink)
      BY <2>0, <3>2, <3>4, <3>5 DEF Advances, Resends, Launching, Early
    <3>7. Turns
      BY <1>0, <2>0, <3>2, ActorsTurn DEF SinkSteps, Upstream, Early
    <3>8. \A b \in Actors : Stepped(b)
      BY <3>2, <3>6, Constants DEF Only, Stepped
    <3> QED BY <1>a, <3>4, <3>7, <3>8 DEF Effect
  <2>2. CASE Ambiguous(put.tries + 1) /\ UNCHANGED prov
    BY <1>0, <2>0, <2>2, AmbiguousEffect DEF Stored
  <2> QED BY <1>1, <2>1, <2>2 DEF Send
<1>2. CASE Answered
  <2> DEFINE r == [act[Sink] EXCEPT !.pc = "delete", !.pick = put.tries,
                       !.doomed = IF prov.exact THEN Stored \ {put.tries} ELSE {},
                       !.full = WholeHistory(put.tries)]
  <2>1. act[Sink].pc = "sent" /\ put.tries \in Stored /\ UNCHANGED <<prov, put>>
    BY <1>2 DEF Answered
  <2>2. act' = [act EXCEPT ![Sink] = r]
    BY <1>2 DEF Answered
  <2>3. Only(Sink) /\ act'[Sink] = r
    BY <1>0, <2>2 DEF Only
  <2>4. /\ act'[Sink].pc = "delete" /\ act'[Sink].pick = put.tries
        /\ act'[Sink].full = (prov.exact \/ put.tries = 1)
        /\ put.tries \notin act'[Sink].doomed
    BY <1>0, <2>3 DEF Actor, WholeHistory
  <2>5. Selects(Sink)
    BY <2>1, <2>4 DEF Selects
  <2>6. Advances(Sink)
    BY <2>1, <2>4, <2>5 DEF Advances, Resends, Launching, Early, Deciding
  <2>7. Turns
    BY <1>0, <2>1, <2>3, <2>4, ActorsTurn DEF SinkSteps, Upstream, Early
  <2> QED BY <1>0, <1>a, <2>1, <2>3, <2>6, <2>7, EffectOfOne
<1>3. CASE Unanswered
  BY <1>0, <1>3, AmbiguousEffect DEF Unanswered, Stored
<1>4. CASE Refused
  <2>1. /\ act[Sink].pc = "sent" /\ put.tries \in prov.flight
        /\ prov' = [prov EXCEPT !.flight = @ \ {put.tries}]
    BY <1>4 DEF Refused
  <2>2. /\ prov'.exact = prov.exact /\ prov'.flight = prov.flight \ {put.tries}
        /\ prov'.landed = prov.landed
    BY <1>0, <2>1 DEF Provider
  <2>3. Stored' = Stored
    BY <2>2 DEF Stored
  <2>4. CASE put.ambiguous /\ Ambiguous(put.tries)
    BY <1>0, <2>1, <2>2, <2>3, <2>4, AmbiguousEffect
  <2>5. CASE ~put.ambiguous /\ Goes(Sink, "refused") /\ UNCHANGED put
    <3>1. Only(Sink) /\ act'[Sink].pc = "refused"
      BY <1>0, <2>5, ActorMoves
    <3>2. Shrinks /\ Deletes
      BY <1>0, <2>2, <2>3, <2>5 DEF Shrinks, Deletes
    <3>3. Deciding(Sink)
      BY <2>1 DEF Deciding, Launching
    <3>4. Advances(Sink)
      BY <2>1, <2>2, <2>3, <2>5, <3>1, <3>3 DEF Advances, Resends, Launching, Early
    <3>5. Turns
      BY <1>0, <2>1, <3>1, ActorsTurn DEF SinkSteps, Upstream, Early
    <3>6. \A b \in Actors : Stepped(b)
      BY <3>1, <3>4, Constants DEF Only, Stepped
    <3> QED BY <1>a, <3>2, <3>5, <3>6 DEF Effect
  <2> QED BY <1>4, <2>4, <2>5 DEF Refused
<1> QED BY <1>1, <1>2, <1>3, <1>4

\* The verdicts of the sink and the reading of one it did not record.
LEMMA SettlingEffect ==
    ASSUME JournalInv, RefusedAborts \/ SinkCommits \/ Exhausted \/ Recheck
    PROVE  Effect
<1>0. /\ Sink \in Actors /\ UNCHANGED <<prov, put, outer>>
      /\ act \in [Actors -> Actor] /\ act[Sink] \in Actor
      /\ act[Sink].pc \in {"refused", "delete", "exhausted", "recheck"}
  BY Constants, RecordTypes DEF JournalInv, RefusedAborts, SinkCommits, Exhausted, Recheck
<1>a. act[Sink].pc \in (SinkSteps \cup SharedSteps) \ {"dropped", "done", "gone"}
  BY <1>0 DEF SinkSteps, SharedSteps
<1>b. ASSUME UNCHANGED row, Ended(Sink) PROVE Effect
  BY <1>0, <1>a, <1>b, ActorReturns, RowStays, SinkRests
<1>1. CASE RefusedAborts
  <2>1. CASE Transition("Completing", "ProvenAborted") /\ Finished(None)
    <3>1. act[Sink].pc = "refused"
      BY <1>1 DEF RefusedAborts
    <3>2. Only(Sink) /\ act'[Sink].pc = "done"
      BY <2>1, SinkReturns
    <3>3. Deciding(Sink) /\ ~Deciding(Sink)'
      BY <3>1, <3>2 DEF Deciding, SharedSteps, Launching
    <3>4. RowAdvances
      BY <1>0, <2>1, <3>1, <3>2, <3>3, RowAborts DEF Proven
    <3> QED BY <1>0, <1>a, <3>2, <3>4, SinkRests DEF Resting
  <2> QED BY <1>1, <1>b, <2>1 DEF RefusedAborts
<1>2. CASE SinkCommits
  <2>1. /\ act[Sink].pc = "delete" /\ act[Sink].doomed = {}
        /\ act[Sink].seen \in {"Completing", "CommitUnknown"}
    BY <1>2 DEF SinkCommits
  <2>2. Only(Sink) /\ act'[Sink].pc \in Resting
    BY <1>0, <1>2, SinkReturns, ActorMoves DEF SinkCommits, Resting
  <2>3. RowAdvances
    <3>1. CASE RecordCommit(Sink)
      BY <1>0, <2>1, <2>2, <3>1, ResultRecorded
    <3>2. CASE UNCHANGED row
      BY <3>2, RowStays
    <3> QED BY <1>2, <3>1, <3>2 DEF SinkCommits
  <2> QED BY <1>0, <1>a, <2>2, <2>3, SinkRests
<1>3. CASE Exhausted
  <2>1. CASE Transition("Completing", "CommitUnknown") /\ Goes(Sink, "recheck")
    <3>1. RowAdvances
      BY <2>1, RowProceeds DEF States, Terminal
    <3>2. Only(Sink) /\ act'[Sink].pc = "recheck"
      BY <1>0, <2>1, ActorMoves
    <3> QED BY <1>0, <1>a, <3>1, <3>2, SinkRests DEF Resting
  <2> QED BY <1>3, <1>b, <2>1 DEF Exhausted, TransitionOrFail
<1>4. CASE Recheck
  <2>1. UNCHANGED row /\ RowAdvances /\ act[Sink].pc = "recheck"
    BY <1>4, RowStays DEF Recheck
  <2>2. CASE Finished(row.sel)
    BY <1>0, <1>a, <2>1, <2>2, SinkReturns, SinkRests DEF Resting
  <2>3. CASE /\ row.st \in {"Completing", "CommitUnknown"}
             /\ act' = [act EXCEPT ![Sink] = [AtRest("probe") EXCEPT
                           !.pc = IF row.st = "Completing" THEN "mark" ELSE "probe",
                           !.seen = row.st]]
    <3>1. Only(Sink) /\ act'[Sink].pc \in {"mark", "probe"}
      BY <1>0, <2>3 DEF Only, AtRest
    <3>2. Advances(Sink)
      BY <2>1, <2>3, <3>1 DEF Advances, Resends, Launching, Early, Terminal
    <3>3. Turns
      BY <1>0, <2>1, <3>1, ActorsTurn DEF SinkSteps, Upstream, Early
    <3> QED BY <1>0, <2>1, <3>1, <3>2, <3>3, EffectOfOne
  <2> QED BY <1>4, <1>b, <2>1, <2>2, <2>3 DEF Recheck
<1> QED BY <1>1, <1>2, <1>3, <1>4

-----------------------------------------------------------------------------
(* The steps the sink and the reconcilers share                            *)

\* An actor at work ends with the row where it should be.
LEMMA ActorRests ==
    ASSUME JournalInv, NEW a \in Actors, act[a].pc \in SharedSteps \cup {"claimed"},
           Only(a), act'[a].pc \in Resting, UNCHANGED <<prov, put, outer>>, RowAdvances
    PROVE  Effect
<1>1. Advances(a) /\ act'[a].pc \notin Upstream \cup {"new"}
  BY RestAdvances
<1>2. Turns
  BY <1>1, ActorsTurn
<1> QED BY <1>1, <1>2, EffectOfOne

\* An actor at work goes on with a row that has no verdict.
LEMMA ActorProceeds ==
    ASSUME JournalInv, NEW a \in Actors, Only(a), UNCHANGED <<prov, put, outer>>, RowAdvances,
           act'[a].pc \in {"abort", "mark", "probe", "claimed"},
           Deciding(a) \/ row'.st \notin Terminal,
           act[a].pc \in SharedSteps \cup {"claimed"}
              \/ (act[a].pc = "candidate" /\ ~(Asserted /\ a \in Workers))
              \/ (a = Sink /\ act[a].pc \in SinkSteps \ {"dropped", "done", "gone"})
    PROVE  Effect
<1>1. Advances(a)
  BY DEF Advances, Resends, Launching, Early
<1>2. Turns
  BY ActorsTurn DEF Upstream, Early
<1> QED BY <1>1, <1>2, EffectOfOne

\* The abort of a row that never launched, and the mark of one that did.
LEMMA AbortEffect ==
    ASSUME JournalInv, NEW a \in Actors, BeginAbort(a) \/ FinishAbort(a) \/ MarkUnknown(a)
    PROVE  Effect
<1>0. /\ UNCHANGED <<prov, put, outer>> /\ act \in [Actors -> Actor] /\ act[a] \in Actor
      /\ Sink \in Actors
  BY Constants, RecordTypes DEF JournalInv, BeginAbort, FinishAbort, MarkUnknown
<1>1. CASE BeginAbort(a)
  <2>0. act[a].pc \in IF a = Sink THEN {"writing", "verified", "opening"} ELSE {"claimed"}
    BY <1>1 DEF BeginAbort
  <2>1. CASE Transition(act[a].seen, "Aborting") /\ Goes(a, "abort")
    <3>1. RowAdvances /\ row'.st = "Aborting"
      BY <2>1, RowProceeds DEF States, Terminal
    <3>2. Only(a) /\ act'[a].pc = "abort"
      BY <2>1, ActorMoves
    <3> QED BY <1>0, <2>0, <3>1, <3>2, ActorProceeds DEF SinkSteps, Terminal
  <2>2. CASE UNCHANGED row /\ Ended(a)
    <3>1. Only(a) /\ act'[a].pc \in Resting /\ RowAdvances
      BY <2>2, ActorReturns, RowStays
    <3>2. CASE a = Sink
      BY <1>0, <2>0, <3>1, <3>2, SinkRests DEF SinkSteps
    <3>3. CASE a # Sink
      BY <1>0, <2>0, <3>1, <3>3, ActorRests
    <3> QED BY <3>2, <3>3
  <2> QED BY <1>1, <2>1, <2>2 DEF BeginAbort, TransitionOrFail
<1>2. CASE FinishAbort(a)
  <2>0. act[a].pc = "abort" /\ Deciding(a)
    BY <1>2 DEF FinishAbort, Deciding, SharedSteps
  <2>1. Only(a) /\ act'[a].pc \in Resting
    BY <1>2, ActorReturns, SinkReturns DEF FinishAbort, Resting
  <2>2. RowAdvances
    <3>1. CASE Transition("Aborting", "ProvenAborted")
      <4>1. Proven
        BY <2>0, <3>1 DEF Proven, Transition
      <4>2. ~Deciding(a)'
        BY <2>1, RestAdvances
      <4> QED BY <1>0, <2>0, <2>1, <3>1, <4>1, <4>2, RowAborts
    <3>2. CASE UNCHANGED row
      BY <3>2, RowStays
    <3> QED BY <1>2, <3>1, <3>2 DEF FinishAbort
  <2> QED BY <1>0, <2>0, <2>1, <2>2, ActorRests DEF SharedSteps
<1>3. CASE MarkUnknown(a)
  <2>0. act[a].pc = "mark" /\ Deciding(a)
    BY <1>3 DEF MarkUnknown, Deciding, SharedSteps
  <2>1. CASE /\ Transition("Completing", "CommitUnknown")
             /\ act' = [act EXCEPT ![a].pc = "probe", ![a].seen = "CommitUnknown"]
    <3>1. RowAdvances
      BY <2>1, RowProceeds DEF States, Terminal
    <3>2. Only(a) /\ act'[a].pc = "probe"
      BY <1>0, <2>1 DEF Only, Actor
    <3> QED BY <1>0, <2>0, <3>1, <3>2, ActorProceeds DEF SharedSteps
  <2>2. CASE UNCHANGED row /\ Ended(a)
    BY <1>0, <2>0, <2>2, ActorReturns, RowStays, ActorRests DEF SharedSteps
  <2> QED BY <1>3, <2>1, <2>2 DEF MarkUnknown
<1> QED BY <1>1, <1>2, <1>3

\* The probe and the deletion of redundant versions.
LEMMA ProbeEffect ==
    ASSUME JournalInv, NEW a \in Actors, Probe(a) \/ DeleteRedundant(a)
    PROVE  Effect
<1>0. /\ UNCHANGED <<row, put, outer>> /\ act \in [Actors -> Actor] /\ act[a] \in Actor
      /\ prov \in Provider /\ put.tries \in Nat
  BY Constants, RecordTypes DEF JournalInv, SinkRecord, Probe, DeleteRedundant
<1>a. RowAdvances
  BY <1>0, RowStays
<1>1. CASE Probe(a)
  <2>0. act[a].pc = "probe" /\ Deciding(a) /\ UNCHANGED <<prov, put>>
    BY <1>1 DEF Probe, Deciding, SharedSteps
  <2>1. CASE /\ Stored # {}
             /\ act' = [act EXCEPT ![a] = [@ EXCEPT !.pc = "delete", !.pick = Latest,
                                              !.doomed = Redundant, !.full = prov.exact]]
    <3>1. /\ Only(a) /\ act'[a].pc = "delete" /\ act'[a].pick = Latest
          /\ act'[a].doomed = Redundant /\ act'[a].full = prov.exact
      BY <1>0, <2>1 DEF Only, Actor
    <3>2. Latest \in Stored /\ Latest \notin Redundant
      BY <2>1, LatestStored DEF JournalInv, Redundant
    <3>3. Selects(a)
      BY <2>0, <3>1, <3>2 DEF Selects
    <3>4. Advances(a)
      BY <2>0, <3>1, <3>3 DEF Advances, Resends, Launching, Early
    <3>5. Turns
      BY <1>0, <2>0, <3>1, ActorsTurn DEF SharedSteps, Upstream, Early
    <3> QED BY <1>a, <2>0, <3>1, <3>4, <3>5, EffectOfOne
  <2>2. CASE Stored = {} /\ act' = [act EXCEPT ![a].pc = "observed", ![a].obs = 0]
    <3>1. Only(a) /\ act'[a].pc = "observed" /\ act'[a].obs = 0
      BY <1>0, <2>2 DEF Only, Actor
    <3>2. Advances(a)
      BY <1>0, <2>0, <2>2, <3>1 DEF Advances, Resends, Launching, Early
    <3>3. Turns
      BY <1>0, <2>0, <3>1, ActorsTurn DEF SharedSteps, Upstream, Early
    <3> QED BY <1>a, <2>0, <3>1, <3>2, <3>3, EffectOfOne
  <2>3. CASE Ended(a)
    BY <1>0, <1>a, <2>0, <2>3, ActorReturns, ActorRests DEF SharedSteps
  <2> QED BY <1>1, <2>1, <2>2, <2>3 DEF Probe
<1>2. CASE DeleteRedundant(a)
  <2>0. act[a].pc = "delete" /\ Deciding(a)
    BY <1>2 DEF DeleteRedundant, Deciding, SharedSteps
  <2>1. PICK v \in act[a].doomed : /\ prov' = [prov EXCEPT !.landed[v] = 0]
                                   /\ act' = [act EXCEPT ![a].doomed = @ \ {v}]
    BY <1>2 DEF DeleteRedundant
  <2>2. v \in Attempts
    BY <1>0, <2>1 DEF Actor
  <2>3. /\ prov'.exact = prov.exact /\ prov'.flight = prov.flight
        /\ prov'.landed = [prov.landed EXCEPT ![v] = 0]
    BY <1>0, <2>1 DEF Provider
  <2>4. Stored' = Stored \ {v}
    <3>1. prov.landed \in [Attempts -> 0..MaxAttempts]
      BY <1>0 DEF Provider
    <3>2. \A u \in Attempts : prov'.landed[u] = IF u = v THEN 0 ELSE prov.landed[u]
      BY <2>2, <2>3, <3>1
    <3> QED BY <3>2 DEF Stored
  <2>5. /\ Only(a) /\ act'[a].pc = "delete" /\ act'[a].pick = act[a].pick
        /\ act'[a].full = act[a].full /\ act'[a].doomed = act[a].doomed \ {v}
    BY <1>0, <2>0, <2>1 DEF Only, Actor
  <2>6. Shrinks /\ Deletes
    BY <1>0, <2>0, <2>1, <2>3, <2>4, <2>5 DEF Shrinks, Deletes
  <2>7. Advances(a)
    BY <2>0, <2>5 DEF Advances, Selects, Resends, Launching, Early
  <2>8. Turns
    BY <1>0, <2>0, <2>5, ActorsTurn DEF SharedSteps, Upstream, Early
  <2>9. \A b \in Actors : Stepped(b)
    BY <1>0, <2>5, <2>7 DEF Only, Stepped
  <2> QED BY <1>a, <2>6, <2>8, <2>9 DEF Effect
<1> QED BY <1>1, <1>2

\* The verdict of a discovered completion, and the observations of an absence.
LEMMA VerdictEffect ==
    ASSUME JournalInv, NEW a \in Actors,
           CommitFound(a) \/ ConfirmRead(a) \/ ConfirmWrite(a) \/ AbsentAborts(a)
    PROVE  Effect
<1>0. /\ UNCHANGED <<prov, put, outer>> /\ row \in Row /\ row.nb \in Int
      /\ act[a].pc \in SharedSteps /\ Deciding(a)
  BY Constants, RecordTypes
     DEF JournalInv, Row, CommitFound, ConfirmRead, ConfirmWrite, AbsentAborts, SharedSteps, Deciding
<1>a. ASSUME Only(a), act'[a].pc \in Resting, RowAdvances PROVE Effect
  BY <1>0, <1>a, ActorRests
<1>1. CASE CommitFound(a)
  <2>1. /\ act[a].pc = "delete" /\ act[a].doomed = {}
        /\ act[a].seen \in {"Completing", "CommitUnknown"}
    BY <1>1 DEF CommitFound
  <2>2. Only(a) /\ act'[a].pc \in Resting
    BY <1>1, ActorReturns, SinkReturns DEF CommitFound, Resting
  <2>3. RowAdvances
    <3>1. CASE RecordCommit(a)
      BY <1>0, <2>1, <2>2, <3>1, ResultRecorded
    <3>2. CASE UNCHANGED row
      BY <3>2, RowStays
    <3> QED BY <1>1, <3>1, <3>2 DEF CommitFound
  <2> QED BY <1>a, <2>2, <2>3
<1>2. CASE ConfirmRead(a)
  <2>1. UNCHANGED row /\ RowAdvances /\ act[a].pc = "observed"
    BY <1>2, RowStays DEF ConfirmRead
  <2>2. ASSUME NEW pc \in {"unseen", "absent"}, ~TooEarly(a), Goes(a, pc) PROVE Effect
    <3>1. Only(a) /\ act'[a].pc = pc
      BY <2>2, ActorMoves
    <3>2. Advances(a)
      BY <1>0, <2>1, <2>2, <3>1 DEF Advances, Resends, Launching, Early
    <3>3. Turns
      BY <1>0, <2>1, <3>1, ActorsTurn DEF SharedSteps, Upstream, Early
    <3> QED BY <1>0, <2>1, <3>1, <3>2, <3>3, EffectOfOne
  <2>3. CASE Ended(a)
    BY <1>a, <2>1, <2>3, ActorReturns
  <2> QED BY <1>2, <2>2, <2>3 DEF ConfirmRead
<1>3. CASE ConfirmWrite(a)
  <2>1. /\ row'.nb = row.nb /\ row'.st = row.st /\ row'.sel = row.sel
        /\ row'.complete = row.complete
    BY <1>0, <1>3 DEF ConfirmWrite, Row
  <2>2. RowAdvances
    BY <1>0, <2>1, RowStays
  <2> QED BY <1>3, <1>a, <2>2, ActorReturns DEF ConfirmWrite
<1>4. CASE AbsentAborts(a)
  <2>1. Only(a) /\ act'[a].pc \in Resting /\ act[a].pc = "absent"
    BY <1>4, ActorReturns DEF AbsentAborts
  <2>2. RowAdvances
    <3>1. CASE Transition("CommitUnknown", "ProvenAborted")
      <4>1. ~Deciding(a)'
        BY <2>1, RestAdvances
      <4> QED BY <1>0, <2>1, <3>1, <4>1, RowAborts DEF Proven
    <3>2. CASE UNCHANGED row
      BY <3>2, RowStays
    <3> QED BY <1>4, <3>1, <3>2 DEF AbsentAborts
  <2> QED BY <1>a, <2>1, <2>2
<1> QED BY <1>1, <1>2, <1>3, <1>4

-----------------------------------------------------------------------------
(* Reconcilers, failures, the provider, leases                             *)

\* A pass begins, goes on without the lease, or takes it over.
LEMMA PassEffect ==
    ASSUME JournalInv, NEW a \in Actors, ReadCandidate(a) \/ ClaimRow(a) \/ Fails(a)
    PROVE  Effect
<1>0. /\ UNCHANGED <<prov, put, outer>> /\ act \in [Actors -> Actor] /\ act[a] \in Actor
      /\ row \in Row /\ row.nb \in Int
      /\ Sink # Drop /\ Sink \notin Workers /\ Drop \notin Workers
  BY Constants, RecordTypes DEF JournalInv, Row, ReadCandidate, ClaimRow, Fails
<1>a. ASSUME a \in Workers, Only(a), ~Working(a)' PROVE Turns
  BY <1>0, <1>a DEF Turns, Waits
<1>b. ASSUME Ended(a) PROVE Only(a) /\ Advances(a) /\ (a \in Workers => ~Working(a)')
  BY <1>0, <1>b, ActorReturns, RestAdvances DEF Working, Active
<1>c. ASSUME Ended(a), Working(a) PROVE Turns
  <2>1. Turn(a)
    BY <1>0, <1>c, ActorReturns, RestAdvances DEF Turn
  <2> QED BY <2>1 DEF Turns
<1>1. CASE ReadCandidate(a)
  <2>0. UNCHANGED row /\ RowAdvances
    BY <1>1, RowStays DEF ReadCandidate
  <2>1. Only(a) /\ Advances(a) /\ act'[a].pc \in {"candidate", "done", "dropped", "idle", "gone"}
    <3>1. CASE Claimable /\ act' = [act EXCEPT ![a].pc = "candidate", ![a].seen = row.st]
      <4>1. Only(a) /\ act'[a].pc = "candidate"
        BY <1>0, <3>1 DEF Only, Actor
      <4> QED BY <2>0, <3>1, <4>1 DEF Advances, Resends, Launching, Early, Claimable
    <3> QED BY <1>1, <1>b, <3>1, ActorReturns DEF ReadCandidate, Resting
  <2>2. Turns
    <3>1. CASE a = Drop /\ act[Drop].pc = "idle" /\ act[Sink].pc = "dropped"
      BY <1>0, <2>1, <3>1 DEF Turns, Begins
    <3>2. CASE a \in Workers /\ Asserted
      BY <1>a, <2>1, <3>2, <1>0 DEF Working, Active
    <3>3. CASE a \in Workers /\ ~Asserted /\ act[a].pc = "leased"
      BY <1>0, <2>1, <3>3, ActorsTurn DEF Upstream, Early
    <3> QED BY <1>1, <3>1, <3>2, <3>3 DEF ReadCandidate, MayReconcile
  <2> QED BY <1>0, <2>0, <2>1, <2>2, EffectOfOne
<1>2. CASE ClaimRow(a)
  <2>0. act[a].pc = "candidate"
    BY <1>2 DEF ClaimRow
  <2>1. RowAdvances
    <3>1. CASE row' = [row EXCEPT !.lease = Lease, !.owner = a]
      <4>1. /\ row'.nb = row.nb /\ row'.st = row.st /\ row'.sel = row.sel
            /\ row'.complete = row.complete
        BY <1>0, <3>1 DEF Row
      <4> QED BY <1>0, <4>1, RowStays
    <3> QED BY <1>2, <3>1, RowStays DEF ClaimRow
  <2>2. CASE Asserted /\ a \in Workers /\ Goes(a, "route")
    <3>1. Only(a) /\ act'[a].pc = "route"
      BY <2>2, ActorMoves
    <3>2. Advances(a) /\ ~Working(a)'
      BY <2>2, <3>1, RestAdvances DEF Resting, Working
    <3> QED BY <1>0, <1>a, <2>1, <2>2, <3>1, <3>2, EffectOfOne
  <2>3. CASE ~(Asserted /\ a \in Workers) /\ Goes(a, FirstStep(act[a].seen))
    <3>1. FirstStep(act[a].seen) \in {"abort", "mark", "probe", "claimed"}
      BY DEF FirstStep
    <3>2. Only(a) /\ act'[a].pc \in {"abort", "mark", "probe", "claimed"}
      BY <2>3, <3>1, ActorMoves
    <3>3. Deciding(a)
      BY <2>0, <2>3 DEF Deciding
    <3> QED BY <1>0, <2>0, <2>1, <2>3, <3>2, <3>3, ActorProceeds
  <2>4. CASE Ended(a)
    <3>1. Only(a) /\ Advances(a)
      BY <1>b, <2>4
    <3>2. Turns
      <4>1. CASE a \in Workers
        BY <1>a, <1>b, <2>4, <4>1
      <4>2. CASE a \notin Workers
        BY <1>c, <2>0, <2>4, <4>2 DEF Working, Active
      <4> QED BY <4>1, <4>2
    <3> QED BY <1>0, <2>1, <3>1, <3>2, EffectOfOne
  <2> QED BY <1>2, <2>2, <2>3, <2>4 DEF ClaimRow
<1>3. CASE Fails(a)
  <2>1. Only(a) /\ Advances(a) /\ RowAdvances
    BY <1>3, <1>b, RowStays DEF Fails
  <2>2. Turns
    <3>1. CASE a \in Workers
      BY <1>3, <1>a, <1>b, <3>1 DEF Fails
    <3>2. CASE a \notin Workers
      BY <1>3, <1>c, <3>2 DEF Fails, Working
    <3> QED BY <3>1, <3>2
  <2> QED BY <1>0, <2>1, <2>2, EffectOfOne
<1> QED BY <1>1, <1>2, <1>3

\* Taking over the lapsed lease is a hand-over between actors.
LEMMA TakeoverEffect ==
    ASSUME JournalInv, NEW w \in Workers, TakePhysicalLease(w) \/ TakeRouteLease(w)
    PROVE  Effect
<1>0. UNCHANGED <<row, prov, put>> /\ RowAdvances /\ w \in Actors
  BY RowStays, Constants DEF TakePhysicalLease, TakeRouteLease
<1>1. CASE TakePhysicalLease(w)
  <2>1. Only(w) /\ act'[w].pc = "leased"
    BY <1>0, <1>1, ActorMoves DEF TakePhysicalLease
  <2>2. Advances(w)
    BY <1>0, <2>1, RestAdvances DEF Resting
  <2>3. Turns
    BY <1>1, <2>1 DEF TakePhysicalLease, Turns, Takes
  <2> QED BY <1>0, <2>1, <2>2, <2>3, EffectOfOne
<1>2. CASE TakeRouteLease(w)
  <2>1. CASE /\ ~outer.live /\ row.st \notin Terminal
             /\ outer' = [holder |-> w, live |-> TRUE] /\ Goes(w, FirstStep(act[w].seen))
    <3>1. FirstStep(act[w].seen) \in {"abort", "mark", "probe", "claimed"}
      BY DEF FirstStep
    <3>2. Only(w) /\ act'[w].pc \in {"abort", "mark", "probe", "claimed"}
      BY <1>0, <2>1, <3>1, ActorMoves
    <3>3. Advances(w)
      BY <1>0, <2>1, <3>2, Constants DEF Advances
    <3>4. Turns
      BY <2>1, <3>2 DEF Turns, Takes
    <3> QED BY <1>0, <3>2, <3>3, <3>4, EffectOfOne
  <2>2. CASE UNCHANGED outer /\ Ended(w)
    <3>1. Only(w) /\ act'[w].pc = "idle"
      BY <1>0, <2>2, ActorReturns
    <3>2. Advances(w) /\ ~Working(w)'
      BY <1>0, <3>1, RestAdvances, Constants DEF Resting, Working, Active
    <3>3. Turns
      BY <2>2, <3>1, <3>2 DEF Turns, Waits
    <3> QED BY <1>0, <3>1, <3>2, <3>3, EffectOfOne
  <2> QED BY <1>2, <2>1, <2>2 DEF TakeRouteLease
<1> QED BY <1>1, <1>2

\* The process of the sink is lost, an attempt settles, the lease lapses.
LEMMA EnvironmentEffect ==
    ASSUME JournalInv,
           Crash \/ OuterLapses \/ \E n \in Attempts : ProviderLands(n) \/ ProviderLoses(n)
    PROVE  Effect
<1>0. /\ act \in [Actors -> Actor] /\ Sink \in Actors /\ Drop \in Actors /\ Sink # Drop
      /\ prov \in Provider /\ put.tries \in Nat
  BY Constants, RecordTypes DEF JournalInv, SinkRecord
<1>1. CASE Crash
  <2>1. act'[Sink].pc = "gone" /\ act'[Drop].pc = "gone"
    BY <1>0, <1>1 DEF Crash, AtRest
  <2>2. \A b \in Actors : b \notin {Sink, Drop} => act'[b] = act[b]
    BY <1>0, <1>1 DEF Crash
  <2>3. Advances(Sink) /\ Advances(Drop)
    BY <1>0, <2>1, RestAdvances DEF Resting
  <2>4. \A b \in Actors : Stepped(b)
    BY <2>2, <2>3 DEF Stepped
  <2>5. Shrinks /\ Deletes /\ RowAdvances
    BY <1>1, ProviderAlone, RowStays DEF Crash
  <2> QED BY <1>1, <2>4, <2>5 DEF Effect, Turns
<1>2. CASE OuterLapses
  <2>1. Shrinks /\ Deletes /\ RowAdvances
    BY <1>2, ProviderAlone, RowStays DEF OuterLapses
  <2>2. \A b \in Actors : Stepped(b)
    BY <1>2 DEF OuterLapses, Stepped
  <2> QED BY <1>2, <2>1, <2>2 DEF Effect, Turns
<1>3. ASSUME NEW n \in Attempts, ProviderLands(n) \/ ProviderLoses(n) PROVE Effect
  <2>0. UNCHANGED <<row, act, put, outer>> /\ n \in prov.flight
    BY <1>3 DEF ProviderLands, ProviderLoses
  <2>1. /\ prov'.exact = prov.exact /\ prov'.flight = prov.flight \ {n}
        /\ Stored \subseteq Stored' /\ Stored' \subseteq Stored \cup {n}
    <3>1. prov.landed \in [Attempts -> 0..MaxAttempts] /\ prov.landings \in Nat
      BY <1>0, Constants DEF Provider
    <3>2. CASE ProviderLands(n)
      <4>1. /\ prov'.exact = prov.exact /\ prov'.flight = prov.flight \ {n}
            /\ prov'.landed = [prov.landed EXCEPT ![n] = prov.landings + 1]
        BY <1>0, <3>2 DEF ProviderLands, Provider
      <4>2. \A u \in Attempts : prov'.landed[u] = IF u = n THEN prov.landings + 1 ELSE prov.landed[u]
        BY <3>1, <4>1
      <4> QED BY <3>1, <4>1, <4>2 DEF Stored
    <3>3. CASE ProviderLoses(n)
      <4>1. /\ prov'.exact = prov.exact /\ prov'.flight = prov.flight \ {n}
            /\ prov'.landed = prov.landed
        BY <1>0, <3>3 DEF ProviderLoses, Provider
      <4> QED BY <4>1 DEF Stored
    <3> QED BY <1>3, <3>2, <3>3
  <2>2. Shrinks /\ Deletes
    BY <1>0, <2>0, <2>1 DEF Shrinks, Deletes
  <2>3. RowAdvances /\ Turns
    BY <2>0, RowStays DEF Turns, Still
  <2>4. \A b \in Actors : Stepped(b)
    BY <2>0 DEF Stepped
  <2> QED BY <2>2, <2>3, <2>4 DEF Effect
<1> QED BY <1>1, <1>2, <1>3

-----------------------------------------------------------------------------
(* Time                                                                    *)

\* Time passes for the window and for the observations alike.
LEMMA TickSafe ==
    ASSUME JournalInv, SafeInv, Tick
    PROVE  SafeInv'
<1>0. /\ row \in Row /\ act \in [Actors -> Actor] /\ Sink \in Actors /\ Drop \in Actors
      /\ row.nb \in Int /\ row.nb >= -MaxStall /\ MaxStall \in Nat /\ Window \in Nat
  BY Constants, RecordTypes DEF JournalInv, Row
<1>1. UNCHANGED <<prov, put, outer>> /\ Stored' = Stored
  BY DEF Tick, Stored
<1>2. /\ row'.st = row.st /\ row'.sel = row.sel /\ row'.complete = row.complete
      /\ row'.nb = Most(row.nb - 1, -MaxStall)
  BY <1>0 DEF Tick, Row
<1>3. row'.nb \in Int /\ row'.nb >= row.nb - 1 /\ row'.nb <= Most(row.nb - 1, -MaxStall)
  BY <1>0, <1>2 DEF Most
<1>4. ASSUME NEW a \in Actors
      PROVE  /\ act'[a].pc = act[a].pc /\ act'[a].pick = act[a].pick
             /\ act'[a].doomed = act[a].doomed /\ act'[a].full = act[a].full
             /\ Dated(a) => act'[a].obs = act[a].obs + 1 /\ act[a].obs < MaxStall
             /\ act[a].obs \in Nat
  <2>1. act[a] \in Actor /\ act'[a] = IF Dated(a) THEN [act[a] EXCEPT !.obs = @ + 1] ELSE act[a]
    BY <1>0 DEF Tick
  <2>2. act[a].obs \in Nat
    BY <1>0, <2>1 DEF Actor
  <2> QED BY <2>1, <2>2 DEF Tick, Actor
<1>5. Nothing' <=> Nothing
  BY <1>1 DEF Nothing
<1>6. \A a \in Actors : Deciding(a)' <=> Deciding(a)
  BY <1>4 DEF Deciding
<1>7. Turns
  BY <1>1, <1>4 DEF Turns, Still
<1>8. Handover' /\ Exclusive' /\ (Mute => Mute')
  BY <1>7, TurnsKeep DEF SafeInv
<1>9. Accounted' /\ Untouched' /\ Loop'
  BY <1>0, <1>1, <1>2, <1>4, <1>5 DEF SafeInv, Accounted, Untouched, Loop
<1>10. InWindow'
  <2> SUFFICES ASSUME Prompt PROVE InWindow'
    BY DEF InWindow
  <2>1. /\ prov.flight # {} \/ act[Sink].pc = "send" => row.nb > 1
        /\ act[Sink].pc = "launching" => act[Sink].obs + 1 < Window
    BY DEF Tick
  <2>2. prov'.flight # {} \/ act'[Sink].pc = "send" => row'.nb >= 1
    BY <1>0, <1>1, <1>3, <1>4, <2>1
  <2>3. act'[Sink].pc = "launching" => act'[Sink].obs < Window
    BY <1>0, <1>4, <2>1 DEF Dated
  <2> QED BY <2>2, <2>3 DEF InWindow
<1>11. Sure'
  BY <1>0, <1>1, <1>2, <1>4 DEF SafeInv, Sure
<1>12. Absence'
  <2> SUFFICES ASSUME Prompt, Asserted \/ Timely PROVE Absence'
    BY DEF Absence
  <2>1. ASSUME NEW a \in Actors, act'[a].pc = "observed" PROVE TooEarly(a)' \/ Nothing'
    <3>1. TooEarly(a) \/ Nothing
      BY <1>4, <2>1 DEF SafeInv, Absence
    <3>2. TooEarly(a) => TooEarly(a)'
      BY <1>0, <1>3, <1>4, <2>1 DEF TooEarly, Dated
    <3> QED BY <1>5, <3>1, <3>2
  <2>2. ASSUME NEW a \in Actors, act'[a].pc \in {"unseen", "absent"} PROVE Nothing'
    BY <1>4, <1>5, <2>2 DEF SafeInv, Absence
  <2>3. row'.st = "ProvenAborted" => Nothing' /\ Mute'
    BY <1>2, <1>5, <1>8 DEF SafeInv, Absence
  <2> QED BY <2>1, <2>2, <2>3 DEF Absence
<1>13. Unresolved'
  BY <1>2, <1>6 DEF SafeInv, Unresolved
<1>14. Chosen'
  BY <1>1, <1>2, <1>4 DEF SafeInv, Chosen, CommittedStored
<1> QED BY <1>8, <1>9, <1>10, <1>11, <1>12, <1>13, <1>14 DEF SafeInv

-----------------------------------------------------------------------------
(* Theorems                                                                *)

\* The initial states satisfy the invariant.
LEMMA InitialSafe == Init => SafeInv
<1> SUFFICES ASSUME Init PROVE SafeInv
  OBVIOUS
<1>0. JournalInv /\ Sink \in Actors /\ Drop \in Actors /\ Sink # Drop
  BY InitialInv, Constants
<1>1. /\ prov.flight = {} /\ \A v \in Attempts : prov.landed[v] = 0
      /\ row.st = "none" /\ ~row.complete /\ row.nb = -MaxStall
      /\ put.tries = 0 /\ ~put.ambiguous /\ outer.holder = Sink /\ outer.live
  BY DEF Init
<1>2. \A a \in Actors : act[a].pc = IF a = Sink THEN "new" ELSE "idle"
  BY DEF Init, AtRest
<1>3. Nothing
  BY <1>1 DEF Nothing, Stored
<1>4. \A a \in Actors : a # Sink => ~Active(a) /\ ~Working(a)
  BY <1>2 DEF Active, Working
<1>5. \A a \in Actors : ~Deciding(a)
  BY <1>2 DEF Deciding, SharedSteps, Launching
<1>6. Accounted /\ Untouched /\ Loop
  BY <1>0, <1>1, <1>2, <1>3 DEF Accounted, Untouched, Loop, Nothing, Launching
<1>7. Handover /\ Exclusive
  BY <1>0, <1>1, <1>2, <1>4, Constants DEF Handover, Exclusive, Holder
<1>8. InWindow /\ Sure /\ Absence
  BY <1>0, <1>1, <1>2 DEF InWindow, Sure, Absence
<1>9. Unresolved /\ Chosen
  BY <1>1, <1>2, <1>5 DEF Unresolved, Chosen, CommittedStored
<1> QED BY <1>6, <1>7, <1>8, <1>9 DEF SafeInv

\* Every step preserves the invariant.
LEMMA StepSafe == JournalInv /\ SafeInv /\ [Next]_vars => JournalInv' /\ SafeInv'
<1> SUFFICES ASSUME JournalInv, SafeInv, [Next]_vars
             PROVE  JournalInv' /\ SafeInv'
  OBVIOUS
<1>0. JournalInv'
  BY StepInv
<1>1. CASE Next /\ ~Tick
  <2>1. ASSUME SinkStep PROVE Effect
    BY <2>1, OpeningEffect, LaunchEffect, SendEffect, SettlingEffect DEF SinkStep
  <2>2. ASSUME NEW a \in Actors, SharedStep(a) \/ ReadCandidate(a) \/ ClaimRow(a) \/ Fails(a)
        PROVE  Effect
    BY <2>2, AbortEffect, ProbeEffect, VerdictEffect, PassEffect DEF SharedStep
  <2>3. ASSUME NEW w \in Workers, TakePhysicalLease(w) \/ TakeRouteLease(w) PROVE Effect
    BY <2>3, TakeoverEffect
  <2>4. ASSUME Crash \/ OuterLapses \/ \E n \in Attempts : ProviderLands(n) \/ ProviderLoses(n)
        PROVE  Effect
    BY <2>4, EnvironmentEffect
  <2>5. Effect
    BY <1>1, <2>1, <2>2, <2>3, <2>4 DEF Next, TakeOuterLease
  <2> QED BY <1>0, <2>5, EffectSafe
<1>2. CASE Tick
  BY <1>0, <1>2, TickSafe
<1>3. CASE UNCHANGED vars
  <2>1. UNCHANGED <<row, prov, act, put, outer>>
    BY <1>3 DEF vars
  <2>2. Shrinks /\ Deletes /\ RowAdvances
    BY <2>1, ProviderAlone, RowStays
  <2>3. Turns /\ \A a \in Actors : Stepped(a)
    BY <2>1 DEF Turns, Still, Stepped
  <2> QED BY <1>0, <2>2, <2>3, EffectSafe DEF Effect
<1> QED BY <1>1, <1>2, <1>3

\* What holds of the actors, the lease, the provider and the row at every
\* moment, on which the theorems below rest.
THEOREM WritersTakeTurns == Spec => [](JournalInv /\ SafeInv)
<1>1. Init => JournalInv /\ SafeInv
  BY InitialInv, InitialSafe
<1> QED BY <1>1, StepSafe, PTL DEF Spec

\* Without exact recovery, a history recorded as complete is complete: only an
\* answered first attempt is taken for one, and no other request was or will be
\* sent.  For every lease and every provider.
THEOREM CompleteHistories == Spec => []HistorySure
<1>1. JournalInv /\ SafeInv => HistorySure
  BY DEF SafeInv, Sure, HistorySure, HistoryComplete
<1> QED BY <1>1, WritersTakeTurns, PTL

\* PROVEN_ABORTED is a proof: no version exists and none can still arrive,
\* when the provider settles a request within the ambiguity window and either
\* the lease is asserted on provider calls or nobody outlives it.
THEOREM AbortsAreProven ==
    ASSUME Prompt, Asserted \/ Timely
    PROVE  Spec => []AbortedLeavesNothing
<1>1. JournalInv /\ SafeInv => AbortedLeavesNothing
  BY DEF SafeInv, Absence, Nothing, AbortedLeavesNothing
<1> QED BY <1>1, WritersTakeTurns, PTL

\* The version a COMMITTED row names exists at the provider, when nobody
\* outlives the lease it works under: reconcilers that delete redundant
\* versions before they record their verdict take turns.
THEOREM CommittedIsStored ==
    ASSUME Timely
    PROVE  Spec => []CommittedStored
<1>1. JournalInv /\ SafeInv => CommittedStored
  BY DEF SafeInv, Chosen
<1> QED BY <1>1, WritersTakeTurns, PTL
=============================================================================
