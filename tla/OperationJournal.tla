-------------------------- MODULE OperationJournal --------------------------
(***************************************************************************)
(* One physical write and its row in the operation journal                 *)
(* (crates/gateway/src/transaction/journal.rs, mod.rs): the direct S3 sink *)
(* that stores the object in one PUT (transaction/s3.rs), the reconciler   *)
(* that takes over when the sink is dropped, and the recovery workers that *)
(* take over when its process is lost.                                     *)
(*                                                                         *)
(* Every SQL statement and every provider call is one step: the journal    *)
(* reads a row and updates it in two statements, deletes redundant         *)
(* versions before it records the verdict, and guards only the state       *)
(* column by compare-and-set.                                              *)
(*                                                                         *)
(* An outer lease keeps writers apart: the physical lease of a managed     *)
(* write (two hours, renewed, never asserted on provider calls) or the     *)
(* route lease of a workspace that brings its own bucket (a few seconds,   *)
(* asserted before every provider call).  The drop reconciler runs under   *)
(* the lease of its sink.                                                  *)
(*                                                                         *)
(* Times are kept relative to now: the ambiguity window left, the age of   *)
(* an observation.  Ages stop at the bounds past which the code cannot     *)
(* tell them apart.                                                        *)
(***************************************************************************)
EXTENDS Integers

CONSTANTS
    Sink, Drop,     \* the direct S3 sink, and the reconciler its drop signals
    Workers,        \* reconcilers of the recovery loops
    Nobody,         \* no owner
    MaxAttempts,    \* provider attempts of a PUT (3 in the code)
    Window,         \* PROVIDER_MUTATION_AMBIGUITY_WINDOW
    Separation,     \* EXACT_ABSENCE_CONFIRMATION_DELAY
    Stale,          \* stale_after of a reconciler
    Lease,          \* the lease of a journal claim
    Exactness,      \* exact_version_recovery of the backends considered
    Asserted,       \* provider calls assert the outer lease (route lease)
    Timely,         \* nobody outlives the outer lease it works under
    Steady,         \* workers whose passes do not fail
    Prompt,         \* an attempt lands or is lost within the window
    MaxStall        \* bound: time an actor may stall on a timestamp it took

Attempts == 1..MaxAttempts
Actors == {Sink, Drop} \cup Workers
None == -1

ASSUME JournalAssumption ==
    /\ Sink # Drop /\ Sink \notin Workers /\ Drop \notin Workers
    /\ Nobody \notin Actors
    /\ MaxAttempts \in Nat \ {0} /\ Window \in Nat \ {0}
    /\ Separation \in Nat \ {0} /\ Stale \in Nat /\ Lease \in Nat \ {0}
    /\ MaxStall \in Nat
    /\ Steady \subseteq Workers
    /\ Exactness \subseteq BOOLEAN /\ {Asserted, Timely, Prompt} \subseteq BOOLEAN

VARIABLES
    row,    \* the object_operation row
    prov,   \* the provider: attempts in flight, versions stored
    act,    \* the sink, the drop reconciler and the workers
    put,    \* the sink's retry loop: attempts made, prior_ambiguous
    outer   \* the lease the writers work under

vars == <<row, prov, act, put, outer>>

States == {"Intent", "Open", "Completing", "CommitUnknown", "Committed",
           "Aborting", "ProvenAborted"}
Terminal == {"Committed", "ProvenAborted"}

\* OperationState::can_transition_to.
CanTransition ==
    {<<"Intent", "Open">>, <<"Intent", "Aborting">>, <<"Open", "Completing">>,
     <<"Open", "Aborting">>, <<"Completing", "Committed">>,
     <<"Completing", "CommitUnknown">>, <<"Completing", "ProvenAborted">>,
     <<"CommitUnknown", "Committed">>, <<"CommitUnknown", "ProvenAborted">>,
     <<"Aborting", "ProvenAborted">>}

\* nb: time left before mutation_not_before_ms (-MaxStall: long past or unset);
\* absence: age of exact_absence_observed_at_ms; age: time since updated_at_ms;
\* lease: time left of the claim by owner; sel, complete: the recorded result.
Row ==
    [st : States \cup {"none"}, nb : (-MaxStall)..Window,
     absence : {None} \cup 0..(MaxStall + Separation), age : 0..Stale,
     lease : 0..Lease, owner : Actors \cup {Nobody},
     sel : Attempts \cup {None}, complete : BOOLEAN]

\* landed[v] is the place of version v in the order of last_modified, 0 when
\* the version does not exist (not stored yet, never stored, or deleted).
\* exact: the gateway can enumerate the exact versions of a write.
Provider ==
    [flight : SUBSET Attempts, landed : [Attempts -> 0..MaxAttempts],
     landings : 0..MaxAttempts, exact : BOOLEAN]

SinkSteps == {"new", "writing", "verified", "opening", "launch", "launching", "send", "sent",
              "refused", "exhausted", "recheck", "dropped", "done", "gone"}
SharedSteps == {"abort", "mark", "probe", "delete", "observed", "unseen", "absent"}
PassSteps == {"idle", "leased", "candidate", "route", "claimed", "done", "gone"}

\* What an actor holds between its steps: the state it expects in its next
\* compare-and-set, the age of a timestamp it took, the version it selected,
\* the redundant versions it has yet to delete, the completeness it will record.
Actor ==
    [pc : SinkSteps \cup SharedSteps \cup PassSteps, seen : States, obs : 0..MaxStall,
     pick : Attempts \cup {None}, doomed : SUBSET Attempts, full : BOOLEAN]

\* The type of the whole state.
TypeOK ==
    /\ row \in Row
    /\ prov \in Provider
    /\ act \in [Actors -> Actor]
    /\ put \in [tries : 0..MaxAttempts, ambiguous : BOOLEAN]
    /\ outer \in [holder : {Sink} \cup Workers, live : BOOLEAN]

AtRest(pc) == [pc |-> pc, seen |-> "Intent", obs |-> 0, pick |-> None,
               doomed |-> {}, full |-> FALSE]

Init ==
    /\ row = [st |-> "none", nb |-> -MaxStall, absence |-> None, age |-> 0, lease |-> 0,
              owner |-> Nobody, sel |-> None, complete |-> FALSE]
    /\ \E e \in Exactness :
          prov = [flight |-> {}, landed |-> [v \in Attempts |-> 0], landings |-> 0, exact |-> e]
    /\ act = [a \in Actors |-> AtRest(IF a = Sink THEN "new" ELSE "idle")]
    /\ put = [tries |-> 0, ambiguous |-> FALSE]
    /\ outer = [holder |-> Sink, live |-> TRUE]

-----------------------------------------------------------------------------
(* Helpers                                                                 *)

Stored == {v \in Attempts : prov.landed[v] > 0}

\* The candidate of resolve_exact_version_history without a preference.
Latest == CHOOSE v \in Stored : \A u \in Stored : prov.landed[u] <= prov.landed[v]

\* The lease an actor works under, and ProviderMutationFence::assert_current.
Holder(a) == IF a \in Workers THEN a ELSE Sink
Fenced(a) == Asserted => outer = [holder |-> Holder(a), live |-> TRUE]

\* The actor's call returns: an error of the sink drops it unfinished, a
\* reconciler's pass is over.
Ended(a) ==
    act' = [act EXCEPT ![a] = AtRest(CASE a = Sink -> "dropped"
                                       [] a = Drop -> "done"
                                       [] OTHER -> "idle")]

\* The sink's call succeeds with version v (None: the write is aborted).
Finished(v) == act' = [act EXCEPT ![Sink] = [AtRest("done") EXCEPT !.pick = v]]

Goes(a, pc) == act' = [act EXCEPT ![a].pc = pc]

-----------------------------------------------------------------------------
(* Statements of the journal                                               *)

\* Mutant: a transition that does not filter on the expected state.
MutTransition(from, to) ==
    row' = [row EXCEPT !.st = to, !.age = 0, !.lease = 0, !.owner = Nobody]

\* transition: one UPDATE filtered on the expected state; it also clears the
\* claim of whoever reconciles the row.
Transition(from, to) ==
    /\ <<from, to>> \in CanTransition /\ row.st = from
    /\ row' = [row EXCEPT !.st = to, !.age = 0, !.lease = 0, !.owner = Nobody]

\* A transition the caller needs: without it the call returns an error.
TransitionOrFail(a, from, to, pc) ==
    \/ Transition(from, to) /\ Goes(a, pc)
    \/ row.st # from /\ UNCHANGED row /\ Ended(a)

\* transition to COMMITTED, with the object metadata the actor holds.
RecordCommit(a) ==
    /\ row.st = act[a].seen
    /\ row' = [row EXCEPT !.st = "Committed", !.age = 0, !.lease = 0, !.owner = Nobody,
                          !.sel = act[a].pick, !.complete = act[a].full]

\* Mutant: the window accumulates over the launches.
MutRecordLaunch == row' = [row EXCEPT !.nb = row.nb + Window, !.absence = None, !.age = 0]

\* The UPDATE of record_mutation_launch: not_before was computed before the
\* SELECT and the state is not checked again.
RecordLaunch ==
    row' = [row EXCEPT !.nb = IF Window - act[Sink].obs > row.nb
                              THEN Window - act[Sink].obs ELSE row.nb,
                       !.absence = None, !.age = 0]

-----------------------------------------------------------------------------
(* The direct S3 sink                                                      *)

\* DirectS3Sink::from_operation: insert_intent.
InsertIntent ==
    /\ act[Sink].pc = "new"
    /\ row' = [row EXCEPT !.st = "Intent"]
    /\ Goes(Sink, "writing")
    /\ UNCHANGED <<prov, put, outer>>

\* verify_output: set_expected on an INTENT or OPEN row.
VerifyOutput ==
    /\ act[Sink].pc = "writing"
    /\ \/ /\ row.st \in {"Intent", "Open"}
          /\ row' = [row EXCEPT !.age = 0]
          /\ Goes(Sink, "verified")
       \/ row.st \notin {"Intent", "Open"} /\ UNCHANGED row /\ Ended(Sink)
    /\ UNCHANGED <<prov, put, outer>>

\* complete_single_put: set_open.
SetOpen ==
    /\ act[Sink].pc = "verified"
    /\ \/ /\ row.st = "Intent"
          /\ row' = [row EXCEPT !.st = "Open", !.age = 0]
          /\ act' = [act EXCEPT ![Sink].pc = "opening", ![Sink].seen = "Open"]
       \/ row.st # "Intent" /\ UNCHANGED row /\ Ended(Sink)
    /\ UNCHANGED <<prov, put, outer>>

StartCompleting ==
    /\ act[Sink].pc = "opening"
    /\ \/ /\ Transition("Open", "Completing")
          /\ act' = [act EXCEPT ![Sink].pc = "launch", ![Sink].seen = "Completing"]
       \/ row.st # "Open" /\ UNCHANGED row /\ Ended(Sink)
    /\ UNCHANGED <<prov, put, outer>>

\* record_mutation_launch: the SELECT, which refuses a terminal row.
LaunchRead ==
    /\ act[Sink].pc = "launch"
    /\ \/ row.st \notin Terminal /\ act' = [act EXCEPT ![Sink].pc = "launching", ![Sink].obs = 0]
       \/ row.st \in Terminal /\ Ended(Sink)
    /\ UNCHANGED <<row, prov, put, outer>>

LaunchWrite ==
    /\ act[Sink].pc = "launching"
    /\ RecordLaunch
    /\ act' = [act EXCEPT ![Sink].pc = "send", ![Sink].obs = 0]
    /\ UNCHANGED <<prov, put, outer>>

\* An attempt whose outcome is unknown: another one, or the budget is spent.
Ambiguous(tries) ==
    /\ put' = [tries |-> tries, ambiguous |-> TRUE]
    /\ Goes(Sink, IF tries < MaxAttempts THEN "launch" ELSE "exhausted")

\* put_object: the request leaves, unless the fence is lost.
Send ==
    LET n == put.tries + 1 IN
    /\ act[Sink].pc = "send"
    /\ \/ /\ Fenced(Sink)
          /\ prov' = [prov EXCEPT !.flight = @ \cup {n}]
          /\ put' = [put EXCEPT !.tries = n]
          /\ Goes(Sink, "sent")
       \/ ~Fenced(Sink) /\ Ambiguous(n) /\ UNCHANGED prov
    /\ UNCHANGED <<row, outer>>

\* Mutant: a retry's answer is taken for the whole history.
MutWholeHistory(n) == TRUE

\* version_history_complete of an answered attempt.
WholeHistory(n) == prov.exact \/ n = 1

\* The PUT is answered and its version found in the exact history; every
\* other version of the write is redundant.
Answered ==
    LET n == put.tries IN
    /\ act[Sink].pc = "sent" /\ n \in Stored /\ Fenced(Sink)
    /\ act' = [act EXCEPT ![Sink] = [@ EXCEPT !.pc = "delete", !.pick = n,
                   !.doomed = IF prov.exact THEN Stored \ {n} ELSE {},
                   !.full = WholeHistory(n)]]
    /\ UNCHANGED <<row, prov, put, outer>>

\* A timeout, a lost answer, a lost fence, or a version that is not enumerable.
Unanswered ==
    /\ act[Sink].pc = "sent"
    /\ Ambiguous(put.tries)
    /\ UNCHANGED <<row, prov, outer>>

\* The provider refuses the attempt; after an ambiguous one this proves nothing.
Refused ==
    /\ act[Sink].pc = "sent" /\ put.tries \in prov.flight
    /\ prov' = [prov EXCEPT !.flight = @ \ {put.tries}]
    /\ \/ put.ambiguous /\ Ambiguous(put.tries)
       \/ ~put.ambiguous /\ Goes(Sink, "refused") /\ UNCHANGED put
    /\ UNCHANGED <<row, outer>>

RefusedAborts ==
    /\ act[Sink].pc = "refused"
    /\ \/ Transition("Completing", "ProvenAborted") /\ Finished(None)
       \/ row.st # "Completing" /\ UNCHANGED row /\ Ended(Sink)
    /\ UNCHANGED <<prov, put, outer>>

\* Mutant: the result is returned although the journal refused it.
MutSinkCommits ==
    /\ act[Sink].pc = "delete" /\ act[Sink].doomed = {} /\ act[Sink].seen = "Completing"
    /\ Finished(act[Sink].pick)
    /\ \/ RecordCommit(Sink)
       \/ row.st # "Completing" /\ UNCHANGED row
    /\ UNCHANGED <<prov, put, outer>>

\* The verdict of an answered PUT.  A transition that fails, or whose answer
\* is lost, sends the sink to reconcile_completion.
SinkCommits ==
    /\ act[Sink].pc = "delete" /\ act[Sink].doomed = {} /\ act[Sink].seen = "Completing"
    /\ \/ RecordCommit(Sink) /\ Finished(act[Sink].pick)
       \/ RecordCommit(Sink) /\ Goes(Sink, "recheck")
       \/ UNCHANGED row /\ Goes(Sink, "recheck")
    /\ UNCHANGED <<prov, put, outer>>

\* mark_commit_unknown after the last attempt.
Exhausted ==
    /\ act[Sink].pc = "exhausted"
    /\ TransitionOrFail(Sink, "Completing", "CommitUnknown", "recheck")
    /\ UNCHANGED <<prov, put, outer>>

\* reconcile_completion reads the row again.
Recheck ==
    /\ act[Sink].pc = "recheck"
    /\ \/ row.st = "Committed" /\ Finished(row.sel)
       \/ /\ row.st \in {"Completing", "CommitUnknown"}
          /\ act' = [act EXCEPT ![Sink] = [AtRest("probe") EXCEPT
                         !.pc = IF row.st = "Completing" THEN "mark" ELSE "probe",
                         !.seen = row.st]]
       \/ row.st \notin {"Committed", "Completing", "CommitUnknown"} /\ Ended(Sink)
    /\ UNCHANGED <<row, prov, put, outer>>

SinkStep ==
    \/ InsertIntent \/ VerifyOutput \/ SetOpen \/ StartCompleting
    \/ LaunchRead \/ LaunchWrite \/ Send \/ Answered \/ Unanswered \/ Refused
    \/ RefusedAborts \/ SinkCommits \/ Exhausted \/ Recheck

-----------------------------------------------------------------------------
(* Steps the sink and the reconcilers share                                *)

\* The sink's abort of an upload that never completed, or the reconciler's of
\* an INTENT or OPEN row.
BeginAbort(a) ==
    /\ act[a].pc \in IF a = Sink THEN {"writing", "verified", "opening"} ELSE {"claimed"}
    /\ TransitionOrFail(a, act[a].seen, "Aborting", "abort")
    /\ UNCHANGED <<prov, put, outer>>

\* Incomplete uploads are aborted at the provider, then the row.
FinishAbort(a) ==
    /\ act[a].pc = "abort" /\ Fenced(a)
    /\ \/ /\ Transition("Aborting", "ProvenAborted")
          /\ IF a = Sink THEN Finished(None) ELSE Ended(a)
       \/ row.st # "Aborting" /\ UNCHANGED row /\ Ended(a)
    /\ UNCHANGED <<prov, put, outer>>

MarkUnknown(a) ==
    /\ act[a].pc = "mark"
    /\ \/ /\ Transition("Completing", "CommitUnknown")
          /\ act' = [act EXCEPT ![a].pc = "probe", ![a].seen = "CommitUnknown"]
       \/ row.st # "Completing" /\ UNCHANGED row /\ Ended(a)
    /\ UNCHANGED <<prov, put, outer>>

\* Mutant: the selected version is listed as redundant too.
MutRedundant == IF prov.exact THEN Stored ELSE {}

\* superseded_version_ids of the selected version.
Redundant == IF prov.exact THEN Stored \ {Latest} ELSE {}

\* probe_completion (finalized_multipart).  Without exact recovery an absence
\* is inconclusive and a discovered completion has no complete history.
Probe(a) ==
    /\ act[a].pc = "probe" /\ Fenced(a)
    /\ \/ /\ Stored # {}
          /\ act' = [act EXCEPT ![a] = [@ EXCEPT !.pc = "delete", !.pick = Latest,
                                          !.doomed = Redundant, !.full = prov.exact]]
       \/ /\ Stored = {} /\ prov.exact
          /\ act' = [act EXCEPT ![a].pc = "observed", ![a].obs = 0]
       \/ Stored = {} /\ ~prov.exact /\ Ended(a)
    /\ UNCHANGED <<row, prov, put, outer>>

\* delete_object_version, before the verdict is recorded.
DeleteRedundant(a) ==
    /\ act[a].pc = "delete" /\ Fenced(a)
    /\ \E v \in act[a].doomed :
          /\ prov' = [prov EXCEPT !.landed[v] = 0]
          /\ act' = [act EXCEPT ![a].doomed = @ \ {v}]
    /\ UNCHANGED <<row, put, outer>>

\* The verdict of a discovered completion.
CommitFound(a) ==
    /\ act[a].pc = "delete" /\ act[a].doomed = {} /\ act[a].seen = "CommitUnknown"
    /\ \/ RecordCommit(a) /\ IF a = Sink THEN Finished(act[a].pick) ELSE Ended(a)
       \/ row.st # "CommitUnknown" /\ UNCHANGED row /\ Ended(a)
    /\ UNCHANGED <<prov, put, outer>>

\* Mutant: no ambiguity window.
MutTooEarly(a) == FALSE

\* observed_at_ms lies before mutation_not_before_ms.
TooEarly(a) == -act[a].obs < row.nb

\* Mutant: one observation is enough.
MutConfirmRead(a) ==
    /\ act[a].pc = "observed"
    /\ \/ TooEarly(a) /\ Ended(a)
       \/ ~TooEarly(a) /\ Goes(a, "absent")
    /\ UNCHANGED <<row, prov, put, outer>>

\* confirm_exact_absence: the SELECT and what it decides.
ConfirmRead(a) ==
    LET first == row.absence IN
    /\ act[a].pc = "observed"
    /\ \/ TooEarly(a) /\ Ended(a)
       \/ ~TooEarly(a) /\ first = None /\ Goes(a, "unseen")
       \/ /\ ~TooEarly(a) /\ first # None
          /\ IF first - act[a].obs >= Separation THEN Goes(a, "absent") ELSE Ended(a)
    /\ UNCHANGED <<row, prov, put, outer>>

\* Mutant: the first observation is never stored.
MutConfirmWrite(a) ==
    /\ act[a].pc = "unseen"
    /\ Ended(a)
    /\ UNCHANGED <<row, prov, put, outer>>

\* confirm_exact_absence: the UPDATE, whatever happened since the SELECT.
ConfirmWrite(a) ==
    /\ act[a].pc = "unseen"
    /\ row' = [row EXCEPT !.absence = act[a].obs, !.age = 0]
    /\ Ended(a)
    /\ UNCHANGED <<prov, put, outer>>

\* The absence is confirmed; a reconciler first aborts incomplete uploads.
AbsentAborts(a) ==
    /\ act[a].pc = "absent" /\ (a # Sink => Fenced(a))
    /\ Ended(a)
    /\ \/ Transition("CommitUnknown", "ProvenAborted")
       \/ row.st # "CommitUnknown" /\ UNCHANGED row
    /\ UNCHANGED <<prov, put, outer>>

SharedStep(a) ==
    \/ BeginAbort(a) \/ FinishAbort(a) \/ MarkUnknown(a) \/ Probe(a) \/ DeleteRedundant(a)
    \/ CommitFound(a) \/ ConfirmRead(a) \/ ConfirmWrite(a) \/ AbsentAborts(a)

-----------------------------------------------------------------------------
(* Reconcilers                                                             *)

\* A managed pass takes over the lapsed physical lease before it reconciles.
TakePhysicalLease(w) ==
    /\ ~Asserted /\ act[w].pc = "idle" /\ ~outer.live /\ row.st \notin Terminal \cup {"none"}
    /\ outer' = [holder |-> w, live |-> TRUE]
    /\ Goes(w, "leased")
    /\ UNCHANGED <<row, prov, put>>

\* The drop signal of an unfinished sink, a managed pass, or the periodic
\* hook of a workspace's own bucket.
MayReconcile(a) ==
    \/ a = Drop /\ act[Drop].pc = "idle" /\ act[Sink].pc = "dropped"
    \/ a \in Workers /\ act[a].pc = IF Asserted THEN "idle" ELSE "leased"

\* claim_reconcilable_operation: the SELECT of a stale, unclaimed candidate.
Claimable == row.st \notin Terminal \cup {"none"} /\ row.age = Stale /\ row.lease = 0

ReadCandidate(a) ==
    /\ MayReconcile(a)
    /\ \/ Claimable /\ act' = [act EXCEPT ![a].pc = "candidate", ![a].seen = row.st]
       \/ ~Claimable /\ (a = Drop \/ ~Asserted) /\ Ended(a)
    /\ UNCHANGED <<row, prov, put, outer>>

\* reconcile: the first step for the state the candidate had.
FirstStep(st) ==
    CASE st \in {"Intent", "Open"} -> "claimed"
      [] st = "Aborting" -> "abort"
      [] st = "Completing" -> "mark"
      [] OTHER -> "probe"

\* The UPDATE of the claim, filtered on the lease alone.
ClaimRow(a) ==
    /\ act[a].pc = "candidate"
    /\ \/ /\ row.lease = 0
          /\ row' = [row EXCEPT !.lease = Lease, !.owner = a]
          /\ Goes(a, IF Asserted /\ a \in Workers THEN "route" ELSE FirstStep(act[a].seen))
       \/ row.lease > 0 /\ UNCHANGED row /\ Ended(a)
    /\ UNCHANGED <<prov, put, outer>>

\* recover_workspace_operation: the lapsed route lease is taken over by the
\* owner of the journal claim.
TakeRouteLease(w) ==
    /\ act[w].pc = "route"
    /\ \/ /\ ~outer.live /\ row.owner = w /\ row.st \notin Terminal
          /\ outer' = [holder |-> w, live |-> TRUE]
          /\ Goes(w, FirstStep(act[w].seen))
       \/ /\ outer.live \/ row.owner # w \/ row.st \in Terminal
          /\ UNCHANGED outer /\ Ended(w)
    /\ UNCHANGED <<row, prov, put>>

\* A workspace's own bucket is fenced by route leases, a managed one by physical leases.
TakeOuterLease(w) == IF Asserted THEN TakeRouteLease(w) ELSE TakePhysicalLease(w)

-----------------------------------------------------------------------------
(* Failures, the provider, time                                            *)

Active(a) == act[a].pc \notin {"new", "idle", "dropped", "done", "gone"}

\* A statement or a provider call fails, the fence is lost, or the caller
\* cancels: the call returns an error where it stands.
Fails(a) ==
    /\ Active(a) /\ a \notin Steady
    /\ Ended(a)
    /\ UNCHANGED <<row, prov, put, outer>>

\* The process of the sink is lost, and with it the drop signal.
Crash ==
    /\ act[Sink].pc \notin {"new", "gone"}
    /\ act' = [act EXCEPT ![Sink] = AtRest("gone"), ![Drop] = AtRest("gone")]
    /\ UNCHANGED <<row, prov, put, outer>>

ProviderLands(n) ==
    /\ n \in prov.flight
    /\ prov' = [prov EXCEPT !.flight = @ \ {n}, !.landings = @ + 1,
                            !.landed[n] = prov.landings + 1]
    /\ UNCHANGED <<row, act, put, outer>>

ProviderLoses(n) ==
    /\ n \in prov.flight
    /\ prov' = [prov EXCEPT !.flight = @ \ {n}]
    /\ UNCHANGED <<row, act, put, outer>>

\* Someone still works under the outer lease, or is about to.
AtWork ==
    IF outer.holder = Sink
    THEN \/ Active(Sink) \/ Active(Drop) \/ act[Sink].pc = "new"
         \/ act[Sink].pc = "dropped" /\ act[Drop].pc = "idle"
    ELSE Active(outer.holder)

\* A physical lease outlasts a journal claim and is as long as stale_after.
OuterLapses ==
    /\ outer.live /\ (Timely => ~AtWork /\ row.lease = 0 /\ row.age = Stale)
    /\ outer' = [outer EXCEPT !.live = FALSE]
    /\ UNCHANGED <<row, prov, act, put>>

\* Actors holding a timestamp they took.
Dated(a) == act[a].pc \in {"observed", "unseen", "launching"}

Least(x, y) == IF x < y THEN x ELSE y
Most(x, y) == IF x > y THEN x ELSE y

\* A unit of time passes.  Nobody stalls on a timestamp for more than MaxStall;
\* a prompt attempt leaves and settles while its window is open.
Tick ==
    /\ \A a \in Actors : Dated(a) => act[a].obs < MaxStall
    /\ Prompt => /\ prov.flight # {} \/ act[Sink].pc = "send" => row.nb > 1
                 /\ act[Sink].pc = "launching" => act[Sink].obs + 1 < Window
    /\ row' = [row EXCEPT !.nb = Most(@ - 1, -MaxStall),
                          !.absence = IF @ = None THEN None
                                      ELSE Least(@ + 1, MaxStall + Separation),
                          !.age = Least(@ + 1, Stale), !.lease = Most(@ - 1, 0)]
    /\ act' = [a \in Actors |-> IF Dated(a) THEN [act[a] EXCEPT !.obs = @ + 1] ELSE act[a]]
    /\ UNCHANGED <<prov, put, outer>>

-----------------------------------------------------------------------------
(* Specification                                                           *)

Next ==
    \/ SinkStep
    \/ \E a \in Actors : SharedStep(a) \/ ReadCandidate(a) \/ ClaimRow(a) \/ Fails(a)
    \/ \E w \in Workers : TakeOuterLease(w)
    \/ Crash
    \/ \E n \in Attempts : ProviderLands(n) \/ ProviderLoses(n)
    \/ OuterLapses
    \/ Tick

Spec == Init /\ [][Next]_vars

PassStep(a) == SharedStep(a) \/ ReadCandidate(a) \/ ClaimRow(a)

\* Time passes, the provider settles what it accepted, the physical lease of
\* someone gone lapses, and a pass returns, with an error or not.  A steady
\* worker is not beaten to the lapsed lease for ever.  The sink gets no fairness.
Fairness ==
    /\ SF_vars(Tick) /\ WF_vars(OuterLapses)
    /\ WF_vars(\E n \in Attempts : ProviderLands(n) \/ ProviderLoses(n))
    /\ \A a \in Actors \ {Sink} : WF_vars(PassStep(a) \/ Fails(a))
    /\ \A w \in Steady : SF_vars(TakePhysicalLease(w))

FairSpec == Spec /\ Fairness

-----------------------------------------------------------------------------
(* Properties                                                              *)

\* The version a COMMITTED row names exists at the provider: nobody deleted
\* it as redundant between selecting and recording it.
CommittedStored == row.st = "Committed" => row.sel \in Stored

\* PROVEN_ABORTED is a proof: no version exists and none can still arrive.
AbortedLeavesNothing == row.st = "ProvenAborted" => Stored = {} /\ prov.flight = {}

\* A recorded absence was observed after the last launch's window: a launch
\* invalidates any earlier observation.
LaunchVoidsAbsence == row.absence # None => row.nb <= 0

\* An unknown completion is declared aborted only on the strength of two
\* observations, a separation apart, both after the window.
AbsenceConfirmed ==
    [][row.st = "CommitUnknown" /\ row'.st = "ProvenAborted" =>
        row.absence # None /\ row.absence >= Separation /\ row.nb <= 0]_vars

\* A complete version history is one: no version but the selected one exists.
HistoryComplete == row.st = "Committed" /\ row.complete => Stored \subseteq {row.sel}

\* Without exact recovery, a history recorded as complete is complete: only a
\* first attempt that was answered is taken for one.
HistorySure == ~prov.exact => HistoryComplete

\* The verdict and the recorded result are final, whoever else still works on
\* the row.
ResultFinal ==
    [][row.st \in Terminal =>
        row'.st = row.st /\ row'.sel = row.sel /\ row'.complete = row.complete]_vars

\* What the sink returned to its caller is what the journal says.
AnswerRecorded ==
    act[Sink].pc = "done" =>
        IF act[Sink].pick = None THEN row.st = "ProvenAborted"
        ELSE row.st = "Committed" /\ row.sel = act[Sink].pick

\* A row whose sink is gone reaches a verdict.  A sink that is gone stays gone and a row
\* that exists stays, so having a verdict again and again is the same as reaching one.
Resolves == []<>(row.st # "none" /\ act[Sink].pc \in {"dropped", "gone"} => row.st \in Terminal)
=============================================================================
