----------------------------- MODULE FileJournal -----------------------------
(***************************************************************************)
(* FileOperationJournal: the operation journal of a single host, one event  *)
(* log per operation.  The calls of the journal are the events below; each  *)
(* is validated by the reducer, written and synced under the journal's      *)
(* mutex.  One operation is modelled, with its parts and evidence.          *)
(***************************************************************************)
EXTENDS Integers, Sequences

CONSTANTS
    Refs, NoRef,    \* client multipart upload ids, no reference
    Owners, Nobody, \* reconcilers, no lease
    Digests, NoPart,\* contents of the operation's part, part not recorded
    CompactAfter, MaxEvents, MaxCrashes

VARIABLES files, mem, past

journalVars == <<files, mem, past>>

States == {"Intent", "Open", "Completing", "CommitUnknown", "Committed",
           "Aborting", "ProvenAborted"}
TerminalStates == {"Committed", "ProvenAborted"}
Times == 1..2

CanTransition ==
    {<<"Intent", "Open">>, <<"Intent", "Aborting">>, <<"Open", "Completing">>,
     <<"Open", "Aborting">>, <<"Completing", "Committed">>,
     <<"Completing", "CommitUnknown">>, <<"Completing", "ProvenAborted">>,
     <<"CommitUnknown", "Committed">>, <<"CommitUnknown", "ProvenAborted">>,
     <<"Aborting", "ProvenAborted">>}

\* FileOperationSnapshotV1: notBefore and absent are 0 when not set.
Retired == [st |-> "none", ref |-> NoRef, notBefore |-> 0, absent |-> 0,
            owner |-> Nobody, part |-> NoPart, expected |-> FALSE]
Rejected == [Retired EXCEPT !.st = "rejected"]

-----------------------------------------------------------------------------
(* FileOperationTransitionV1                                               *)

Event(type, a, b) == [type |-> type, a |-> a, b |-> b]
IntentInserted == Event("IntentInserted", "Intent", NoRef)
Opened == Event("Opened", "Open", NoRef)
ExpectedChanged == Event("ExpectedChanged", "Open", NoRef)
ReferenceChanged(from, to) == Event("ReferenceChanged", from, to)
StateChanged(from, to) == Event("StateChanged", from, to)
PartRecorded(digest) == Event("PartRecorded", digest, NoRef)
MutationLaunched(time) == Event("MutationLaunched", time, NoRef)
ExactAbsenceObserved(time) == Event("ExactAbsenceObserved", time, NoRef)
Claimed(owner) == Event("Claimed", owner, NoRef)
TerminalRetired(st, ref) == Event("TerminalRetired", st, ref)

Later(x, y) == IF x > y THEN x ELSE y

\* A part may be recorded again, with the same content.
MutSamePart(row, digest) == TRUE
SamePart(row, digest) == row.part \in {NoPart, digest}

\* The preconditions of reduce_transition.
Accepts(row, ev) ==
    IF ev.type = "IntentInserted" THEN row = Retired
    ELSE /\ row.st # "none"
         /\ CASE ev.type = "Opened" -> row.st = "Intent"
              [] ev.type = "ReferenceChanged" -> row.ref = ev.a
              [] ev.type = "ExpectedChanged" -> row.st \in {"Intent", "Open"}
              [] ev.type = "StateChanged" -> <<ev.a, ev.b>> \in CanTransition /\ row.st = ev.a
              [] ev.type = "PartRecorded" -> SamePart(row, ev.a)
              [] ev.type \in {"MutationLaunched", "Claimed"} -> row.st \notin TerminalStates
              [] ev.type = "ExactAbsenceObserved" -> row.absent = 0
              [] ev.type = "TerminalRetired" -> ev.a \in TerminalStates /\ row.st = ev.a /\ row.ref = ev.b

\* record_mutation_launch voids an absence observed before.
MutLaunch(row, time) == [row EXCEPT !.notBefore = Later(@, time)]
Launch(row, time) == [row EXCEPT !.notBefore = Later(@, time), !.absent = 0]

\* What reduce_transition changes once the event is accepted.
Effect(row, ev) ==
    CASE ev.type = "IntentInserted" -> [Retired EXCEPT !.st = "Intent"]
      [] ev.type = "Opened" -> [row EXCEPT !.st = "Open"]
      [] ev.type = "ReferenceChanged" -> [row EXCEPT !.ref = ev.b]
      [] ev.type = "ExpectedChanged" -> [row EXCEPT !.expected = TRUE]
      [] ev.type = "StateChanged" -> [row EXCEPT !.st = ev.b, !.owner = Nobody]
      [] ev.type = "PartRecorded" -> [row EXCEPT !.part = ev.a]
      [] ev.type = "MutationLaunched" -> Launch(row, ev.a)
      [] ev.type = "ExactAbsenceObserved" -> [row EXCEPT !.absent = ev.a]
      [] ev.type = "Claimed" -> [row EXCEPT !.owner = ev.a]
      [] ev.type = "TerminalRetired" -> Retired

ReduceTransition(row, ev) == IF Accepts(row, ev) THEN Effect(row, ev) ELSE Rejected

INSTANCE EventLog WITH Reduce <- ReduceTransition, Empty <- Retired, Invalid <- Rejected

-----------------------------------------------------------------------------
(* OperationJournal for FileOperationJournal                               *)

InsertIntent == CreateDirectory(IntentInserted) \/ Append1(IntentInserted)
SetOpen == Append1(Opened)
SetExpected == Append1(ExpectedChanged)
ChangeReference == \E from, to \in Refs \cup {NoRef} : from # to /\ Append1(ReferenceChanged(from, to))
Transition == \E e \in CanTransition : Append1(StateChanged(e[1], e[2]))
RecordPart == \E d \in Digests : Append1(PartRecorded(d))
RecordMutationLaunch == \E t \in Times : Append1(MutationLaunched(t))

\* Before the mutation window, or once an absence is on record, the answer
\* needs no event.
ConfirmExactAbsence ==
    \E t \in Times : t >= mem.state.notBefore /\ mem.state.absent = 0
                        /\ Append1(ExactAbsenceObserved(t))

\* claim_reconcilable and claim_reconcilable_operation; whether the row is stale
\* and the lease before it lapsed depends on clocks and is left open.
ClaimReconcilable == \E o \in Owners : Append1(Claimed(o))
RetireTerminal == \E st \in TerminalStates, ref \in Refs \cup {NoRef} : Append1(TerminalRetired(st, ref))

JournalCall ==
    \/ InsertIntent \/ SetOpen \/ SetExpected \/ ChangeReference \/ Transition \/ RecordPart
    \/ RecordMutationLaunch \/ ConfirmExactAbsence \/ ClaimReconcilable \/ RetireTerminal

JournalInit == LogInit
JournalNext == JournalCall \/ LogStep
JournalSpec == JournalInit /\ [][JournalNext]_journalVars

-----------------------------------------------------------------------------
(* Properties                                                              *)

\* Until it is retired an operation keeps its verdict and its recorded part,
\* whatever calls, retries and crashes follow.
RecordsFinal ==
    \A i \in 1..(Len(past.truth) - 1) :
        LET old == past.truth[i]
            new == past.truth[i + 1]
        IN  new # Retired =>
              /\ old.st \in TerminalStates => new.st = old.st
              /\ old.part # NoPart => new.part = old.part

\* An absence on record was observed at or after the end of the mutation window
\* of every launch, in memory and in every state a restart can load.
AbsenceOutlastsLaunches ==
    \A i \in 1..Len(past.truth) :
        past.truth[i].absent > 0 => past.truth[i].absent >= past.truth[i].notBefore

\* What a process that replayed the journal serves is what its acknowledged events
\* add up to, none lost, skipped or applied twice by a failed sync, a crash or an
\* interrupted compaction, and a recorded verdict, part or absence is final
\* (transaction/file_journal.rs, filesystem_persistence.rs).
JournalReplays == ReplayExact /\ AcknowledgedOnDisk /\ RecordsFinal /\ AbsenceOutlastsLaunches
=============================================================================
