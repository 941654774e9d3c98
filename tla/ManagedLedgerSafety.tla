------------------------ MODULE ManagedLedgerSafety ------------------------
(***************************************************************************)
(* What the rows of a managed write say about the provider, and that the   *)
(* ledger keeps the byte contract of WorkspaceLedger: theorems about       *)
(* ManagedLedger for every set of operations, keys and workers.            *)
(***************************************************************************)
EXTENDS ManagedLedgerProofs, WellFoundedInduction

Untouched(o) == prov[o].inflight = {} /\ prov[o].versions = {}

\* An operation that was not admitted has nothing anywhere; a request that is about to
\* begin its child has none yet, one that has begun it still has its intent, and one that
\* has launched an attempt has moved its child on.
FreshRow(o) ==
    /\ op[o].state = "none" => child[o].st = "none" /\ Untouched(o)
    /\ req[o].pc \in {"admitted", "begun"} => child[o].st = "none"
    /\ req[o].pc = "begun" => intent[o].st # "none"
    /\ req[o].pc = "launched" => child[o].st # "Open"

\* An intent belongs to an unsettled operation, and covers every child and every mutation.
CoveredRow(o) ==
    /\ intent[o].st # "none" => op[o].state \in Unsettled
    /\ op[o].state \in Unsettled =>
          /\ child[o].st = "none" => Untouched(o)
          /\ child[o].st # "none" => intent[o].st # "none"

\* What the journal says of the child is true at the provider.
ChildTrue(o) ==
    /\ child[o].st \in {"Open", "ProvenAborted"} \/ child[o].absence => Untouched(o)
    /\ op[o].state \in Unsettled /\ child[o].st = "Committed"
          => child[o].versions \cap prov[o].versions # {}

\* And so is what the operation says.
VerdictTrue(o) ==
    /\ op[o].state = "ProvenAborted" => Untouched(o) /\ child[o].st \notin ChildUnresolved
    /\ op[o].state = "Committed" => child[o].st \in {"none", "Committed"}
    /\ ledger[o] # {} \/ cleanup[o] => op[o].state = "Committed"

Evidence(o) == FreshRow(o) /\ CoveredRow(o) /\ ChildTrue(o) /\ VerdictTrue(o)

EvidenceInv == \A o \in Ops : Evidence(o)

-----------------------------------------------------------------------------
(* Evidence: one operation at a time                                       *)

\* The rows of an operation are left alone.
Kept(x) ==
    /\ op'[x] = op[x] /\ intent'[x] = intent[x] /\ child'[x] = child[x]
    /\ ledger'[x] = ledger[x] /\ cleanup'[x] = cleanup[x] /\ prov'[x] = prov[x]
    /\ req'[x] = req[x]

\* An operation whose rows are left alone keeps its evidence.
LEMMA KeptEvidence ==
    ASSUME NEW x, Evidence(x), Kept(x)
    PROVE  Evidence(x)'
BY DEF Evidence, Kept, FreshRow, CoveredRow, ChildTrue, VerdictTrue, Untouched

\* A failed completion never drops the intent.
LEMMA BlockIntentRows ==
    ASSUME TypeOK, NEW o \in Ops, BlockIntent(o)
    PROVE  \A x \in Ops : /\ x # o => intent'[x] = intent[x]
                          /\ intent'[x].st = "none" <=> intent[x].st = "none"
<1>1. intent[o] \in Intent
  BY RowTypes
<1>2. intent'[o] = [intent[o] EXCEPT !.st = IF LeaseHeld(o, Writer) THEN "BLOCKED" ELSE @]
  BY DEF TypeOK, BlockIntent
<1>3. intent'[o].st = IF LeaseHeld(o, Writer) THEN "BLOCKED" ELSE intent[o].st
  BY <1>1, <1>2 DEF Intent
<1>4. intent'[o].st = "none" <=> intent[o].st = "none"
  BY <1>3 DEF LeaseHeld
<1>5. \A x \in Ops : x # o => intent'[x] = intent[x]
  BY DEF TypeOK, BlockIntent
<1> QED BY <1>4, <1>5

\* A committed verdict on the child names a version that is stored.
LEMMA CommitVerdictRows ==
    ASSUME TypeOK, NEW o \in Ops, NEW sel, NEW sure, CommitVerdict(o, sel, sure)
    PROVE  /\ \A x \in Ops : x # o => child'[x] = child[x] /\ prov'[x] = prov[x]
           /\ child'[o].st = "Committed" /\ child'[o].absence = child[o].absence
           /\ child'[o].expected = child[o].expected
           /\ child'[o].complete = (ExactRecovery \/ sure)
           /\ child'[o].versions = IF ExactRecovery THEN prov[o].versions ELSE {sel}
           /\ prov'[o].versions = IF ExactRecovery THEN {sel} ELSE prov[o].versions
           /\ prov'[o].inflight = prov[o].inflight
           /\ sel \in prov[o].versions /\ sel \in child'[o].versions \cap prov'[o].versions
<1>1. child[o] \in Child /\ prov[o] \in Provider
  BY RowTypes
<1>2. \A x \in Ops : x # o => child'[x] = child[x] /\ prov'[x] = prov[x]
  BY DEF TypeOK, CommitVerdict
<1>3. child'[o] = [child[o] EXCEPT !.st = "Committed",
                      !.versions = IF ExactRecovery THEN prov[o].versions ELSE {sel},
                      !.complete = ExactRecovery \/ sure]
  BY DEF TypeOK, CommitVerdict
<1>4. prov'[o] = IF ExactRecovery THEN [prov[o] EXCEPT !.versions = {sel}] ELSE prov[o]
  BY DEF TypeOK, CommitVerdict
<1>5. sel \in prov[o].versions
  BY DEF CommitVerdict
<1> QED BY <1>1, <1>2, <1>3, <1>4, <1>5 DEF Child, Provider

\* It keeps the evidence of an operation whose child may still be published.
LEMMA CommitVerdictEvidence ==
    ASSUME TypeOK, NEW o \in Ops, Evidence(o), child[o].st \in {"Completing", "CommitUnknown"},
           NEW sel, NEW sure, CommitVerdict(o, sel, sure),
           op'[o] = op[o], intent'[o] = intent[o], ledger'[o] = ledger[o], cleanup'[o] = cleanup[o],
           req'[o].pc \in {"admitted", "begun", "launched"} => req[o].pc = req'[o].pc
    PROVE  Evidence(o)'
<1>0. /\ child'[o].st = "Committed" /\ child'[o].absence = child[o].absence
      /\ sel \in prov[o].versions /\ sel \in child'[o].versions \cap prov'[o].versions
  BY CommitVerdictRows
<1>1. /\ child'[o].st = "Committed" /\ child'[o].absence = child[o].absence
      /\ prov[o].versions # {} /\ child'[o].versions \cap prov'[o].versions # {}
  BY <1>0
<1>2. op[o].state \in Unsettled /\ intent[o].st # "none" /\ ~child[o].absence
      /\ req[o].pc \notin {"admitted", "begun"}
  <2>1. op[o] \in Operation
    BY RowTypes
  <2> QED BY <1>1, <2>1 DEF Evidence, FreshRow, CoveredRow, ChildTrue, VerdictTrue, Untouched,
                       Operation, Unsettled, Terminal, ChildUnresolved
<1> QED BY <1>1, <1>2 DEF Evidence, FreshRow, CoveredRow, ChildTrue, VerdictTrue, Unsettled

\* And so does every other outcome of the child's reconciler.
LEMMA ReconcileEvidence ==
    ASSUME TypeOK, NEW o \in Ops, Evidence(o), ReconcileChild(o),
           op'[o] = op[o], intent'[o] = intent[o], ledger'[o] = ledger[o], cleanup'[o] = cleanup[o],
           req'[o].pc \in {"admitted", "begun", "launched"} => req[o].pc = req'[o].pc
    PROVE  /\ Evidence(o)'
           /\ \A x \in Ops : x # o => child'[x] = child[x] /\ prov'[x] = prov[x]
<1>a. child[o] \in Child /\ prov[o] \in Provider
  BY RowTypes
<1>1. CASE ReconcileFinds(o)
  BY <1>1, CommitVerdictEvidence, CommitVerdictRows DEF ReconcileFinds
<1>2. CASE ReconcileAborts(o) \/ ReconcileAbsent(o) \/ ReconcileInconclusive(o)
  <2>1. \A x \in Ops : x # o => child'[x] = child[x] /\ prov'[x] = prov[x]
    BY <1>2 DEF TypeOK, ReconcileAborts, ReconcileAbsent, ReconcileInconclusive
  <2>2. prov'[o] = prov[o] /\ child'[o].versions = child[o].versions
        /\ child'[o].st \in {"ProvenAborted", "CommitUnknown"}
        /\ child[o].st \in ChildUnresolved
        /\ (child'[o].st = "ProvenAborted" \/ child'[o].absence => Untouched(o))
    BY <1>a, <1>2 DEF TypeOK, ReconcileAborts, ReconcileAbsent, ReconcileInconclusive, Child, Provider,
                      ChildOpen, ChildUnresolved, Untouched, Evidence, ChildTrue
  <2>3. Evidence(o)'
    BY <2>2 DEF Evidence, FreshRow, CoveredRow, ChildTrue, VerdictTrue, Untouched, ChildUnresolved,
                Unsettled
  <2> QED BY <2>1, <2>3
<1> QED BY <1>1, <1>2 DEF ReconcileChild

\* The finalizer and the abort leave verdicts that are true.
LEMMA CommittedEvidence ==
    ASSUME TypeOK, AccountingInv, EvidenceInv, NEW o \in Ops, NEW h, NEW w,
           FinalizeVerdict(o, h, w) = "committed", Committed(o),
           child' = child, prov' = prov,
           \A x \in Ops : x # o => req'[x] = req[x],
           req'[o].pc \notin {"admitted", "begun", "launched"} \/ req' = req
    PROVE  EvidenceInv'
<1> DEFINE k == op[o].key
<1>1. op[o] \in Operation /\ op[o].state \in Unsettled /\ child[o].st = "Committed"
  BY RowTypes, CommittedFacts DEF ChildMatches, Unsettled
<1>2. op'[o] = [op[o] EXCEPT !.state = "Committed", !.committed = Allocation(o),
                             !.claim = NoWorker, !.claimLive = FALSE]
      /\ intent'[o] = NoIntent
  BY DEF TypeOK, Committed
<1>3. op'[o].state = "Committed" /\ intent'[o].st = "none"
  BY <1>1, <1>2 DEF Operation, NoIntent
<1>4. Evidence(o)'
  BY <1>1, <1>3 DEF EvidenceInv, Evidence, FreshRow, CoveredRow, ChildTrue, VerdictTrue, Untouched,
                    Unsettled, ChildUnresolved
<1>5. ASSUME NEW x \in Ops, x # o PROVE Evidence(x)'
  <2>1. op'[x] = op[x] /\ intent'[x] = intent[x] /\ ledger'[x] = ledger[x]
    BY <1>5 DEF TypeOK, Committed
  <2>2. cleanup'[x] => cleanup[x] \/ ledger[x] # {}
    BY DEF Committed
  <2>3. Evidence(x)
    BY DEF EvidenceInv
  <2> QED BY <1>5, <2>1, <2>2, <2>3 DEF Evidence, FreshRow, CoveredRow, ChildTrue, VerdictTrue, Untouched
<1> QED BY <1>4, <1>5 DEF EvidenceInv

\* abort_logical_put: a pass or a request aborts only on evidence that is true.
LEMMA AbortedEvidence ==
    ASSUME TypeOK, EvidenceInv, NEW o \in Ops, NEW p, NEW h, NEW w,
           AbortVerdict(o, p, h, w) = "aborted", Aborted(o),
           child' = child, prov' = prov, ledger' = ledger, cleanup' = cleanup,
           \A x \in Ops : x # o => req'[x] = req[x],
           req'[o].pc = "admitted" => req[o].pc = "admitted", req'[o].pc # "launched" \/ req' = req,
           req'[o].pc = "begun" => req[o].pc = "begun" /\ (h = NoWorker \/ p = "ChildProvenAborted")
    PROVE  EvidenceInv'
<1>1. op[o] \in Operation /\ op[o].state \in Unsettled /\ AbortProof(o, p, h)
  BY RowTypes, AbortedFacts
<1>2. op'[o].state = "ProvenAborted" /\ intent'[o].st = "none"
  BY <1>1 DEF TypeOK, Aborted, Operation, NoIntent
<1>3. Evidence(o)
  BY DEF EvidenceInv
<1>4. Untouched(o) /\ child[o].st \in {"none", "ProvenAborted"} /\ ledger[o] = {} /\ ~cleanup[o]
      /\ req'[o].pc # "begun" /\ (req'[o].pc = "admitted" => child[o].st = "none")
  BY <1>1, <1>3 DEF AbortProof, Evidence, FreshRow, CoveredRow, ChildTrue, VerdictTrue, Unsettled
<1>5. Evidence(o)'
  BY <1>1, <1>2, <1>3, <1>4
  DEF Evidence, FreshRow, CoveredRow, ChildTrue, VerdictTrue, Untouched, Unsettled, ChildUnresolved
<1>6. ASSUME NEW x \in Ops, x # o PROVE Evidence(x)'
  <2>1. Kept(x)
    BY <1>6 DEF TypeOK, Aborted, Kept
  <2> QED BY <2>1, KeptEvidence DEF EvidenceInv
<1> QED BY <1>5, <1>6 DEF EvidenceInv

\* A blocked operation was unsettled and stays it.
LEMMA MarkBlockedEvidence ==
    ASSUME TypeOK, AccountingInv, EvidenceInv, NEW o \in Ops, NEW w \in Workers, MarkBlocked(o, w),
           intent' = intent, child' = child, prov' = prov, ledger' = ledger, cleanup' = cleanup,
           req' = req
    PROVE  EvidenceInv'
<1>1. CASE Authorized(o, w)
  <2>1. op[o] \in Operation /\ op[o].state \in Unsettled
    BY <1>1, RowTypes, LedgerAssumption DEF Authorized, AccountingInv, ClaimsUnsettled
  <2>2. op'[o].state = "RecoveryBlocked" /\ \A x \in Ops : x # o => op'[x] = op[x]
    BY <1>1, <2>1 DEF TypeOK, MarkBlocked, Operation
  <2> QED BY <2>1, <2>2 DEF EvidenceInv, Evidence, FreshRow, CoveredRow, ChildTrue, VerdictTrue,
                            Untouched, Unsettled
<1>2. CASE ~Authorized(o, w)
  BY <1>2 DEF MarkBlocked, EvidenceInv, Evidence, FreshRow, CoveredRow, ChildTrue, VerdictTrue, Untouched
<1> QED BY <1>1, <1>2

\* A step of the request keeps what the rows say true.
LEMMA RequestEvidence ==
    ASSUME TypeOK, AccountingInv, EvidenceInv, NEW o \in Ops, RequestStep(o)
    PROVE  EvidenceInv'
<1> DEFINE Others == \A x \in Ops : x # o => Kept(x)
<1>0. Others /\ Evidence(o)' => EvidenceInv'
  BY KeptEvidence DEF EvidenceInv
<1>a. Evidence(o) /\ op[o] \in Operation /\ intent[o] \in Intent /\ child[o] \in Child
      /\ prov[o] \in Provider /\ req[o] \in Request
  BY RowTypes DEF EvidenceInv
<1> USE DEF Evidence, FreshRow, CoveredRow, ChildTrue, VerdictTrue, Untouched, Unsettled, ChildUnresolved
<1>1. ASSUME NEW k \in Keys, ReadAuthority(o, k) PROVE EvidenceInv'
  <2>1. Others
    BY <1>1 DEF TypeOK, ReadAuthority, Kept
  <2>2. Evidence(o)'
    BY <1>a, <1>1 DEF TypeOK, ReadAuthority, Operation, Request
  <2> QED BY <1>0, <2>1, <2>2
<1>2. CASE ReadFence(o)
  <2>1. Others
    BY <1>2 DEF TypeOK, ReadFence, Kept
  <2>2. Evidence(o)'
    BY <1>a, <1>2 DEF TypeOK, ReadFence, Operation, Request
  <2> QED BY <1>0, <2>1, <2>2
<1>3. CASE Admit(o)
  <2>1. Others
    BY <1>3 DEF TypeOK, Admit, Kept
  <2>2. Evidence(o)'
    BY <1>a, <1>3 DEF TypeOK, Admit, Operation, Request, AccountingInv, RowsFresh, BeforeAdmission
  <2> QED BY <1>0, <2>1, <2>2
<1>4. CASE AdmitRejected(o)
  <2>1. Others
    BY <1>4 DEF TypeOK, AdmitRejected, Kept
  <2>2. Evidence(o)'
    BY <1>a, <1>4 DEF TypeOK, AdmitRejected, Request
  <2> QED BY <1>0, <2>1, <2>2
<1>5. CASE BeginChild(o)
  <2>1. Others
    BY <1>5 DEF TypeOK, BeginChild, Kept
  <2>2. Evidence(o)'
    BY <1>a, <1>5 DEF TypeOK, BeginChild, BeginGuard, Request, Intent
  <2> QED BY <1>0, <2>1, <2>2
<1>6. CASE BeginChildFailed(o)
  <2>1. Others
    BY <1>6 DEF TypeOK, BeginChildFailed, Kept
  <2>2. Evidence(o)'
    BY <1>a, <1>6 DEF TypeOK, BeginChildFailed, Request
  <2> QED BY <1>0, <2>1, <2>2
<1>7. CASE AbortUnbegun(o)
  <2>1. CASE Aborted(o) /\ AbortVerdict(o, "NoChildStarted", NoWorker, NoWorker) = "aborted"
    <3>1. req'[o].pc = "done" /\ \A x \in Ops : x # o => req'[x] = req[x]
      BY <1>7, <1>a DEF TypeOK, AbortUnbegun, Request
    <3> QED BY <1>7, <2>1, <3>1, AbortedEvidence DEF AbortUnbegun
  <2>2. CASE UNCHANGED <<op, usage, intent>>
    <3>1. Others
      BY <1>7, <2>2 DEF TypeOK, AbortUnbegun, Kept
    <3>2. Evidence(o)'
      BY <1>7, <2>2, <1>a DEF TypeOK, AbortUnbegun, Request
    <3> QED BY <1>0, <3>1, <3>2
  <2> QED BY <1>7, <2>1, <2>2 DEF AbortUnbegun
<1>8. CASE JournalChild(o)
  <2>1. Others
    BY <1>8 DEF TypeOK, JournalChild, Kept
  <2>2. Evidence(o)'
    BY <1>a, <1>8 DEF TypeOK, JournalChild, Request, Child, NoChild
  <2> QED BY <1>0, <2>1, <2>2
<1>9. ASSUME NEW b \in BOOLEAN, JournalFailed(o, b) PROVE EvidenceInv'
  <2>0. req'[o].pc = "beginFailed" /\ \A x \in Ops : x # o => req'[x] = req[x]
    BY <1>9, <1>a DEF TypeOK, JournalFailed, Request
  <2>1. CASE ~b /\ Aborted(o) /\ AbortVerdict(o, "NoChildStarted", Writer, NoWorker) = "aborted"
    <3>1. child' = child
      BY <1>9, <2>1 DEF TypeOK, JournalFailed
    <3> QED BY <1>9, <2>0, <2>1, <3>1, AbortedEvidence DEF JournalFailed
  <2>2. CASE UNCHANGED <<op, usage, intent>>
    <3>1. Others
      BY <1>9, <2>2 DEF TypeOK, JournalFailed, Kept
    <3>2. Evidence(o)'
      BY <1>9, <2>2, <1>a DEF TypeOK, JournalFailed, Request, Child, NoChild
    <3> QED BY <1>0, <3>1, <3>2
  <2> QED BY <1>9, <2>1, <2>2 DEF JournalFailed
<1>10. ASSUME NEW n \in Sizes, Verify(o, n) PROVE EvidenceInv'
  <2>1. Others
    BY <1>10 DEF TypeOK, Verify, Kept
  <2>2. Evidence(o)'
    BY <1>a, <1>10 DEF TypeOK, Verify, Request, Child
  <2> QED BY <1>0, <2>1, <2>2
<1>11. CASE RecordUsage(o)
  <2>1. Others
    BY <1>11 DEF TypeOK, RecordUsage, Kept
  <2>2. Evidence(o)'
    BY <1>a, <1>11 DEF TypeOK, RecordUsage, Operation, Request
  <2> QED BY <1>0, <2>1, <2>2
<1>12. CASE AbandonUpload(o)
  <2>1. Others
    BY <1>12 DEF TypeOK, AbandonUpload, Kept
  <2>2. Evidence(o)'
    BY <1>a, <1>12 DEF TypeOK, AbandonUpload, Request, Child, ChildOpen
  <2> QED BY <1>0, <2>1, <2>2
<1>13. CASE Launch(o)
  <2>1. Others
    BY <1>13 DEF TypeOK, Launch, Kept
  <2>2. Evidence(o)'
    BY <1>a, <1>13 DEF TypeOK, Launch, Request, Child, Provider, LeaseHeld
  <2> QED BY <1>0, <2>1, <2>2
<1>14. CASE Relaunch(o)
  <2>1. Others
    BY <1>14 DEF TypeOK, Relaunch, Kept
  <2>2. Evidence(o)'
    <3>1. op[o].state \in Unsettled /\ intent[o].st # "none" /\ ~cleanup[o] /\ ledger[o] = {}
      BY <1>a, <1>14 DEF Relaunch, Operation, Terminal
    <3>2. child'[o].st = child[o].st /\ ~child'[o].absence /\ req'[o].pc = "launched"
      BY <1>a, <1>14 DEF TypeOK, Relaunch, Child, Request
    <3>3. child[o].st \in {"Completing", "CommitUnknown"}
      BY <1>a, <1>14 DEF Relaunch
    <3> QED BY <1>14, <3>1, <3>2, <3>3 DEF Relaunch
  <2> QED BY <1>0, <2>1, <2>2
<1>15. CASE Answered(o)
  <2>0. req'[o].pc = "published" /\ \A x \in Ops : x # o => req'[x] = req[x]
    BY <1>15, <1>a DEF TypeOK, Answered, Request
  <2>1. ASSUME child[o].st \in {"Completing", "CommitUnknown"}, NEW sel, NEW sure,
               CommitVerdict(o, sel, sure)
        PROVE  EvidenceInv'
    <3>1. Evidence(o)'
      BY <1>15, <1>a, <2>0, <2>1, CommitVerdictEvidence DEF Answered
    <3>2. Others
      BY <1>15, <2>0, <2>1, CommitVerdictRows DEF Answered, Kept
    <3> QED BY <1>0, <3>1, <3>2
  <2>2. CASE UNCHANGED <<child, prov>>
    <3>1. Others
      BY <1>15, <2>0, <2>2 DEF Answered, Kept
    <3>2. Evidence(o)'
      BY <1>15, <1>a, <2>0, <2>2 DEF Answered
    <3> QED BY <1>0, <3>1, <3>2
  <2> QED BY <1>15, <2>1, <2>2 DEF Answered
<1>16. CASE Refused(o)
  <2>1. Others
    BY <1>16, BlockIntentRows DEF TypeOK, Refused, Kept
  <2>2. Evidence(o)'
    BY <1>a, <1>16 DEF TypeOK, Refused, BlockIntent, Request, Child, Provider, Intent, Operation, Terminal
  <2> QED BY <1>0, <2>1, <2>2
<1>17. CASE Unanswered(o)
  <2>1. Others
    BY <1>17, BlockIntentRows DEF TypeOK, Unanswered, Kept
  <2>2. Evidence(o)'
    <3>1. intent'[o].st = "none" <=> intent[o].st = "none"
      BY <1>17, BlockIntentRows DEF Unanswered
    <3>2. req'[o].pc = "dropped" /\ child'[o].absence = child[o].absence
          /\ child'[o].versions = child[o].versions
          /\ child'[o].st = IF child[o].st = "Completing" THEN "CommitUnknown" ELSE child[o].st
      BY <1>a, <1>17 DEF TypeOK, Unanswered, Request, Child
    <3> QED BY <1>a, <1>17, <3>1, <3>2 DEF Unanswered
  <2> QED BY <1>0, <2>1, <2>2
<1>18. CASE RequestFinalize(o)
  <2>0. req'[o].pc = "done" /\ \A x \in Ops : x # o => req'[x] = req[x]
    BY <1>18, <1>a DEF TypeOK, RequestFinalize, Request
  <2>1. CASE Committed(o) /\ FinalizeVerdict(o, Writer, NoWorker) = "committed"
    BY <1>18, <2>0, <2>1, CommittedEvidence DEF RequestFinalize
  <2>2. CASE UNCHANGED <<usage, auth, op, intent, ledger, cleanup>>
    <3>1. Others
      BY <1>18, <2>0, <2>2 DEF RequestFinalize, Kept
    <3>2. Evidence(o)'
      BY <1>18, <1>a, <2>0, <2>2 DEF RequestFinalize
    <3> QED BY <1>0, <3>1, <3>2
  <2> QED BY <1>18, <2>1, <2>2 DEF RequestFinalize
<1>19. CASE RequestIncomplete(o)
  <2>1. Others
    BY <1>19, BlockIntentRows DEF TypeOK, RequestIncomplete, Kept
  <2>2. Evidence(o)'
    <3>1. (intent'[o].st = "none" <=> intent[o].st = "none") /\ req'[o].pc = "done"
      BY <1>a, <1>19, BlockIntentRows DEF TypeOK, RequestIncomplete, Request
    <3> QED BY <1>a, <1>19, <3>1 DEF RequestIncomplete
  <2> QED BY <1>0, <2>1, <2>2
<1>20. CASE DropReconcile(o)
  <2>0. req'[o].pc = "done" /\ \A x \in Ops : x # o => req'[x] = req[x]
    BY <1>20, <1>a DEF TypeOK, DropReconcile, Request
  <2>1. CASE ReconcileChild(o)
    <3>1. Evidence(o)' /\ \A x \in Ops : x # o => child'[x] = child[x] /\ prov'[x] = prov[x]
      BY <1>20, <1>a, <2>0, <2>1, ReconcileEvidence DEF DropReconcile
    <3>2. Others
      BY <1>20, <2>0, <3>1 DEF DropReconcile, Kept
    <3> QED BY <1>0, <3>1, <3>2
  <2>2. CASE UNCHANGED <<child, prov>>
    <3>1. Others
      BY <1>20, <2>0, <2>2 DEF DropReconcile, Kept
    <3>2. Evidence(o)'
      BY <1>20, <1>a, <2>0, <2>2 DEF DropReconcile
    <3> QED BY <1>0, <3>1, <3>2
  <2> QED BY <1>20, <2>1, <2>2 DEF DropReconcile
<1> QED
  BY <1>1, <1>2, <1>3, <1>4, <1>5, <1>6, <1>7, <1>8, <1>9, <1>10, <1>11, <1>12, <1>13, <1>14,
     <1>15, <1>16, <1>17, <1>18, <1>19, <1>20 DEF RequestStep

\* So does a step of a recovery pass.
LEMMA WorkerEvidence ==
    ASSUME TypeOK, AccountingInv, EvidenceInv, NEW w \in Workers, WorkerStep(w)
    PROVE  EvidenceInv'
<1> DEFINE q == work[w].op
<1> DEFINE Rows == /\ child' = child /\ prov' = prov /\ ledger' = ledger /\ cleanup' = cleanup
                   /\ req' = req
<1>0. ASSUME op' = op, intent' = intent, Rows PROVE EvidenceInv'
  BY <1>0 DEF EvidenceInv, Evidence, FreshRow, CoveredRow, ChildTrue, VerdictTrue, Untouched
<1>1. ASSUME NEW o \in Ops, ClaimStale(w, o) PROVE EvidenceInv'
  <2>1. \A x \in Ops : op'[x].state = op[x].state
    BY <1>1, RowTypes DEF TypeOK, ClaimStale, Operation
  <2>2. intent' = intent /\ Rows
    BY <1>1 DEF ClaimStale
  <2> QED BY <2>1, <2>2 DEF EvidenceInv, Evidence, FreshRow, CoveredRow, ChildTrue, VerdictTrue, Untouched
<1>2. CASE WorkerAborts(w)
  <2>1. q \in Ops /\ Rows
    BY <1>2 DEF TypeOK, WorkerAborts
  <2>2. CASE Aborted(q) /\ AbortVerdict(q, "NoChildStarted", NoWorker, w) = "aborted"
    BY <2>1, <2>2, AbortedEvidence
  <2>3. CASE MarkBlocked(q, w) /\ intent' = intent
    BY <2>1, <2>3, MarkBlockedEvidence
  <2>4. CASE op' = op /\ intent' = intent
    BY <1>0, <2>1, <2>4
  <2> QED BY <1>2, <2>2, <2>3, <2>4 DEF WorkerAborts
<1>3. CASE WorkerBlocks(w)
  <2>1. q \in Ops
    BY <1>3 DEF TypeOK, WorkerBlocks
  <2> QED BY <1>3, <2>1, MarkBlockedEvidence DEF WorkerBlocks
<1>4. CASE WorkerRenews(w)
  BY <1>0, <1>4 DEF WorkerRenews
<1>5. CASE WorkerLeases(w)
  <2>1. q \in Ops /\ op' = op /\ Rows
    BY <1>5 DEF TypeOK, WorkerLeases
  <2>2. \A x \in Ops : intent'[x].st = intent[x].st
    BY <1>5, <2>1, RowTypes DEF TypeOK, WorkerLeases, Intent
  <2> QED BY <2>1, <2>2 DEF EvidenceInv, Evidence, FreshRow, CoveredRow, ChildTrue, VerdictTrue, Untouched
<1>6. CASE WorkerReconciles(w)
  <2>1. work[w].op \in Ops /\ UNCHANGED <<op, intent, ledger, cleanup, req>>
    BY <1>6 DEF TypeOK, WorkerReconciles
  <2>2. CASE ReconcileChild(work[w].op)
    <3>1. PICK o \in Ops : o = work[w].op
      BY <2>1
    <3>2. Evidence(o) /\ ReconcileChild(o)
      BY <2>2, <3>1 DEF EvidenceInv
    <3>3. Evidence(o)' /\ \A x \in Ops : x # o => child'[x] = child[x] /\ prov'[x] = prov[x]
      BY <2>1, <3>2, ReconcileEvidence
    <3>4. \A x \in Ops : x # o => Kept(x)
      BY <2>1, <3>3 DEF Kept
    <3> QED BY <3>3, <3>4, KeptEvidence DEF EvidenceInv
  <2>3. CASE UNCHANGED <<child, prov>>
    BY <1>0, <2>1, <2>3
  <2> QED BY <1>6, <2>2, <2>3 DEF WorkerReconciles
<1>7. CASE WorkerSettles(w)
  <2>1. q \in Ops /\ child' = child /\ prov' = prov /\ req' = req
    BY <1>7 DEF TypeOK, WorkerSettles
  <2>2. CASE Committed(q) /\ FinalizeVerdict(q, w, w) = "committed"
    BY <2>1, <2>2, CommittedEvidence
  <2>3. CASE Aborted(q) /\ AbortVerdict(q, "ChildProvenAborted", w, w) = "aborted"
             /\ UNCHANGED <<auth, ledger, cleanup>>
    BY <2>1, <2>3, AbortedEvidence
  <2>4. CASE MarkBlocked(q, w) /\ UNCHANGED <<usage, auth, intent, ledger, cleanup>>
    BY <2>1, <2>4, MarkBlockedEvidence
  <2>5. CASE UNCHANGED <<usage, auth, op, intent, ledger, cleanup>>
    BY <1>0, <2>1, <2>5
  <2> QED BY <1>7, <2>2, <2>3, <2>4, <2>5 DEF WorkerSettles
<1> QED BY <1>1, <1>2, <1>3, <1>4, <1>5, <1>6, <1>7 DEF WorkerStep

\* So do the provider, the clock and every failure.
LEMMA EnvironmentEvidence ==
    ASSUME TypeOK, EvidenceInv,
           (\E o \in Ops : ProviderStep(o) \/ TimeStep(o)) \/ Failure
    PROVE  EvidenceInv'
<1> USE DEF EvidenceInv, Evidence, FreshRow, CoveredRow, ChildTrue, VerdictTrue, Untouched
<1>1. ASSUME NEW o \in Ops, NEW i \in Attempts, ProviderLands(o, i) \/ ProviderLoses(o, i)
      PROVE  EvidenceInv'
  <2>1. UNCHANGED <<op, intent, child, ledger, cleanup, req>> /\ prov[o].inflight # {}
        /\ \A x \in Ops : x # o => prov'[x] = prov[x]
    BY <1>1 DEF TypeOK, ProviderLands, ProviderLoses
  <2>2. prov[o].versions \subseteq prov'[o].versions
    BY <1>1, RowTypes DEF TypeOK, ProviderLands, ProviderLoses, Provider
  <2>3. op[o].state \notin {"none", "ProvenAborted"} /\ child[o].st \notin {"Open", "ProvenAborted"}
        /\ ~child[o].absence /\ (op[o].state \in Unsettled => child[o].st # "none")
    BY <2>1
  <2>4. ASSUME op[o].state \in Unsettled, child[o].st = "Committed"
        PROVE  child'[o].versions \cap prov'[o].versions # {}
    BY <2>1, <2>2, <2>4
  <2> QED BY <2>1, <2>3, <2>4
<1>2. ASSUME NEW o \in Ops, LeaseExpires(o) PROVE EvidenceInv'
  <2>1. \A x \in Ops : intent'[x].st = intent[x].st
    BY <1>2, RowTypes DEF TypeOK, LeaseExpires, Intent
  <2> QED BY <1>2, <2>1 DEF LeaseExpires
<1>3. ASSUME NEW o \in Ops, ClaimExpires(o) PROVE EvidenceInv'
  <2>1. \A x \in Ops : op'[x].state = op[x].state
    BY <1>3, RowTypes DEF TypeOK, ClaimExpires, Operation
  <2> QED BY <1>3, <2>1 DEF ClaimExpires
<1>4. ASSUME NEW o \in Ops, Crash(o) \/ Disconnect(o) PROVE EvidenceInv'
  <2>1. \A x \in Ops : req'[x].pc \in {"admitted", "begun", "launched"} => req'[x].pc = req[x].pc
    BY <1>4, RowTypes DEF TypeOK, Crash, Disconnect, Request
  <2> QED BY <1>4, <2>1 DEF Crash, Disconnect
<1>5. ASSUME NEW w \in Workers, WorkerCrash(w) PROVE EvidenceInv'
  BY <1>5 DEF WorkerCrash
<1> QED BY <1>1, <1>2, <1>3, <1>4, <1>5 DEF ProviderStep, TimeStep, Failure

\* And DELETE, cleanup and purge.
LEMMA MaintenanceEvidence ==
    ASSUME TypeOK, EvidenceInv, Maintenance
    PROVE  EvidenceInv'
<1> USE DEF EvidenceInv, Evidence, FreshRow, CoveredRow, ChildTrue, VerdictTrue, Untouched
<1>1. ASSUME NEW k \in Keys, Delete(k) PROVE EvidenceInv'
  <2>1. \A x \in Ops : cleanup'[x] => cleanup[x] \/ ledger[x] # {}
    BY <1>1 DEF Delete
  <2> QED BY <1>1, <2>1 DEF Delete
<1>2. ASSUME NEW o \in Ops, NEW v \in Attempts, CleanupDeletes(o, v) \/ PurgeDeletes(o, v)
      PROVE  EvidenceInv'
  <2>1. /\ op[o].state = "Committed" /\ \A x \in Ops : x # o => prov'[x] = prov[x]
        /\ UNCHANGED <<op, intent, child, ledger, cleanup, req>> /\ prov[o].versions # {}
    BY <1>2 DEF TypeOK, CleanupDeletes, PurgeDeletes
  <2> QED BY <2>1 DEF Unsettled
<1>3. ASSUME NEW o \in Ops, NEW v \in Attempts, ForgetVersion(o, v) \/ PurgeForgets(o, v)
      PROVE  EvidenceInv'
  <2>1. /\ op[o].state = "Committed" /\ intent[o].st = "none"
        /\ \A x \in Ops : x # o => child'[x] = child[x] /\ ledger'[x] = ledger[x]
        /\ UNCHANGED <<intent, cleanup, prov, req>>
    <3>1. ledger[o] # {} /\ UNCHANGED <<intent, cleanup, prov, req>>
      BY <1>3 DEF ForgetVersion, PurgeForgets
    <3>2. op[o].state = "Committed" /\ intent[o].st = "none"
      BY <3>1 DEF Unsettled
    <3>3. \A x \in Ops : x # o => child'[x] = child[x] /\ ledger'[x] = ledger[x]
      BY <1>3 DEF TypeOK, ForgetVersion, PurgeForgets
    <3> QED BY <3>1, <3>2, <3>3
  <2>2. \A x \in Ops : op'[x].state = op[x].state
    <3>1. op' = op \/ op' = [op EXCEPT ![o].released = op[o].committed]
      BY <1>3 DEF ForgetVersion, PurgeForgets
    <3>2. op \in [Ops -> Operation]
      BY DEF TypeOK
    <3> QED BY ONLY <3>1, <3>2 DEF Operation
  <2>3. child'[o] = child[o] \/ child'[o] = NoChild
    BY <1>3 DEF TypeOK, ForgetVersion, PurgeForgets
  <2> QED BY <2>1, <2>2, <2>3 DEF Unsettled, NoChild
<1>4. CASE AdvanceRouting \/ PurgeFence
  BY <1>4 DEF AdvanceRouting, PurgeFence
<1>5. CASE FinishPurge
  <2>1. \A x \in Ops : /\ child'[x] = NoChild /\ ~cleanup'[x] /\ op'[x].state = op[x].state
                        /\ intent[x].st = "none" /\ op[x].state \notin Unsettled
    BY <1>5, RowTypes DEF FinishPurge, PurgeReady, Operation
  <2> QED BY <1>5, <2>1 DEF FinishPurge, NoChild, ChildUnresolved
<1> QED BY <1>1, <1>2, <1>3, <1>4, <1>5 DEF Maintenance

\* Every step keeps the rows true.
LEMMA NextEvidence == TypeOK /\ AccountingInv /\ EvidenceInv /\ [Next]_vars => EvidenceInv'
<1> SUFFICES ASSUME TypeOK, AccountingInv, EvidenceInv, [Next]_vars PROVE EvidenceInv'
  OBVIOUS
<1>1. CASE UNCHANGED vars
  BY <1>1 DEF vars, EvidenceInv, Evidence, FreshRow, CoveredRow, ChildTrue, VerdictTrue, Untouched
<1>2. ASSUME NEW o \in Ops, RequestStep(o) PROVE EvidenceInv'
  BY <1>2, RequestEvidence
<1>3. ASSUME NEW w \in Workers, WorkerStep(w) PROVE EvidenceInv'
  BY <1>3, WorkerEvidence
<1>4. CASE (\E o \in Ops : ProviderStep(o) \/ TimeStep(o)) \/ Failure
  BY <1>4, EnvironmentEvidence
<1>5. CASE Maintenance
  BY <1>5, MaintenanceEvidence
<1> QED BY <1>1, <1>2, <1>3, <1>4, <1>5 DEF Next

\* Initially no operation has rows.
LEMMA InitEvidence == Init => EvidenceInv
<1> SUFFICES ASSUME Init, NEW o \in Ops PROVE Evidence(o)
  BY DEF EvidenceInv
<1>1. /\ op[o] = NoRow /\ child[o] = NoChild /\ intent[o] = NoIntent /\ ledger[o] = {} /\ ~cleanup[o]
      /\ prov[o] = [inflight |-> {}, versions |-> {}] /\ req[o].pc = "idle"
  BY DEF Init
<1> QED BY <1>1 DEF Evidence, FreshRow, CoveredRow, ChildTrue, VerdictTrue, Untouched,
                    NoRow, NoChild, NoIntent, Unsettled

\* The evidence invariant holds in every reachable state.
THEOREM RowsTellTheTruth == Spec => []EvidenceInv
<1>1. TypeOK /\ AccountingInv /\ EvidenceInv /\ [Next]_vars => EvidenceInv'
  BY NextEvidence
<1>2. Init => EvidenceInv
  BY InitEvidence
<1> QED BY <1>1, <1>2, TypeCorrect, Accounting, PTL DEF Spec

-----------------------------------------------------------------------------
(* What is published, what is charged and what may still arrive             *)

\* An authority row that is live names the committed generation of its key and size; while
\* the namespace is active that generation awaits no cleanup and one of its ledgered
\* versions is stored.
Published(k) ==
    /\ Live(k) <=> auth[k].gen # NoOp
    /\ Live(k) => LET o == auth[k].gen IN
          /\ op[o].state = "Committed" /\ op[o].epoch = ns.epoch
          /\ op[o].key = k /\ op[o].evidence = auth[k].size
          /\ ns.active => ~cleanup[o] /\ ledger[o] \cap prov[o].versions # {}

\* Unsettled operations and version rows belong to the namespace epoch that runs.
Current(o) == op[o].state \in Unsettled \/ ledger[o] # {} => op[o].epoch = ns.epoch

Charged(o) ==
    op[o].state = "Committed" =>
        /\ ledger[o] # {} => op[o].released = 0
        /\ ns.active /\ ledger[o] = {} => op[o].released = op[o].committed

PublicationInv ==
    /\ \A k \in Keys : Published(k)
    /\ \A o \in Ops : Current(o) /\ Charged(o)

\* No attempt can land after an exact enumeration of the child's versions: the backend
\* cannot enumerate them, or the sink makes one attempt only.
Sparse == ~ExactRecovery \/ MaxAttempts = 1

Flight(o) ==
    /\ prov[o].inflight \cap prov[o].versions = {}
    /\ prov[o].inflight \cup prov[o].versions \subseteq 1..req[o].tries
    /\ Sparse /\ child[o].st = "Committed" /\ child[o].complete =>
          prov[o].inflight = {} /\ prov[o].versions \subseteq child[o].versions
    /\ Sparse /\ op[o].state = "Committed" =>
          prov[o].inflight = {} /\ prov[o].versions \subseteq ledger[o]

FlightInv == \A o \in Ops : Flight(o)

-----------------------------------------------------------------------------
(* How a step moves the rows of an operation                               *)

\* The operation row: its verdict and what a committed row says stay, and an operation that
\* is admitted belongs to the epoch that runs.
OpStill(x) ==
    /\ op'[x].state = "Committed" <=> op[x].state = "Committed"
    /\ op[x].state = "Committed" =>
          /\ op'[x].key = op[x].key /\ op'[x].evidence = op[x].evidence
          /\ op'[x].epoch = op[x].epoch
          /\ op'[x].released = op[x].released /\ op'[x].committed = op[x].committed
    /\ op'[x].state \in Unsettled =>
          op'[x].epoch = ns.epoch \/ (op[x].state \in Unsettled /\ op'[x].epoch = op[x].epoch)

\* No version row changes, no attempt is launched and no child is committed; an attempt in
\* flight may land or be lost.
Still(x) ==
    /\ OpStill(x)
    /\ ledger'[x] = ledger[x] /\ cleanup'[x] = cleanup[x] /\ req'[x].tries = req[x].tries
    /\ prov'[x].inflight \subseteq prov[x].inflight /\ prov[x].versions \subseteq prov'[x].versions
    /\ prov'[x].versions \subseteq prov[x].versions \cup (prov[x].inflight \ prov'[x].inflight)
    /\ child'[x].st = "Committed" =>
          /\ child[x].st = "Committed" /\ child'[x].versions = child[x].versions
          /\ child'[x].complete => child[x].complete

Busy(x) ==
    /\ op[x].state \in Unsettled /\ op'[x] = op[x]
    /\ ledger'[x] = ledger[x] /\ cleanup'[x] = cleanup[x]

\* One more attempt is launched, the first or the next one.
Launches(x) ==
    /\ Busy(x) /\ child'[x].st # "Committed" /\ prov'[x].versions = prov[x].versions
    /\ \E i \in Attempts :
          /\ prov'[x].inflight = prov[x].inflight \cup {i} /\ req'[x].tries = i
          /\ Untouched(x) \/ i = req[x].tries + 1

\* A stored version is selected as the child's result.
Selects(x) ==
    /\ Busy(x) /\ req'[x].tries = req[x].tries
    /\ prov'[x].inflight = prov[x].inflight /\ prov'[x].versions \subseteq prov[x].versions
    /\ \/ ExactRecovery /\ prov[x].versions # {} /\ child'[x].versions = prov[x].versions
       \/ ~ExactRecovery /\ (child'[x].complete =>
             req[x].tries = 1 /\ child'[x].versions = {1} /\ 1 \in prov[x].versions)

Moves(x) == Still(x) \/ Launches(x) \/ Selects(x)

Quiet == auth' = auth /\ ns' = ns /\ \A x \in Ops : Moves(x)

\* A finalizer commits an operation.
Commits ==
    \E o \in Ops : \E h, w :
        /\ FinalizeVerdict(o, h, w) = "committed" /\ Committed(o)
        /\ ns' = ns /\ child' = child /\ prov' = prov
        /\ \A x \in Ops : req'[x].tries = req[x].tries

\* An operation whose rows are left alone stands still.
LEMMA KeptStill ==
    ASSUME NEW x, Kept(x)
    PROVE  Still(x)
BY DEF Kept, Still, OpStill

\* Rows whose operation keeps its columns and whose child and provider are left alone.
LEMMA AbortedStill ==
    ASSUME TypeOK, EvidenceInv, NEW o \in Ops, NEW p, NEW h, NEW w,
           AbortVerdict(o, p, h, w) = "aborted", Aborted(o),
           child' = child, prov' = prov, ledger' = ledger, cleanup' = cleanup,
           \A x \in Ops : req'[x].tries = req[x].tries
    PROVE  \A x \in Ops : Still(x)
<1>1. op[o] \in Operation /\ op[o].state \in Unsettled
  BY RowTypes, AbortedFacts
<1>2. op'[o].state = "ProvenAborted" /\ \A x \in Ops : x # o => op'[x] = op[x]
  BY <1>1 DEF TypeOK, Aborted, Operation
<1> QED BY <1>1, <1>2 DEF Still, OpStill, Unsettled

\* mark_logical_recovery_blocked settles nothing and publishes nothing.
LEMMA MarkBlockedStill ==
    ASSUME TypeOK, AccountingInv, NEW o \in Ops, NEW w \in Workers, MarkBlocked(o, w),
           child' = child, prov' = prov, ledger' = ledger, cleanup' = cleanup, req' = req
    PROVE  \A x \in Ops : Still(x)
<1>1. CASE Authorized(o, w)
  <2>1. op[o] \in Operation /\ op[o].state \in Unsettled
    BY <1>1, RowTypes, LedgerAssumption DEF Authorized, AccountingInv, ClaimsUnsettled
  <2>2. op'[o].state = "RecoveryBlocked" /\ op'[o].epoch = op[o].epoch
        /\ \A x \in Ops : x # o => op'[x] = op[x]
    BY <1>1, <2>1 DEF TypeOK, MarkBlocked, Operation
  <2> QED BY <2>1, <2>2 DEF Still, OpStill, Unsettled
<1>2. CASE ~Authorized(o, w)
  BY <1>2 DEF MarkBlocked, Still, OpStill
<1> QED BY <1>1, <1>2

\* A committed verdict selects a version of an operation that is still unsettled.
LEMMA CommitVerdictSelects ==
    ASSUME TypeOK, EvidenceInv, NEW o \in Ops, child[o].st \in {"Completing", "CommitUnknown"},
           NEW sel, NEW sure, CommitVerdict(o, sel, sure), sure => sel = 1 /\ req[o].tries = 1,
           op' = op, ledger' = ledger, cleanup' = cleanup,
           req'[o].tries = req[o].tries
    PROVE  Selects(o)
<1>1. /\ child'[o].complete = (ExactRecovery \/ sure)
      /\ child'[o].versions = IF ExactRecovery THEN prov[o].versions ELSE {sel}
      /\ prov'[o].versions = IF ExactRecovery THEN {sel} ELSE prov[o].versions
      /\ prov'[o].inflight = prov[o].inflight
      /\ sel \in prov[o].versions
  BY CommitVerdictRows
<1>2. op[o].state \in Unsettled
  <2>1. op[o] \in Operation
    BY RowTypes
  <2> QED BY <1>1, <2>1 DEF EvidenceInv, Evidence, FreshRow, CoveredRow, ChildTrue, VerdictTrue, Untouched,
                       Operation, Unsettled, Terminal, ChildUnresolved
<1>3. CASE ExactRecovery
  BY <1>1, <1>2, <1>3 DEF Selects, Busy
<1>4. CASE ~ExactRecovery
  <2>1. child'[o].complete => sure
    BY <1>1, <1>4
  <2> QED BY <1>1, <1>2, <1>4, <2>1 DEF Selects, Busy
<1> QED BY <1>3, <1>4

\* Reconciling a child writes its journal row from what the provider stores.
LEMMA ReconcileMoves ==
    ASSUME TypeOK, EvidenceInv, NEW o \in Ops, ReconcileChild(o),
           op' = op, ledger' = ledger, cleanup' = cleanup,
           \A x \in Ops : req'[x].tries = req[x].tries
    PROVE  \A x \in Ops : Moves(x)
<1>a. child[o] \in Child /\ prov[o] \in Provider
  BY RowTypes
<1>1. CASE ReconcileFinds(o)
  <2>1. PICK sel \in Attempts : CommitVerdict(o, sel, FALSE)
    BY <1>1 DEF ReconcileFinds
  <2>2. Selects(o)
    BY <1>1, <2>1, CommitVerdictSelects DEF ReconcileFinds
  <2>3. \A x \in Ops : x # o => child'[x] = child[x] /\ prov'[x] = prov[x]
    BY <2>1, CommitVerdictRows
  <2> QED BY <2>2, <2>3 DEF Moves, Still, OpStill
<1>2. CASE ReconcileAborts(o) \/ ReconcileAbsent(o) \/ ReconcileInconclusive(o)
  <2>1. prov' = prov /\ \A x \in Ops : x # o => child'[x] = child[x]
    BY <1>2 DEF TypeOK, ReconcileAborts, ReconcileAbsent, ReconcileInconclusive
  <2>2. child'[o].st # "Committed"
    BY <1>a, <1>2 DEF TypeOK, ReconcileAborts, ReconcileAbsent, ReconcileInconclusive, Child
  <2> QED BY <2>1, <2>2 DEF Moves, Still, OpStill
<1> QED BY <1>1, <1>2 DEF ReconcileChild

\* A step of a request moves the rows of its operation, or commits it.
LEMMA RequestMovesRows ==
    ASSUME TypeOK, AccountingInv, EvidenceInv, NEW o \in Ops, RequestStep(o)
    PROVE  Quiet \/ Commits
<1> DEFINE Others == \A x \in Ops : x # o => Kept(x)
<1>0. ASSUME Others, Moves(o), auth' = auth, ns' = ns PROVE Quiet
  BY <1>0, KeptStill DEF Quiet, Moves
<1>a. Evidence(o) /\ op[o] \in Operation /\ intent[o] \in Intent /\ child[o] \in Child
      /\ prov[o] \in Provider /\ req[o] \in Request
  BY RowTypes DEF EvidenceInv
<1> USE DEF Moves, Still, OpStill, Unsettled
<1>1. ASSUME NEW k \in Keys, ReadAuthority(o, k) PROVE Quiet
  <2>1. Others /\ auth' = auth /\ ns' = ns
    BY <1>1 DEF TypeOK, ReadAuthority, Kept
  <2>2. Still(o)
    BY <1>a, <1>1 DEF TypeOK, ReadAuthority, Operation, Request, AccountingInv, RowsFresh, BeforeAdmission
  <2> QED BY <1>0, <2>1, <2>2
<1>2. CASE ReadFence(o)
  <2>1. Others /\ auth' = auth /\ ns' = ns
    BY <1>2 DEF TypeOK, ReadFence, Kept
  <2>2. Still(o)
    BY <1>a, <1>2 DEF TypeOK, ReadFence, Operation, Request, AccountingInv, RowsFresh, BeforeAdmission
  <2> QED BY <1>0, <2>1, <2>2
<1>3. CASE Admit(o)
  <2>1. Others /\ auth' = auth /\ ns' = ns
    BY <1>3 DEF TypeOK, Admit, Kept
  <2>2. Still(o)
    BY <1>a, <1>3 DEF TypeOK, Admit, Operation, Request, AccountingInv, RowsFresh, BeforeAdmission, AdmitGuard, FenceHeld
  <2> QED BY <1>0, <2>1, <2>2
<1>4. CASE AdmitRejected(o)
  <2>1. Others /\ auth' = auth /\ ns' = ns
    BY <1>4 DEF TypeOK, AdmitRejected, Kept
  <2>2. Still(o)
    BY <1>a, <1>4 DEF TypeOK, AdmitRejected, Request
  <2> QED BY <1>0, <2>1, <2>2
<1>5. CASE BeginChild(o)
  <2>1. Others /\ auth' = auth /\ ns' = ns
    BY <1>5 DEF TypeOK, BeginChild, Kept
  <2>2. Still(o)
    BY <1>a, <1>5 DEF TypeOK, BeginChild, Request
  <2> QED BY <1>0, <2>1, <2>2
<1>6. CASE BeginChildFailed(o)
  <2>1. Others /\ auth' = auth /\ ns' = ns
    BY <1>6 DEF TypeOK, BeginChildFailed, Kept
  <2>2. Still(o)
    BY <1>a, <1>6 DEF TypeOK, BeginChildFailed, Request
  <2> QED BY <1>0, <2>1, <2>2
<1>7. CASE JournalChild(o)
  <2>1. Others /\ auth' = auth /\ ns' = ns
    BY <1>7 DEF TypeOK, JournalChild, Kept
  <2>2. Still(o)
    BY <1>a, <1>7 DEF TypeOK, JournalChild, Request, Child, NoChild
  <2> QED BY <1>0, <2>1, <2>2
<1>8. CASE RecordUsage(o)
  <2>1. Others /\ auth' = auth /\ ns' = ns
    BY <1>8 DEF TypeOK, RecordUsage, Kept
  <2>2. Still(o)
    BY <1>a, <1>8 DEF TypeOK, RecordUsage, Operation, Request
  <2> QED BY <1>0, <2>1, <2>2
<1>9. CASE AbandonUpload(o)
  <2>1. Others /\ auth' = auth /\ ns' = ns
    BY <1>9 DEF TypeOK, AbandonUpload, Kept
  <2>2. Still(o)
    BY <1>a, <1>9 DEF TypeOK, AbandonUpload, Request, Child
  <2> QED BY <1>0, <2>1, <2>2
<1>10. ASSUME NEW z \in Sizes, Verify(o, z) PROVE Quiet
  <2>1. Others /\ auth' = auth /\ ns' = ns
    BY <1>10 DEF TypeOK, Verify, Kept
  <2>2. Still(o)
    BY <1>a, <1>10 DEF TypeOK, Verify, Request, Child
  <2> QED BY <1>0, <2>1, <2>2
<1>11. CASE Refused(o)
  <2>1. Others /\ auth' = auth /\ ns' = ns
    BY <1>11, BlockIntentRows DEF TypeOK, Refused, Kept
  <2>2. Still(o)
    BY <1>a, <1>11, BlockIntentRows DEF TypeOK, Refused, Request, Child, Provider
  <2> QED BY <1>0, <2>1, <2>2
<1>12. CASE Unanswered(o)
  <2>1. Others /\ auth' = auth /\ ns' = ns
    BY <1>12, BlockIntentRows DEF TypeOK, Unanswered, Kept
  <2>2. Still(o)
    BY <1>a, <1>12, BlockIntentRows DEF TypeOK, Unanswered, Request, Child, Provider
  <2> QED BY <1>0, <2>1, <2>2
<1>13. CASE RequestIncomplete(o)
  <2>1. Others /\ auth' = auth /\ ns' = ns
    BY <1>13, BlockIntentRows DEF TypeOK, RequestIncomplete, Kept
  <2>2. Still(o)
    BY <1>a, <1>13, BlockIntentRows DEF TypeOK, RequestIncomplete, Request, Child, Provider
  <2> QED BY <1>0, <2>1, <2>2
<1>14. CASE AbortUnbegun(o)
  <2>0. \A x \in Ops : req'[x].tries = req[x].tries
    BY <1>14, RowTypes DEF TypeOK, AbortUnbegun, Request
  <2>1. \A x \in Ops : Still(x)
    <3>1. CASE Aborted(o) /\ AbortVerdict(o, "NoChildStarted", NoWorker, NoWorker) = "aborted"
      BY <1>14, <2>0, <3>1, AbortedStill DEF AbortUnbegun
    <3>2. CASE UNCHANGED <<op, usage, intent>>
      BY <1>14, <2>0, <3>2 DEF AbortUnbegun
    <3> QED BY <1>14, <3>1, <3>2 DEF AbortUnbegun
  <2> QED BY <1>14, <2>1 DEF AbortUnbegun, Quiet
<1>15. ASSUME NEW b \in BOOLEAN, JournalFailed(o, b) PROVE Quiet
  <2>0. \A x \in Ops : req'[x].tries = req[x].tries
    BY <1>15, RowTypes DEF TypeOK, JournalFailed, Request
  <2>1. \A x \in Ops : Still(x)
    <3>1. CASE ~b /\ Aborted(o) /\ AbortVerdict(o, "NoChildStarted", Writer, NoWorker) = "aborted"
      <4>1. child' = child
        BY <1>15, <3>1 DEF TypeOK, JournalFailed
      <4> QED BY <1>15, <2>0, <3>1, <4>1, AbortedStill DEF JournalFailed
    <3>2. CASE UNCHANGED <<op, usage, intent>>
      <4>1. child'[o] = child[o] \/ child'[o].st = "Open"
        BY <1>15 DEF TypeOK, JournalFailed, NoChild
      <4>2. \A x \in Ops : x # o => child'[x] = child[x]
        BY <1>15 DEF TypeOK, JournalFailed
      <4> QED BY <1>15, <2>0, <3>2, <4>1, <4>2 DEF JournalFailed
    <3> QED BY <1>15, <3>1, <3>2 DEF JournalFailed
  <2> QED BY <1>15, <2>1 DEF JournalFailed, Quiet
<1>16. CASE Launch(o) \/ Relaunch(o)
  <2>1. Others /\ auth' = auth /\ ns' = ns
    BY <1>16 DEF TypeOK, Launch, Relaunch, Kept
  <2>2. op[o].state \in Unsettled
    BY <1>a, <1>16 DEF Launch, Relaunch, LeaseHeld, Evidence, FreshRow, CoveredRow, ChildTrue, VerdictTrue,
                       Operation, Terminal, ChildUnresolved, ChildOpen
  <2>3. Busy(o)
    BY <1>16, <2>2 DEF Launch, Relaunch, Busy
  <2>4. child'[o].st # "Committed" /\ prov'[o].versions = prov[o].versions
    BY <1>a, <1>16 DEF TypeOK, Launch, Relaunch, Child, Provider, ChildUnresolved
  <2>5. CASE Launch(o)
    <3>1. Untouched(o)
      BY <1>a, <2>5 DEF Launch, Evidence, ChildTrue, ChildOpen
    <3>2. 1 \in Attempts
      BY LedgerAssumption DEF Attempts
    <3>3. prov'[o].inflight = prov[o].inflight \cup {1} /\ req'[o].tries = 1
      BY <1>a, <2>5 DEF TypeOK, Launch, Provider
    <3>4. Launches(o)
      BY <2>3, <2>4, <3>1, <3>2, <3>3 DEF Launches
    <3> QED BY <1>0, <2>1, <3>4
  <2>6. CASE Relaunch(o)
    <3>1. req[o].tries + 1 \in Attempts
      BY <1>a, <2>6, LedgerAssumption DEF Relaunch, Request, Attempts
    <3>2. prov'[o].inflight = prov[o].inflight \cup {req[o].tries + 1} /\ req'[o].tries = req[o].tries + 1
      BY <1>a, <2>6 DEF TypeOK, Relaunch, Provider, Request
    <3>3. Launches(o)
      BY <2>3, <2>4, <3>1, <3>2 DEF Launches
    <3> QED BY <1>0, <2>1, <3>3
  <2> QED BY <1>16, <2>5, <2>6
<1>17. CASE Answered(o)
  <2>0. /\ \A x \in Ops : (x # o => req'[x] = req[x]) /\ req'[x].tries = req[x].tries
        /\ UNCHANGED <<ns, auth, op, intent, ledger, cleanup>>
    BY <1>17, RowTypes DEF TypeOK, Answered, Request
  <2>1. ASSUME child[o].st \in {"Completing", "CommitUnknown"}, NEW sel, NEW sure,
               CommitVerdict(o, sel, sure), sure => sel = 1 /\ req[o].tries = 1
        PROVE  Quiet
    <3>1. Selects(o)
      BY <2>0, <2>1, CommitVerdictSelects
    <3>2. Others
      BY <2>0, <2>1, CommitVerdictRows DEF Kept
    <3> QED BY <1>0, <2>0, <3>1, <3>2
  <2>2. CASE UNCHANGED <<child, prov>>
    BY <2>0, <2>2 DEF Quiet
  <2>3. CASE child[o].st = "Completing" /\ CommitVerdict(o, req[o].tries, req[o].tries = 1)
    BY <2>1, <2>3
  <2>4. CASE child[o].st \in {"Completing", "CommitUnknown"} /\ \E sel \in Attempts : CommitVerdict(o, sel, FALSE)
    BY <2>1, <2>4
  <2> QED BY <1>17, <2>2, <2>3, <2>4 DEF Answered
<1>18. CASE RequestFinalize(o)
  <2>0. /\ \A x \in Ops : req'[x].tries = req[x].tries
        /\ ns' = ns /\ child' = child /\ prov' = prov
    BY <1>18, RowTypes DEF TypeOK, RequestFinalize, Request
  <2>1. CASE Committed(o) /\ FinalizeVerdict(o, Writer, NoWorker) = "committed"
    BY <2>0, <2>1 DEF Commits
  <2>2. CASE UNCHANGED <<usage, auth, op, intent, ledger, cleanup>>
    BY <2>0, <2>2 DEF Quiet
  <2> QED BY <1>18, <2>1, <2>2 DEF RequestFinalize
<1>19. CASE DropReconcile(o)
  <2>0. \A x \in Ops : req'[x].tries = req[x].tries
    BY <1>19, RowTypes DEF TypeOK, DropReconcile, Request
  <2>1. CASE ReconcileChild(o)
    BY <1>19, <2>0, <2>1, ReconcileMoves DEF DropReconcile, Quiet
  <2>2. CASE UNCHANGED <<child, prov>>
    BY <1>19, <2>0, <2>2 DEF DropReconcile, Quiet
  <2> QED BY <1>19, <2>1, <2>2 DEF DropReconcile
<1> QED
  BY <1>1, <1>2, <1>3, <1>4, <1>5, <1>6, <1>7, <1>8, <1>9, <1>10, <1>11, <1>12, <1>13, <1>14, <1>15, <1>16, <1>17, <1>18, <1>19
  DEF RequestStep

\* So does a step of a recovery pass.
LEMMA WorkerMovesRows ==
    ASSUME TypeOK, AccountingInv, EvidenceInv, NEW w \in Workers, WorkerStep(w)
    PROVE  Quiet \/ Commits
<1> DEFINE q == work[w].op
<1> DEFINE Rows == /\ child' = child /\ prov' = prov /\ ledger' = ledger /\ cleanup' = cleanup
                   /\ req' = req
<1>0. ASSUME op' = op, auth' = auth, ns' = ns, Rows PROVE Quiet
  BY <1>0 DEF Quiet, Moves, Still, OpStill
<1>a. ASSUME \A x \in Ops : Still(x), auth' = auth, ns' = ns PROVE Quiet
  BY <1>a DEF Quiet, Moves
<1>1. ASSUME NEW o \in Ops, ClaimStale(w, o) PROVE Quiet
  <2>1. \A x \in Ops : /\ op'[x].state = op[x].state /\ op'[x].key = op[x].key
                        /\ op'[x].evidence = op[x].evidence /\ op'[x].epoch = op[x].epoch
                        /\ op'[x].released = op[x].released /\ op'[x].committed = op[x].committed
    BY <1>1, RowTypes DEF TypeOK, ClaimStale, Operation
  <2>2. auth' = auth /\ ns' = ns /\ Rows
    BY <1>1 DEF ClaimStale
  <2>3. \A x \in Ops : Still(x)
    BY <2>1, <2>2 DEF Still, OpStill
  <2> QED BY <1>a, <2>2, <2>3
<1>2. CASE WorkerAborts(w)
  <2>1. q \in Ops /\ Rows /\ auth' = auth /\ ns' = ns
    BY <1>2 DEF TypeOK, WorkerAborts
  <2>2. CASE Aborted(q) /\ AbortVerdict(q, "NoChildStarted", NoWorker, w) = "aborted"
    BY <1>a, <2>1, <2>2, AbortedStill
  <2>3. CASE MarkBlocked(q, w)
    BY <1>a, <2>1, <2>3, MarkBlockedStill
  <2>4. CASE op' = op
    BY <1>0, <2>1, <2>4
  <2> QED BY <1>2, <2>2, <2>3, <2>4 DEF WorkerAborts
<1>3. CASE WorkerBlocks(w)
  <2>1. q \in Ops /\ Rows /\ auth' = auth /\ ns' = ns
    BY <1>3 DEF TypeOK, WorkerBlocks
  <2> QED BY <1>a, <1>3, <2>1, MarkBlockedStill DEF WorkerBlocks
<1>4. CASE WorkerRenews(w) \/ WorkerLeases(w)
  BY <1>0, <1>4 DEF WorkerRenews, WorkerLeases
<1>5. CASE WorkerReconciles(w)
  <2>1. q \in Ops /\ UNCHANGED <<ns, auth, op, ledger, cleanup, req>>
    BY <1>5 DEF TypeOK, WorkerReconciles
  <2>2. CASE ReconcileChild(q)
    BY <2>1, <2>2, ReconcileMoves DEF Quiet
  <2>3. CASE UNCHANGED <<child, prov>>
    BY <1>0, <2>1, <2>3
  <2> QED BY <1>5, <2>2, <2>3 DEF WorkerReconciles
<1>6. CASE WorkerSettles(w)
  <2>1. q \in Ops /\ child' = child /\ prov' = prov /\ req' = req /\ ns' = ns
    BY <1>6 DEF TypeOK, WorkerSettles
  <2>2. CASE Committed(q) /\ FinalizeVerdict(q, w, w) = "committed"
    BY <2>1, <2>2 DEF Commits
  <2>3. CASE Aborted(q) /\ AbortVerdict(q, "ChildProvenAborted", w, w) = "aborted"
             /\ UNCHANGED <<auth, ledger, cleanup>>
    BY <1>a, <2>1, <2>3, AbortedStill
  <2>4. CASE MarkBlocked(q, w) /\ UNCHANGED <<usage, auth, intent, ledger, cleanup>>
    BY <1>a, <2>1, <2>4, MarkBlockedStill
  <2>5. CASE UNCHANGED <<usage, auth, op, intent, ledger, cleanup>>
    BY <1>0, <2>1, <2>5
  <2> QED BY <1>6, <2>2, <2>3, <2>4, <2>5 DEF WorkerSettles
<1> QED BY <1>1, <1>2, <1>3, <1>4, <1>5, <1>6 DEF WorkerStep

\* The provider, the clock and every failure only let attempts land or be lost.
LEMMA EnvironmentMovesRows ==
    ASSUME TypeOK, (\E o \in Ops : ProviderStep(o) \/ TimeStep(o)) \/ Failure
    PROVE  Quiet
<1> USE DEF Quiet, Moves, Still, OpStill
<1>1. ASSUME NEW o \in Ops, NEW i \in Attempts, ProviderLands(o, i) \/ ProviderLoses(o, i)
      PROVE  Quiet
  <2>1. UNCHANGED <<ns, auth, op, intent, child, ledger, cleanup, req>>
        /\ \A x \in Ops : x # o => prov'[x] = prov[x]
    BY <1>1 DEF TypeOK, ProviderLands, ProviderLoses
  <2>2. /\ prov'[o].inflight = prov[o].inflight \ {i} /\ i \in prov[o].inflight
        /\ prov'[o].versions = prov[o].versions \/ prov'[o].versions = prov[o].versions \cup {i}
    BY <1>1, RowTypes DEF TypeOK, ProviderLands, ProviderLoses, Provider
  <2>3. Still(o)
    BY <2>1, <2>2
  <2> QED BY <2>1, <2>3
<1>2. ASSUME NEW o \in Ops, LeaseExpires(o) PROVE Quiet
  BY <1>2 DEF LeaseExpires
<1>3. ASSUME NEW o \in Ops, ClaimExpires(o) PROVE Quiet
  <2>1. \A x \in Ops : /\ op'[x].state = op[x].state /\ op'[x].key = op[x].key
                        /\ op'[x].evidence = op[x].evidence /\ op'[x].epoch = op[x].epoch
                        /\ op'[x].released = op[x].released /\ op'[x].committed = op[x].committed
    BY <1>3, RowTypes DEF TypeOK, ClaimExpires, Operation
  <2> QED BY <1>3, <2>1 DEF ClaimExpires
<1>4. ASSUME NEW o \in Ops, Crash(o) \/ Disconnect(o) PROVE Quiet
  <2>1. req[o] \in Request /\ \A x \in Ops : x # o => req'[x] = req[x]
    BY <1>4, RowTypes DEF TypeOK, Crash, Disconnect
  <2>2. req'[o].tries = req[o].tries
    BY <1>4, <2>1 DEF TypeOK, Crash, Disconnect, Request
  <2> QED BY <1>4, <2>1, <2>2 DEF Crash, Disconnect
<1>5. ASSUME NEW w \in Workers, WorkerCrash(w) PROVE Quiet
  BY <1>5 DEF WorkerCrash
<1> QED BY <1>1, <1>2, <1>3, <1>4, <1>5 DEF ProviderStep, TimeStep, Failure

-----------------------------------------------------------------------------
(* Publication                                                             *)

\* What is published stays published while no authority moves.
LEMMA QuietPublication ==
    ASSUME TypeOK, EvidenceInv, PublicationInv, Quiet
    PROVE  PublicationInv'
<1>1. ASSUME NEW x \in Ops, op[x].state = "Committed" PROVE Still(x)
  BY <1>1 DEF Quiet, Moves, Launches, Selects, Busy, Unsettled
<1>2. ASSUME NEW k \in Keys PROVE Published(k)'
  <2> DEFINE g == auth[k].gen
  <2>1. Published(k) /\ auth'[k] = auth[k] /\ ns' = ns
    BY DEF PublicationInv, Quiet
  <2>2. CASE Live(k)
    <3>1. g \in Ops
      BY <2>1, <2>2 DEF TypeOK, Authority, Published
    <3>2. Still(g)
      BY <1>1, <2>1, <2>2, <3>1 DEF Published
    <3> QED BY <2>1, <2>2, <3>1, <3>2 DEF Published, Live, Still, OpStill
  <2>3. CASE ~Live(k)
    BY <2>1, <2>3 DEF Published, Live
  <2> QED BY <2>2, <2>3
<1>3. ASSUME NEW x \in Ops PROVE Current(x)' /\ Charged(x)'
  <2>1. Current(x) /\ Charged(x) /\ ns' = ns
    BY DEF PublicationInv, Quiet
  <2>2. CASE Still(x)
    <3>1. ledger[x] # {} => op[x].state = "Committed"
      BY DEF EvidenceInv, Evidence, VerdictTrue
    <3> QED BY <2>1, <2>2, <3>1 DEF Current, Charged, Still, OpStill
  <2>3. CASE Busy(x)
    BY <2>1, <2>3 DEF Current, Charged, Busy
  <2> QED BY <2>2, <2>3 DEF Quiet, Moves, Launches, Selects
<1> QED BY <1>2, <1>3 DEF PublicationInv

\* The finalizer publishes a version that is stored, and replaces only what it cleans up.
LEMMA CommitsPublication ==
    ASSUME TypeOK, AccountingInv, EvidenceInv, PublicationInv, Commits
    PROVE  PublicationInv'
<1>1. PICK o \in Ops : \E h, w :
         /\ FinalizeVerdict(o, h, w) = "committed" /\ Committed(o)
         /\ ns' = ns /\ child' = child /\ prov' = prov
  BY DEF Commits
<1>0. PICK k \in Keys : k = op[o].key
  BY RowTypes DEF Operation
<1>2. /\ op[o].state \in Unsettled /\ op[o].epoch = ns.epoch /\ child[o].st = "Committed"
      /\ op[o] \in Operation /\ op[o].cas \in Nat
  BY <1>1, RowTypes, CommittedFacts DEF ChildMatches, Unsettled, FenceHeld, Operation
<1>3. /\ ledger[o] = {} /\ ~cleanup[o] /\ child[o].versions \cap prov[o].versions # {}
      /\ op[o].released = 0
  <2>1. op[o].released = 0
    BY <1>2, Columns DEF AccountingInv, ReleaseBounded, Unsettled
  <2> QED BY <1>2, <2>1 DEF EvidenceInv, Evidence, VerdictTrue, ChildTrue, Unsettled
<1>4. /\ op'[o].state = "Committed" /\ op'[o].epoch = op[o].epoch /\ op'[o].key = k
      /\ op'[o].evidence = op[o].evidence /\ op'[o].released = op[o].released
      /\ \A x \in Ops : x # o => op'[x] = op[x] /\ ledger'[x] = ledger[x]
      /\ ledger'[o] = child[o].versions
  BY <1>0, <1>1, <1>2 DEF TypeOK, Committed, Operation
<1>5. /\ auth'[k] = [cas |-> op[o].cas + 1, gen |-> o, size |-> op[o].evidence, tomb |-> FALSE]
      /\ \A j \in Keys : j # k => auth'[j] = auth[j]
      /\ \A x \in Ops : cleanup'[x] => cleanup[x] \/ (Live(k) /\ x = auth[k].gen /\ ledger[x] # {})
  BY <1>0, <1>1, <1>2 DEF TypeOK, Committed
<1>6. Published(k)'
  <2>1. ~cleanup'[o] /\ ledger'[o] \cap prov'[o].versions # {}
    BY <1>1, <1>3, <1>4, <1>5
  <2>2. auth'[k].cas > 0 /\ ~auth'[k].tomb /\ auth'[k].gen = o /\ auth'[k].size = op[o].evidence
    BY <1>2, <1>5
  <2>3. o # NoOp
    BY LedgerAssumption
  <2>4. op'[o].key = k /\ op'[o].epoch = ns'.epoch
    BY <1>1, <1>2, <1>4
  <2> QED BY <1>4, <2>1, <2>2, <2>3, <2>4 DEF Published, Live
<1>7. ASSUME NEW j \in Keys, j # k PROVE Published(j)'
  <2>1. Published(j) /\ auth'[j] = auth[j] /\ Published(k)
    BY <1>5, <1>7 DEF PublicationInv
  <2>2. CASE Live(j)
    <3>1. auth[j].gen \in Ops /\ auth[j].gen # o
      BY <1>2, <2>1, <2>2 DEF TypeOK, Authority, Published, Unsettled
    <3>2. ~(Live(k) /\ auth[j].gen = auth[k].gen)
      BY <1>7, <2>1, <2>2 DEF Published
    <3>3. cleanup'[auth[j].gen] => cleanup[auth[j].gen]
      BY <1>5, <3>1, <3>2
    <3> QED BY <1>1, <1>4, <2>1, <2>2, <3>1, <3>3 DEF Published, Live
  <2>3. CASE ~Live(j)
    BY <2>1, <2>3 DEF Published, Live
  <2> QED BY <2>2, <2>3
<1>8. ASSUME NEW x \in Ops PROVE Current(x)' /\ Charged(x)'
  <2>1. Current(x) /\ Charged(x)
    BY DEF PublicationInv
  <2>2. CASE x = o
    BY <1>1, <1>2, <1>3, <1>4, <2>2 DEF Current, Charged, Unsettled
  <2>3. CASE x # o
    BY <1>1, <1>4, <2>1, <2>3 DEF Current, Charged
  <2> QED BY <2>2, <2>3
<1> QED BY <1>6, <1>7, <1>8 DEF PublicationInv

\* DELETE, cleanup and purge withdraw a generation before they remove its versions.
LEMMA MaintenancePublication ==
    ASSUME TypeOK, AccountingInv, EvidenceInv, PublicationInv, Maintenance
    PROVE  PublicationInv'
<1>0. \A x \in Ops : Current(x) /\ Charged(x)
  BY DEF PublicationInv
<1>a. ASSUME NEW j \in Keys, Published(j), auth'[j] = auth[j], ns'.epoch = ns.epoch, ns'.active => ns.active,
             \A x \in Ops : op[x].state = "Committed" =>
                 /\ op'[x].state = "Committed" /\ op'[x].epoch = op[x].epoch
                 /\ op'[x].key = op[x].key /\ op'[x].evidence = op[x].evidence,
             Live(j) /\ ns'.active =>
                 /\ ~cleanup[auth[j].gen] => ~cleanup'[auth[j].gen]
                 /\ ~cleanup[auth[j].gen] => /\ ledger'[auth[j].gen] = ledger[auth[j].gen]
                                             /\ prov'[auth[j].gen] = prov[auth[j].gen]
      PROVE  Published(j)'
  <2>1. CASE Live(j)
    <3>1. auth[j].gen \in Ops
      BY <1>a, <2>1 DEF TypeOK, Authority, Published
    <3> QED BY <1>a, <2>1, <3>1 DEF Published, Live
  <2>2. CASE ~Live(j)
    BY <1>a, <2>2 DEF Published, Live
  <2> QED BY <2>1, <2>2
<1>1. ASSUME NEW k \in Keys, Delete(k) PROVE PublicationInv'
  <2>1. /\ auth'[k].tomb /\ auth'[k].gen = NoOp /\ \A j \in Keys : j # k => auth'[j] = auth[j]
        /\ \A x \in Ops : cleanup'[x] => cleanup[x] \/ (Live(k) /\ x = auth[k].gen)
        /\ UNCHANGED <<ns, op, ledger, prov>>
    BY <1>1 DEF TypeOK, Delete
  <2>2. Published(k)'
    BY <2>1 DEF Published, Live
  <2>3. ASSUME NEW j \in Keys, j # k PROVE Published(j)'
    <3>1. Published(j) /\ Published(k)
      BY DEF PublicationInv
    <3>2. Live(j) /\ ~cleanup[auth[j].gen] => ~cleanup'[auth[j].gen]
      BY <2>1, <2>3, <3>1 DEF Published, TypeOK, Authority
    <3> QED BY <1>a, <2>1, <2>3, <3>1, <3>2
  <2>4. \A x \in Ops : Current(x)' /\ Charged(x)'
    BY <1>0, <2>1 DEF Current, Charged
  <2> QED BY <2>2, <2>3, <2>4 DEF PublicationInv
<1>2. ASSUME NEW o \in Ops, NEW v \in Attempts, CleanupDeletes(o, v) \/ PurgeDeletes(o, v)
      PROVE  PublicationInv'
  <2>1. /\ UNCHANGED <<ns, auth, op, ledger, cleanup>>
        /\ \A x \in Ops : x # o => prov'[x] = prov[x]
        /\ cleanup[o] \/ ~ns.active
    BY <1>2 DEF TypeOK, CleanupDeletes, PurgeDeletes
  <2>2. ASSUME NEW j \in Keys PROVE Published(j)'
    <3>1. Published(j)
      BY DEF PublicationInv
    <3>2. Live(j) /\ ns.active /\ ~cleanup[auth[j].gen] => prov'[auth[j].gen] = prov[auth[j].gen]
      BY <2>1, <3>1 DEF Published, TypeOK, Authority
    <3> QED BY <1>a, <2>1, <3>1, <3>2
  <2>3. \A x \in Ops : Current(x)' /\ Charged(x)'
    BY <1>0, <2>1 DEF Current, Charged
  <2> QED BY <2>2, <2>3 DEF PublicationInv
<1>3. ASSUME NEW o \in Ops, NEW v \in Attempts, ForgetVersion(o, v) \/ PurgeForgets(o, v)
      PROVE  PublicationInv'
  <2>1. /\ UNCHANGED <<ns, auth, prov, cleanup>>
        /\ \A x \in Ops : x # o => ledger'[x] = ledger[x] /\ op'[x] = op[x]
        /\ v \in ledger[o] /\ ledger'[o] = ledger[o] \ {v}
        /\ cleanup[o] \/ ~ns.active
    BY <1>3 DEF TypeOK, ForgetVersion, PurgeForgets
  <2>2. op[o] \in Operation /\ op[o].state = "Committed"
    BY <2>1, RowTypes DEF EvidenceInv, Evidence, VerdictTrue
  <2>3. /\ op'[o].state = op[o].state /\ op'[o].key = op[o].key /\ op'[o].evidence = op[o].evidence
        /\ op'[o].epoch = op[o].epoch /\ op'[o].committed = op[o].committed
        /\ ledger'[o] # {} => op'[o].released = op[o].released
        /\ ledger'[o] = {} /\ ns.active => op'[o].released = op[o].committed
    <3>1. CASE ledger[o] = {v}
      BY <1>3, <2>1, <2>2, <3>1 DEF TypeOK, ForgetVersion, PurgeForgets, Operation
    <3>2. CASE ledger[o] # {v}
      BY <1>3, <2>1, <2>2, <3>2 DEF TypeOK, ForgetVersion, PurgeForgets, Operation
    <3> QED BY <3>1, <3>2
  <2>4. ASSUME NEW j \in Keys PROVE Published(j)'
    <3>1. Published(j)
      BY DEF PublicationInv
    <3>2. Live(j) /\ ns.active /\ ~cleanup[auth[j].gen] => ledger'[auth[j].gen] = ledger[auth[j].gen]
      BY <2>1, <3>1 DEF Published, TypeOK, Authority
    <3>3. \A x \in Ops : op[x].state = "Committed" =>
             /\ op'[x].state = "Committed" /\ op'[x].epoch = op[x].epoch
             /\ op'[x].key = op[x].key /\ op'[x].evidence = op[x].evidence
      BY <2>1, <2>3
    <3> QED BY <1>a, <2>1, <3>1, <3>2, <3>3
  <2>5. \A x \in Ops : x # o => Current(x)' /\ Charged(x)'
    BY <1>0, <2>1 DEF Current, Charged
  <2>6. Current(o)' /\ Charged(o)'
    <3>1. Current(o) /\ Charged(o)
      BY <1>0
    <3> QED BY <2>1, <2>2, <2>3, <3>1 DEF Current, Charged, Unsettled
  <2> QED BY <2>4, <2>5, <2>6 DEF PublicationInv
<1>4. CASE AdvanceRouting \/ PurgeFence
  <2>1. UNCHANGED <<auth, op, ledger, cleanup, prov>> /\ ns'.epoch = ns.epoch /\ (ns'.active => ns.active)
    BY <1>4 DEF TypeOK, Namespace, AdvanceRouting, PurgeFence
  <2>2. ASSUME NEW j \in Keys PROVE Published(j)'
    BY <1>a, <2>1 DEF PublicationInv
  <2>3. \A x \in Ops : Current(x)' /\ Charged(x)'
    BY <1>0, <2>1 DEF Current, Charged
  <2> QED BY <2>2, <2>3 DEF PublicationInv
<1>5. CASE FinishPurge
  <2>1. \A k \in Keys : auth'[k].cas = 0 /\ auth'[k].gen = NoOp
    BY <1>5 DEF FinishPurge
  <2>2. \A k \in Keys : Published(k)'
    BY <2>1 DEF Published, Live
  <2>3. \A x \in Ops : /\ ledger'[x] = {} /\ op'[x].state = op[x].state /\ op[x].state \notin Unsettled
                        /\ op'[x].released = op'[x].committed
    BY <1>5, RowTypes DEF FinishPurge, PurgeReady, Operation
  <2>4. \A x \in Ops : Current(x)' /\ Charged(x)'
    BY <2>3 DEF Current, Charged
  <2> QED BY <2>2, <2>4 DEF PublicationInv
<1> QED BY <1>1, <1>2, <1>3, <1>4, <1>5 DEF Maintenance

\* Initially nothing is published.
LEMMA InitPublication == Init => PublicationInv
<1> SUFFICES ASSUME Init PROVE PublicationInv
  OBVIOUS
<1>1. \A k \in Keys : auth[k].cas = 0 /\ auth[k].gen = NoOp
  BY DEF Init
<1>2. \A o \in Ops : op[o].state = "none" /\ ledger[o] = {}
  BY DEF Init, NoRow
<1>3. \A k \in Keys : Published(k)
  BY <1>1 DEF Published, Live
<1>4. \A o \in Ops : Current(o) /\ Charged(o)
  BY <1>2 DEF Current, Charged, Unsettled
<1> QED BY <1>3, <1>4 DEF PublicationInv

\* Every step either moves rows, commits an operation or is a maintenance step.
LEMMA Steps ==
    ASSUME TypeOK, AccountingInv, EvidenceInv, [Next]_vars
    PROVE  Quiet \/ Commits \/ Maintenance
<1>1. CASE UNCHANGED vars
  BY <1>1 DEF vars, Quiet, Moves, Still, OpStill
<1>2. ASSUME NEW o \in Ops, RequestStep(o) PROVE Quiet \/ Commits
  BY <1>2, RequestMovesRows
<1>3. ASSUME NEW w \in Workers, WorkerStep(w) PROVE Quiet \/ Commits
  BY <1>3, WorkerMovesRows
<1>4. CASE (\E o \in Ops : ProviderStep(o) \/ TimeStep(o)) \/ Failure
  BY <1>4, EnvironmentMovesRows
<1> QED BY <1>1, <1>2, <1>3, <1>4 DEF Next

\* Every step keeps publication, authority and charge together.
LEMMA NextPublication ==
    TypeOK /\ AccountingInv /\ EvidenceInv /\ PublicationInv /\ [Next]_vars => PublicationInv'
BY Steps, QuietPublication, CommitsPublication, MaintenancePublication

-----------------------------------------------------------------------------
(* Attempts in flight                                                      *)

\* Steps that settle nothing keep attempts and rows in agreement.
LEMMA QuietFlight ==
    ASSUME TypeOK, FlightInv, Quiet, NEW x \in Ops
    PROVE  Flight(x)'
<1>0. /\ Flight(x) /\ prov[x].inflight \subseteq Attempts /\ prov[x].versions \subseteq Attempts
      /\ req[x].tries \in 0..MaxAttempts
  BY RowTypes DEF FlightInv, Provider, Request
<1>1. CASE Still(x)
  BY <1>0, <1>1 DEF Flight, Still, OpStill
<1>2. CASE Launches(x)
  <2>1. PICK i \in Attempts : /\ prov'[x].inflight = prov[x].inflight \cup {i} /\ req'[x].tries = i
                              /\ Untouched(x) \/ i = req[x].tries + 1
    BY <1>2 DEF Launches
  <2>2. i \in Nat /\ i >= 1 /\ MaxAttempts \in Nat
    BY LedgerAssumption DEF Attempts
  <2>3. prov'[x].versions = prov[x].versions /\ child'[x].st # "Committed" /\ op'[x].state # "Committed"
    BY <1>2 DEF Launches, Busy, Unsettled
  <2>4. prov'[x].inflight \cap prov'[x].versions = {}
    BY <1>0, <2>1, <2>2, <2>3 DEF Flight, Untouched
  <2>5. prov'[x].inflight \cup prov'[x].versions \subseteq 1..req'[x].tries
    BY <1>0, <2>1, <2>2, <2>3 DEF Flight, Untouched
  <2> QED BY <2>3, <2>4, <2>5 DEF Flight
<1>3. CASE Selects(x)
  <2>1. /\ req'[x].tries = req[x].tries /\ prov'[x].inflight = prov[x].inflight
        /\ prov'[x].versions \subseteq prov[x].versions /\ op'[x].state # "Committed"
    BY <1>3 DEF Selects, Busy, Unsettled
  <2>2. ASSUME Sparse, child'[x].complete
        PROVE  prov[x].inflight = {} /\ prov[x].versions \subseteq child'[x].versions
    <3>1. CASE ExactRecovery
      <4>1. Attempts = {1}
        BY <2>2, <3>1 DEF Sparse, Attempts
      <4>2. prov[x].versions # {} /\ child'[x].versions = prov[x].versions
        BY <1>3, <3>1 DEF Selects
      <4> QED BY <1>0, <4>1, <4>2 DEF Flight
    <3>2. CASE ~ExactRecovery
      <4>1. req[x].tries = 1 /\ child'[x].versions = {1} /\ 1 \in prov[x].versions
        BY <1>3, <2>2, <3>2 DEF Selects
      <4>2. 1..req[x].tries = {1}
        BY <4>1
      <4> QED BY <1>0, <4>1, <4>2 DEF Flight
    <3> QED BY <3>1, <3>2
  <2> QED BY <1>0, <2>1, <2>2 DEF Flight
<1> QED BY <1>1, <1>2, <1>3 DEF Quiet, Moves

\* A commit names every version the provider holds.
LEMMA CommitsFlight ==
    ASSUME TypeOK, FlightInv, Commits, NEW x \in Ops
    PROVE  Flight(x)'
<1>1. PICK o \in Ops : \E h, w :
         /\ FinalizeVerdict(o, h, w) = "committed" /\ Committed(o)
         /\ ns' = ns /\ child' = child /\ prov' = prov
         /\ \A y \in Ops : req'[y].tries = req[y].tries
  BY DEF Commits
<1>2. child[o].st = "Committed" /\ child[o].complete
  BY <1>1, CommittedFacts DEF ChildMatches
<1>3. ledger'[o] = child[o].versions /\ \A y \in Ops : y # o => op'[y] = op[y] /\ ledger'[y] = ledger[y]
  BY <1>1 DEF TypeOK, Committed
<1>4. Flight(x)
  BY DEF FlightInv
<1> QED BY <1>1, <1>2, <1>3, <1>4 DEF Flight

\* Cleanup and purge forget a version only after it is deleted.
LEMMA MaintenanceFlight ==
    ASSUME TypeOK, FlightInv, EvidenceInv, Maintenance, NEW x \in Ops
    PROVE  Flight(x)'
<1>0. Flight(x)
  BY DEF FlightInv
<1>1. ASSUME NEW k \in Keys, Delete(k) PROVE Flight(x)'
  BY <1>0, <1>1 DEF Delete, Flight
<1>2. ASSUME NEW o \in Ops, NEW v \in Attempts, CleanupDeletes(o, v) \/ PurgeDeletes(o, v)
      PROVE  Flight(x)'
  <2>0. UNCHANGED <<op, child, ledger, req>> /\ prov[o] \in Provider
        /\ \A y \in Ops : y # o => prov'[y] = prov[y]
    BY <1>2, RowTypes DEF TypeOK, CleanupDeletes, PurgeDeletes
  <2>1. prov'[o].inflight = prov[o].inflight /\ prov'[o].versions \subseteq prov[o].versions
    BY <1>2, <2>0 DEF TypeOK, CleanupDeletes, PurgeDeletes, Provider
  <2> QED BY <1>0, <2>0, <2>1 DEF Flight
<1>3. ASSUME NEW o \in Ops, NEW v \in Attempts, ForgetVersion(o, v) \/ PurgeForgets(o, v)
      PROVE  Flight(x)'
  <2>1. /\ prov' = prov /\ req' = req /\ v \notin prov[o].versions
        /\ \A y \in Ops : y # o => op'[y] = op[y] /\ ledger'[y] = ledger[y] /\ child'[y] = child[y]
        /\ ledger'[o] = ledger[o] \ {v}
        /\ child'[o] = child[o] \/ child'[o].st = "none"
    BY <1>3 DEF TypeOK, ForgetVersion, PurgeForgets, NoChild
  <2>2. op[o] \in Operation
    BY RowTypes
  <2>3. op'[o].state = op[o].state
    <3>1. CASE ledger[o] = {v}
      BY <1>3, <2>2, <3>1 DEF TypeOK, ForgetVersion, PurgeForgets, Operation
    <3>2. CASE ledger[o] # {v}
      BY <1>3, <3>2 DEF TypeOK, ForgetVersion, PurgeForgets
    <3> QED BY <3>1, <3>2
  <2>4. CASE x = o
    BY <1>0, <2>1, <2>3, <2>4 DEF Flight
  <2>5. CASE x # o
    BY <1>0, <2>1, <2>5 DEF Flight
  <2> QED BY <2>4, <2>5
<1>4. CASE AdvanceRouting \/ PurgeFence
  BY <1>0, <1>4 DEF AdvanceRouting, PurgeFence, Flight
<1>5. CASE FinishPurge
  <2>1. child'[x].st = "none" /\ op'[x].state = op[x].state /\ UNCHANGED <<ledger, prov, req>>
    BY <1>5, RowTypes DEF FinishPurge, Operation, NoChild
  <2> QED BY <1>0, <2>1 DEF Flight
<1> QED BY <1>1, <1>2, <1>3, <1>4, <1>5 DEF Maintenance

\* Every step keeps attempts and rows in agreement.
LEMMA NextFlight ==
    TypeOK /\ AccountingInv /\ EvidenceInv /\ FlightInv /\ [Next]_vars => FlightInv'
BY Steps, QuietFlight, CommitsFlight, MaintenanceFlight DEF FlightInv

\* Initially nothing was sent.
LEMMA InitFlight == Init => FlightInv
<1> SUFFICES ASSUME Init, NEW o \in Ops PROVE Flight(o)
  BY DEF FlightInv
<1>1. /\ op[o].state = "none" /\ child[o].st = "none" /\ req[o].tries = 0
      /\ prov[o].inflight = {} /\ prov[o].versions = {}
  BY DEF Init, NoRow, NoChild
<1> QED BY <1>1 DEF Flight

-----------------------------------------------------------------------------
(* Theorems                                                                *)

\* Publications, charges and attempts, in every reachable state: the authority rows against
\* the provider (finalize_logical_put, commit_atomic_logical_delete, delete_generation), and
\* what a request may still have in flight (direct sink, transaction/s3.rs).
THEOREM PublicationHolds == Spec => [](PublicationInv /\ FlightInv)
<1>1. Init => PublicationInv /\ FlightInv
  BY InitPublication, InitFlight
<1>2. TypeOK /\ AccountingInv /\ EvidenceInv /\ PublicationInv /\ FlightInv /\ [Next]_vars
         => (PublicationInv /\ FlightInv)'
  BY NextPublication, NextFlight
<1> QED BY <1>1, <1>2, TypeCorrect, Accounting, RowsTellTheTruth, PTL DEF Spec

\* Retained witness, for every set of operations, keys and workers: whatever is lost on the
\* way, bytes of an unsettled operation stay covered by its durable intent.
THEOREM WitnessRetained == Spec => []RetainedWitness
<1>1. EvidenceInv => RetainedWitness
  BY DEF EvidenceInv, Evidence, CoveredRow, RetainedWitness, Untouched
<1> QED BY <1>1, RowsTellTheTruth, PTL

\* An operation that abort_logical_put reports as proven aborted left nothing at the
\* provider and nothing on its way there.
THEOREM AbortLeavesNothing == Spec => []AbortedLeavesNothing
<1>1. TypeOK /\ EvidenceInv => AbortedLeavesNothing
  <2> SUFFICES ASSUME TypeOK, EvidenceInv, NEW o \in Ops, op[o].state = "ProvenAborted"
               PROVE  /\ prov[o] = [inflight |-> {}, versions |-> {}]
                      /\ ledger[o] = {} /\ intent[o].st = "none"
    BY DEF AbortedLeavesNothing
  <2>1. prov[o].inflight = {} /\ prov[o].versions = {} /\ ledger[o] = {} /\ intent[o].st = "none"
    BY DEF EvidenceInv, Evidence, VerdictTrue, CoveredRow, Untouched, Unsettled
  <2>2. prov[o] \in Provider
    BY RowTypes
  <2> QED BY <2>1, <2>2 DEF Provider
<1> QED BY <1>1, TypeCorrect, RowsTellTheTruth, PTL

\* What a reader is sent to is stored: in an active namespace every live authority row is the
\* committed generation of its key, with its size, and one of its ledgered versions is there.
THEOREM AuthorityStored == Spec => []AuthorityBacked
<1>1. TypeOK /\ PublicationInv => AuthorityBacked
  <2> SUFFICES ASSUME TypeOK, PublicationInv, ns.active, NEW k \in Keys, Live(k)
               PROVE  LET o == auth[k].gen IN
                      /\ o \in Ops /\ op[o].state = "Committed" /\ op[o].key = k
                      /\ op[o].evidence = auth[k].size /\ ~cleanup[o]
                      /\ ledger[o] \cap prov[o].versions # {}
    BY DEF AuthorityBacked
  <2>1. Published(k)
    BY DEF PublicationInv
  <2>2. auth[k].gen \in Ops
    BY <2>1 DEF TypeOK, Authority, Published
  <2> QED BY <2>1, <2>2 DEF Published
<1> QED BY <1>1, TypeCorrect, PublicationHolds, PTL

\* forget_physical_version releases an allocation with its last version row, neither earlier
\* nor twice.
THEOREM ReleasedOnce == Spec => []ReleaseExact
<1>1. PublicationInv => ReleaseExact
  BY DEF PublicationInv, Charged, ReleaseExact
<1> QED BY <1>1, PublicationHolds, PTL

\* Where no attempt can land behind an exact enumeration, cleanup and purge can find every
\* stored version: it has a version row, or its operation still has its intent.
THEOREM VersionsKnown == Sparse => (Spec => []NoOrphanVersion)
<1> SUFFICES ASSUME Sparse PROVE Spec => []NoOrphanVersion
  OBVIOUS
<1>1. TypeOK /\ EvidenceInv /\ FlightInv => NoOrphanVersion
  <2> SUFFICES ASSUME TypeOK, EvidenceInv, FlightInv, NEW o \in Ops, intent[o].st = "none"
               PROVE  prov[o].versions \subseteq ledger[o]
    BY DEF NoOrphanVersion
  <2>1. op[o].state \in {"none", "Committed", "ProvenAborted"} \cup Unsettled
    BY RowTypes DEF Operation, Terminal
  <2>2. CASE op[o].state = "Committed"
    BY <2>2 DEF FlightInv, Flight
  <2>3. CASE op[o].state # "Committed"
    BY <2>1, <2>3 DEF EvidenceInv, Evidence, FreshRow, CoveredRow, VerdictTrue, Untouched
  <2> QED BY <2>2, <2>3
<1> QED BY <1>1, TypeCorrect, RowsTellTheTruth, PublicationHolds, PTL

\* And a finished purge (finalize_purge_if_ready) leaves nothing of the purged epochs.
THEOREM PurgeComplete == Sparse => (Spec => []PurgeLeavesNothing)
<1> SUFFICES ASSUME Sparse PROVE Spec => []PurgeLeavesNothing
  OBVIOUS
<1>1. TypeOK /\ EvidenceInv /\ PublicationInv /\ FlightInv => PurgeLeavesNothing
  <2> SUFFICES ASSUME TypeOK, EvidenceInv, PublicationInv, FlightInv, NEW o \in Ops,
                      op[o].state # "none", op[o].epoch < ns.epoch
               PROVE  /\ prov[o].versions = {} /\ ledger[o] = {} /\ intent[o].st = "none"
                      /\ op[o].state \in Terminal /\ \A k \in Keys : auth[k].gen # o
    BY DEF PurgeLeavesNothing
  <2>1. op[o].epoch # ns.epoch /\ op[o].state \in {"none"} \cup Unsettled \cup Terminal
    BY RowTypes DEF Operation, TypeOK, Namespace
  <2>2. ledger[o] = {} /\ op[o].state \notin Unsettled
    BY <2>1 DEF PublicationInv, Current
  <2>3. intent[o].st = "none"
    BY <2>2 DEF EvidenceInv, Evidence, CoveredRow
  <2>4. prov[o].versions = {}
    BY <2>1, <2>2 DEF EvidenceInv, Evidence, VerdictTrue, Untouched, FlightInv, Flight, Terminal
  <2>5. ASSUME NEW k \in Keys, auth[k].gen = o PROVE FALSE
    BY <2>1, <2>5, LedgerAssumption DEF PublicationInv, Published
  <2> QED BY <2>1, <2>2, <2>3, <2>4, <2>5
<1> QED BY <1>1, TypeCorrect, RowsTellTheTruth, PublicationHolds, PTL

-----------------------------------------------------------------------------
(* Sums over finite sets                                                   *)

\* Every set of naturals that is not empty has a least element.
LEMMA LeastNatural ==
  ASSUME NEW T \in SUBSET Nat, T # {}
  PROVE  \E x \in T : \A y \in T : x <= y
<1>1. PICK R : R = OpToRel(<, Nat)
  OBVIOUS
<1>2. IsWellFoundedOn(R, Nat)
  BY <1>1, NatLessThanWellFounded
<1>3. PICK x \in T : \A y \in T : ~(<<y, x>> \in R)
  BY <1>2, WFMin
<1>4. \A y \in T : y < x => <<y, x>> \in R
  BY <1>1 DEF OpToRel
<1>5. ASSUME NEW y \in T
      PROVE  x <= y
  <2>1. x \in Nat /\ y \in Nat /\ ~(y < x)
    BY <1>3, <1>4
  <2> QED BY <2>1
<1> QED BY <1>5

\* Induction over the subsets of a finite set.
LEMMA SubsetInduction ==
  ASSUME NEW S, IsFiniteSet(S), NEW P,
         \A T \in SUBSET S : (\A U \in SUBSET T : U # T => U \in P) => T \in P
  PROVE  \A T \in SUBSET S : T \in P
<1> SUFFICES ASSUME NEW T0 \in SUBSET S, T0 \notin P
             PROVE  FALSE
  OBVIOUS
<1> DEFINE B == {n \in Nat : \E T \in SUBSET S : T \notin P /\ Cardinality(T) = n}
<1>1. \A T \in SUBSET S : IsFiniteSet(T) /\ Cardinality(T) \in Nat
  BY FS_Subset, FS_CardinalityType
<1>2. B \in SUBSET Nat /\ B # {}
  BY <1>1
<1>3. PICK m \in B : \A y \in B : m <= y
  BY <1>2, LeastNatural
<1>4. PICK T \in SUBSET S : T \notin P /\ Cardinality(T) = m
  OBVIOUS
<1>5. PICK U \in SUBSET T : U # T /\ U \notin P
  BY <1>4
<1>6. Cardinality(U) < Cardinality(T)
  BY <1>1, <1>5, FS_Subset
<1>7. U \in SUBSET S /\ Cardinality(U) \in B
  BY <1>1, <1>5
<1>8. m <= Cardinality(U) /\ m \in Nat /\ Cardinality(U) \in Nat
  BY <1>1, <1>3, <1>7
<1> QED BY <1>4, <1>6, <1>8

\* The recursion of a sum: take any element out, add the sum of the others.
Pick(T) == CHOOSE x \in T : TRUE
Rest(T) == T \ {Pick(T)}
Plus(g, f, T) == IF T = {} THEN 0 ELSE f[Pick(T)] + g[Rest(T)]
Adds(g, f, S) == g = [T \in SUBSET S |-> Plus(g, f, T)]

\* Some function solves it.
LEMMA SumExists ==
  ASSUME NEW S, IsFiniteSet(S), NEW f
  PROVE  \E g : Adds(g, f, S)
<1> DEFINE Good(g, n) == \A T \in SUBSET S : Cardinality(T) <= n => g[T] = Plus(g, f, T)
           Once(g) == [T \in SUBSET S |-> Plus(g, f, T)]
           B == {n \in Nat : ~\E g : Good(g, n)}
<1>1. \A T \in SUBSET S : IsFiniteSet(T) /\ Cardinality(T) \in Nat
  BY FS_Subset, FS_CardinalityType
<1>2. \A T \in SUBSET S : T # {} => /\ Rest(T) \in SUBSET S /\ Cardinality(T) > 0
                                    /\ Cardinality(Rest(T)) = Cardinality(T) - 1
  <2> SUFFICES ASSUME NEW T \in SUBSET S, T # {}
               PROVE  /\ Rest(T) \in SUBSET S /\ Cardinality(T) > 0
                      /\ Cardinality(Rest(T)) = Cardinality(T) - 1
    OBVIOUS
  <2>1. Pick(T) \in T
    BY DEF Pick
  <2>2. Cardinality(T \ {Pick(T)}) = Cardinality(T) - 1
    BY <1>1, <2>1, FS_RemoveElement
  <2>3. Cardinality(T) # 0
    BY <1>1, FS_EmptySet
  <2> QED BY <1>1, <2>2, <2>3 DEF Rest
<1>3. ASSUME NEW n \in Nat, NEW g, Good(g, n)
      PROVE  Good(Once(g), n + 1)
  <2> SUFFICES ASSUME NEW T \in SUBSET S, Cardinality(T) <= n + 1
               PROVE  Once(g)[T] = Plus(Once(g), f, T)
    OBVIOUS
  <2>1. Once(g)[T] = Plus(g, f, T)
    OBVIOUS
  <2>2. CASE T = {}
    BY <2>1, <2>2 DEF Plus
  <2>3. CASE T # {}
    <3>1. Rest(T) \in SUBSET S /\ Cardinality(Rest(T)) <= n
      BY <1>1, <1>2, <2>3
    <3>2. g[Rest(T)] = Plus(g, f, Rest(T))
      BY <1>3, <3>1
    <3>3. Once(g)[Rest(T)] = g[Rest(T)]
      BY <3>1, <3>2
    <3> HIDE DEF Once
    <3> QED BY <2>1, <3>3 DEF Plus
  <2> QED BY <2>2, <2>3
<1>4. Good([T \in SUBSET S |-> 0], 0)
  <2> SUFFICES ASSUME NEW T \in SUBSET S, Cardinality(T) <= 0
               PROVE  0 = Plus([U \in SUBSET S |-> 0], f, T)
    OBVIOUS
  <2>1. T = {}
    BY <1>1, <1>2
  <2> QED BY <2>1 DEF Plus
<1>5. B = {}
  <2> SUFFICES ASSUME B # {}
               PROVE  FALSE
    OBVIOUS
  <2>1. B \in SUBSET Nat
    OBVIOUS
  <2>2. PICK m \in B : \A y \in B : m <= y
    BY <2>1, LeastNatural
  <2>3. m # 0
    BY <1>4
  <2>4. m - 1 \in Nat /\ m - 1 \notin B
    BY <2>1, <2>2, <2>3
  <2> HIDE DEF Good, Once
  <2>5. PICK j \in Nat : j = m - 1 /\ j \notin B
    BY <2>4
  <2>6. PICK g : Good(g, j)
    BY <2>5
  <2>7. Good(Once(g), j + 1)
    BY <1>3, <2>6
  <2>8. j + 1 = m
    BY <2>1, <2>5
  <2> QED BY <2>7, <2>8
<1>6. PICK n \in Nat : n = Cardinality(S)
  BY <1>1
<1>7. PICK g : Good(g, n)
  BY <1>5
<1>8. Good(Once(g), n + 1)
  <2> HIDE DEF Good, Once
  <2> QED BY <1>3, <1>7
<1>9. \A T \in SUBSET S : Cardinality(T) <= n + 1
  <2>1. \A T \in SUBSET S : Cardinality(T) <= n
    BY <1>6, FS_Subset
  <2> QED BY <1>1, <2>1
<1>10. \A T \in SUBSET S : Once(g)[T] = Plus(Once(g), f, T)
  BY <1>8, <1>9
<1>11. PICK h : h = Once(g)
  OBVIOUS
<1>12. h = [T \in SUBSET S |-> h[T]]
  BY <1>11
<1>13. \A T \in SUBSET S : h[T] = Plus(h, f, T)
  BY <1>10, <1>11
<1>14. h = [T \in SUBSET S |-> Plus(h, f, T)]
  <2> HIDE DEF Good, Once, B
  <2> QED BY <1>12, <1>13
<1> QED BY <1>14 DEF Adds

\* So the total of f is the value of a solution.
LEMMA TotalSolves ==
  ASSUME NEW S, IsFiniteSet(S), NEW f
  PROVE  \E g : Adds(g, f, S) /\ Contract!Total(f, S) = g[S]
<1>1. Contract!Total(f, S) = (CHOOSE g : Adds(g, f, S))[S]
  BY DEF Contract!Total, Contract!MapThenSumSet, Contract!MapThenFoldSet, Adds, Plus, Rest, Pick
<1>2. Adds(CHOOSE g : Adds(g, f, S), f, S)
  BY SumExists
<1> QED BY <1>1, <1>2

\* A sum of integers is an integer, and it does not depend on the element taken out.
LEMMA SumSplits ==
  ASSUME NEW S, IsFiniteSet(S), NEW f \in [S -> Int], NEW g, Adds(g, f, S)
  PROVE  \A T \in SUBSET S : g[T] \in Int /\ \A y \in T : g[T] = f[y] + g[T \ {y}]
<1> DEFINE P == {T \in SUBSET S : g[T] \in Int /\ \A y \in T : g[T] = f[y] + g[T \ {y}]}
<1>0. \A T \in SUBSET S : g[T] = Plus(g, f, T)
  BY DEF Adds
<1>1. ASSUME NEW T \in SUBSET S, \A U \in SUBSET T : U # T => U \in P
      PROVE  T \in P
  <2>1. CASE T = {}
    <3>1. g[T] = 0
      BY <1>0, <2>1 DEF Plus
    <3> QED BY <2>1, <3>1
  <2>2. CASE T # {}
    <3>1. PICK x \in T : x = Pick(T)
      BY <2>2 DEF Pick
    <3>2. g[T] = f[x] + g[T \ {x}]
      BY <1>0, <2>2, <3>1 DEF Plus, Rest
    <3>3. T \ {x} \in P /\ f[x] \in Int
      BY <1>1
    <3>4. g[T] \in Int
      BY <3>2, <3>3
    <3>5. ASSUME NEW y \in T, y # x
          PROVE  g[T] = f[y] + g[T \ {y}]
      <4>1. T \ {y} \in P /\ f[y] \in Int
        BY <1>1
      <4>2. g[T \ {x}] = f[y] + g[(T \ {x}) \ {y}]
        BY <3>3, <3>5
      <4>3. g[T \ {y}] = f[x] + g[(T \ {y}) \ {x}]
        BY <3>5, <4>1
      <4>4. (T \ {y}) \ {x} = (T \ {x}) \ {y}
        OBVIOUS
      <4>5. (T \ {x}) \ {y} \in P
        BY <1>1
      <4>6. PICK a \in Int : a = g[(T \ {x}) \ {y}]
        BY <4>5
      <4>7. g[T] = f[x] + (f[y] + a) /\ g[T \ {y}] = f[x] + a
        BY <3>2, <4>2, <4>3, <4>4, <4>6
      <4>8. \A b, c \in Int : b + (c + a) = c + (b + a)
        OBVIOUS
      <4> QED BY <3>3, <4>1, <4>7, <4>8
    <3> QED BY <3>2, <3>4, <3>5
  <2> QED BY <2>1, <2>2
<1>2. \A T \in SUBSET S : T \in P
  <2> HIDE DEF P
  <2> QED BY <1>1, SubsetInduction
<1> QED BY <1>2

\* The total of integers is an integer.
LEMMA TotalType ==
  ASSUME NEW S, IsFiniteSet(S), NEW f \in [S -> Int]
  PROVE  Contract!Total(f, S) \in Int
BY TotalSolves, SumSplits

\* A total moves by what one summand moves.
LEMMA TotalMoves ==
  ASSUME NEW S, IsFiniteSet(S), NEW f \in [S -> Int], NEW h \in [S -> Int], NEW y \in S,
         \A x \in S : x # y => h[x] = f[x]
  PROVE  Contract!Total(h, S) = Contract!Total(f, S) - f[y] + h[y]
<1>1. PICK a : Adds(a, f, S) /\ Contract!Total(f, S) = a[S]
  BY TotalSolves
<1>2. PICK b : Adds(b, h, S) /\ Contract!Total(h, S) = b[S]
  BY TotalSolves
<1> DEFINE P == {T \in SUBSET S : y \notin T => b[T] = a[T]}
<1>3. ASSUME NEW T \in SUBSET S, \A U \in SUBSET T : U # T => U \in P
      PROVE  T \in P
  <2> SUFFICES ASSUME y \notin T
               PROVE  b[T] = a[T]
    OBVIOUS
  <2>0. a[T] = Plus(a, f, T) /\ b[T] = Plus(b, h, T)
    BY <1>1, <1>2 DEF Adds
  <2>1. CASE T = {}
    BY <2>0, <2>1 DEF Plus
  <2>2. CASE T # {}
    <3>1. Pick(T) \in T
      BY <2>2 DEF Pick
    <3>2. Rest(T) \in SUBSET T /\ Rest(T) # T /\ y \notin Rest(T)
      BY <3>1 DEF Rest
    <3>3. b[Rest(T)] = a[Rest(T)]
      BY <1>3, <3>2
    <3>4. h[Pick(T)] = f[Pick(T)]
      BY <3>1
    <3> QED BY <2>0, <2>2, <3>3, <3>4 DEF Plus
  <2> QED BY <2>1, <2>2
<1>4. \A T \in SUBSET S : T \in P
  <2> HIDE DEF P
  <2> QED BY <1>3, SubsetInduction
<1>5. b[S \ {y}] = a[S \ {y}]
  BY <1>4
<1>6. a[S] = f[y] + a[S \ {y}] /\ a[S \ {y}] \in Int
  BY <1>1, SumSplits
<1>7. b[S] = h[y] + b[S \ {y}]
  BY <1>2, SumSplits
<1>8. \A p, q, r \in Int : r + q = p + q - p + r
  OBVIOUS
<1>9. f[y] \in Int /\ h[y] \in Int
  OBVIOUS
<1> QED BY <1>1, <1>2, <1>5, <1>6, <1>7, <1>9

\* Nothing adds up to nothing.
LEMMA TotalOfZero ==
  ASSUME NEW S, IsFiniteSet(S), NEW f, \A x \in S : f[x] = 0
  PROVE  Contract!Total(f, S) = 0
<1>1. PICK a : Adds(a, f, S) /\ Contract!Total(f, S) = a[S]
  BY TotalSolves
<1> DEFINE P == {T \in SUBSET S : a[T] = 0}
<1>2. ASSUME NEW T \in SUBSET S, \A U \in SUBSET T : U # T => U \in P
      PROVE  T \in P
  <2>0. a[T] = Plus(a, f, T)
    BY <1>1 DEF Adds
  <2>1. CASE T = {}
    BY <2>0, <2>1 DEF Plus
  <2>2. CASE T # {}
    <3>1. Pick(T) \in T
      BY <2>2 DEF Pick
    <3>2. Rest(T) \in SUBSET T /\ Rest(T) # T
      BY <3>1 DEF Rest
    <3>3. a[Rest(T)] = 0 /\ f[Pick(T)] = 0
      BY <1>2, <3>1, <3>2
    <3> QED BY <2>0, <2>2, <3>3 DEF Plus
  <2> QED BY <2>1, <2>2
<1>3. \A T \in SUBSET S : T \in P
  <2> HIDE DEF P
  <2> QED BY <1>2, SubsetInduction
<1> QED BY <1>1, <1>3

\* And naturals that add up to nothing are nothing.
LEMMA TotalIsZero ==
  ASSUME NEW S, IsFiniteSet(S), NEW f \in [S -> Nat], Contract!Total(f, S) = 0
  PROVE  \A x \in S : f[x] = 0
<1>1. PICK a : Adds(a, f, S) /\ Contract!Total(f, S) = a[S]
  BY TotalSolves
<1>a. f \in [S -> Int]
  OBVIOUS
<1> DEFINE P == {T \in SUBSET S : a[T] >= 0}
<1>2. ASSUME NEW T \in SUBSET S, \A U \in SUBSET T : U # T => U \in P
      PROVE  T \in P
  <2>0. a[T] = Plus(a, f, T)
    BY <1>1 DEF Adds
  <2>1. CASE T = {}
    BY <2>0, <2>1 DEF Plus
  <2>2. CASE T # {}
    <3>1. Pick(T) \in T
      BY <2>2 DEF Pick
    <3>2. Rest(T) \in SUBSET T /\ Rest(T) # T
      BY <3>1 DEF Rest
    <3>3. a[Rest(T)] \in Int
      BY <1>1, <1>a, <3>2, SumSplits
    <3>4. a[Rest(T)] >= 0 /\ f[Pick(T)] \in Nat
      BY <1>2, <3>1, <3>2
    <3> QED BY <2>0, <2>2, <3>3, <3>4 DEF Plus
  <2> QED BY <2>1, <2>2
<1>3. \A T \in SUBSET S : T \in P
  <2> HIDE DEF P
  <2> QED BY <1>2, SubsetInduction
<1>4. ASSUME NEW x \in S
      PROVE  f[x] = 0
  <2>1. a[S] = f[x] + a[S \ {x}] /\ a[S \ {x}] \in Int
    BY <1>1, <1>a, SumSplits
  <2>2. a[S \ {x}] >= 0 /\ f[x] \in Nat
    BY <1>3
  <2> QED BY <1>1, <2>1, <2>2
<1> QED BY <1>4

-----------------------------------------------------------------------------
(* The byte contract: sums of what the rows say                            *)

Object == [cas : Nat, size : Nat]
Held == [slot : BOOLEAN, bytes : Nat]

\* The summands of the counters.
VisibleOf(obj) == [k \in Keys |-> obj[k].size]
AllocatedOf(held) == [o \in Ops |-> IF held[o].slot THEN 0 ELSE held[o].bytes]
ReservedOf(held) == [o \in Ops |-> IF held[o].slot THEN held[o].bytes ELSE 0]

\* They are natural numbers.
LEMMA SummandTypes ==
    /\ \A obj \in [Keys -> Object] :
          VisibleOf(obj) \in [Keys -> Nat] /\ VisibleOf(obj) \in [Keys -> Int]
    /\ \A held \in [Ops -> Held] :
          /\ AllocatedOf(held) \in [Ops -> Nat] /\ AllocatedOf(held) \in [Ops -> Int]
          /\ ReservedOf(held) \in [Ops -> Int]
<1>1. ASSUME NEW obj \in [Keys -> Object]
      PROVE  VisibleOf(obj) \in [Keys -> Nat] /\ VisibleOf(obj) \in [Keys -> Int]
  <2>1. \A k \in Keys : obj[k].size \in Nat
    BY DEF Object
  <2> QED BY <2>1 DEF VisibleOf
<1>2. ASSUME NEW held \in [Ops -> Held]
      PROVE  /\ AllocatedOf(held) \in [Ops -> Nat] /\ AllocatedOf(held) \in [Ops -> Int]
             /\ ReservedOf(held) \in [Ops -> Int]
  <2>1. \A o \in Ops : held[o].bytes \in Nat
    BY DEF Held
  <2>2. \A o \in Ops : /\ (IF held[o].slot THEN 0 ELSE held[o].bytes) \in Nat
                       /\ (IF held[o].slot THEN held[o].bytes ELSE 0) \in Nat
    BY <2>1
  <2> QED BY <2>2 DEF AllocatedOf, ReservedOf
<1> QED BY <1>1, <1>2

\* One operation that changes what it holds moves the allocated bytes by the difference.
LEMMA AllocatedMoves ==
  ASSUME NEW held \in [Ops -> Held], NEW next \in [Ops -> Held], NEW o \in Ops,
         \A x \in Ops : x # o => next[x] = held[x]
  PROVE  Contract!Total(AllocatedOf(next), Ops)
            = Contract!Total(AllocatedOf(held), Ops)
              - (IF held[o].slot THEN 0 ELSE held[o].bytes)
              + (IF next[o].slot THEN 0 ELSE next[o].bytes)
<1>1. PICK f \in [Ops -> Int] : f = AllocatedOf(held)
  BY SummandTypes
<1>2. PICK h \in [Ops -> Int] : h = AllocatedOf(next)
  BY SummandTypes
<1>3. \A x \in Ops : x # o => h[x] = f[x]
  BY <1>1, <1>2 DEF AllocatedOf
<1>4. Contract!Total(h, Ops) = Contract!Total(f, Ops) - f[o] + h[o]
  BY <1>3, TotalMoves, FiniteAssumption
<1>5. /\ f[o] = IF held[o].slot THEN 0 ELSE held[o].bytes
      /\ h[o] = IF next[o].slot THEN 0 ELSE next[o].bytes
  BY <1>1, <1>2 DEF AllocatedOf
<1> QED BY <1>1, <1>2, <1>4, <1>5

\* And one object that changes its size moves the visible bytes.
LEMMA VisibleMoves ==
  ASSUME NEW obj \in [Keys -> Object], NEW next \in [Keys -> Object], NEW k \in Keys,
         \A x \in Keys : x # k => next[x] = obj[x]
  PROVE  Contract!Total(VisibleOf(next), Keys)
            = Contract!Total(VisibleOf(obj), Keys) - obj[k].size + next[k].size
<1>1. PICK f \in [Keys -> Int] : f = VisibleOf(obj)
  BY SummandTypes
<1>2. PICK h \in [Keys -> Int] : h = VisibleOf(next)
  BY SummandTypes
<1>3. \A x \in Keys : x # k => h[x] = f[x]
  BY <1>1, <1>2 DEF VisibleOf
<1>4. Contract!Total(h, Keys) = Contract!Total(f, Keys) - f[k] + h[k]
  BY <1>3, TotalMoves, FiniteAssumption
<1>5. f[k] = obj[k].size /\ h[k] = next[k].size
  BY <1>1, <1>2 DEF VisibleOf
<1> QED BY <1>1, <1>2, <1>4, <1>5

\* The slot's operation is the only one with a reservation.
LEMMA ReservedSum ==
  ASSUME NEW held \in [Ops -> Held], NEW a \in Ops \cup {NoOp},
         \A o \in Ops : held[o].slot <=> a = o
  PROVE  Contract!Total(ReservedOf(held), Ops) = IF a = NoOp THEN 0 ELSE held[a].bytes
<1>1. CASE a = NoOp
  <2>1. \A o \in Ops : ReservedOf(held)[o] = 0
    BY <1>1, LedgerAssumption DEF ReservedOf
  <2> QED BY <1>1, <2>1, TotalOfZero, FiniteAssumption
<1>2. CASE a # NoOp
  <2>1. a \in Ops
    BY <1>2
  <2>a. [o \in Ops |-> 0] \in [Ops -> Int]
    OBVIOUS
  <2>2. PICK f \in [Ops -> Int] : f = [o \in Ops |-> 0]
    BY <2>a
  <2>3. PICK h \in [Ops -> Int] : h = ReservedOf(held)
    BY SummandTypes
  <2>4. \A o \in Ops : o # a => h[o] = f[o]
    BY <2>2, <2>3 DEF ReservedOf
  <2>5. Contract!Total(h, Ops) = Contract!Total(f, Ops) - f[a] + h[a]
    BY <2>1, <2>4, TotalMoves, FiniteAssumption
  <2>6. Contract!Total(f, Ops) = 0
    BY <2>2, TotalOfZero, FiniteAssumption
  <2>7. f[a] = 0 /\ h[a] = held[a].bytes /\ held[a].bytes \in Nat
    BY <2>1, <2>2, <2>3 DEF ReservedOf, Held
  <2> QED BY <1>2, <2>3, <2>5, <2>6, <2>7
<1> QED BY <1>1, <1>2

\* So counters that agree with the rows on visible and allocated bytes, and with the slot,
\* are the counters the rows amount to.
LEMMA CountersDerived ==
  ASSUME NEW u \in Usage, NEW obj, NEW held \in [Ops -> Held],
         \A o \in Ops : held[o].slot <=> u.active = o,
         u.reserved = IF u.active = NoOp THEN 0 ELSE held[u.active].bytes,
         u.visible = Contract!Total(VisibleOf(obj), Keys),
         u.allocated = Contract!Total(AllocatedOf(held), Ops)
  PROVE  u = Contract!Derived(obj, held)
<1>1. u.active \in Ops \cup {NoOp}
  BY DEF Usage
<1>2. u.reserved = Contract!Total(ReservedOf(held), Ops)
  BY <1>1, ReservedSum
<1>3. u.active = IF \E o \in Ops : held[o].slot THEN CHOOSE o \in Ops : held[o].slot ELSE NoOp
  <2>1. CASE u.active = NoOp
    BY <2>1, LedgerAssumption
  <2>2. CASE u.active # NoOp
    <3>1. u.active \in Ops /\ held[u.active].slot
      BY <1>1, <2>2
    <3>2. (CHOOSE o \in Ops : held[o].slot) \in Ops /\ held[CHOOSE o \in Ops : held[o].slot].slot
      BY <3>1
    <3> QED BY <3>1, <3>2
  <2> QED BY <2>1, <2>2
<1>4. u = [visible |-> u.visible, allocated |-> u.allocated, reserved |-> u.reserved,
           active |-> u.active]
  BY DEF Usage
<1>5. Contract!Derived(obj, held) =
        [visible |-> Contract!Total(VisibleOf(obj), Keys),
         allocated |-> Contract!Total(AllocatedOf(held), Ops),
         reserved |-> Contract!Total(ReservedOf(held), Ops),
         active |-> IF \E o \in Ops : held[o].slot THEN CHOOSE o \in Ops : held[o].slot ELSE NoOp]
  BY DEF Contract!Derived, VisibleOf, AllocatedOf, ReservedOf
<1> QED BY <1>2, <1>3, <1>4, <1>5

-----------------------------------------------------------------------------
(* The byte contract: every step                                           *)

\* The counters agree with the rows.
Balanced ==
    /\ usage.visible = Contract!Total(VisibleOf(Objects), Keys)
    /\ usage.allocated = Contract!Total(AllocatedOf(Holds), Ops)

\* What the rows say is well typed.
LEMMA ContractTypes ==
    TypeOK /\ AccountingInv => Objects \in [Keys -> Object] /\ Holds \in [Ops -> Held]
<1> SUFFICES ASSUME TypeOK, AccountingInv
             PROVE  Objects \in [Keys -> Object] /\ Holds \in [Ops -> Held]
  OBVIOUS
<1>1. ASSUME NEW k \in Keys
      PROVE  ObjectOf(auth[k]) \in Object
  <2>1. auth[k].cas \in Nat /\ auth[k].size \in Nat
    BY DEF TypeOK, Authority
  <2> QED BY <2>1 DEF Object, ObjectOf
<1>2. ASSUME NEW o \in Ops
      PROVE  HeldBy(op[o]) \in Held
  <2>1. op[o].reserved \in Nat /\ op[o].committed \in Int /\ op[o].released \in Int
    BY Columns
  <2>2. op[o].released <= op[o].committed
    BY DEF AccountingInv, ReleaseBounded
  <2>3. op[o].committed - op[o].released \in Nat
    BY <2>1, <2>2
  <2> QED BY <2>1, <2>3 DEF Held, HeldBy
<1> QED BY <1>1, <1>2 DEF Objects, Holds

\* Before a step and after it.
LEMMA ContractTypesNext ==
    ASSUME TypeOK', AccountingInv'
    PROVE  Objects' \in [Keys -> Object] /\ Holds' \in [Ops -> Held]
<1>1. (Objects \in [Keys -> Object] /\ Holds \in [Ops -> Held])'
  BY ContractTypes, PTL
<1> QED BY <1>1

\* Balanced counters, with the slot accounted for, are the counters of the contract.
LEMMA BalancedDerives ==
    TypeOK /\ AccountingInv /\ Balanced => usage = Contract!Derived(Objects, Holds)
<1> SUFFICES ASSUME TypeOK, AccountingInv, Balanced
             PROVE  usage = Contract!Derived(Objects, Holds)
  OBVIOUS
<1>1. PICK u \in Usage : u = usage
  BY DEF TypeOK
<1>2. PICK h \in [Ops -> Held] : h = Holds
  BY ContractTypes
<1>3. PICK b : b = Objects
  OBVIOUS
<1>4. \A o \in Ops : h[o].slot <=> u.active = o
  BY <1>1, <1>2 DEF Holds, HeldBy, AccountingInv, SlotAccounting
<1>5. u.reserved = IF u.active = NoOp THEN 0 ELSE h[u.active].bytes
  <2>1. u.active \in Ops \cup {NoOp}
    BY DEF Usage
  <2>2. u.active \in Ops => h[u.active].bytes = op[u.active].reserved
    BY <1>1, <1>2 DEF Holds, HeldBy, AccountingInv, SlotAccounting
  <2> QED BY <1>1, <2>1, <2>2 DEF AccountingInv, SlotAccounting
<1>6. u.visible = Contract!Total(VisibleOf(b), Keys)
      /\ u.allocated = Contract!Total(AllocatedOf(h), Ops)
  BY <1>1, <1>2, <1>3 DEF Balanced
<1>7. u = Contract!Derived(b, h)
  BY ONLY <1>4, <1>5, <1>6, CountersDerived
<1> QED BY <1>1, <1>2, <1>3, <1>7

\* An operation that is not committed holds nothing besides its reservation.
LEMMA NothingHeld ==
    ASSUME TypeOK, AccountingInv, NEW o \in Ops, op[o].state # "Committed"
    PROVE  op[o].committed = 0 /\ op[o].released = 0
<1>1. /\ 0 <= op[o].released /\ op[o].released <= op[o].committed /\ op[o].committed = 0
      /\ op[o].released \in Int
  BY Columns DEF AccountingInv, ReleaseBounded
<1> QED BY <1>1

\* The step moved what the contract sees in one of its ways, or not at all.
Contracted == Contract!Next \/ UNCHANGED Contract!ledgerVars

Calm == usage' = usage /\ Objects' = Objects /\ Holds' = Holds

\* A calm step changes nothing the contract sees.
LEMMA CalmContracted ==
    ASSUME Balanced, Calm
    PROVE  Balanced' /\ Contracted
BY DEF Balanced, Calm, Contracted, Contract!ledgerVars

\* After a step whose counters balance they are again the counters of the contract.
LEMMA DerivedNext ==
    ASSUME TypeOK', AccountingInv', Balanced'
    PROVE  usage' = Contract!Derived(Objects', Holds')
<1>1. (usage = Contract!Derived(Objects, Holds))'
  BY BalancedDerives, PTL
<1> QED BY <1>1

\* A step that changes what one operation holds from a to b.
LEMMA HoldMoves ==
    ASSUME TypeOK, AccountingInv, TypeOK', AccountingInv', NEW o \in Ops, NEW a, NEW b,
           HeldBy(op[o]) = a, HeldBy(op'[o]) = b, \A x \in Ops : x # o => op'[x] = op[x]
    PROVE  /\ Holds' = [Holds EXCEPT ![o] = b] /\ Holds[o] = a /\ Holds'[o] = b
           /\ Contract!Total(AllocatedOf(Holds'), Ops)
                 = Contract!Total(AllocatedOf(Holds), Ops)
                   - (IF a.slot THEN 0 ELSE a.bytes) + (IF b.slot THEN 0 ELSE b.bytes)
           /\ Contract!Total(AllocatedOf(Holds), Ops) \in Int
<1>1. PICK h \in [Ops -> Held] : h = Holds
  BY ContractTypes
<1>2. PICK n \in [Ops -> Held] : n = Holds'
  BY ContractTypesNext
<1>3. h[o] = a /\ n[o] = b /\ \A x \in Ops : x # o => n[x] = h[x]
  BY <1>1, <1>2 DEF Holds
<1>4. n = [h EXCEPT ![o] = b]
  BY <1>3
<1>5. Contract!Total(AllocatedOf(n), Ops)
        = Contract!Total(AllocatedOf(h), Ops)
          - (IF a.slot THEN 0 ELSE a.bytes) + (IF b.slot THEN 0 ELSE b.bytes)
  BY <1>3, AllocatedMoves
<1>6. Contract!Total(AllocatedOf(h), Ops) \in Int
  BY TotalType, SummandTypes, FiniteAssumption
<1> QED BY <1>1, <1>2, <1>3, <1>4, <1>5, <1>6

\* A step that changes one object.
LEMMA ObjectMoves ==
    ASSUME TypeOK, AccountingInv, TypeOK', AccountingInv', NEW k \in Keys, NEW a, NEW b,
           ObjectOf(auth[k]) = a, ObjectOf(auth'[k]) = b,
           \A x \in Keys : x # k => auth'[x] = auth[x]
    PROVE  /\ Objects' = [Objects EXCEPT ![k] = b] /\ Objects[k] = a /\ Objects'[k] = b
           /\ Contract!Total(VisibleOf(Objects'), Keys)
                 = Contract!Total(VisibleOf(Objects), Keys) - a.size + b.size
           /\ Contract!Total(VisibleOf(Objects), Keys) \in Int
<1>1. PICK h \in [Keys -> Object] : h = Objects
  BY ContractTypes
<1>2. PICK n \in [Keys -> Object] : n = Objects'
  BY ContractTypesNext
<1>3. h[k] = a /\ n[k] = b /\ \A x \in Keys : x # k => n[x] = h[x]
  BY <1>1, <1>2 DEF Objects
<1>4. n = [h EXCEPT ![k] = b]
  BY <1>3
<1>5. Contract!Total(VisibleOf(n), Keys) = Contract!Total(VisibleOf(h), Keys) - a.size + b.size
  BY <1>3, VisibleMoves
<1>6. Contract!Total(VisibleOf(h), Keys) \in Int
  BY TotalType, SummandTypes, FiniteAssumption
<1> QED BY <1>1, <1>2, <1>3, <1>4, <1>5, <1>6

\* admit_logical_operation reserves.
LEMMA AdmitContracted ==
    ASSUME TypeOK, AccountingInv, Balanced, TypeOK', AccountingInv', NEW o \in Ops, Admit(o)
    PROVE  Balanced' /\ Contracted
<1>1. /\ op[o].state = "none" /\ op[o] \in Operation
      /\ op' = [op EXCEPT ![o].state = "Open", ![o].reserved = Reservation]
      /\ usage' = [usage EXCEPT !.reserved = @ + Reservation, !.active = o]
      /\ auth' = auth
      /\ AdmitGuard(o)
  BY RowTypes DEF Admit, AccountingInv, RowsFresh, BeforeAdmission
<1>2. op[o].committed = 0 /\ op[o].released = 0
  BY <1>1, NothingHeld
<1>3. /\ op'[o].state = "Open" /\ op'[o].reserved = Reservation
      /\ \A x \in Ops : x # o => op'[x] = op[x]
  BY <1>1 DEF TypeOK, Operation
<1>4. HeldBy(op[o]) = [slot |-> FALSE, bytes |-> 0]
  BY <1>1, <1>2 DEF HeldBy, Unsettled
<1>5. HeldBy(op'[o]) = [slot |-> TRUE, bytes |-> Reservation]
  BY <1>3 DEF HeldBy, Unsettled
<1>6. /\ Holds' = [Holds EXCEPT ![o] = Holds'[o]]
      /\ Holds'[o] = [slot |-> TRUE, bytes |-> Reservation]
      /\ Contract!Total(AllocatedOf(Holds'), Ops)
            = Contract!Total(AllocatedOf(Holds), Ops) - 0 + 0
      /\ Contract!Total(AllocatedOf(Holds), Ops) \in Int
  BY <1>3, <1>4, <1>5, HoldMoves
<1>7. Objects' = Objects
  BY <1>1 DEF Objects
<1>8. usage \in Usage
  BY DEF TypeOK
<1>9. usage'.visible = usage.visible /\ usage'.allocated = usage.allocated /\ usage'.active = o
  BY <1>1, <1>8 DEF Usage
<1>10. Balanced'
  BY <1>6, <1>7, <1>9 DEF Balanced
<1>11. usage.active = NoOp /\ usage.allocated + Reservation <= VisibleLimit + Headroom
  <2>1. usage.active = NoOp /\ usage.reserved = 0 /\ usage.allocated \in Int
    BY <1>1, <1>8 DEF AdmitGuard, AccountingInv, SlotAccounting, Usage
  <2>2. usage.allocated + 0 + Reservation <= VisibleLimit + Headroom
    BY <1>1, <2>1 DEF AdmitGuard
  <2> QED BY <2>1, <2>2
<1>12. Contract!Reserve(o)
  BY <1>6, <1>7, <1>11 DEF Contract!Reserve, Contract!Holding
<1>13. usage' # usage
  BY <1>9, <1>11, LedgerAssumption
<1> QED BY <1>10, <1>12, <1>13, DerivedNext DEF Contracted, Contract!Next

\* abort_logical_put gives the reservation back.
LEMMA AbortContracted ==
    ASSUME TypeOK, AccountingInv, Balanced, TypeOK', AccountingInv', NEW o \in Ops,
           usage.active = o, op[o].state \in Unsettled, Aborted(o), auth' = auth
    PROVE  Balanced' /\ Contracted
<1>1. op[o].committed = 0 /\ op[o].released = 0 /\ op[o] \in Operation
  BY NothingHeld, RowTypes DEF Unsettled
<1>2. /\ op'[o].state = "ProvenAborted" /\ op'[o].committed = 0 /\ op'[o].released = 0
      /\ \A x \in Ops : x # o => op'[x] = op[x]
  BY <1>1 DEF Aborted, TypeOK, Operation
<1>3. HeldBy(op[o]) = [slot |-> TRUE, bytes |-> op[o].reserved]
  BY DEF HeldBy
<1>4. HeldBy(op'[o]) = [slot |-> FALSE, bytes |-> 0]
  BY <1>2 DEF HeldBy, Unsettled
<1>5. /\ Holds' = [Holds EXCEPT ![o] = [slot |-> FALSE, bytes |-> 0]] /\ Holds[o].slot
      /\ Contract!Total(AllocatedOf(Holds'), Ops)
            = Contract!Total(AllocatedOf(Holds), Ops) - 0 + 0
      /\ Contract!Total(AllocatedOf(Holds), Ops) \in Int
  BY <1>2, <1>3, <1>4, HoldMoves
<1>6. Objects' = Objects
  BY DEF Objects
<1>7. usage'.visible = usage.visible /\ usage'.allocated = usage.allocated /\ usage'.active = NoOp
  BY DEF Aborted, TypeOK, Usage
<1>8. Balanced'
  BY <1>5, <1>6, <1>7 DEF Balanced
<1>9. Contract!Abort(o)
  BY <1>5, <1>6 DEF Contract!Abort, Contract!Holding, Contract!Free
<1>10. usage' # usage
  BY <1>7, LedgerAssumption
<1> QED BY <1>8, <1>9, <1>10, DerivedNext DEF Contracted, Contract!Next

\* finalize_logical_put commits: the operation keeps no more than it reserved, and its object
\* is replaced by the next version.
LEMMA CommitContracted ==
    ASSUME TypeOK, AccountingInv, Balanced, TypeOK', AccountingInv', NEW o \in Ops,
           NEW h, NEW w, FinalizeVerdict(o, h, w) = "committed", Committed(o)
    PROVE  Balanced' /\ Contracted
<1>1. PICK k \in Keys : k = op[o].key
  BY RowTypes DEF Operation
<1>2. PICK s \in Nat : s = op[o].evidence
  BY CommittedFacts, SizesAreNat, RowTypes DEF Operation
<1>3. PICK n \in Int : n = Allocation(o)
  BY AllocationType
<1>4. /\ op[o].state \in Unsettled /\ op[o].state # "Committed" /\ op[o] \in Operation
      /\ ~(n > op[o].reserved) /\ op[o].reserved \in Nat
  BY <1>3, CommittedFacts, RowTypes DEF Unsettled, Operation
<1>5. op[o].committed = 0 /\ op[o].released = 0
  BY <1>4, NothingHeld
<1>6. /\ op'[o].state = "Committed" /\ op'[o].committed = n /\ op'[o].released = 0
      /\ \A x \in Ops : x # o => op'[x] = op[x]
  BY <1>3, <1>4, <1>5 DEF Committed, TypeOK, Operation
<1>7. HeldBy(op[o]) = [slot |-> TRUE, bytes |-> op[o].reserved]
  BY <1>4 DEF HeldBy
<1>8. HeldBy(op'[o]) = [slot |-> FALSE, bytes |-> n]
  <2>1. HeldBy(op'[o]) = [slot |-> FALSE, bytes |-> n - 0]
    BY <1>6 DEF HeldBy, Unsettled
  <2> QED BY <2>1
<1>9. /\ Holds' = [Holds EXCEPT ![o] = Holds'[o]]
      /\ Holds[o] = [slot |-> TRUE, bytes |-> op[o].reserved]
      /\ Holds'[o] = [slot |-> FALSE, bytes |-> n]
      /\ Contract!Total(AllocatedOf(Holds'), Ops)
            = Contract!Total(AllocatedOf(Holds), Ops) - 0 + n
      /\ Contract!Total(AllocatedOf(Holds), Ops) \in Int
  BY <1>6, <1>7, <1>8, HoldMoves
<1>10. PICK a : a = ObjectOf(auth[k])
  OBVIOUS
<1>11. a.cas = auth[k].cas /\ auth[k].cas = op[o].cas /\ a.size = op[o].prior /\ op[o].cas \in Nat
       /\ op[o].prior \in Nat
  <2>1. /\ auth[k].cas = op[o].cas
        /\ op[o].prior = IF auth[k].cas > 0 /\ ~auth[k].tomb THEN auth[k].size ELSE 0
    BY <1>1, CommittedFacts DEF AuthorityMatches, Live
  <2> QED BY <1>4, <1>10, <2>1 DEF ObjectOf, Operation
<1>12. /\ auth'[k] = [cas |-> op[o].cas + 1, gen |-> o, size |-> s, tomb |-> FALSE]
       /\ \A x \in Keys : x # k => auth'[x] = auth[x]
  BY <1>1, <1>2 DEF Committed, TypeOK
<1>13. ObjectOf(auth'[k]) = [cas |-> op[o].cas + 1, size |-> s]
  <2>1. op[o].cas + 1 > 0
    BY <1>11
  <2> QED BY <1>12, <2>1 DEF ObjectOf
<1>14. /\ Objects' = [Objects EXCEPT ![k] = Objects'[k]] /\ Objects[k] = a
       /\ Objects'[k] = [cas |-> op[o].cas + 1, size |-> s]
       /\ Contract!Total(VisibleOf(Objects'), Keys)
             = Contract!Total(VisibleOf(Objects), Keys) - op[o].prior + s
  BY <1>10, <1>11, <1>12, <1>13, ObjectMoves
<1>15. /\ usage'.visible = usage.visible - op[o].prior + s
       /\ usage'.allocated = usage.allocated + n /\ usage'.active = NoOp
       /\ usage'.visible \in Int
  BY <1>2, <1>3 DEF Committed, NextVisible, TypeOK, Usage
<1>16. Balanced'
  BY <1>9, <1>14, <1>15 DEF Balanced
<1>17. usage'.visible <= VisibleLimit
  BY DEF AccountingInv, QuotaBound
<1>18. Contract!Becomes(k, Objects'[k])
  BY <1>11, <1>14 DEF Contract!Becomes
<1>19. n <= op[o].reserved
  BY <1>4
<1>20. Contract!Commit(o)
  BY <1>9, <1>17, <1>18, <1>19 DEF Contract!Commit, Contract!Holding
<1>21. usage' # usage
  BY <1>15, CommittedFacts, LedgerAssumption
<1> QED BY <1>16, <1>20, <1>21, DerivedNext DEF Contracted, Contract!Next

\* forget_physical_version releases the allocation with the last version row.
LEMMA ForgetContracted ==
    ASSUME TypeOK, AccountingInv, EvidenceInv, Balanced, TypeOK', AccountingInv',
           NEW o \in Ops, NEW v \in Attempts, ForgetVersion(o, v)
    PROVE  Balanced' /\ Contracted
<1>1. Objects' = Objects
  BY DEF ForgetVersion, Objects
<1>2. CASE ledger[o] # {v}
  BY <1>1, <1>2, CalmContracted DEF ForgetVersion, Calm, Holds
<1>3. CASE ledger[o] = {v}
  <2>1. op[o].state = "Committed" /\ op[o] \in Operation
    BY <1>3, RowTypes DEF EvidenceInv, Evidence, VerdictTrue
  <2>2. PICK n \in Int : n = op[o].committed - op[o].released
    BY Columns
  <2>3. /\ op'[o].state = "Committed" /\ op'[o].committed = op[o].committed
        /\ op'[o].released = op[o].committed /\ op[o].committed \in Int
        /\ \A x \in Ops : x # o => op'[x] = op[x]
    BY <1>3, <2>1 DEF ForgetVersion, TypeOK, Operation
  <2>4. HeldBy(op[o]) = [slot |-> FALSE, bytes |-> n]
    BY <2>1, <2>2 DEF HeldBy, Unsettled
  <2>5. HeldBy(op'[o]) = [slot |-> FALSE, bytes |-> 0]
    <3>1. HeldBy(op'[o]) = [slot |-> FALSE, bytes |-> op[o].committed - op[o].committed]
      BY <2>3 DEF HeldBy, Unsettled
    <3>2. \A c \in Int : c - c = 0
      OBVIOUS
    <3>3. op[o].committed - op[o].committed = 0
      BY <2>3, <3>2
    <3> QED BY <3>1, <3>3
  <2>6. /\ Holds' = [Holds EXCEPT ![o] = [slot |-> FALSE, bytes |-> 0]]
        /\ Holds[o] = [slot |-> FALSE, bytes |-> n]
        /\ Contract!Total(AllocatedOf(Holds'), Ops)
              = Contract!Total(AllocatedOf(Holds), Ops) - n + 0
        /\ Contract!Total(AllocatedOf(Holds), Ops) \in Int
    BY <2>3, <2>4, <2>5, HoldMoves
  <2>7. usage'.visible = usage.visible /\ usage'.allocated = usage.allocated - n
    BY <1>3, <2>2 DEF ForgetVersion, TypeOK, Usage
  <2>8. Balanced'
    BY <1>1, <2>6, <2>7 DEF Balanced
  <2>9. CASE n = 0
    <3>1. Holds' = Holds
      BY <2>6, <2>9 DEF Holds
    <3>2. usage' = usage
      <4>1. usage' = [usage EXCEPT !.allocated = usage.allocated - n] /\ usage.allocated \in Int
        BY <1>3, <2>2 DEF ForgetVersion, TypeOK, Usage
      <4>2. usage.allocated - n = usage.allocated
        BY <2>9, <4>1
      <4> QED BY <4>1, <4>2 DEF TypeOK, Usage
    <3> QED BY <1>1, <3>1, <3>2, CalmContracted DEF Calm
  <2>10. CASE n # 0
    <3>1. Contract!Release(o)
      BY <1>1, <2>6 DEF Contract!Release, Contract!Holding, Contract!Free
    <3>2. usage' # usage
      <4>1. usage.allocated \in Int
        BY DEF TypeOK, Usage
      <4> QED BY <2>7, <2>10, <4>1
    <3> QED BY <2>8, <3>1, <3>2, DerivedNext DEF Contracted, Contract!Next
  <2> QED BY <2>9, <2>10
<1> QED BY <1>2, <1>3

\* commit_atomic_logical_delete makes a tombstone the next version.
LEMMA DeleteContracted ==
    ASSUME TypeOK, AccountingInv, Balanced, TypeOK', AccountingInv', NEW k \in Keys, Delete(k)
    PROVE  Balanced' /\ Contracted
<1>1. PICK a : a = ObjectOf(auth[k])
  OBVIOUS
<1>2. /\ a.cas = auth[k].cas /\ auth[k].cas \in Nat /\ a.size \in Nat
      /\ a.size = IF Live(k) THEN auth[k].size ELSE 0
  <2>1. auth[k].cas \in Nat /\ auth[k].size \in Nat
    BY DEF TypeOK, Authority
  <2> QED BY <1>1, <2>1 DEF ObjectOf, Live
<1>3. /\ auth'[k] = [cas |-> auth[k].cas + 1, gen |-> NoOp, size |-> 0, tomb |-> TRUE]
      /\ \A x \in Keys : x # k => auth'[x] = auth[x]
  BY DEF Delete, TypeOK
<1>4. ObjectOf(auth'[k]) = [cas |-> auth[k].cas + 1, size |-> 0]
  BY <1>3 DEF ObjectOf
<1>5. /\ Objects' = [Objects EXCEPT ![k] = Objects'[k]] /\ Objects[k] = a
      /\ Objects'[k] = [cas |-> auth[k].cas + 1, size |-> 0]
      /\ Contract!Total(VisibleOf(Objects'), Keys)
            = Contract!Total(VisibleOf(Objects), Keys) - a.size + 0
      /\ Contract!Total(VisibleOf(Objects), Keys) \in Int
  BY <1>1, <1>3, <1>4, ObjectMoves
<1>6. Holds' = Holds
  BY DEF Delete, Holds
<1>7. usage'.visible = usage.visible - a.size /\ usage'.allocated = usage.allocated
  BY <1>2 DEF Delete, TypeOK, Usage
<1>8. Balanced'
  BY <1>2, <1>5, <1>6, <1>7 DEF Balanced
<1>9. Contract!Delete(k)
  BY <1>2, <1>5, <1>6 DEF Contract!Delete, Contract!Becomes, Delete
<1>10. Objects' # Objects
  BY <1>2, <1>5
<1> QED BY <1>8, <1>9, <1>10, DerivedNext DEF Contracted, Contract!Next

\* finalize_purge_if_ready forgets every object and every hold; one that finds nothing to
\* forget changes nothing the contract sees.
LEMMA PurgeContracted ==
    ASSUME TypeOK, AccountingInv, Balanced, TypeOK', AccountingInv', FinishPurge
    PROVE  Balanced' /\ Contracted
<1>1. ASSUME NEW o \in Ops
      PROVE  /\ op[o].state \notin Unsettled
             /\ HeldBy(op'[o]) = [slot |-> FALSE, bytes |-> 0]
  <2>1. op[o].state \notin Unsettled /\ op[o] \in Operation
    BY RowTypes DEF FinishPurge, PurgeReady
  <2>2. op'[o] = [op[o] EXCEPT !.released = op[o].committed]
    BY DEF FinishPurge
  <2>3. op'[o].state = op[o].state /\ op'[o].committed = op[o].committed
        /\ op'[o].released = op[o].committed /\ op[o].committed \in Int
    BY <2>1, <2>2 DEF Operation
  <2>4. HeldBy(op'[o]) = [slot |-> FALSE, bytes |-> op[o].committed - op[o].committed]
    BY <2>1, <2>3 DEF HeldBy
  <2>5. \A c \in Int : c - c = 0
    OBVIOUS
  <2>6. op[o].committed - op[o].committed = 0
    BY <2>3, <2>5
  <2> QED BY <2>1, <2>4, <2>6
<1>2. Holds' = [o \in Ops |-> [slot |-> FALSE, bytes |-> 0]]
  BY <1>1 DEF Holds
<1>3. Objects' = [k \in Keys |-> [cas |-> 0, size |-> 0]]
  BY DEF Objects, ObjectOf, FinishPurge
<1>4. PICK b : b = Objects'
  OBVIOUS
<1>5. PICK n : n = Holds'
  OBVIOUS
<1>6. Contract!Total(VisibleOf(b), Keys) = 0 /\ Contract!Total(AllocatedOf(n), Ops) = 0
  <2>1. \A k \in Keys : VisibleOf(b)[k] = 0
    BY <1>3, <1>4 DEF VisibleOf
  <2>2. \A o \in Ops : AllocatedOf(n)[o] = 0
    BY <1>2, <1>5 DEF AllocatedOf
  <2> QED BY <2>1, <2>2, TotalOfZero, FiniteAssumption
<1>7. usage' = [visible |-> 0, allocated |-> 0, reserved |-> 0, active |-> NoOp]
  BY DEF FinishPurge
<1>8. Balanced'
  BY <1>4, <1>5, <1>6, <1>7 DEF Balanced
<1>9. usage.active = NoOp
  <2>1. usage.active \in Ops \cup {NoOp}
    BY DEF TypeOK, Usage
  <2> QED BY <1>1, <2>1 DEF AccountingInv, SlotAccounting
<1>10. CASE usage' # usage \/ Objects' # Objects
  <2>1. Contract!Purge
    BY <1>2, <1>3, <1>9 DEF Contract!Purge, Contract!Free, Contract!Nothing
  <2> QED BY <1>8, <1>10, <2>1, DerivedNext DEF Contracted, Contract!Next
<1>11. CASE usage' = usage /\ Objects' = Objects
  <2>1. PICK h \in [Ops -> Held] : h = Holds
    BY ContractTypes
  <2>2. Contract!Total(AllocatedOf(h), Ops) = 0 /\ AllocatedOf(h) \in [Ops -> Nat]
    BY <1>7, <1>11, <2>1, SummandTypes DEF Balanced
  <2>3. \A o \in Ops : AllocatedOf(h)[o] = 0
    BY <2>2, TotalIsZero, FiniteAssumption
  <2>4. ASSUME NEW o \in Ops
        PROVE  h[o] = [slot |-> FALSE, bytes |-> 0]
    <3>1. h[o].slot = FALSE
      BY <1>1, <2>1 DEF Holds, HeldBy
    <3>2. h[o].bytes = 0
      BY <2>3, <3>1 DEF AllocatedOf
    <3>3. h[o] \in Held
      OBVIOUS
    <3> QED BY <3>1, <3>2, <3>3 DEF Held
  <2>5. h = [o \in Ops |-> [slot |-> FALSE, bytes |-> 0]]
    BY <2>4
  <2>6. Holds' = Holds
    BY <1>2, <2>1, <2>5
  <2> QED BY <1>11, <2>6, CalmContracted DEF Calm
<1> QED BY <1>10, <1>11

-----------------------------------------------------------------------------
(* The byte contract: the steps of the ledger                              *)

\* A step that moves no counter, no authority and no column the contract reads.
LEMMA ColumnsCalm ==
    ASSUME usage' = usage, auth' = auth,
           \A p \in Ops : /\ op'[p].state \in Unsettled <=> op[p].state \in Unsettled
                          /\ op'[p].reserved = op[p].reserved
                          /\ op'[p].committed = op[p].committed
                          /\ op'[p].released = op[p].released
    PROVE  Calm
<1>1. \A p \in Ops : HeldBy(op'[p]) = HeldBy(op[p])
  BY DEF HeldBy
<1> QED BY <1>1 DEF Calm, Objects, Holds

\* In particular one that leaves all three tables alone.
LEMMA RowsCalm ==
    ASSUME usage' = usage, auth' = auth, op' = op
    PROVE  Calm
BY DEF Calm, Objects, Holds

\* mark_logical_recovery_blocked moves an unsettled operation to another unsettled state.
LEMMA MarkBlockedCalm ==
    ASSUME TypeOK, AccountingInv, NEW o \in Ops, NEW w \in Workers, MarkBlocked(o, w),
           usage' = usage, auth' = auth
    PROVE  Calm
<1>1. CASE ~Authorized(o, w)
  BY <1>1, RowsCalm DEF MarkBlocked
<1>2. CASE Authorized(o, w)
  <2>1. op[o].state \in Unsettled /\ op[o] \in Operation
    BY <1>2, RowTypes, LedgerAssumption DEF Authorized, AccountingInv, ClaimsUnsettled
  <2>2. /\ op'[o].state = "RecoveryBlocked" /\ op'[o].reserved = op[o].reserved
        /\ op'[o].committed = op[o].committed /\ op'[o].released = op[o].released
    BY <1>2, <2>1 DEF TypeOK, MarkBlocked, Operation
  <2>3. \A p \in Ops : p # o => op'[p] = op[p]
    BY <1>2 DEF TypeOK, MarkBlocked
  <2> QED BY <2>1, <2>2, <2>3, ColumnsCalm DEF Unsettled
<1> QED BY <1>1, <1>2

\* The steps of the ledger that the contract sees.
Settling(o) ==
    \/ Admit(o)
    \/ usage.active = o /\ op[o].state \in Unsettled /\ Aborted(o) /\ auth' = auth
    \/ \E h, w : FinalizeVerdict(o, h, w) = "committed" /\ Committed(o)

\* Every step is one of them, or a DELETE, a release or the end of a purge, or calm.
LEMMA ByteSteps ==
    ASSUME TypeOK, AccountingInv, [Next]_vars
    PROVE  \/ Calm
           \/ \E o \in Ops : Settling(o)
           \/ \E o \in Ops, v \in Attempts : ForgetVersion(o, v)
           \/ \E k \in Keys : Delete(k)
           \/ FinishPurge
<1> DEFINE Seen == Calm \/ \E o \in Ops : Settling(o)
<1>1. ASSUME NEW o \in Ops, RequestStep(o) PROVE Seen
  <2>1. ASSUME NEW k \in Keys, ReadAuthority(o, k) PROVE Seen
    <3>1. \A p \in Ops : /\ op'[p].state = op[p].state /\ op'[p].reserved = op[p].reserved
                         /\ op'[p].committed = op[p].committed /\ op'[p].released = op[p].released
      BY <2>1, RowTypes DEF TypeOK, ReadAuthority, Operation
    <3> QED BY <2>1, <3>1, ColumnsCalm DEF ReadAuthority
  <2>2. CASE ReadFence(o)
    <3>1. \A p \in Ops : /\ op'[p].state = op[p].state /\ op'[p].reserved = op[p].reserved
                         /\ op'[p].committed = op[p].committed /\ op'[p].released = op[p].released
      BY <2>2, RowTypes DEF TypeOK, ReadFence, Operation
    <3> QED BY <2>2, <3>1, ColumnsCalm DEF ReadFence
  <2>3. CASE Admit(o)
    BY <2>3 DEF Settling
  <2>4. CASE RecordUsage(o)
    <3>1. /\ op[o].state = "Open" /\ op'[o].state = "Completing"
          /\ \A p \in Ops : /\ p # o => op'[p] = op[p]
                            /\ op'[p].reserved = op[p].reserved
                            /\ op'[p].committed = op[p].committed
                            /\ op'[p].released = op[p].released
      BY <2>4, RowTypes DEF TypeOK, RecordUsage, Operation
    <3>2. \A p \in Ops : op'[p].state \in Unsettled <=> op[p].state \in Unsettled
      BY <3>1 DEF Unsettled
    <3>3. usage' = usage /\ auth' = auth
      BY <2>4 DEF RecordUsage
    <3> QED BY <3>1, <3>2, <3>3, ColumnsCalm
  <2>5. CASE AbortUnbegun(o) \/ \E b \in BOOLEAN : JournalFailed(o, b)
    BY <2>5, AbortedFacts, RowsCalm DEF AbortUnbegun, JournalFailed, Settling
  <2>6. CASE RequestFinalize(o)
    BY <2>6, RowsCalm DEF RequestFinalize, Settling
  <2>7. CASE \/ AdmitRejected(o) \/ BeginChild(o) \/ BeginChildFailed(o) \/ JournalChild(o)
             \/ \E s \in Sizes : Verify(o, s)
             \/ AbandonUpload(o) \/ Launch(o) \/ Relaunch(o) \/ Answered(o) \/ Refused(o)
             \/ Unanswered(o) \/ RequestIncomplete(o) \/ DropReconcile(o)
    <3>1. op' = op /\ usage' = usage /\ auth' = auth
      BY <2>7 DEF AdmitRejected, BeginChild, BeginChildFailed, JournalChild, Verify,
           AbandonUpload, Launch, Relaunch, Answered, Refused, Unanswered, RequestIncomplete,
           DropReconcile
    <3> QED BY <3>1, RowsCalm
  <2> QED BY <1>1, <2>1, <2>2, <2>3, <2>4, <2>5, <2>6, <2>7 DEF RequestStep
<1>2. ASSUME NEW w \in Workers, WorkerStep(w) PROVE Seen
  <2> DEFINE q == work[w].op
  <2>1. ASSUME NEW o \in Ops, ClaimStale(w, o) PROVE Seen
    <3>1. \A p \in Ops : /\ op'[p].state = op[p].state /\ op'[p].reserved = op[p].reserved
                         /\ op'[p].committed = op[p].committed /\ op'[p].released = op[p].released
      BY <2>1, RowTypes DEF TypeOK, ClaimStale, Operation
    <3> QED BY <2>1, <3>1, ColumnsCalm DEF ClaimStale
  <2>2. CASE WorkerAborts(w) \/ WorkerBlocks(w)
    <3>1. q \in Ops
      BY <2>2 DEF TypeOK, WorkerAborts, WorkerBlocks
    <3>2. \/ /\ Aborted(q) /\ auth' = auth
             /\ AbortVerdict(q, "NoChildStarted", NoWorker, w) = "aborted"
          \/ MarkBlocked(q, w) /\ usage' = usage /\ auth' = auth
          \/ op' = op /\ usage' = usage /\ auth' = auth
      BY <2>2 DEF WorkerAborts, WorkerBlocks
    <3> QED BY <3>1, <3>2, AbortedFacts, MarkBlockedCalm, RowsCalm DEF Settling
  <2>3. CASE WorkerRenews(w) \/ WorkerLeases(w) \/ WorkerReconciles(w)
    BY <2>3, RowsCalm DEF WorkerRenews, WorkerLeases, WorkerReconciles
  <2>4. CASE WorkerSettles(w)
    <3>1. q \in Ops
      BY <2>4 DEF TypeOK, WorkerSettles
    <3>2. \/ Committed(q) /\ FinalizeVerdict(q, w, w) = "committed"
          \/ /\ Aborted(q) /\ AbortVerdict(q, "ChildProvenAborted", w, w) = "aborted"
             /\ auth' = auth
          \/ MarkBlocked(q, w) /\ usage' = usage /\ auth' = auth
          \/ op' = op /\ usage' = usage /\ auth' = auth
      BY <2>4 DEF WorkerSettles
    <3> QED BY <3>1, <3>2, AbortedFacts, MarkBlockedCalm, RowsCalm DEF Settling
  <2> QED BY <1>2, <2>1, <2>2, <2>3, <2>4 DEF WorkerStep
<1>3. CASE (\E o \in Ops : ProviderStep(o) \/ TimeStep(o)) \/ Failure
  <2>1. ASSUME NEW o \in Ops, ClaimExpires(o) PROVE Seen
    <3>1. \A p \in Ops : /\ op'[p].state = op[p].state /\ op'[p].reserved = op[p].reserved
                         /\ op'[p].committed = op[p].committed /\ op'[p].released = op[p].released
      BY <2>1, RowTypes DEF TypeOK, ClaimExpires, Operation
    <3> QED BY <2>1, <3>1, ColumnsCalm DEF ClaimExpires
  <2>2. \/ op' = op /\ usage' = usage /\ auth' = auth
        \/ \E o \in Ops : ClaimExpires(o)
    BY <1>3 DEF ProviderStep, ProviderLands, ProviderLoses, TimeStep, LeaseExpires, Failure,
                Crash, Disconnect, WorkerCrash
  <2> QED BY <2>1, <2>2, RowsCalm
<1>4. CASE Maintenance
  <2>1. \/ op' = op /\ usage' = usage /\ auth' = auth
        \/ FinishPurge \/ \E k \in Keys : Delete(k)
        \/ \E o \in Ops, v \in Attempts : ForgetVersion(o, v)
    BY <1>4 DEF Maintenance, CleanupDeletes, PurgeDeletes, PurgeForgets,
                AdvanceRouting, PurgeFence
  <2> QED BY <2>1, RowsCalm
<1>5. CASE UNCHANGED vars
  BY <1>5, RowsCalm DEF vars
<1> QED BY <1>1, <1>2, <1>3, <1>4, <1>5 DEF Next

\* Each of them is a step of the contract.
LEMMA StepContracted ==
    ASSUME TypeOK, AccountingInv, EvidenceInv, Balanced, TypeOK', AccountingInv', [Next]_vars
    PROVE  Balanced' /\ Contracted
<1>1. ASSUME NEW o \in Ops, Settling(o) PROVE Balanced' /\ Contracted
  BY <1>1, AdmitContracted, AbortContracted, CommitContracted DEF Settling
<1> QED BY <1>1, ByteSteps, CalmContracted, ForgetContracted, DeleteContracted, PurgeContracted

\* A ledger starts with nothing stored and nothing held.
LEMMA InitContracted == Init => Balanced /\ Contract!Init
<1> SUFFICES ASSUME Init
             PROVE  Balanced /\ Contract!Init
  OBVIOUS
<1>1. TypeOK /\ AccountingInv
  BY InitTypes, InitAccounting
<1>2. Objects = [k \in Keys |-> [cas |-> 0, size |-> 0]]
  BY DEF Objects, ObjectOf, Init
<1>3. Holds = [o \in Ops |-> [slot |-> FALSE, bytes |-> 0]]
  <2>1. HeldBy(NoRow) = [slot |-> FALSE, bytes |-> 0]
    BY DEF HeldBy, NoRow, Unsettled
  <2> QED BY <2>1 DEF Holds, Init
<1>4. Contract!Total(VisibleOf(Objects), Keys) = 0 /\ Contract!Total(AllocatedOf(Holds), Ops) = 0
  <2>1. \A k \in Keys : VisibleOf(Objects)[k] = 0
    BY <1>2 DEF VisibleOf
  <2>2. \A o \in Ops : AllocatedOf(Holds)[o] = 0
    BY <1>3 DEF AllocatedOf
  <2> QED BY <2>1, <2>2, TotalOfZero, FiniteAssumption
<1>5. Balanced
  BY <1>4 DEF Balanced, Init
<1>6. usage = Contract!Derived(Objects, Holds)
  BY <1>1, <1>5, BalancedDerives
<1>7. Contract!Init
  BY <1>2, <1>3, <1>6 DEF Contract!Init, Contract!Free, Contract!Nothing
<1> QED BY <1>5, <1>7

\* The PostgreSQL ledger keeps the byte contract, for every finite set of operations and keys,
\* every set of workers and every limit: through requests that are lost, recovered, finalized,
\* aborted, replaced, deleted, cleaned up and purged, the counters of managed_workspace_usage
\* are at every moment the sums of what the rows say, and they move only as the contract of
\* the workspace allows.
THEOREM LedgerKeepsContract == Spec => LedgerImplements
<1>1. Init => Balanced /\ Contract!Init
  BY InitContracted
<1>2. TypeOK /\ AccountingInv /\ EvidenceInv /\ Balanced /\ TypeOK' /\ AccountingInv' /\ [Next]_vars
         => Balanced' /\ [Contract!Next]_(Contract!ledgerVars)
  BY StepContracted DEF Contracted
<1> QED BY <1>1, <1>2, TypeCorrect, Accounting, RowsTellTheTruth, PTL
        DEF Spec, LedgerImplements, Contract!Spec
=============================================================================
