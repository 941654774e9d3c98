------------------------ MODULE ManagedLedgerProofs ------------------------
(***************************************************************************)
(* Machine-checked theorems about ManagedLedger, for every set of          *)
(* operations, keys and workers and every value of the limits.             *)
(***************************************************************************)
EXTENDS ManagedLedger, FiniteSetTheorems, TLAPS

\* Every output size is a natural number.
LEMMA SizesAreNat == \A s : s \in Size => s \in Int /\ (s # NoSize => s \in Nat)
<1>1. \A s : s \in Sizes => s \in Nat
  BY LedgerAssumption
<1>2. NoSize \in Int
  BY DEF NoSize
<1>3. \A s : s \in Nat => s \in Int
  OBVIOUS
<1> QED BY <1>1, <1>2, <1>3 DEF Size

\* The row values that stand for "no row" and "no pass" are well typed.
LEMMA InitialRows ==
    /\ NoRow \in Operation /\ NoIntent \in Intent /\ NoChild \in Child /\ Idle \in Pass
<1>1. (CHOOSE k \in Keys : TRUE) \in Keys
  BY LedgerAssumption
<1>2. NoRow \in Operation
  BY <1>1 DEF NoRow, Operation, Size
<1>3. NoIntent \in Intent /\ NoChild \in Child /\ Idle \in Pass
  BY DEF NoIntent, Intent, NoChild, Child, Idle, Pass, Size, WorkerPC
<1> QED BY <1>2, <1>3

\* physical_allocation yields a number, and for real evidence a natural one.
LEMMA AllocationType ==
    ASSUME TypeOK, NEW o \in Ops
    PROVE  /\ Allocation(o) \in Int
           /\ op[o].evidence # NoSize => Allocation(o) >= 0
<1>1. child[o].versions \in SUBSET Attempts
  BY DEF TypeOK, Child
<1>2. IsFiniteSet(Attempts)
  BY LedgerAssumption, FS_Interval DEF Attempts
<1>3. Cardinality(child[o].versions) \in Nat
  BY <1>1, <1>2, FS_Subset, FS_CardinalityType
<1>4. op[o].evidence \in Int /\ (op[o].evidence # NoSize => op[o].evidence \in Nat)
  BY SizesAreNat DEF TypeOK, Operation
<1>5. \A a \in Int, b \in Nat : a * b \in Int
  OBVIOUS
<1>6. \A a \in Nat, b \in Nat : a * b >= 0
  OBVIOUS
<1> QED BY <1>3, <1>4, <1>5, <1>6 DEF Allocation

-----------------------------------------------------------------------------
(* Types of rows and of the updates the actions share                      *)

\* TypeOK gives every row its type.
LEMMA RowTypes ==
    ASSUME TypeOK, NEW o \in Ops
    PROVE  /\ op[o] \in Operation /\ intent[o] \in Intent /\ child[o] \in Child
           /\ ledger[o] \in SUBSET Attempts /\ cleanup[o] \in BOOLEAN
           /\ prov[o] \in Provider /\ req[o] \in Request
BY DEF TypeOK

\* A request that only moves to another program counter keeps its type.
LEMMA RequestMoves ==
    ASSUME TypeOK, NEW o \in Ops, NEW p \in RequestPC, req' = [req EXCEPT ![o].pc = p]
    PROVE  req' \in [Ops -> Request]
<1>1. [req[o] EXCEPT !.pc = p] \in Request
  BY RowTypes DEF Request
<1> QED BY <1>1 DEF TypeOK

\* So does a recovery pass that ends.
LEMMA PassEndsType ==
    ASSUME TypeOK, NEW w \in Workers, PassEnds(w)
    PROVE  /\ work' \in [Workers -> Pass]
           /\ \A v \in Workers : work'[v].pc # "idle" => work'[v].op \in Ops
<1>1. Idle.pc = "idle"
  BY DEF Idle
<1> QED BY <1>1, InitialRows DEF TypeOK, PassEnds

\* A pass that moves on keeps its operation.
LEMMA PassMoves ==
    ASSUME TypeOK, NEW w \in Workers, NEW p \in WorkerPC, work[w].pc # "idle",
           work' = [work EXCEPT ![w].pc = p]
    PROVE  /\ work' \in [Workers -> Pass]
           /\ \A v \in Workers : work'[v].pc # "idle" => work'[v].op \in Ops
<1>1. [work[w] EXCEPT !.pc = p] \in Pass /\ [work[w] EXCEPT !.pc = p].op = work[w].op
  <2>1. work[w] \in Pass
    BY DEF TypeOK
  <2> QED BY <2>1 DEF Pass
<1> QED BY <1>1 DEF TypeOK

\* Updates of an operation row.
LEMMA OperationUpdates ==
    ASSUME NEW r \in Operation
    PROVE  /\ \A s \in {"none"} \cup Unsettled \cup Terminal :
                 [r EXCEPT !.state = s, !.claim = NoWorker, !.claimLive = FALSE] \in Operation
           /\ \A n \in Int : [r EXCEPT !.state = "Committed", !.committed = n,
                                  !.claim = NoWorker, !.claimLive = FALSE] \in Operation
           /\ \A n \in Int : [r EXCEPT !.released = n] \in Operation
<1>1. \A s \in {"none"} \cup Unsettled \cup Terminal :
         [r EXCEPT !.state = s, !.claim = NoWorker, !.claimLive = FALSE] \in Operation
  BY DEF Operation
<1>2. \A n \in Int : [r EXCEPT !.state = "Committed", !.committed = n,
                          !.claim = NoWorker, !.claimLive = FALSE] \in Operation
  BY DEF Operation, Terminal
<1>3. \A n \in Int : [r EXCEPT !.released = n] \in Operation
  BY DEF Operation
<1> QED BY <1>1, <1>2, <1>3

\* Updates of a child's journal row.
LEMMA ChildUpdates ==
    ASSUME NEW r \in Child
    PROVE  /\ \A s \in {"none"} \cup ChildUnresolved \cup ChildTerminal :
                 /\ [r EXCEPT !.st = s] \in Child
                 /\ \A b \in BOOLEAN : [r EXCEPT !.st = s, !.absence = b] \in Child
           /\ [r EXCEPT !.absence = FALSE] \in Child
           /\ \A n \in Size : [r EXCEPT !.expected = n] \in Child
           /\ \A v \in SUBSET Attempts, b \in BOOLEAN :
                 [r EXCEPT !.st = "Committed", !.versions = v, !.complete = b] \in Child
<1>1. \A s \in {"none"} \cup ChildUnresolved \cup ChildTerminal :
         /\ [r EXCEPT !.st = s] \in Child
         /\ \A b \in BOOLEAN : [r EXCEPT !.st = s, !.absence = b] \in Child
  BY DEF Child
<1>2. [r EXCEPT !.absence = FALSE] \in Child
  BY DEF Child
<1>3. \A n \in Size : [r EXCEPT !.expected = n] \in Child
  BY DEF Child
<1>4. \A v \in SUBSET Attempts, b \in BOOLEAN :
         [r EXCEPT !.st = "Committed", !.versions = v, !.complete = b] \in Child
  BY DEF Child, ChildTerminal
<1> QED BY <1>1, <1>2, <1>3, <1>4

\* A successful abort keeps the rows it writes well typed.
LEMMA AbortedType ==
    ASSUME TypeOK, NEW o \in Ops, Aborted(o)
    PROVE  op' \in [Ops -> Operation] /\ usage' \in Usage /\ intent' \in [Ops -> Intent]
<1>1. op' \in [Ops -> Operation]
  <2>1. [op[o] EXCEPT !.state = "ProvenAborted", !.claim = NoWorker, !.claimLive = FALSE]
           \in Operation
    BY RowTypes, OperationUpdates DEF Terminal
  <2> QED BY <2>1 DEF TypeOK, Aborted
<1>2. usage' \in Usage
  <2>1. op[o].reserved \in Int
    BY RowTypes DEF Operation
  <2>2. usage \in Usage /\ usage.reserved \in Int
    BY DEF TypeOK, Usage
  <2>3. usage.reserved - op[o].reserved \in Int
    BY <2>1, <2>2
  <2> QED BY <2>2, <2>3 DEF Aborted, Usage
<1>3. intent' \in [Ops -> Intent]
  BY InitialRows DEF TypeOK, Aborted
<1> QED BY <1>1, <1>2, <1>3

\* So does a committed verdict on the child.
LEMMA CommitVerdictType ==
    ASSUME TypeOK, NEW o \in Ops, NEW sel, NEW sure \in BOOLEAN, CommitVerdict(o, sel, sure)
    PROVE  child' \in [Ops -> Child] /\ prov' \in [Ops -> Provider]
<1>1. prov[o].versions \in SUBSET Attempts /\ {sel} \in SUBSET Attempts
  BY RowTypes DEF CommitVerdict, Provider
<1>2. child' \in [Ops -> Child]
  <2> DEFINE v == IF ExactRecovery THEN prov[o].versions ELSE {sel}
  <2>1. v \in SUBSET Attempts /\ (ExactRecovery \/ sure) \in BOOLEAN
    BY <1>1
  <2>2. [child[o] EXCEPT !.st = "Committed", !.versions = v, !.complete = ExactRecovery \/ sure]
           \in Child
    BY <2>1, RowTypes, ChildUpdates
  <2> QED BY <2>2 DEF TypeOK, CommitVerdict
<1>3. prov' \in [Ops -> Provider]
  <2>1. [prov[o] EXCEPT !.versions = {sel}] \in Provider
    BY <1>1, RowTypes DEF Provider
  <2> QED BY <2>1 DEF TypeOK, CommitVerdict
<1> QED BY <1>2, <1>3

\* And the reconciler of the child.
LEMMA ReconcileType ==
    ASSUME TypeOK, NEW o \in Ops, ReconcileChild(o)
    PROVE  child' \in [Ops -> Child] /\ prov' \in [Ops -> Provider]
<1>1. CASE ReconcileAborts(o)
  <2>1. [child[o] EXCEPT !.st = "ProvenAborted"] \in Child
    BY RowTypes, ChildUpdates DEF ChildTerminal
  <2> QED BY <1>1, <2>1 DEF TypeOK, ReconcileAborts
<1>2. CASE ReconcileFinds(o)
  BY <1>2, CommitVerdictType DEF ReconcileFinds
<1>3. CASE ReconcileAbsent(o)
  <2>1. [child[o] EXCEPT !.st = IF child[o].absence THEN "ProvenAborted" ELSE "CommitUnknown",
                         !.absence = TRUE] \in Child
    BY RowTypes, ChildUpdates DEF ChildTerminal, ChildUnresolved
  <2> QED BY <1>3, <2>1 DEF TypeOK, ReconcileAbsent
<1>4. CASE ReconcileInconclusive(o)
  <2>1. [child[o] EXCEPT !.st = "CommitUnknown"] \in Child
    BY RowTypes, ChildUpdates DEF ChildUnresolved
  <2> QED BY <1>4, <2>1 DEF TypeOK, ReconcileInconclusive
<1> QED BY <1>1, <1>2, <1>3, <1>4 DEF ReconcileChild

\* Blocking the intent changes only its status.
LEMMA BlockIntentType ==
    ASSUME TypeOK, NEW o \in Ops, BlockIntent(o)
    PROVE  intent' \in [Ops -> Intent]
<1>1. [intent[o] EXCEPT !.st = IF LeaseHeld(o, Writer) THEN "BLOCKED" ELSE @] \in Intent
  BY RowTypes DEF Intent
<1> QED BY <1>1 DEF TypeOK, BlockIntent

\* Blocking the operation keeps its row well typed.
LEMMA MarkBlockedType ==
    ASSUME TypeOK, NEW o \in Ops, NEW w, MarkBlocked(o, w)
    PROVE  op' \in [Ops -> Operation]
<1>1. [op[o] EXCEPT !.state = "RecoveryBlocked", !.claim = NoWorker, !.claimLive = FALSE]
         \in Operation
  BY RowTypes, OperationUpdates DEF Unsettled
<1> QED BY <1>1 DEF TypeOK, MarkBlocked

\* Facts a committed verdict of the finalizer establishes.
LEMMA CommittedFacts ==
    ASSUME NEW o, NEW h, NEW w, FinalizeVerdict(o, h, w) = "committed"
    PROVE  /\ Authorized(o, w) /\ op[o].state \in {"Completing", "RecoveryBlocked"}
           /\ op[o].evidence # NoSize
           /\ FenceHeld(o) /\ intent[o].st # "none" /\ LeaseHeld(o, h)
           /\ ChildMatches(o) /\ ~(Allocation(o) > op[o].reserved) /\ AuthorityMatches(o)
           /\ usage.active = o /\ ~(usage.reserved < op[o].reserved)
           /\ ~(NextVisible(o) > VisibleLimit)
BY DEF FinalizeVerdict

\* And an abort verdict.
LEMMA AbortedFacts ==
    ASSUME NEW o, NEW p, NEW h, NEW w, AbortVerdict(o, p, h, w) = "aborted"
    PROVE  /\ Authorized(o, w) /\ op[o].state \in Unsettled /\ ns.epoch = op[o].epoch
           /\ AbortProof(o, p, h) /\ usage.active = o
BY DEF AbortVerdict

\* The finalizer's transaction keeps the rows it writes well typed.
LEMMA CommittedType ==
    ASSUME TypeOK, NEW o \in Ops, NEW h, NEW w,
           FinalizeVerdict(o, h, w) = "committed", Committed(o)
    PROVE  /\ ledger' \in [Ops -> SUBSET Attempts] /\ auth' \in [Keys -> Authority]
           /\ cleanup' \in [Ops -> BOOLEAN] /\ usage' \in Usage
           /\ op' \in [Ops -> Operation] /\ intent' \in [Ops -> Intent]
<1>1. op[o] \in Operation /\ op[o].key \in Keys /\ op[o].cas \in Nat /\ op[o].prior \in Int
      /\ op[o].evidence \in Nat /\ op[o].reserved \in Int
  <2>1. op[o] \in Operation
    BY RowTypes
  <2>2. op[o].evidence \in Nat
    BY <2>1, CommittedFacts, SizesAreNat DEF Operation
  <2> QED BY <2>1, <2>2 DEF Operation
<1>2. Allocation(o) \in Int
  BY AllocationType
<1>3. ledger' \in [Ops -> SUBSET Attempts]
  <2>1. child[o].versions \in SUBSET Attempts
    BY RowTypes DEF Child
  <2> QED BY <2>1 DEF TypeOK, Committed
<1>4. auth' \in [Keys -> Authority]
  <2>1. [cas |-> op[o].cas + 1, gen |-> o, size |-> op[o].evidence, tomb |-> FALSE] \in Authority
    BY <1>1 DEF Authority
  <2> QED BY <1>1, <2>1 DEF TypeOK, Committed
<1>5. cleanup' \in [Ops -> BOOLEAN]
  <2>1. \A g \in Ops : (cleanup[g] \/ (Live(op[o].key) /\ g = auth[op[o].key].gen
                                         /\ ledger[g] # {})) \in BOOLEAN
    OBVIOUS
  <2> QED BY <2>1 DEF Committed
<1>6. usage' \in Usage
  <2>1. usage.visible \in Int /\ usage.allocated \in Int /\ usage.reserved \in Int
    BY DEF TypeOK, Usage
  <2>2. NextVisible(o) \in Int
    BY <1>1, <2>1 DEF NextVisible
  <2>3. usage.allocated + Allocation(o) \in Int /\ usage.reserved - op[o].reserved \in Int
    BY <1>1, <1>2, <2>1
  <2> QED BY <2>2, <2>3 DEF Committed, Usage
<1>7. op' \in [Ops -> Operation]
  <2>1. [op[o] EXCEPT !.state = "Committed", !.committed = Allocation(o),
                      !.claim = NoWorker, !.claimLive = FALSE] \in Operation
    BY <1>1, <1>2, OperationUpdates
  <2> QED BY <2>1 DEF TypeOK, Committed
<1>8. intent' \in [Ops -> Intent]
  BY InitialRows DEF TypeOK, Committed
<1> QED BY <1>3, <1>4, <1>5, <1>6, <1>7, <1>8

-----------------------------------------------------------------------------
(* Type correctness                                                        *)

\* Every step of a request preserves the type invariant.
LEMMA RequestTypes ==
    ASSUME TypeOK, NEW o \in Ops, RequestStep(o)
    PROVE  TypeOK'
<1> USE DEF RequestPC
<1>1. ASSUME NEW k \in Keys, ReadAuthority(o, k) PROVE TypeOK'
  <2>1. auth[k].cas \in Nat /\ (IF Live(k) THEN auth[k].size ELSE 0) \in Nat
    BY DEF TypeOK, Authority
  <2>2. [op[o] EXCEPT !.key = k, !.cas = auth[k].cas,
                      !.prior = IF Live(k) THEN auth[k].size ELSE 0] \in Operation
    BY <2>1, RowTypes DEF Operation
  <2>3. op' \in [Ops -> Operation]
    BY <1>1, <2>2 DEF TypeOK, ReadAuthority
  <2>4. req' \in [Ops -> Request]
    BY <1>1, RequestMoves DEF ReadAuthority
  <2> QED BY <1>1, <2>3, <2>4 DEF TypeOK, ReadAuthority
<1>2. CASE ReadFence(o)
  <2>1. ns.epoch \in Nat /\ ns.routing \in Nat
    BY DEF TypeOK, Namespace
  <2>2. [op[o] EXCEPT !.epoch = ns.epoch, !.routing = ns.routing] \in Operation
    BY <2>1, RowTypes DEF Operation
  <2>3. op' \in [Ops -> Operation]
    BY <1>2, <2>2 DEF TypeOK, ReadFence
  <2>4. req' \in [Ops -> Request]
    BY <1>2, RequestMoves DEF ReadFence
  <2> QED BY <1>2, <2>3, <2>4 DEF TypeOK, ReadFence
<1>3. CASE Admit(o)
  <2>1. usage \in Usage /\ usage.reserved \in Int /\ usage.allocated \in Int
    BY DEF TypeOK, Usage
  <2>2. Reservation \in Nat
    BY <2>1, LedgerAssumption DEF Reservation, MinOf, MaxOf
  <2>3. [op[o] EXCEPT !.state = "Open", !.reserved = Reservation] \in Operation
    BY <2>2, RowTypes DEF Operation, Unsettled
  <2>4. op' \in [Ops -> Operation]
    BY <1>3, <2>3 DEF TypeOK, Admit
  <2>5. usage.reserved + Reservation \in Int
    BY <2>1, <2>2
  <2>6. usage' \in Usage
    BY <1>3, <2>1, <2>5 DEF Admit, Usage
  <2>7. req' \in [Ops -> Request]
    BY <1>3, RequestMoves DEF Admit
  <2> QED BY <1>3, <2>4, <2>6, <2>7 DEF TypeOK, Admit
<1>4. CASE AdmitRejected(o)
  <2>1. req' \in [Ops -> Request]
    BY <1>4, RequestMoves DEF AdmitRejected
  <2> QED BY <1>4, <2>1 DEF TypeOK, AdmitRejected
<1>5. CASE BeginChild(o)
  <2>1. [st |-> "PENDING", owner |-> Writer, live |-> TRUE] \in Intent
    BY DEF Intent
  <2>2. intent' \in [Ops -> Intent]
    BY <1>5, <2>1 DEF TypeOK, BeginChild
  <2>3. req' \in [Ops -> Request]
    BY <1>5, RequestMoves DEF BeginChild
  <2> QED BY <1>5, <2>2, <2>3 DEF TypeOK, BeginChild
<1>6. CASE BeginChildFailed(o)
  <2>1. req' \in [Ops -> Request]
    BY <1>6, RequestMoves DEF BeginChildFailed
  <2> QED BY <1>6, <2>1 DEF TypeOK, BeginChildFailed
<1>7. CASE AbortUnbegun(o)
  <2>1. op' \in [Ops -> Operation] /\ usage' \in Usage /\ intent' \in [Ops -> Intent]
    BY <1>7, AbortedType DEF TypeOK, AbortUnbegun
  <2>2. req' \in [Ops -> Request]
    BY <1>7, RequestMoves DEF AbortUnbegun
  <2> QED BY <1>7, <2>1, <2>2 DEF TypeOK, AbortUnbegun
<1>8. CASE JournalChild(o)
  <2>1. [NoChild EXCEPT !.st = "Open"] \in Child
    BY InitialRows, ChildUpdates DEF ChildUnresolved
  <2>2. child' \in [Ops -> Child]
    BY <1>8, <2>1 DEF TypeOK, JournalChild
  <2>3. req' \in [Ops -> Request]
    BY <1>8, RequestMoves DEF JournalChild
  <2> QED BY <1>8, <2>2, <2>3 DEF TypeOK, JournalChild
<1>9. ASSUME NEW b \in BOOLEAN, JournalFailed(o, b) PROVE TypeOK'
  <2>1. [NoChild EXCEPT !.st = "Open"] \in Child
    BY InitialRows, ChildUpdates DEF ChildUnresolved
  <2>2. child' \in [Ops -> Child]
    BY <1>9, <2>1 DEF TypeOK, JournalFailed
  <2>3. op' \in [Ops -> Operation] /\ usage' \in Usage /\ intent' \in [Ops -> Intent]
    BY <1>9, AbortedType DEF TypeOK, JournalFailed
  <2>4. req' \in [Ops -> Request]
    BY <1>9, RequestMoves DEF JournalFailed
  <2> QED BY <1>9, <2>2, <2>3, <2>4 DEF TypeOK, JournalFailed
<1>10. ASSUME NEW s \in Sizes, Verify(o, s) PROVE TypeOK'
  <2>1. [child[o] EXCEPT !.expected = s] \in Child
    BY RowTypes, ChildUpdates DEF Size
  <2>2. child' \in [Ops -> Child]
    BY <1>10, <2>1 DEF TypeOK, Verify
  <2>3. req' \in [Ops -> Request]
    BY <1>10, RequestMoves DEF Verify
  <2> QED BY <1>10, <2>2, <2>3 DEF TypeOK, Verify
<1>11. CASE RecordUsage(o)
  <2>1. child[o].expected \in Size
    BY RowTypes DEF Child
  <2>2. [op[o] EXCEPT !.state = "Completing", !.evidence = child[o].expected] \in Operation
    BY <2>1, RowTypes DEF Operation, Unsettled
  <2>3. op' \in [Ops -> Operation]
    BY <1>11, <2>2 DEF TypeOK, RecordUsage
  <2>4. req' \in [Ops -> Request]
    BY <1>11, RequestMoves DEF RecordUsage
  <2> QED BY <1>11, <2>3, <2>4 DEF TypeOK, RecordUsage
<1>12. CASE AbandonUpload(o)
  <2>1. child[o].st \in {"none"} \cup ChildUnresolved \cup ChildTerminal
    BY RowTypes DEF Child
  <2>2. [child[o] EXCEPT !.st = IF LeaseHeld(o, Writer) /\ @ \in ChildOpen
                                THEN "ProvenAborted" ELSE @] \in Child
    BY <2>1, RowTypes, ChildUpdates DEF ChildTerminal
  <2>3. child' \in [Ops -> Child]
    BY <1>12, <2>2 DEF TypeOK, AbandonUpload
  <2>4. req' \in [Ops -> Request]
    BY <1>12, RequestMoves DEF AbandonUpload
  <2> QED BY <1>12, <2>3, <2>4 DEF TypeOK, AbandonUpload
<1>13. CASE Launch(o)
  <2>1. 1 \in Attempts /\ 1 \in 0..MaxAttempts
    BY LedgerAssumption DEF Attempts
  <2>2. [child[o] EXCEPT !.st = "Completing", !.absence = FALSE] \in Child
    BY RowTypes, ChildUpdates DEF ChildUnresolved
  <2>3. child' \in [Ops -> Child]
    BY <1>13, <2>2 DEF TypeOK, Launch
  <2>4. [prov[o] EXCEPT !.inflight = @ \cup {1}] \in Provider
    BY <2>1, RowTypes DEF Provider
  <2>5. prov' \in [Ops -> Provider]
    BY <1>13, <2>4 DEF TypeOK, Launch
  <2>6. [pc |-> "launched", tries |-> 1] \in Request
    BY <2>1 DEF Request
  <2>7. req' \in [Ops -> Request]
    BY <1>13, <2>6 DEF TypeOK, Launch
  <2> QED BY <1>13, <2>3, <2>5, <2>7 DEF TypeOK, Launch
<1>14. CASE Relaunch(o)
  <2>1. req[o].tries \in 0..MaxAttempts /\ req[o].tries < MaxAttempts
    BY <1>14, RowTypes DEF Relaunch, Request
  <2>2. req[o].tries + 1 \in Attempts /\ req[o].tries + 1 \in 0..MaxAttempts
    BY <2>1, LedgerAssumption DEF Attempts
  <2>3. [child[o] EXCEPT !.absence = FALSE] \in Child
    BY RowTypes, ChildUpdates
  <2>4. child' \in [Ops -> Child]
    BY <1>14, <2>3 DEF TypeOK, Relaunch
  <2>5. [prov[o] EXCEPT !.inflight = @ \cup {req[o].tries + 1}] \in Provider
    BY <2>2, RowTypes DEF Provider
  <2>6. prov' \in [Ops -> Provider]
    BY <1>14, <2>5 DEF TypeOK, Relaunch
  <2>7. [req[o] EXCEPT !.tries = @ + 1] \in Request
    BY <2>2, RowTypes DEF Request
  <2>8. req' \in [Ops -> Request]
    BY <1>14, <2>7 DEF TypeOK, Relaunch
  <2> QED BY <1>14, <2>4, <2>6, <2>8 DEF TypeOK, Relaunch
<1>15. CASE Answered(o)
  <2>1. child' \in [Ops -> Child] /\ prov' \in [Ops -> Provider]
    <3>1. (req[o].tries = 1) \in BOOLEAN
      OBVIOUS
    <3> QED BY <1>15, <3>1, CommitVerdictType DEF Answered, TypeOK
  <2>2. req' \in [Ops -> Request]
    BY <1>15, RequestMoves DEF Answered
  <2> QED BY <1>15, <2>1, <2>2 DEF TypeOK, Answered
<1>16. CASE Refused(o)
  <2>1. [prov[o] EXCEPT !.inflight = {}] \in Provider
    BY RowTypes DEF Provider
  <2>2. prov' \in [Ops -> Provider]
    BY <1>16, <2>1 DEF TypeOK, Refused
  <2>3. [child[o] EXCEPT !.st = "ProvenAborted"] \in Child
    BY RowTypes, ChildUpdates DEF ChildTerminal
  <2>4. child' \in [Ops -> Child]
    BY <1>16, <2>3 DEF TypeOK, Refused
  <2>5. intent' \in [Ops -> Intent]
    BY <1>16, BlockIntentType DEF Refused
  <2>6. req' \in [Ops -> Request]
    BY <1>16, RequestMoves DEF Refused
  <2> QED BY <1>16, <2>2, <2>4, <2>5, <2>6 DEF TypeOK, Refused
<1>17. CASE Unanswered(o)
  <2>1. child[o].st \in {"none"} \cup ChildUnresolved \cup ChildTerminal
    BY RowTypes DEF Child
  <2>2. [child[o] EXCEPT !.st = IF @ = "Completing" THEN "CommitUnknown" ELSE @] \in Child
    BY <2>1, RowTypes, ChildUpdates DEF ChildUnresolved
  <2>3. child' \in [Ops -> Child]
    BY <1>17, <2>2 DEF TypeOK, Unanswered
  <2>4. intent' \in [Ops -> Intent]
    BY <1>17, BlockIntentType DEF Unanswered
  <2>5. req' \in [Ops -> Request]
    BY <1>17, RequestMoves DEF Unanswered
  <2> QED BY <1>17, <2>3, <2>4, <2>5 DEF TypeOK, Unanswered
<1>18. CASE RequestFinalize(o)
  <2>1. /\ ledger' \in [Ops -> SUBSET Attempts] /\ auth' \in [Keys -> Authority]
        /\ cleanup' \in [Ops -> BOOLEAN] /\ usage' \in Usage
        /\ op' \in [Ops -> Operation] /\ intent' \in [Ops -> Intent]
    BY <1>18, CommittedType DEF RequestFinalize, TypeOK
  <2>2. req' \in [Ops -> Request]
    BY <1>18, RequestMoves DEF RequestFinalize
  <2> QED BY <1>18, <2>1, <2>2 DEF TypeOK, RequestFinalize
<1>19. CASE RequestIncomplete(o)
  <2>1. intent' \in [Ops -> Intent]
    BY <1>19, BlockIntentType DEF RequestIncomplete
  <2>2. req' \in [Ops -> Request]
    BY <1>19, RequestMoves DEF RequestIncomplete
  <2> QED BY <1>19, <2>1, <2>2 DEF TypeOK, RequestIncomplete
<1>20. CASE DropReconcile(o)
  <2>1. child' \in [Ops -> Child] /\ prov' \in [Ops -> Provider]
    BY <1>20, ReconcileType DEF DropReconcile, TypeOK
  <2>2. req' \in [Ops -> Request]
    BY <1>20, RequestMoves DEF DropReconcile
  <2> QED BY <1>20, <2>1, <2>2 DEF TypeOK, DropReconcile
<1> QED
  BY <1>1, <1>2, <1>3, <1>4, <1>5, <1>6, <1>7, <1>8, <1>9, <1>10, <1>11, <1>12, <1>13,
     <1>14, <1>15, <1>16, <1>17, <1>18, <1>19, <1>20 DEF RequestStep

\* Every step of a recovery pass preserves the type invariant.
LEMMA WorkerTypes ==
    ASSUME TypeOK, NEW w \in Workers, WorkerStep(w)
    PROVE  TypeOK'
<1> DEFINE q == work[w].op
<1> USE DEF WorkerPC
<1>1. ASSUME NEW o \in Ops, ClaimStale(w, o) PROVE TypeOK'
  <2>1. op[o].state \in Unsettled /\ op[o].evidence \in Size
    BY <1>1, RowTypes DEF ClaimStale, Operation
  <2>2. [op[o] EXCEPT !.claim = w, !.claimLive = TRUE] \in Operation
    BY RowTypes DEF Operation
  <2>3. op' \in [Ops -> Operation]
    BY <1>1, <2>2 DEF TypeOK, ClaimStale
  <2>4. [op |-> o, pc |-> "claimed", state |-> op[o].state, evidence |-> op[o].evidence,
         hasIntent |-> intent[o].st # "none"] \in Pass
    BY <2>1 DEF Pass
  <2>5. /\ work' \in [Workers -> Pass]
        /\ \A v \in Workers : work'[v].pc # "idle" => work'[v].op \in Ops
    BY <1>1, <2>4 DEF TypeOK, ClaimStale
  <2> QED BY <1>1, <2>3, <2>5 DEF TypeOK, ClaimStale
<1>2. CASE WorkerAborts(w)
  <2>1. q \in Ops
    BY <1>2 DEF TypeOK, WorkerAborts
  <2>2. op' \in [Ops -> Operation] /\ usage' \in Usage /\ intent' \in [Ops -> Intent]
    BY <1>2, <2>1, AbortedType, MarkBlockedType DEF TypeOK, WorkerAborts
  <2> QED BY <1>2, <2>2, PassEndsType DEF TypeOK, WorkerAborts
<1>3. CASE WorkerBlocks(w)
  <2>1. q \in Ops
    BY <1>3 DEF TypeOK, WorkerBlocks
  <2>2. op' \in [Ops -> Operation]
    BY <1>3, <2>1, MarkBlockedType DEF WorkerBlocks
  <2> QED BY <1>3, <2>2, PassEndsType DEF TypeOK, WorkerBlocks
<1>4. CASE WorkerRenews(w)
  <2>1. /\ work' \in [Workers -> Pass]
        /\ \A v \in Workers : work'[v].pc # "idle" => work'[v].op \in Ops
    BY <1>4, PassEndsType, PassMoves DEF WorkerRenews
  <2> QED BY <1>4, <2>1 DEF TypeOK, WorkerRenews
<1>5. CASE WorkerLeases(w)
  <2>1. q \in Ops
    BY <1>5 DEF TypeOK, WorkerLeases
  <2>2. [intent[q] EXCEPT !.owner = w, !.live = TRUE] \in Intent
    BY <2>1, RowTypes DEF Intent
  <2>3. intent' \in [Ops -> Intent]
    BY <1>5, <2>1, <2>2 DEF TypeOK, WorkerLeases
  <2>4. /\ work' \in [Workers -> Pass]
        /\ \A v \in Workers : work'[v].pc # "idle" => work'[v].op \in Ops
    BY <1>5, PassEndsType, PassMoves DEF WorkerLeases
  <2> QED BY <1>5, <2>3, <2>4 DEF TypeOK, WorkerLeases
<1>6. CASE WorkerReconciles(w)
  <2>1. q \in Ops
    BY <1>6 DEF TypeOK, WorkerReconciles
  <2>2. child' \in [Ops -> Child] /\ prov' \in [Ops -> Provider]
    BY <1>6, <2>1, ReconcileType DEF TypeOK, WorkerReconciles
  <2>3. /\ work' \in [Workers -> Pass]
        /\ \A v \in Workers : work'[v].pc # "idle" => work'[v].op \in Ops
    BY <1>6, PassEndsType, PassMoves DEF WorkerReconciles
  <2> QED BY <1>6, <2>2, <2>3 DEF TypeOK, WorkerReconciles
<1>7. CASE WorkerSettles(w)
  <2>1. q \in Ops
    BY <1>7 DEF TypeOK, WorkerSettles
  <2>2. /\ ledger' \in [Ops -> SUBSET Attempts] /\ auth' \in [Keys -> Authority]
        /\ cleanup' \in [Ops -> BOOLEAN] /\ usage' \in Usage
        /\ op' \in [Ops -> Operation] /\ intent' \in [Ops -> Intent]
    BY <1>7, <2>1, CommittedType, AbortedType, MarkBlockedType DEF TypeOK, WorkerSettles
  <2> QED BY <1>7, <2>2, PassEndsType DEF TypeOK, WorkerSettles
<1> QED
  BY <1>1, <1>2, <1>3, <1>4, <1>5, <1>6, <1>7 DEF WorkerStep

\* Every step of the provider, of time and of a failure does.
LEMMA EnvironmentTypes ==
    ASSUME TypeOK,
           \/ \E o \in Ops : ProviderStep(o) \/ TimeStep(o)
           \/ Failure
    PROVE  TypeOK'
<1>1. ASSUME NEW o \in Ops, NEW i \in Attempts, ProviderLands(o, i) PROVE TypeOK'
  <2>1. [inflight |-> prov[o].inflight \ {i}, versions |-> prov[o].versions \cup {i}] \in Provider
    BY RowTypes DEF Provider
  <2>2. prov' \in [Ops -> Provider]
    BY <1>1, <2>1 DEF TypeOK, ProviderLands
  <2> QED BY <1>1, <2>2 DEF TypeOK, ProviderLands
<1>2. ASSUME NEW o \in Ops, NEW i \in Attempts, ProviderLoses(o, i) PROVE TypeOK'
  <2>1. [prov[o] EXCEPT !.inflight = @ \ {i}] \in Provider
    BY RowTypes DEF Provider
  <2>2. prov' \in [Ops -> Provider]
    BY <1>2, <2>1 DEF TypeOK, ProviderLoses
  <2> QED BY <1>2, <2>2 DEF TypeOK, ProviderLoses
<1>3. ASSUME NEW o \in Ops, LeaseExpires(o) PROVE TypeOK'
  <2>1. [intent[o] EXCEPT !.live = FALSE] \in Intent
    BY RowTypes DEF Intent
  <2>2. intent' \in [Ops -> Intent]
    BY <1>3, <2>1 DEF TypeOK, LeaseExpires
  <2> QED BY <1>3, <2>2 DEF TypeOK, LeaseExpires
<1>4. ASSUME NEW o \in Ops, ClaimExpires(o) PROVE TypeOK'
  <2>1. [op[o] EXCEPT !.claimLive = FALSE] \in Operation
    BY RowTypes DEF Operation
  <2>2. op' \in [Ops -> Operation]
    BY <1>4, <2>1 DEF TypeOK, ClaimExpires
  <2> QED BY <1>4, <2>2 DEF TypeOK, ClaimExpires
<1>5. ASSUME NEW o \in Ops, Crash(o) \/ Disconnect(o) PROVE TypeOK'
  <2>1. req' \in [Ops -> Request]
    BY <1>5, RequestMoves DEF Crash, Disconnect, RequestPC
  <2> QED BY <1>5, <2>1 DEF TypeOK, Crash, Disconnect
<1>6. ASSUME NEW w \in Workers, WorkerCrash(w) PROVE TypeOK'
  BY <1>6, PassEndsType DEF TypeOK, WorkerCrash
<1> QED BY <1>1, <1>2, <1>3, <1>4, <1>5, <1>6 DEF ProviderStep, TimeStep, Failure

\* Every maintenance step does.
LEMMA MaintenanceTypes ==
    ASSUME TypeOK, Maintenance
    PROVE  TypeOK'
<1>1. ASSUME NEW k \in Keys, Delete(k) PROVE TypeOK'
  <2>1. auth[k].cas \in Nat /\ auth[k].size \in Nat
    BY DEF TypeOK, Authority
  <2>2. [cas |-> auth[k].cas + 1, gen |-> NoOp, size |-> 0, tomb |-> TRUE] \in Authority
    BY <2>1 DEF Authority
  <2>3. auth' \in [Keys -> Authority]
    BY <1>1, <2>2 DEF TypeOK, Delete
  <2>4. cleanup' \in [Ops -> BOOLEAN]
    <3>1. \A g \in Ops : (cleanup[g] \/ (Live(k) /\ g = auth[k].gen /\ ledger[g] # {})) \in BOOLEAN
      OBVIOUS
    <3> QED BY <1>1, <3>1 DEF Delete
  <2>5. usage \in Usage /\ usage.visible - (IF Live(k) THEN auth[k].size ELSE 0) \in Int
    BY <2>1 DEF TypeOK, Usage
  <2>6. usage' \in Usage
    BY <1>1, <2>5 DEF Delete, Usage
  <2> QED BY <1>1, <2>3, <2>4, <2>6 DEF TypeOK, Delete
<1>2. ASSUME NEW o \in Ops, NEW v \in Attempts, CleanupDeletes(o, v) \/ PurgeDeletes(o, v)
      PROVE  TypeOK'
  <2>1. [prov[o] EXCEPT !.versions = @ \ {v}] \in Provider
    BY RowTypes DEF Provider
  <2>2. prov' \in [Ops -> Provider]
    BY <1>2, <2>1 DEF TypeOK, CleanupDeletes, PurgeDeletes
  <2> QED BY <1>2, <2>2 DEF TypeOK, CleanupDeletes, PurgeDeletes
<1>3. ASSUME NEW o \in Ops, NEW v \in Attempts, ForgetVersion(o, v) PROVE TypeOK'
  <2>1. op[o].committed \in Int /\ op[o].released \in Int
    BY RowTypes DEF Operation
  <2>2. usage \in Usage /\ usage.allocated - (op[o].committed - op[o].released) \in Int
    BY <2>1 DEF TypeOK, Usage
  <2>3. usage' \in Usage
    BY <1>3, <2>2 DEF ForgetVersion, Usage
  <2>4. [op[o] EXCEPT !.released = op[o].committed] \in Operation
    BY <2>1, RowTypes, OperationUpdates
  <2>5. op' \in [Ops -> Operation]
    BY <1>3, <2>4 DEF TypeOK, ForgetVersion
  <2>6. child' \in [Ops -> Child]
    BY <1>3, InitialRows DEF TypeOK, ForgetVersion
  <2>7. ledger' \in [Ops -> SUBSET Attempts]
    BY <1>3, RowTypes DEF TypeOK, ForgetVersion
  <2> QED BY <1>3, <2>3, <2>5, <2>6, <2>7 DEF TypeOK, ForgetVersion
<1>4. ASSUME NEW o \in Ops, NEW v \in Attempts, PurgeForgets(o, v) PROVE TypeOK'
  <2>1. child' \in [Ops -> Child]
    BY <1>4, InitialRows DEF TypeOK, PurgeForgets
  <2>2. ledger' \in [Ops -> SUBSET Attempts]
    BY <1>4, RowTypes DEF TypeOK, PurgeForgets
  <2> QED BY <1>4, <2>1, <2>2 DEF TypeOK, PurgeForgets
<1>5. CASE AdvanceRouting
  <2>1. ns' \in Namespace
    BY <1>5 DEF TypeOK, AdvanceRouting, Namespace
  <2> QED BY <1>5, <2>1 DEF TypeOK, AdvanceRouting
<1>6. CASE PurgeFence
  <2>1. ns' \in Namespace
    BY <1>6 DEF TypeOK, PurgeFence, Namespace
  <2> QED BY <1>6, <2>1 DEF TypeOK, PurgeFence
<1>7. CASE FinishPurge
  <2>1. ns' \in Namespace
    BY <1>7 DEF TypeOK, FinishPurge, Namespace
  <2>2. usage' \in Usage
    BY <1>7 DEF FinishPurge, Usage
  <2>3. auth' \in [Keys -> Authority]
    BY <1>7 DEF FinishPurge, Authority
  <2>4. cleanup' \in [Ops -> BOOLEAN] /\ child' \in [Ops -> Child]
    BY <1>7, InitialRows DEF FinishPurge
  <2>5. \A o \in Ops : [op[o] EXCEPT !.released = op[o].committed] \in Operation
    <3>1. TAKE o \in Ops
    <3>2. op[o].committed \in Int
      BY RowTypes DEF Operation
    <3> QED BY <3>2, RowTypes, OperationUpdates
  <2>6. op' \in [Ops -> Operation]
    BY <1>7, <2>5 DEF FinishPurge
  <2> QED BY <1>7, <2>1, <2>2, <2>3, <2>4, <2>6 DEF TypeOK, FinishPurge
<1> QED BY <1>1, <1>2, <1>3, <1>4, <1>5, <1>6, <1>7 DEF Maintenance

\* The initial ledger, an active empty workspace, is well typed.
LEMMA InitTypes == Init => TypeOK
<1> SUFFICES ASSUME Init PROVE TypeOK
  OBVIOUS
<1>1. ns \in Namespace /\ usage \in Usage
  BY DEF Init, Namespace, Usage
<1>2. auth \in [Keys -> Authority]
  BY DEF Init, Authority
<1>3. op \in [Ops -> Operation] /\ intent \in [Ops -> Intent] /\ child \in [Ops -> Child]
  BY InitialRows DEF Init
<1>4. ledger \in [Ops -> SUBSET Attempts] /\ cleanup \in [Ops -> BOOLEAN]
  BY DEF Init
<1>5. prov \in [Ops -> Provider]
  BY DEF Init, Provider
<1>6. req \in [Ops -> Request]
  BY LedgerAssumption DEF Init, Request, RequestPC
<1>7. work \in [Workers -> Pass] /\ \A w \in Workers : work[w].pc = "idle"
  BY InitialRows DEF Init, Idle
<1> QED BY <1>1, <1>2, <1>3, <1>4, <1>5, <1>6, <1>7 DEF TypeOK

\* Every step of the ledger preserves the type invariant.
LEMMA NextTypes == TypeOK /\ [Next]_vars => TypeOK'
<1> SUFFICES ASSUME TypeOK, [Next]_vars PROVE TypeOK'
  OBVIOUS
<1>1. CASE \E o \in Ops : RequestStep(o)
  BY <1>1, RequestTypes
<1>2. CASE \E w \in Workers : WorkerStep(w)
  BY <1>2, WorkerTypes
<1>3. CASE (\E o \in Ops : ProviderStep(o) \/ TimeStep(o)) \/ Failure
  BY <1>3, EnvironmentTypes
<1>4. CASE Maintenance
  BY <1>4, MaintenanceTypes
<1>5. CASE UNCHANGED vars
  BY <1>5 DEF TypeOK, vars
<1> QED BY <1>1, <1>2, <1>3, <1>4, <1>5 DEF Next

\* Type correctness of the managed ledger: no request, recovery pass, provider
\* answer, crash, cleanup or purge writes a value outside a column's domain,
\* and no upload exceeds the provider attempts its sink allows.
THEOREM TypeCorrect == Spec => []TypeOK
BY InitTypes, NextTypes, PTL DEF Spec

-----------------------------------------------------------------------------
(* The mutation slot and the byte budget                                   *)

\* SlotAccounting and QuotaBound are not inductive by themselves.  A worker
\* that blocks an operation relies on its claim to know it is unsettled; an
\* admission relies on the row not having been used before; the release of an
\* allocation must never add bytes to the workspace.
BeforeAdmission == {"idle", "read", "fenced"}

ClaimsUnsettled == \A o \in Ops : op[o].claim # NoWorker => op[o].state \in Unsettled

RowsFresh == \A o \in Ops : req[o].pc \in BeforeAdmission => op[o].state = "none"

ReleaseBounded ==
    \A o \in Ops : /\ 0 <= op[o].released /\ op[o].released <= op[o].committed
                   /\ op[o].state # "Committed" => op[o].committed = 0

AccountingInv ==
    SlotAccounting /\ QuotaBound /\ ClaimsUnsettled /\ RowsFresh /\ ReleaseBounded

\* What the columns that matter for accounting look like before a step.
LEMMA Columns ==
    ASSUME TypeOK
    PROVE  /\ usage.visible \in Int /\ usage.allocated \in Int /\ usage.reserved \in Int
           /\ usage.active \in Ops \cup {NoOp} /\ NoOp \notin Ops
           /\ VisibleLimit \in Nat /\ Headroom \in Nat
           /\ \A o \in Ops : /\ op[o].reserved \in Nat /\ op[o].prior \in Nat
                              /\ op[o].committed \in Int /\ op[o].released \in Int
<1>1. usage.visible \in Int /\ usage.allocated \in Int /\ usage.reserved \in Int
      /\ usage.active \in Ops \cup {NoOp}
  BY DEF TypeOK, Usage
<1>2. \A o \in Ops : /\ op[o].reserved \in Nat /\ op[o].prior \in Nat
                     /\ op[o].committed \in Int /\ op[o].released \in Int
  BY RowTypes DEF Operation
<1> QED BY <1>1, <1>2, LedgerAssumption

\* A step that touches neither operations nor usage keeps the accounting, if
\* no request goes back to before its admission.
LEMMA QuietStep ==
    ASSUME AccountingInv, op' = op, usage' = usage,
           \A o \in Ops : req'[o].pc \in BeforeAdmission => req[o].pc \in BeforeAdmission
    PROVE  AccountingInv'
BY DEF AccountingInv, SlotAccounting, QuotaBound, ClaimsUnsettled, RowsFresh, ReleaseBounded

\* A step that leaves the accounting columns of every operation as they were,
\* and claims only unsettled ones, keeps it too.
LEMMA ColumnsKept ==
    ASSUME TypeOK, AccountingInv, usage' = usage,
           \A o \in Ops : req'[o].pc \in BeforeAdmission => req[o].pc \in BeforeAdmission,
           \A o \in Ops : /\ op'[o].state = op[o].state /\ op'[o].reserved = op[o].reserved
                          /\ op'[o].committed = op[o].committed
                          /\ op'[o].released = op[o].released
                          /\ op'[o].claim = op[o].claim \/ op[o].state \in Unsettled
    PROVE  AccountingInv'
<1>1. SlotAccounting'
  BY Columns DEF AccountingInv, SlotAccounting
<1>2. QuotaBound'
  BY DEF AccountingInv, QuotaBound
<1>3. ClaimsUnsettled' /\ RowsFresh' /\ ReleaseBounded'
  BY DEF AccountingInv, ClaimsUnsettled, RowsFresh, ReleaseBounded
<1> QED BY <1>1, <1>2, <1>3 DEF AccountingInv

\* A successful abort frees the slot and gives the reservation back.
LEMMA AbortedAccounting ==
    ASSUME TypeOK, AccountingInv, NEW o \in Ops, usage.active = o, op[o].state \in Unsettled,
           Aborted(o),
           \A p \in Ops : req'[p].pc \in BeforeAdmission => req[p].pc \in BeforeAdmission
    PROVE  AccountingInv'
<1>1. \A p \in Ops : p # o => op'[p] = op[p]
  BY DEF TypeOK, Aborted
<1>2. /\ op'[o].state = "ProvenAborted" /\ op'[o].claim = NoWorker
      /\ op'[o].committed = op[o].committed /\ op'[o].released = op[o].released
  BY RowTypes DEF TypeOK, Aborted, Operation
<1>3. /\ usage'.visible = usage.visible /\ usage'.allocated = usage.allocated
      /\ usage'.reserved = usage.reserved - op[o].reserved /\ usage'.active = NoOp
  BY DEF TypeOK, Aborted, Usage
<1>4. SlotAccounting'
  BY <1>1, <1>2, <1>3, Columns DEF AccountingInv, SlotAccounting, Unsettled
<1>5. QuotaBound'
  BY <1>3, Columns DEF AccountingInv, QuotaBound
<1>6. ClaimsUnsettled'
  BY <1>1, <1>2 DEF AccountingInv, ClaimsUnsettled
<1>7. RowsFresh'
  BY <1>1 DEF AccountingInv, RowsFresh, Unsettled
<1>8. ReleaseBounded'
  BY <1>1, <1>2 DEF AccountingInv, ReleaseBounded, Unsettled
<1> QED BY <1>4, <1>5, <1>6, <1>7, <1>8 DEF AccountingInv

\* A committed verdict turns the reservation into an allocation that is no
\* larger, and frees the slot.
LEMMA CommittedAccounting ==
    ASSUME TypeOK, AccountingInv, NEW o \in Ops, NEW h, NEW w,
           FinalizeVerdict(o, h, w) = "committed", Committed(o),
           \A p \in Ops : req'[p].pc \in BeforeAdmission => req[p].pc \in BeforeAdmission
    PROVE  AccountingInv'
<1>1. \A p \in Ops : p # o => op'[p] = op[p]
  BY DEF TypeOK, Committed
<1>2. /\ op'[o].state = "Committed" /\ op'[o].claim = NoWorker
      /\ op'[o].committed = Allocation(o) /\ op'[o].released = op[o].released
  BY RowTypes DEF TypeOK, Committed, Operation
<1>3. /\ usage'.visible = NextVisible(o) /\ usage'.allocated = usage.allocated + Allocation(o)
      /\ usage'.reserved = usage.reserved - op[o].reserved /\ usage'.active = NoOp
  BY DEF Committed
<1>4. /\ usage.active = o /\ op[o].state \in {"Completing", "RecoveryBlocked"}
      /\ ~(Allocation(o) > op[o].reserved) /\ ~(NextVisible(o) > VisibleLimit)
      /\ op[o].evidence # NoSize
  BY CommittedFacts
<1>5. Allocation(o) \in Int /\ Allocation(o) >= 0 /\ NextVisible(o) \in Int
  <2>1. op[o].evidence \in Int
    BY RowTypes, SizesAreNat DEF Operation
  <2> QED BY <1>4, <2>1, AllocationType, Columns DEF NextVisible
<1>6. SlotAccounting'
  BY <1>1, <1>2, <1>3, <1>4, Columns DEF AccountingInv, SlotAccounting, Unsettled
<1>7. QuotaBound'
  BY <1>3, <1>4, <1>5, Columns DEF AccountingInv, QuotaBound
<1>8. ClaimsUnsettled'
  BY <1>1, <1>2 DEF AccountingInv, ClaimsUnsettled
<1>9. RowsFresh'
  BY <1>1, <1>4 DEF AccountingInv, RowsFresh
<1>10. ReleaseBounded'
  BY <1>1, <1>2, <1>4, <1>5, Columns DEF AccountingInv, ReleaseBounded
<1> QED BY <1>6, <1>7, <1>8, <1>9, <1>10 DEF AccountingInv

\* Blocking leaves the operation unsettled: its claim proves it was.
LEMMA MarkBlockedAccounting ==
    ASSUME TypeOK, AccountingInv, NEW o \in Ops, NEW w \in Workers, MarkBlocked(o, w),
           usage' = usage, req' = req
    PROVE  AccountingInv'
<1>1. CASE ~Authorized(o, w)
  BY <1>1, QuietStep DEF MarkBlocked
<1>2. CASE Authorized(o, w)
  <2>1. op[o].state \in Unsettled
    BY <1>2, LedgerAssumption DEF Authorized, AccountingInv, ClaimsUnsettled
  <2>2. \A p \in Ops : p # o => op'[p] = op[p]
    BY <1>2 DEF TypeOK, MarkBlocked
  <2>3. /\ op'[o].state = "RecoveryBlocked" /\ op'[o].claim = NoWorker
        /\ op'[o].reserved = op[o].reserved
        /\ op'[o].committed = op[o].committed /\ op'[o].released = op[o].released
    BY <1>2, RowTypes DEF TypeOK, MarkBlocked, Operation
  <2>4. SlotAccounting'
    BY <2>1, <2>2, <2>3, Columns DEF AccountingInv, SlotAccounting, Unsettled
  <2>5. QuotaBound'
    BY DEF AccountingInv, QuotaBound
  <2>6. ClaimsUnsettled' /\ RowsFresh'
    BY <2>1, <2>2, <2>3 DEF AccountingInv, ClaimsUnsettled, RowsFresh, Unsettled
  <2>7. ReleaseBounded'
    BY <2>1, <2>2, <2>3 DEF AccountingInv, ReleaseBounded, Unsettled
  <2> QED BY <2>4, <2>5, <2>6, <2>7 DEF AccountingInv
<1> QED BY <1>1, <1>2

\* Every step of a request keeps the accounting.
LEMMA RequestAccounting ==
    ASSUME TypeOK, AccountingInv, NEW o \in Ops, RequestStep(o)
    PROVE  AccountingInv'
<1> DEFINE Onward == \A p \in Ops : req'[p].pc \in BeforeAdmission
                                    => req[p].pc \in BeforeAdmission
<1>0. ASSUME NEW p \in RequestPC, req' = [req EXCEPT ![o].pc = p],
             p \in BeforeAdmission => req[o].pc \in BeforeAdmission
      PROVE  Onward
  BY <1>0 DEF TypeOK, Request
<1>1. ASSUME NEW k \in Keys, ReadAuthority(o, k) PROVE AccountingInv'
  <2>1. Onward
    BY <1>0, <1>1 DEF ReadAuthority, RequestPC, BeforeAdmission
  <2>2. \A p \in Ops : /\ op'[p].state = op[p].state /\ op'[p].reserved = op[p].reserved
                       /\ op'[p].committed = op[p].committed
                       /\ op'[p].released = op[p].released /\ op'[p].claim = op[p].claim
    BY <1>1, RowTypes DEF TypeOK, ReadAuthority, Operation
  <2> QED BY <1>1, <2>1, <2>2, ColumnsKept DEF ReadAuthority
<1>2. CASE ReadFence(o)
  <2>1. Onward
    BY <1>0, <1>2 DEF ReadFence, RequestPC, BeforeAdmission
  <2>2. \A p \in Ops : /\ op'[p].state = op[p].state /\ op'[p].reserved = op[p].reserved
                       /\ op'[p].committed = op[p].committed
                       /\ op'[p].released = op[p].released /\ op'[p].claim = op[p].claim
    BY <1>2, RowTypes DEF TypeOK, ReadFence, Operation
  <2> QED BY <1>2, <2>1, <2>2, ColumnsKept DEF ReadFence
<1>3. CASE Admit(o)
  <2>1. Reservation \in Nat
    BY Columns, LedgerAssumption DEF Reservation, MinOf, MaxOf
  <2>2. \A p \in Ops : p # o => op'[p] = op[p] /\ req'[p] = req[p]
    BY <1>3 DEF TypeOK, Admit
  <2>3. /\ op'[o].state = "Open" /\ op'[o].reserved = Reservation
        /\ op'[o].claim = op[o].claim
        /\ op'[o].committed = op[o].committed /\ op'[o].released = op[o].released
    BY <1>3, RowTypes DEF TypeOK, Admit, Operation
  <2>4. /\ usage'.visible = usage.visible /\ usage'.allocated = usage.allocated
        /\ usage'.reserved = usage.reserved + Reservation /\ usage'.active = o
    BY <1>3 DEF TypeOK, Admit, Usage
  <2>5. /\ usage.active = NoOp /\ op[o].state = "none" /\ req'[o].pc = "admitted"
        /\ usage.allocated + usage.reserved + Reservation <= VisibleLimit + Headroom
    BY <1>3, RowTypes DEF Admit, AdmitGuard, AccountingInv, RowsFresh, BeforeAdmission,
                          TypeOK, Request
  <2>6. SlotAccounting'
    <3>1. usage.reserved = 0
      BY <2>5 DEF AccountingInv, SlotAccounting
    <3>2. usage'.reserved = Reservation
      BY <2>1, <2>4, <3>1
    <3>3. \A p \in Ops : op[p].state \notin Unsettled
      BY <2>5, Columns DEF AccountingInv, SlotAccounting
    <3> QED BY <2>2, <2>3, <2>4, <3>2, <3>3, Columns DEF SlotAccounting, Unsettled
  <2>7. QuotaBound'
    BY <2>1, <2>4, <2>5, Columns DEF AccountingInv, QuotaBound
  <2>8. ClaimsUnsettled'
    BY <2>2, <2>3 DEF AccountingInv, ClaimsUnsettled, Unsettled
  <2>9. RowsFresh'
    BY <2>2, <2>5 DEF AccountingInv, RowsFresh, BeforeAdmission
  <2>10. ReleaseBounded'
    BY <2>2, <2>3, <2>5 DEF AccountingInv, ReleaseBounded
  <2> QED BY <2>6, <2>7, <2>8, <2>9, <2>10 DEF AccountingInv
<1>4. CASE AbortUnbegun(o)
  <2>1. Onward
    BY <1>0, <1>4 DEF AbortUnbegun, RequestPC, BeforeAdmission
  <2>2. CASE Aborted(o) /\ AbortVerdict(o, "NoChildStarted", NoWorker, NoWorker) = "aborted"
    BY <2>1, <2>2, AbortedFacts, AbortedAccounting
  <2>3. CASE op' = op /\ usage' = usage
    BY <2>1, <2>3, QuietStep
  <2> QED BY <1>4, <2>2, <2>3 DEF AbortUnbegun
<1>5. ASSUME NEW b \in BOOLEAN, JournalFailed(o, b) PROVE AccountingInv'
  <2>1. Onward
    BY <1>0, <1>5 DEF JournalFailed, RequestPC, BeforeAdmission
  <2>2. CASE Aborted(o) /\ AbortVerdict(o, "NoChildStarted", Writer, NoWorker) = "aborted"
    BY <2>1, <2>2, AbortedFacts, AbortedAccounting
  <2>3. CASE op' = op /\ usage' = usage
    BY <2>1, <2>3, QuietStep
  <2> QED BY <1>5, <2>2, <2>3 DEF JournalFailed
<1>6. CASE RecordUsage(o)
  <2>1. Onward
    BY <1>0, <1>6 DEF RecordUsage, RequestPC, BeforeAdmission
  <2>2. \A p \in Ops : p # o => op'[p] = op[p]
    BY <1>6 DEF TypeOK, RecordUsage
  <2>3. /\ op[o].state = "Open" /\ op'[o].state = "Completing"
        /\ op'[o].reserved = op[o].reserved /\ op'[o].claim = op[o].claim
        /\ op'[o].committed = op[o].committed /\ op'[o].released = op[o].released
    BY <1>6, RowTypes DEF TypeOK, RecordUsage, Operation
  <2>4. SlotAccounting' /\ QuotaBound'
    <3>1. UNCHANGED usage
      BY <1>6 DEF RecordUsage
    <3>2. SlotAccounting'
      BY <2>2, <2>3, <3>1, Columns DEF AccountingInv, SlotAccounting, Unsettled
    <3>3. QuotaBound'
      BY <3>1 DEF AccountingInv, QuotaBound
    <3> QED BY <3>2, <3>3
  <2>5. ClaimsUnsettled' /\ RowsFresh' /\ ReleaseBounded'
    BY <2>1, <2>2, <2>3 DEF AccountingInv, ClaimsUnsettled, RowsFresh, ReleaseBounded, Unsettled
  <2> QED BY <2>4, <2>5 DEF AccountingInv
<1>7. CASE RequestFinalize(o)
  <2>1. Onward
    BY <1>0, <1>7 DEF RequestFinalize, RequestPC, BeforeAdmission
  <2>2. CASE Committed(o) /\ FinalizeVerdict(o, Writer, NoWorker) = "committed"
    BY <2>1, <2>2, CommittedAccounting
  <2>3. CASE op' = op /\ usage' = usage
    BY <2>1, <2>3, QuietStep
  <2> QED BY <1>7, <2>2, <2>3 DEF RequestFinalize
<1>8. CASE \/ AdmitRejected(o) \/ BeginChild(o) \/ BeginChildFailed(o) \/ JournalChild(o)
           \/ \E s \in Sizes : Verify(o, s)
           \/ AbandonUpload(o) \/ Answered(o) \/ Refused(o) \/ Unanswered(o)
           \/ RequestIncomplete(o) \/ DropReconcile(o)
  <2>1. \E p \in RequestPC \ BeforeAdmission : req' = [req EXCEPT ![o].pc = p]
    BY <1>8 DEF AdmitRejected, BeginChild, BeginChildFailed, JournalChild, Verify, AbandonUpload,
                Answered, Refused, Unanswered, RequestIncomplete, DropReconcile,
                RequestPC, BeforeAdmission
  <2>2. Onward
    BY <1>0, <2>1
  <2>3. op' = op /\ usage' = usage
    BY <1>8 DEF AdmitRejected, BeginChild, BeginChildFailed, JournalChild, Verify, AbandonUpload,
                Answered, Refused, Unanswered, RequestIncomplete, DropReconcile
  <2> QED BY <2>2, <2>3, QuietStep
<1>9. CASE Launch(o) \/ Relaunch(o)
  <2>1. Onward
    BY <1>9, RowTypes DEF TypeOK, Launch, Relaunch, Request, BeforeAdmission
  <2> QED BY <1>9, <2>1, QuietStep DEF Launch, Relaunch
<1> QED
  BY <1>1, <1>2, <1>3, <1>4, <1>5, <1>6, <1>7, <1>8, <1>9 DEF RequestStep

\* Every step of a recovery pass keeps it.
LEMMA WorkerAccounting ==
    ASSUME TypeOK, AccountingInv, NEW w \in Workers, WorkerStep(w)
    PROVE  AccountingInv'
<1> DEFINE q == work[w].op
<1>1. ASSUME NEW o \in Ops, ClaimStale(w, o) PROVE AccountingInv'
  <2>1. op[o].state \in Unsettled
    BY <1>1 DEF ClaimStale
  <2>2. \A p \in Ops : /\ op'[p].state = op[p].state /\ op'[p].reserved = op[p].reserved
                       /\ op'[p].committed = op[p].committed
                       /\ op'[p].released = op[p].released
                       /\ op'[p].claim = op[p].claim \/ op[p].state \in Unsettled
    BY <1>1, <2>1, RowTypes DEF TypeOK, ClaimStale, Operation
  <2> QED BY <1>1, <2>2, ColumnsKept DEF ClaimStale
<1>2. CASE WorkerAborts(w)
  <2>1. q \in Ops /\ req' = req
    BY <1>2 DEF TypeOK, WorkerAborts
  <2>2. CASE Aborted(q) /\ AbortVerdict(q, "NoChildStarted", NoWorker, w) = "aborted"
    BY <2>1, <2>2, AbortedFacts, AbortedAccounting
  <2>3. CASE MarkBlocked(q, w) /\ usage' = usage
    BY <2>1, <2>3, MarkBlockedAccounting
  <2>4. CASE op' = op /\ usage' = usage
    BY <2>1, <2>4, QuietStep
  <2> QED BY <1>2, <2>2, <2>3, <2>4 DEF WorkerAborts
<1>3. CASE WorkerBlocks(w)
  <2>1. q \in Ops
    BY <1>3 DEF TypeOK, WorkerBlocks
  <2> QED BY <1>3, <2>1, MarkBlockedAccounting DEF WorkerBlocks
<1>4. CASE WorkerRenews(w) \/ WorkerLeases(w) \/ WorkerReconciles(w)
  BY <1>4, QuietStep DEF WorkerRenews, WorkerLeases, WorkerReconciles
<1>5. CASE WorkerSettles(w)
  <2>1. q \in Ops /\ req' = req
    BY <1>5 DEF TypeOK, WorkerSettles
  <2>2. CASE Committed(q) /\ FinalizeVerdict(q, w, w) = "committed"
    BY <2>1, <2>2, CommittedAccounting
  <2>3. CASE Aborted(q) /\ AbortVerdict(q, "ChildProvenAborted", w, w) = "aborted"
    BY <2>1, <2>3, AbortedFacts, AbortedAccounting
  <2>4. CASE MarkBlocked(q, w) /\ usage' = usage
    BY <2>1, <2>4, MarkBlockedAccounting
  <2>5. CASE op' = op /\ usage' = usage
    BY <2>1, <2>5, QuietStep
  <2> QED BY <1>5, <2>2, <2>3, <2>4, <2>5 DEF WorkerSettles
<1> QED BY <1>1, <1>2, <1>3, <1>4, <1>5 DEF WorkerStep

\* So does the environment: provider, clock and failures.
LEMMA EnvironmentAccounting ==
    ASSUME TypeOK, AccountingInv,
           \/ \E o \in Ops : ProviderStep(o) \/ TimeStep(o)
           \/ Failure
    PROVE  AccountingInv'
<1>1. ASSUME NEW o \in Ops, ProviderStep(o) PROVE AccountingInv'
  BY <1>1, QuietStep DEF ProviderStep, ProviderLands, ProviderLoses
<1>2. ASSUME NEW o \in Ops, LeaseExpires(o) PROVE AccountingInv'
  BY <1>2, QuietStep DEF LeaseExpires
<1>3. ASSUME NEW o \in Ops, ClaimExpires(o) PROVE AccountingInv'
  <2>1. \A p \in Ops : /\ op'[p].state = op[p].state /\ op'[p].reserved = op[p].reserved
                       /\ op'[p].committed = op[p].committed
                       /\ op'[p].released = op[p].released /\ op'[p].claim = op[p].claim
    BY <1>3, RowTypes DEF TypeOK, ClaimExpires, Operation
  <2> QED BY <1>3, <2>1, ColumnsKept DEF ClaimExpires
<1>4. ASSUME NEW o \in Ops, Crash(o) \/ Disconnect(o) PROVE AccountingInv'
  <2>1. \A p \in Ops : req'[p].pc \in BeforeAdmission => req[p].pc \in BeforeAdmission
    BY <1>4 DEF TypeOK, Request, Crash, Disconnect, BeforeAdmission
  <2> QED BY <1>4, <2>1, QuietStep DEF Crash, Disconnect
<1>5. ASSUME NEW w \in Workers, WorkerCrash(w) PROVE AccountingInv'
  BY <1>5, QuietStep DEF WorkerCrash
<1> QED BY <1>1, <1>2, <1>3, <1>4, <1>5 DEF TimeStep, Failure

\* And maintenance: DELETE, cleanup, routing and purge.
LEMMA MaintenanceAccounting ==
    ASSUME TypeOK, AccountingInv, Maintenance
    PROVE  AccountingInv'
<1>1. ASSUME NEW k \in Keys, Delete(k) PROVE AccountingInv'
  <2>1. auth[k].size \in Nat
    BY DEF TypeOK, Authority
  <2>2. /\ usage'.visible = usage.visible - (IF Live(k) THEN auth[k].size ELSE 0)
        /\ usage'.allocated = usage.allocated /\ usage'.reserved = usage.reserved
        /\ usage'.active = usage.active
    BY <1>1 DEF TypeOK, Usage, Delete
  <2>3. QuotaBound'
    BY <2>1, <2>2, Columns DEF AccountingInv, QuotaBound
  <2>4. SlotAccounting'
    BY <1>1, <2>2 DEF Delete, AccountingInv, SlotAccounting
  <2>5. ClaimsUnsettled' /\ RowsFresh' /\ ReleaseBounded'
    BY <1>1 DEF Delete, AccountingInv, ClaimsUnsettled, RowsFresh, ReleaseBounded
  <2> QED BY <2>3, <2>4, <2>5 DEF AccountingInv
<1>2. ASSUME NEW o \in Ops, NEW v \in Attempts,
             CleanupDeletes(o, v) \/ PurgeDeletes(o, v) \/ PurgeForgets(o, v)
      PROVE  AccountingInv'
  BY <1>2, QuietStep DEF CleanupDeletes, PurgeDeletes, PurgeForgets
<1>3. ASSUME NEW o \in Ops, NEW v \in Attempts, ForgetVersion(o, v) PROVE AccountingInv'
  <2>1. CASE ledger[o] # {v}
    BY <1>3, <2>1, QuietStep DEF ForgetVersion
  <2>2. CASE ledger[o] = {v}
    <3>1. \A p \in Ops : p # o => op'[p] = op[p]
      BY <1>3 DEF TypeOK, ForgetVersion
    <3>2. /\ op'[o].state = op[o].state /\ op'[o].reserved = op[o].reserved
          /\ op'[o].claim = op[o].claim /\ op'[o].committed = op[o].committed
          /\ op'[o].released = op[o].committed
      BY <1>3, <2>2, RowTypes DEF TypeOK, ForgetVersion, Operation
    <3>3. /\ usage'.visible = usage.visible /\ usage'.reserved = usage.reserved
          /\ usage'.allocated = usage.allocated - (op[o].committed - op[o].released)
          /\ usage'.active = usage.active
      BY <1>3, <2>2 DEF TypeOK, ForgetVersion, Usage
    <3>4. QuotaBound'
      BY <3>3, Columns DEF AccountingInv, QuotaBound, ReleaseBounded
    <3>5. SlotAccounting'
      BY <3>1, <3>2, <3>3, Columns DEF AccountingInv, SlotAccounting
    <3>6. ClaimsUnsettled' /\ RowsFresh'
      BY <1>3, <3>1, <3>2 DEF ForgetVersion, AccountingInv, ClaimsUnsettled, RowsFresh
    <3>7. ReleaseBounded'
      BY <3>1, <3>2, Columns DEF AccountingInv, ReleaseBounded
    <3> QED BY <3>4, <3>5, <3>6, <3>7 DEF AccountingInv
  <2> QED BY <2>1, <2>2
<1>4. CASE AdvanceRouting \/ PurgeFence
  BY <1>4, QuietStep DEF AdvanceRouting, PurgeFence
<1>5. CASE FinishPurge
  <2>1. \A p \in Ops : /\ op'[p].state = op[p].state /\ op'[p].claim = op[p].claim
                       /\ op'[p].committed = op[p].committed
                       /\ op'[p].released = op[p].committed
    BY <1>5, RowTypes DEF FinishPurge, Operation
  <2>2. /\ usage'.visible = 0 /\ usage'.allocated = 0 /\ usage'.reserved = 0
        /\ usage'.active = NoOp
    BY <1>5 DEF FinishPurge
  <2>3. SlotAccounting'
    BY <1>5, <2>1, <2>2, Columns DEF FinishPurge, PurgeReady, SlotAccounting
  <2>4. QuotaBound'
    BY <2>2, Columns DEF QuotaBound
  <2>5. ClaimsUnsettled' /\ RowsFresh'
    BY <1>5, <2>1 DEF FinishPurge, AccountingInv, ClaimsUnsettled, RowsFresh
  <2>6. ReleaseBounded'
    BY <2>1, Columns DEF AccountingInv, ReleaseBounded
  <2> QED BY <2>3, <2>4, <2>5, <2>6 DEF AccountingInv
<1> QED BY <1>1, <1>2, <1>3, <1>4, <1>5 DEF Maintenance

\* The empty workspace satisfies the accounting invariant.
LEMMA InitAccounting == Init => AccountingInv
<1> SUFFICES ASSUME Init PROVE AccountingInv
  OBVIOUS
<1>1. \A o \in Ops : /\ op[o].state = "none" /\ op[o].claim = NoWorker
                     /\ op[o].committed = 0 /\ op[o].released = 0
  BY DEF Init, NoRow
<1>2. /\ usage.visible = 0 /\ usage.allocated = 0 /\ usage.reserved = 0 /\ usage.active = NoOp
  BY DEF Init
<1>3. SlotAccounting /\ QuotaBound
  BY <1>1, <1>2, LedgerAssumption DEF SlotAccounting, QuotaBound, Unsettled
<1>4. ClaimsUnsettled /\ RowsFresh /\ ReleaseBounded
  BY <1>1 DEF ClaimsUnsettled, RowsFresh, ReleaseBounded
<1> QED BY <1>3, <1>4 DEF AccountingInv

\* Every step keeps it.
LEMMA NextAccounting == TypeOK /\ AccountingInv /\ [Next]_vars => AccountingInv'
<1> SUFFICES ASSUME TypeOK, AccountingInv, [Next]_vars PROVE AccountingInv'
  OBVIOUS
<1>1. CASE \E o \in Ops : RequestStep(o)
  BY <1>1, RequestAccounting
<1>2. CASE \E w \in Workers : WorkerStep(w)
  BY <1>2, WorkerAccounting
<1>3. CASE (\E o \in Ops : ProviderStep(o) \/ TimeStep(o)) \/ Failure
  BY <1>3, EnvironmentAccounting
<1>4. CASE Maintenance
  BY <1>4, MaintenanceAccounting
<1>5. CASE UNCHANGED vars
  BY <1>5, QuietStep DEF vars
<1> QED BY <1>1, <1>2, <1>3, <1>4, <1>5 DEF Next

\* The accounting invariant holds in every reachable state of the ledger.
THEOREM Accounting == Spec => []AccountingInv
BY InitTypes, NextTypes, InitAccounting, NextAccounting, PTL DEF Spec

\* The mutation slot names exactly the unsettled operation and the reserved
\* bytes are exactly its reservation: no crash, lost claim, late finalize or
\* purge leaks the slot or the reservation admit_logical_operation took.
THEOREM SlotNeverLeaks == Spec => []SlotAccounting
<1>1. AccountingInv => SlotAccounting
  BY DEF AccountingInv
<1> QED BY <1>1, Accounting, PTL

\* Allocated and reserved bytes stay within the physical budget, and visible
\* bytes within the visible limit, although finalize_logical_put decides the
\* allocation long after admission.
THEOREM QuotaHolds == Spec => []QuotaBound
<1>1. AccountingInv => QuotaBound
  BY DEF AccountingInv
<1> QED BY <1>1, Accounting, PTL

-----------------------------------------------------------------------------
(* What a step may do to authorities and settled operations                *)

\* Authority rows are written by a successful finalize, which saw the CAS
\* version it replaces, by a DELETE, and by the end of a purge; by nothing else.
LEMMA AuthoritySteps ==
    ASSUME TypeOK, [Next]_vars
    PROVE  \/ auth' = auth
           \/ \E o \in Ops : AuthorityMatches(o) /\ Committed(o)
           \/ \E k \in Keys : Delete(k)
           \/ FinishPurge
<1> DEFINE Kept == auth' = auth
           Finalized == \E o \in Ops : AuthorityMatches(o) /\ Committed(o)
<1>1. ASSUME NEW o \in Ops, RequestStep(o) PROVE Kept \/ Finalized
  <2>1. CASE RequestFinalize(o)
    BY <2>1, CommittedFacts DEF RequestFinalize
  <2>2. CASE ~RequestFinalize(o)
    BY <1>1, <2>2 DEF RequestStep, ReadAuthority, ReadFence, Admit, AdmitRejected, BeginChild,
         BeginChildFailed, AbortUnbegun, JournalChild, JournalFailed, Verify, RecordUsage,
         AbandonUpload, Launch, Relaunch, Answered, Refused, Unanswered, RequestIncomplete,
         DropReconcile
  <2> QED BY <2>1, <2>2
<1>2. ASSUME NEW w \in Workers, WorkerStep(w) PROVE Kept \/ Finalized
  <2>1. CASE WorkerSettles(w)
    <3>1. work[w].op \in Ops
      BY <2>1 DEF TypeOK, WorkerSettles
    <3> QED BY <2>1, <3>1, CommittedFacts DEF WorkerSettles
  <2>2. CASE ~WorkerSettles(w)
    BY <1>2, <2>2 DEF WorkerStep, ClaimStale, WorkerAborts, WorkerBlocks, WorkerRenews,
                      WorkerLeases, WorkerReconciles
  <2> QED BY <2>1, <2>2
<1>3. CASE (\E o \in Ops : ProviderStep(o) \/ TimeStep(o)) \/ Failure
  BY <1>3 DEF ProviderStep, ProviderLands, ProviderLoses, TimeStep, LeaseExpires, ClaimExpires,
              Failure, Crash, Disconnect, WorkerCrash
<1>4. CASE Maintenance
  BY <1>4 DEF Maintenance, CleanupDeletes, ForgetVersion, PurgeDeletes, PurgeForgets,
              AdvanceRouting, PurgeFence
<1>5. CASE UNCHANGED vars
  BY <1>5 DEF vars
<1> QED BY <1>1, <1>2, <1>3, <1>4, <1>5 DEF Next

\* What a reader sees under a CAS version never changes: a step of
\* finalize_logical_put, commit_atomic_logical_delete or anything else either
\* leaves an authority alone or moves its CAS version forward.
THEOREM CasFences == Spec => CasFencesAuthority
<1> DEFINE A == ns'.epoch = ns.epoch => \A k \in Keys :
                   /\ auth'[k].cas >= auth[k].cas
                   /\ auth'[k].cas = auth[k].cas => auth'[k] = auth[k]
<1>1. TypeOK /\ [Next]_vars => [A]_vars
  <2> SUFFICES ASSUME TypeOK, [Next]_vars, ns'.epoch = ns.epoch, NEW k \in Keys
               PROVE  /\ auth'[k].cas >= auth[k].cas
                      /\ auth'[k].cas = auth[k].cas => auth'[k] = auth[k]
    OBVIOUS
  <2>0. \A j \in Keys : auth[j].cas \in Nat
    BY DEF TypeOK, Authority
  <2>1. CASE auth' = auth
    BY <2>0, <2>1
  <2>2. ASSUME NEW o \in Ops, AuthorityMatches(o), Committed(o)
        PROVE  auth'[k] = auth[k] \/ auth'[k].cas = auth[k].cas + 1
    <3>1. op[o].key \in Keys
      BY RowTypes DEF Operation
    <3>2. auth[op[o].key].cas = op[o].cas
      BY <2>2 DEF AuthorityMatches
    <3>3. \A j \in Keys : j # op[o].key => auth'[j] = auth[j]
      BY <2>2 DEF Committed, TypeOK
    <3>4. auth'[op[o].key].cas = op[o].cas + 1
      BY <2>2, <3>1 DEF Committed, TypeOK
    <3> QED BY <3>1, <3>2, <3>3, <3>4
  <2>3. ASSUME NEW j \in Keys, Delete(j)
        PROVE  auth'[k] = auth[k] \/ auth'[k].cas = auth[k].cas + 1
    BY <2>3 DEF Delete, TypeOK
  <2>4. ~FinishPurge
    BY DEF FinishPurge, TypeOK, Namespace
  <2> QED BY <2>0, <2>1, <2>2, <2>3, <2>4, AuthoritySteps
<1>2. Spec => []TypeOK
  BY TypeCorrect
<1> QED BY <1>1, <1>2, PTL DEF Spec, CasFencesAuthority

\* What a step may do to one operation: keep its verdict, evidence and
\* allocation; move it on, without committing it, if it was not settled; or
\* commit it against the authority it was admitted for.
Settles(o) ==
    \/ /\ op'[o].state = op[o].state /\ op'[o].evidence = op[o].evidence
       /\ op'[o].committed = op[o].committed
    \/ op[o].state \notin Terminal /\ op'[o].state # "Committed"
    \/ op[o].state \notin Terminal /\ AuthorityMatches(o) /\ Committed(o)

\* abort_logical_put and finalize_logical_put settle only what is unsettled.
LEMMA AbortedSettles ==
    ASSUME TypeOK, NEW o \in Ops, op[o].state \in Unsettled, Aborted(o)
    PROVE  \A p \in Ops : Settles(p)
<1>1. op'[o].state = "ProvenAborted"
  BY RowTypes DEF TypeOK, Aborted, Operation
<1>2. \A p \in Ops : p # o => op'[p] = op[p]
  BY DEF TypeOK, Aborted
<1> QED BY <1>1, <1>2 DEF Settles, Unsettled, Terminal

\* A finalize commits its own operation only, and that one was unsettled.
LEMMA CommittedSettles ==
    ASSUME TypeOK, NEW o \in Ops, NEW h, NEW w,
           FinalizeVerdict(o, h, w) = "committed", Committed(o)
    PROVE  \A p \in Ops : Settles(p)
<1>1. op[o].state \notin Terminal /\ AuthorityMatches(o)
  BY CommittedFacts DEF Terminal
<1>2. \A p \in Ops : p # o => op'[p] = op[p]
  BY DEF TypeOK, Committed
<1> QED BY <1>1, <1>2 DEF Settles

\* mark_logical_recovery_blocked relies on its claim to know the same.
LEMMA MarkBlockedSettles ==
    ASSUME TypeOK, AccountingInv, NEW o \in Ops, NEW w \in Workers, MarkBlocked(o, w)
    PROVE  \A p \in Ops : Settles(p)
<1>1. CASE ~Authorized(o, w)
  BY <1>1 DEF MarkBlocked, Settles
<1>2. CASE Authorized(o, w)
  <2>1. op[o].state \in Unsettled
    BY <1>2, LedgerAssumption DEF Authorized, AccountingInv, ClaimsUnsettled
  <2>2. op'[o].state = "RecoveryBlocked"
    BY <1>2, RowTypes DEF TypeOK, MarkBlocked, Operation
  <2>3. \A p \in Ops : p # o => op'[p] = op[p]
    BY <1>2 DEF TypeOK, MarkBlocked
  <2> QED BY <2>1, <2>2, <2>3 DEF Settles, Unsettled, Terminal
<1> QED BY <1>1, <1>2

\* What any step of the ledger does to an operation row: a verdict stays.
LEMMA OperationSteps ==
    ASSUME TypeOK, AccountingInv, [Next]_vars
    PROVE  \A p \in Ops : Settles(p)
<1> DEFINE Safe == \A p \in Ops : Settles(p)
<1>0. CASE op' = op
  BY <1>0 DEF Settles
<1>1. ASSUME NEW o \in Ops, RequestStep(o) PROVE Safe
  <2>1. ASSUME NEW k \in Keys, ReadAuthority(o, k) PROVE Safe
    <3>1. \A p \in Ops : /\ op'[p].state = op[p].state /\ op'[p].evidence = op[p].evidence
                         /\ op'[p].committed = op[p].committed
      BY <2>1, RowTypes DEF TypeOK, ReadAuthority, Operation
    <3> QED BY <3>1 DEF Settles
  <2>2. CASE ReadFence(o)
    <3>1. \A p \in Ops : /\ op'[p].state = op[p].state /\ op'[p].evidence = op[p].evidence
                         /\ op'[p].committed = op[p].committed
      BY <2>2, RowTypes DEF TypeOK, ReadFence, Operation
    <3> QED BY <3>1 DEF Settles
  <2>3. CASE Admit(o)
    <3>1. op[o].state = "none" /\ op'[o].state = "Open"
      BY <2>3, RowTypes DEF TypeOK, Admit, Operation, AccountingInv, RowsFresh, BeforeAdmission
    <3>2. \A p \in Ops : p # o => op'[p] = op[p]
      BY <2>3 DEF TypeOK, Admit
    <3> QED BY <3>1, <3>2 DEF Settles, Terminal
  <2>4. CASE RecordUsage(o)
    <3>1. op[o].state = "Open" /\ op'[o].state = "Completing"
      BY <2>4, RowTypes DEF TypeOK, RecordUsage, Operation
    <3>2. \A p \in Ops : p # o => op'[p] = op[p]
      BY <2>4 DEF TypeOK, RecordUsage
    <3> QED BY <3>1, <3>2 DEF Settles, Terminal
  <2>5. CASE AbortUnbegun(o) \/ \E b \in BOOLEAN : JournalFailed(o, b)
    BY <1>0, <2>5, AbortedFacts, AbortedSettles DEF AbortUnbegun, JournalFailed
  <2>6. CASE RequestFinalize(o)
    BY <1>0, <2>6, CommittedSettles DEF RequestFinalize
  <2>7. CASE \/ AdmitRejected(o) \/ BeginChild(o) \/ BeginChildFailed(o) \/ JournalChild(o)
             \/ \E s \in Sizes : Verify(o, s)
             \/ AbandonUpload(o) \/ Launch(o) \/ Relaunch(o) \/ Answered(o) \/ Refused(o)
             \/ Unanswered(o) \/ RequestIncomplete(o) \/ DropReconcile(o)
    <3>1. op' = op
      BY <2>7 DEF AdmitRejected, BeginChild, BeginChildFailed, JournalChild, Verify,
           AbandonUpload, Launch, Relaunch, Answered, Refused, Unanswered, RequestIncomplete,
           DropReconcile
    <3> QED BY <1>0, <3>1
  <2> QED BY <1>1, <2>1, <2>2, <2>3, <2>4, <2>5, <2>6, <2>7 DEF RequestStep
<1>2. ASSUME NEW w \in Workers, WorkerStep(w) PROVE Safe
  <2> DEFINE q == work[w].op
  <2>1. ASSUME NEW o \in Ops, ClaimStale(w, o) PROVE Safe
    <3>1. \A p \in Ops : /\ op'[p].state = op[p].state /\ op'[p].evidence = op[p].evidence
                         /\ op'[p].committed = op[p].committed
      BY <2>1, RowTypes DEF TypeOK, ClaimStale, Operation
    <3> QED BY <3>1 DEF Settles
  <2>2. CASE WorkerAborts(w) \/ WorkerBlocks(w)
    <3>1. q \in Ops
      BY <2>2 DEF TypeOK, WorkerAborts, WorkerBlocks
    <3> QED BY <1>0, <2>2, <3>1, AbortedFacts, AbortedSettles, MarkBlockedSettles
            DEF WorkerAborts, WorkerBlocks
  <2>3. CASE WorkerRenews(w) \/ WorkerLeases(w) \/ WorkerReconciles(w)
    BY <1>0, <2>3 DEF WorkerRenews, WorkerLeases, WorkerReconciles
  <2>4. CASE WorkerSettles(w)
    <3>1. q \in Ops
      BY <2>4 DEF TypeOK, WorkerSettles
    <3>2. \/ Committed(q) /\ FinalizeVerdict(q, w, w) = "committed"
          \/ Aborted(q) /\ AbortVerdict(q, "ChildProvenAborted", w, w) = "aborted"
          \/ MarkBlocked(q, w)
          \/ op' = op
      BY <2>4 DEF WorkerSettles
    <3> QED BY <1>0, <3>1, <3>2, CommittedSettles, AbortedFacts, AbortedSettles,
               MarkBlockedSettles
  <2> QED BY <1>2, <2>1, <2>2, <2>3, <2>4 DEF WorkerStep
<1>3. CASE (\E o \in Ops : ProviderStep(o) \/ TimeStep(o)) \/ Failure
  <2>1. ASSUME NEW o \in Ops, ClaimExpires(o) PROVE Safe
    <3>1. \A p \in Ops : /\ op'[p].state = op[p].state /\ op'[p].evidence = op[p].evidence
                         /\ op'[p].committed = op[p].committed
      BY <2>1, RowTypes DEF TypeOK, ClaimExpires, Operation
    <3> QED BY <3>1 DEF Settles
  <2>2. op' = op \/ \E o \in Ops : ClaimExpires(o)
    BY <1>3 DEF ProviderStep, ProviderLands, ProviderLoses, TimeStep, LeaseExpires, Failure,
                Crash, Disconnect, WorkerCrash
  <2> QED BY <1>0, <2>1, <2>2
<1>4. CASE Maintenance
  <2>1. ASSUME NEW o \in Ops, NEW v \in Attempts, ForgetVersion(o, v) PROVE Safe
    <3>1. \A p \in Ops : /\ op'[p].state = op[p].state /\ op'[p].evidence = op[p].evidence
                         /\ op'[p].committed = op[p].committed
      BY <2>1, RowTypes DEF TypeOK, ForgetVersion, Operation
    <3> QED BY <3>1 DEF Settles
  <2>2. CASE FinishPurge
    <3>1. \A p \in Ops : /\ op'[p].state = op[p].state /\ op'[p].evidence = op[p].evidence
                         /\ op'[p].committed = op[p].committed
      BY <2>2, RowTypes DEF FinishPurge, Operation
    <3> QED BY <3>1 DEF Settles
  <2>3. \/ op' = op \/ FinishPurge
        \/ \E o \in Ops, v \in Attempts : ForgetVersion(o, v)
    BY <1>4 DEF Maintenance, Delete, CleanupDeletes, PurgeDeletes, PurgeForgets,
                AdvanceRouting, PurgeFence
  <2> QED BY <1>0, <2>1, <2>2, <2>3
<1>5. CASE UNCHANGED vars
  BY <1>0, <1>5 DEF vars
<1> QED BY <1>1, <1>2, <1>3, <1>4, <1>5 DEF Next

\* A verdict is final: whatever a late request, a worker with a stale pass or
\* a purge does, a settled operation keeps its verdict, evidence and
\* allocation, and a step that commits one publishes exactly its generation
\* under the CAS version after the one its writer read.
THEOREM VerdictFinal == Spec => TerminalStable
<1> DEFINE A == \A o \in Ops :
                  /\ op[o].state \in Terminal =>
                        /\ op'[o].state = op[o].state /\ op'[o].evidence = op[o].evidence
                        /\ op'[o].committed = op[o].committed
                  /\ op[o].state # "Committed" /\ op'[o].state = "Committed" =>
                        LET k == op[o].key IN
                        auth'[k] = [cas |-> auth[k].cas + 1, gen |-> o,
                                    size |-> op[o].evidence, tomb |-> FALSE]
<1>1. TypeOK /\ AccountingInv /\ [Next]_vars => [A]_vars
  <2> SUFFICES ASSUME TypeOK, AccountingInv, [Next]_vars, NEW o \in Ops
               PROVE  /\ op[o].state \in Terminal =>
                            /\ op'[o].state = op[o].state /\ op'[o].evidence = op[o].evidence
                            /\ op'[o].committed = op[o].committed
                      /\ op[o].state # "Committed" /\ op'[o].state = "Committed" =>
                            auth'[op[o].key] = [cas |-> auth[op[o].key].cas + 1, gen |-> o,
                                                size |-> op[o].evidence, tomb |-> FALSE]
    OBVIOUS
  <2>1. Settles(o)
    BY OperationSteps
  <2>2. ASSUME AuthorityMatches(o), Committed(o)
        PROVE  auth'[op[o].key] = [cas |-> auth[op[o].key].cas + 1, gen |-> o,
                                   size |-> op[o].evidence, tomb |-> FALSE]
    <3>1. op[o].key \in Keys
      BY RowTypes DEF Operation
    <3> QED BY <2>2, <3>1 DEF AuthorityMatches, Committed, TypeOK
  <2> QED BY <2>1, <2>2 DEF Settles
<1>2. Spec => []TypeOK /\ []AccountingInv
  BY TypeCorrect, Accounting, PTL
<1> QED BY <1>1, <1>2, PTL DEF Spec, TerminalStable
=============================================================================
