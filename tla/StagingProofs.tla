--------------------------- MODULE StagingProofs ---------------------------
(***************************************************************************)
(* Three components behind client uploads, for every instance: artifacts   *)
(* staged under a namespace are known to its purge (MultipartActivity), a  *)
(* read of the single host's store, which takes no lock, serves one        *)
(* version (FileStore), and the single host's journal serves what its      *)
(* acknowledged events add up to (FileJournal).                            *)
(***************************************************************************)
EXTENDS MultipartActivity, FileStore, FileJournal, WellFoundedInduction, TLAPS

-----------------------------------------------------------------------------
(* Staged artifacts and the purge of their namespace                       *)
(*                                                                         *)
(* The argument: the purge is blocked by whatever ties the artifacts to    *)
(* the epoch.  With Postgres that is the upload's row, which stays while   *)
(* artifacts are staged; in memory it is the activity row, which only an   *)
(* acknowledged creation makes ACTIVE and only the retirement of the       *)
(* upload removes again.                                                   *)

ActivityType == [state : {"none", "REGISTERING", "ACTIVE"}, epoch : Nat, late : BOOLEAN]
Lives == {"none", "OPEN", "COMPLETING"} \cup Closed
UploadType == [life : Lives, epoch : Nat, old : BOOLEAN, op : {"none", "open", "terminal"}]
CreateSteps == {"idle", "begun", "created", "acknowledged", "aborting", "deleting", "finishing", "failed", "lost"}
CallType == [kind : {"part", "complete"}, pc : {"idle", "asserted", "publishing"}]
WorkerType == [pc : {"idle", "retired", "found"}, upload : SUBSET Uploads, seen : BOOLEAN, epoch : Nat]

ActivityTypes ==
    /\ ns \in [state : {"ACTIVE", "PURGING"}, epoch : Nat \ {0}]
    /\ act \in [Uploads -> ActivityType] /\ row \in [Uploads -> UploadType]
    /\ staged \in [Uploads -> Nat] /\ create \in [Uploads -> [pc : CreateSteps, epoch : Nat]]
    /\ call \in [Uploads -> CallType] /\ worker \in WorkerType

\* An activity row belongs to the namespace epoch that runs, and an upload row
\* to the request that created it.
Registered(u) ==
    /\ act[u].state # "none" => act[u].epoch = ns.epoch /\ act[u].epoch = create[u].epoch
    /\ act[u].state = "ACTIVE" => ~act[u].late
    /\ ledger # "postgres" /\ act[u].state = "ACTIVE" => create[u].pc = "acknowledged"
    /\ row[u].life # "none" => row[u].epoch = create[u].epoch

\* Nothing exists of an upload before its creation.
NotYet(u) ==
    create[u].pc \in {"idle", "begun"} =>
        row[u].life = "none" /\ staged[u] = 0 /\ call[u].pc = "idle"

\* What ties u to the epoch that runs, and blocks its purge.
Tied(u) ==
    IF ledger = "postgres" THEN row[u].life # "none" /\ row[u].epoch = ns.epoch
    ELSE act[u].state = "ACTIVE"

\* Artifacts, and a call that may still stage some, are tied.
Staged(u) ==
    /\ staged[u] # 0 => staged[u] = ns.epoch /\ Tied(u)
    /\ call[u].pc = "asserted" /\ row[u].life = "OPEN" => row[u].epoch = ns.epoch /\ Tied(u)
    /\ call[u].pc = "publishing" => row[u].life = "COMPLETING"

\* An acknowledged upload stays registered while it is open.
Acknowledged(u) ==
    create[u].pc = "acknowledged" /\ row[u].life \in {"OPEN", "COMPLETING"} => act[u].state = "ACTIVE"

\* An upload whose row was retired is over.
Dismissed ==
    /\ worker.pc = "retired" => \A u \in worker.upload :
          row[u].life = "none" /\ staged[u] = 0 /\ create[u].pc \notin {"idle", "begun"}
    /\ worker.pc = "found" => ledger = "postgres"

UploadInv(u) == Registered(u) /\ NotYet(u) /\ Staged(u) /\ Acknowledged(u)

\* The inductive invariant.
ActivityInv == ActivityTypes /\ Dismissed /\ \A u \in Uploads : UploadInv(u)

\* A step about u leaves the other uploads alone.
Others(u) ==
    \A v \in Uploads : v # u =>
        /\ act'[v] = act[v] /\ row'[v] = row[v] /\ staged'[v] = staged[v]
        /\ create'[v] = create[v] /\ call'[v] = call[v]

\* An upload that is left alone keeps its invariant.
LEMMA AloneKeeps ==
    ASSUME NEW u \in Uploads, UploadInv(u), ns' = ns, ledger' = ledger,
           act'[u] = act[u], row'[u] = row[u], staged'[u] = staged[u],
           create'[u] = create[u], call'[u] = call[u]
    PROVE  UploadInv(u)'
BY DEF UploadInv, Registered, NotYet, Staged, Tied, Acknowledged

\* A step about one upload.
LEMMA OneUpload ==
    ASSUME ActivityInv, NEW u \in Uploads, ns' = ns, ledger' = ledger, Others(u),
           ActivityTypes', Dismissed', UploadInv(u)'
    PROVE  ActivityInv'
<1>1. ASSUME NEW v \in Uploads, v # u PROVE UploadInv(v)'
  BY <1>1, AloneKeeps DEF ActivityInv, Others
<1> QED BY <1>1 DEF ActivityInv

\* Updating one upload in a table.
LEMMA OneEntry ==
    ASSUME NEW S, NEW f \in [Uploads -> S], NEW u \in Uploads, NEW x \in S
    PROVE  /\ [f EXCEPT ![u] = x] \in [Uploads -> S] /\ [f EXCEPT ![u] = x][u] = x
           /\ \A v \in Uploads : v # u => [f EXCEPT ![u] = x][v] = f[v]
OBVIOUS

\* The entries of the tables.
LEMMA Entries ==
    ASSUME ActivityTypes, NEW u \in Uploads
    PROVE  /\ act[u] \in ActivityType /\ row[u] \in UploadType /\ staged[u] \in Nat
           /\ create[u] \in [pc : CreateSteps, epoch : Nat] /\ call[u] \in CallType
BY DEF ActivityTypes

\* A creation moves on.
LEMMA CreateMoves ==
    ASSUME ActivityTypes, NEW u \in Uploads, NEW x \in CreateSteps, At(u, x)
    PROVE  /\ create' \in [Uploads -> [pc : CreateSteps, epoch : Nat]]
           /\ create'[u].pc = x /\ create'[u].epoch = create[u].epoch
BY DEF At, ActivityTypes

\* A call moves on.
LEMMA CallMoves ==
    ASSUME ActivityTypes, NEW u \in Uploads, NEW x \in {"idle", "asserted", "publishing"},
           call' = [call EXCEPT ![u].pc = x]
    PROVE  call' \in [Uploads -> CallType] /\ call'[u].pc = x
BY DEF ActivityTypes, CallType

\* An upload row enters another life.
LEMMA LifeMoves ==
    ASSUME ActivityTypes, NEW u \in Uploads, NEW x \in Lives, NEW o \in {"none", "open", "terminal"},
           \/ row' = [row EXCEPT ![u].life = x] \/ row' = [row EXCEPT ![u].life = x, ![u].op = o]
    PROVE  row' \in [Uploads -> UploadType] /\ row'[u].life = x /\ row'[u].epoch = row[u].epoch
<1>1. row \in [Uploads -> UploadType] /\ row[u] \in UploadType
  BY DEF ActivityTypes
<1>2. [row[u] EXCEPT !.life = x] \in UploadType /\ [row[u] EXCEPT !.life = x, !.op = o] \in UploadType
  BY <1>1 DEF UploadType
<1>3. \/ row' = [row EXCEPT ![u] = [row[u] EXCEPT !.life = x]]
      \/ row' = [row EXCEPT ![u] = [row[u] EXCEPT !.life = x, !.op = o]]
  BY <1>1
<1> QED BY <1>1, <1>2, <1>3 DEF UploadType

\* An upload row grows old, or its operation is cleared.
LEMMA RowAges ==
    ASSUME ActivityTypes, NEW u \in Uploads,
           row' = [row EXCEPT ![u].old = TRUE] \/ row' = [row EXCEPT ![u].op = "none"]
    PROVE  row' \in [Uploads -> UploadType] /\ row'[u].life = row[u].life /\ row'[u].epoch = row[u].epoch
<1>1. row \in [Uploads -> UploadType] /\ row[u] \in UploadType
  BY DEF ActivityTypes
<1>2. [row[u] EXCEPT !.old = TRUE] \in UploadType /\ [row[u] EXCEPT !.op = "none"] \in UploadType
  BY <1>1 DEF UploadType
<1>4. /\ [row[u] EXCEPT !.old = TRUE].life = row[u].life /\ [row[u] EXCEPT !.old = TRUE].epoch = row[u].epoch
      /\ [row[u] EXCEPT !.op = "none"].life = row[u].life /\ [row[u] EXCEPT !.op = "none"].epoch = row[u].epoch
  BY <1>1 DEF UploadType
<1>3. \/ row' = [row EXCEPT ![u] = [row[u] EXCEPT !.old = TRUE]]
      \/ row' = [row EXCEPT ![u] = [row[u] EXCEPT !.op = "none"]]
  BY <1>1
<1> QED BY <1>1, <1>2, <1>3, <1>4

\* An activity row is confirmed, or grows late.
LEMMA ActMoves ==
    ASSUME ActivityTypes, NEW u \in Uploads,
           act' = [act EXCEPT ![u].state = "ACTIVE", ![u].late = FALSE] \/ act' = [act EXCEPT ![u].late = TRUE]
    PROVE  act' \in [Uploads -> ActivityType]
<1>1. act \in [Uploads -> ActivityType] /\ act[u] \in ActivityType
  BY DEF ActivityTypes
<1>2. [act[u] EXCEPT !.state = "ACTIVE", !.late = FALSE] \in ActivityType /\ [act[u] EXCEPT !.late = TRUE] \in ActivityType
  BY <1>1 DEF ActivityType
<1>3. \/ act' = [act EXCEPT ![u] = [act[u] EXCEPT !.state = "ACTIVE", !.late = FALSE]]
      \/ act' = [act EXCEPT ![u] = [act[u] EXCEPT !.late = TRUE]]
  BY <1>1
<1> QED BY <1>1, <1>2, <1>3

\* s3_post registers the activity before the upload exists.
LEMMA BeginKeeps ==
    ASSUME ActivityInv, NEW u \in Uploads, CreateBegin(u)
    PROVE  ActivityInv'
<1> USE Entries DEF ActivityInv
<1>1. ns' = ns /\ ledger' = ledger /\ Others(u)
  BY DEF Others, ActivityTypes, CreateBegin, CanBegin, Registration, Set, NoAct
<1>2. ActivityTypes'
  BY DEF ActivityTypes, ActivityType, UploadType, CallType, WorkerType, CreateSteps, Lives, Closed, CreateBegin, CanBegin, Registration, Set, NoAct
<1>3. UploadInv(u)'
  BY DEF UploadInv, Registered, NotYet, Staged, Tied, Acknowledged, Dismissed, ActivityTypes, ActivityType, UploadType,
         CallType, Closed, CreateBegin, CanBegin, Registration, Set, NoAct
<1>4. Dismissed'
  BY DEF Dismissed, UploadInv, NotYet, Staged, ActivityTypes, Closed, CreateBegin, CanBegin, Registration, Set, NoAct
<1> QED BY <1>1, <1>2, <1>3, <1>4, OneUpload

\* A roll-back takes the registration back.
LEMMA FinishKeeps ==
    ASSUME ActivityInv, NEW u \in Uploads, CreateFinish(u)
    PROVE  ActivityInv'
<1> USE Entries DEF ActivityInv
<1>1. ns' = ns /\ ledger' = ledger /\ Others(u)
  BY DEF Others, ActivityTypes, CreateFinish, FinishActivity, At, Set, NoAct
<1>2. ActivityTypes'
  BY DEF ActivityTypes, ActivityType, UploadType, CallType, WorkerType, CreateSteps, Lives, Closed, CreateFinish, FinishActivity, At, Set, NoAct
<1>3. UploadInv(u)'
  BY DEF UploadInv, Registered, NotYet, Staged, Tied, Acknowledged, Dismissed, ActivityTypes, ActivityType, UploadType,
         CallType, Closed, CreateFinish, FinishActivity, At, Set, NoAct
<1>4. Dismissed'
  BY DEF Dismissed, UploadInv, NotYet, Staged, ActivityTypes, Closed, CreateFinish, FinishActivity, At, Set, NoAct
<1> QED BY <1>1, <1>2, <1>3, <1>4, OneUpload

\* A call asserts the activity of its upload.
LEMMA AssertKeeps ==
    ASSUME ActivityInv, NEW u \in Uploads, CallAssert(u, "part") \/ CallAssert(u, "complete")
    PROVE  ActivityInv'
<1> USE Entries DEF ActivityInv
<1>1. ns' = ns /\ ledger' = ledger /\ Others(u)
  BY DEF Others, ActivityTypes, CallAssert, Asserted, AssertedPostgres, AssertedMemory, Set
<1>2. ActivityTypes'
  <2>1. \A kind \in {"part", "complete"} : [kind |-> kind, pc |-> "asserted"] \in CallType
    BY DEF CallType
  <2>2. \E c \in CallType : call' = [call EXCEPT ![u] = c]
    BY <2>1 DEF CallAssert, Set
  <2>3. call' \in [Uploads -> CallType]
    BY <2>2 DEF ActivityTypes
  <2> QED BY <2>3 DEF ActivityTypes, CallAssert
<1>3. UploadInv(u)'
  BY DEF UploadInv, Registered, NotYet, Staged, Tied, Acknowledged, Dismissed, ActivityTypes, ActivityType, UploadType,
         CallType, Closed, CallAssert, Asserted, AssertedPostgres, AssertedMemory, Set
<1>4. Dismissed'
  BY DEF Dismissed, UploadInv, NotYet, Staged, ActivityTypes, Closed, CallAssert, Asserted, AssertedPostgres, AssertedMemory, Set
<1> QED BY <1>1, <1>2, <1>3, <1>4, OneUpload

\* A part is staged for an upload that is still open.
LEMMA StageKeeps ==
    ASSUME ActivityInv, NEW u \in Uploads, PartStage(u)
    PROVE  ActivityInv'
<1> USE Entries DEF ActivityInv
<1>1. ns' = ns /\ ledger' = ledger /\ Others(u)
  BY DEF Others, ActivityTypes, PartStage, Set
<1>2. ActivityTypes'
  BY DEF ActivityTypes, ActivityType, UploadType, CallType, WorkerType, CreateSteps, Lives, Closed, PartStage, Set
<1>3. UploadInv(u)'
  BY DEF UploadInv, Registered, NotYet, Staged, Tied, Acknowledged, Dismissed, ActivityTypes, ActivityType, UploadType,
         CallType, Closed, PartStage, Set
<1>4. Dismissed'
  BY DEF Dismissed, UploadInv, NotYet, Staged, ActivityTypes, Closed, PartStage, Set
<1> QED BY <1>1, <1>2, <1>3, <1>4, OneUpload

\* The upload row is created, or its quota is refused.
LEMMA CreatedKeeps ==
    ASSUME ActivityInv, NEW u \in Uploads, CreateUpload(u)
    PROVE  ActivityInv'
<1> USE Entries DEF ActivityInv
<1>1. UNCHANGED <<ns, ledger, act, staged, call, worker>> /\ Others(u)
  BY DEF Others, ActivityTypes, CreateUpload, At, Set, NoUpload
<1>2. /\ create[u].pc = "begun" /\ create'[u].epoch = create[u].epoch
      /\ \/ row'[u].life = "OPEN" /\ row'[u].epoch = create[u].epoch /\ create'[u].pc = "created"
         \/ row'[u] = row[u] /\ create'[u].pc = "finishing"
  <2> DEFINE opened == [life |-> "OPEN", epoch |-> create[u].epoch, old |-> FALSE, op |-> "none"]
  <2>1. CASE row' = [row EXCEPT ![u] = opened] /\ At(u, "created")
    <3>1. row'[u] = opened /\ create[u].pc = "begun"
      BY <2>1 DEF ActivityTypes, CreateUpload
    <3> QED BY <2>1, <3>1, CreateMoves DEF CreateSteps
  <2>2. CASE row' = row /\ At(u, "finishing")
    BY <2>2, CreateMoves DEF CreateSteps, CreateUpload
  <2> QED BY <2>1, <2>2 DEF CreateUpload, Set, NoUpload
<1>3. row' \in [Uploads -> UploadType]
  <2> DEFINE opened == [life |-> "OPEN", epoch |-> create[u].epoch, old |-> FALSE, op |-> "none"]
  <2>1. row' = [row EXCEPT ![u] = opened] \/ row' = row
    BY DEF CreateUpload, Set, NoUpload
  <2>2. opened \in UploadType /\ row \in [Uploads -> UploadType]
    BY DEF UploadType, Lives, ActivityTypes
  <2> HIDE DEF opened
  <2> QED BY <2>1, <2>2
<1>4. create' \in [Uploads -> [pc : CreateSteps, epoch : Nat]]
  BY CreateMoves DEF CreateUpload, CreateSteps
<1>5. ActivityTypes'
  BY <1>1, <1>2, <1>3, <1>4 DEF ActivityTypes
<1>6. UploadInv(u)'
  BY <1>1, <1>2 DEF UploadInv, Registered, NotYet, Staged, Tied, Acknowledged, ActivityTypes, ActivityType, Closed
<1>7. Dismissed'
  BY <1>1, <1>2 DEF Dismissed, Others, UploadInv, NotYet, Staged, ActivityTypes, WorkerType, Closed
<1> QED BY <1>1, <1>5, <1>6, <1>7, OneUpload

\* The activity is confirmed, or the upload is rolled back.
LEMMA ConfirmKeeps ==
    ASSUME ActivityInv, NEW u \in Uploads, CreateConfirm(u)
    PROVE  ActivityInv'
<1> USE Entries DEF ActivityInv
<1>1. UNCHANGED <<ns, ledger, row, staged, call, worker>> /\ Others(u)
  BY DEF Others, ActivityTypes, CreateConfirm, At, Confirmable, ConfirmablePostgres, ConfirmableMemory
<1>2. /\ create[u].pc = "created" /\ create'[u].epoch = create[u].epoch
      /\ \/ /\ act[u].state # "none" /\ act'[u].state = "ACTIVE" /\ act'[u].epoch = act[u].epoch /\ ~act'[u].late
            /\ create'[u].pc = "acknowledged"
         \/ act'[u] = act[u] /\ create'[u].pc = "aborting"
  BY DEF ActivityTypes, ActivityType, UploadType, CallType, CreateConfirm, At, Confirmable, ConfirmablePostgres, ConfirmableMemory
<1>3. act' \in [Uploads -> ActivityType]
  BY ActMoves DEF CreateConfirm, ActivityTypes
<1>4. create' \in [Uploads -> [pc : CreateSteps, epoch : Nat]]
  BY CreateMoves DEF CreateConfirm, CreateSteps
<1>5. ActivityTypes'
  BY <1>1, <1>2, <1>3, <1>4 DEF ActivityTypes
<1>6. UploadInv(u)'
  BY <1>1, <1>2 DEF UploadInv, Registered, NotYet, Staged, Tied, Acknowledged, ActivityTypes, ActivityType, Closed
<1>7. Dismissed'
  BY <1>1, <1>2 DEF Dismissed, Others, UploadInv, NotYet, Staged, ActivityTypes, WorkerType, Closed
<1> QED BY <1>1, <1>5, <1>6, <1>7, OneUpload

\* An unconfirmed upload is aborted.
LEMMA AbortKeeps ==
    ASSUME ActivityInv, NEW u \in Uploads, CreateAbort(u)
    PROVE  ActivityInv'
<1> USE Entries DEF ActivityInv
<1>1. UNCHANGED <<ns, ledger, act, staged, call, worker>> /\ Others(u)
  BY DEF Others, ActivityTypes, CreateAbort, At
<1>2. /\ create[u].pc = "aborting" /\ create'[u].epoch = create[u].epoch /\ create'[u].pc = "deleting"
      /\ row'[u].epoch = row[u].epoch
      /\ row'[u].life = row[u].life \/ (row[u].life = "OPEN" /\ row'[u].life = "ABORTED")
  BY DEF ActivityTypes, ActivityType, UploadType, CallType, CreateAbort, At
<1>3. row' \in [Uploads -> UploadType]
  BY LifeMoves DEF CreateAbort, ActivityTypes, Lives, Closed
<1>4. create' \in [Uploads -> [pc : CreateSteps, epoch : Nat]]
  BY DEF ActivityTypes, ActivityType, UploadType, CallType, WorkerType, CreateSteps, Lives, Closed, CreateAbort, At
<1>5. ActivityTypes'
  BY <1>1, <1>2, <1>3, <1>4 DEF ActivityTypes
<1>6. UploadInv(u)'
  BY <1>1, <1>2 DEF UploadInv, Registered, NotYet, Staged, Tied, Acknowledged, ActivityTypes, ActivityType, Closed
<1>7. Dismissed'
  BY <1>1, <1>2 DEF Dismissed, Others, UploadInv, NotYet, Staged, ActivityTypes, WorkerType, Closed
<1> QED BY <1>1, <1>5, <1>6, <1>7, OneUpload

\* Its row is deleted unless something is still staged.
LEMMA DeleteKeeps ==
    ASSUME ActivityInv, NEW u \in Uploads, CreateDelete(u)
    PROVE  ActivityInv'
<1> USE Entries DEF ActivityInv
<1>1. UNCHANGED <<ns, ledger, act, staged, call, worker>> /\ Others(u)
  BY DEF Others, ActivityTypes, CreateDelete, At, Set, NoUpload
<1>2. /\ create[u].pc = "deleting" /\ create'[u].epoch = create[u].epoch /\ create'[u].pc = "finishing"
      /\ row'[u] = row[u] \/ (row[u].life \in {"ABORTED", "EXPIRED"} /\ staged[u] = 0 /\ row'[u].life = "none")
  BY DEF ActivityTypes, ActivityType, UploadType, CallType, CreateDelete, At, Set, NoUpload
<1>3. row' \in [Uploads -> UploadType]
  BY DEF ActivityTypes, ActivityType, UploadType, CallType, WorkerType, CreateSteps, Lives, Closed, CreateDelete, At, Set, NoUpload
<1>4. create' \in [Uploads -> [pc : CreateSteps, epoch : Nat]]
  BY CreateMoves DEF CreateDelete, CreateSteps
<1>5. ActivityTypes'
  BY <1>1, <1>2, <1>3, <1>4 DEF ActivityTypes
<1>6. UploadInv(u)'
  BY <1>1, <1>2 DEF UploadInv, Registered, NotYet, Staged, Tied, Acknowledged, ActivityTypes, ActivityType, Closed
<1>7. Dismissed'
  BY <1>1, <1>2 DEF Dismissed, Others, UploadInv, NotYet, Staged, ActivityTypes, WorkerType, Closed
<1> QED BY <1>1, <1>5, <1>6, <1>7, OneUpload

\* The creating process dies.
LEMMA LostKeeps ==
    ASSUME ActivityInv, NEW u \in Uploads, CreateLost(u)
    PROVE  ActivityInv'
<1> USE Entries DEF ActivityInv
<1>1. UNCHANGED <<ns, ledger, act, row, staged, call, worker>> /\ Others(u)
  BY DEF Others, ActivityTypes, CreateLost, At
<1>2. /\ create[u].pc \in {"begun", "created", "aborting", "deleting", "finishing"} /\ create'[u].epoch = create[u].epoch
      /\ create'[u].pc = "lost"
  BY DEF ActivityTypes, ActivityType, UploadType, CallType, CreateLost, At
<1>3. create' \in [Uploads -> [pc : CreateSteps, epoch : Nat]]
  BY DEF ActivityTypes, ActivityType, UploadType, CallType, WorkerType, CreateSteps, Lives, Closed, CreateLost, At
<1>4. ActivityTypes'
  BY <1>1, <1>2, <1>3 DEF ActivityTypes
<1>5. UploadInv(u)'
  BY <1>1, <1>2 DEF UploadInv, Registered, NotYet, Staged, Tied, Acknowledged, ActivityTypes, ActivityType, Closed
<1>6. Dismissed'
  BY <1>1, <1>2 DEF Dismissed, Others, UploadInv, NotYet, Staged, ActivityTypes, WorkerType, Closed
<1> QED BY <1>1, <1>4, <1>5, <1>6, OneUpload

\* A completion claims its upload.
LEMMA CompleteKeeps ==
    ASSUME ActivityInv, NEW u \in Uploads, CompleteBegin(u)
    PROVE  ActivityInv'
<1> USE Entries DEF ActivityInv
<1>1. UNCHANGED <<ns, ledger, act, staged, create, worker>> /\ Others(u)
  BY DEF Others, ActivityTypes, CompleteBegin
<1>2. /\ row'[u].epoch = row[u].epoch /\ call[u].pc = "asserted"
      /\ \/ row[u].life = "OPEN" /\ row'[u].life = "COMPLETING" /\ call'[u].pc = "publishing"
         \/ row[u].life # "OPEN" /\ row'[u].life = row[u].life /\ call'[u].pc = "idle"
  BY DEF ActivityTypes, ActivityType, UploadType, CallType, CompleteBegin
<1>3. row' \in [Uploads -> UploadType]
  BY LifeMoves DEF CompleteBegin, ActivityTypes, Lives, Closed
<1>4. call' \in [Uploads -> CallType]
  BY CallMoves DEF CompleteBegin
<1>5. ActivityTypes'
  BY <1>1, <1>2, <1>3, <1>4 DEF ActivityTypes
<1>6. UploadInv(u)'
  BY <1>1, <1>2 DEF UploadInv, Registered, NotYet, Staged, Tied, Acknowledged, ActivityTypes, ActivityType, Closed
<1>7. Dismissed'
  BY <1>1, <1>2 DEF Dismissed, Others, UploadInv, NotYet, Staged, ActivityTypes, WorkerType, Closed
<1> QED BY <1>1, <1>5, <1>6, <1>7, OneUpload

\* A completion ends.
LEMMA EndKeeps ==
    ASSUME ActivityInv, NEW u \in Uploads, CompleteEnd(u)
    PROVE  ActivityInv'
<1> USE Entries DEF ActivityInv
<1>1. UNCHANGED <<ns, ledger, act, staged, create, worker>> /\ Others(u)
  BY DEF Others, ActivityTypes, CompleteEnd
<1>2. /\ row'[u].epoch = row[u].epoch /\ call[u].pc = "publishing"
      /\ row'[u].life = "COMPLETED" /\ call'[u].pc = "idle"
  BY DEF ActivityTypes, ActivityType, UploadType, CallType, CompleteEnd
<1>3. row' \in [Uploads -> UploadType]
  BY LifeMoves DEF CompleteEnd, Lives, Closed
<1>4. call' \in [Uploads -> CallType]
  BY CallMoves DEF CompleteEnd
<1>5. ActivityTypes'
  BY <1>1, <1>2, <1>3, <1>4 DEF ActivityTypes
<1>6. UploadInv(u)'
  BY <1>1, <1>2 DEF UploadInv, Registered, NotYet, Staged, Tied, Acknowledged, ActivityTypes, ActivityType, Closed
<1>7. Dismissed'
  BY <1>1, <1>2 DEF Dismissed, Others, UploadInv, NotYet, Staged, ActivityTypes, WorkerType, Closed
<1> QED BY <1>1, <1>5, <1>6, <1>7, OneUpload

\* An open upload is aborted or expires.
LEMMA CloseKeeps ==
    ASSUME ActivityInv, NEW u \in Uploads, AbortUpload(u) \/ ReapUpload(u)
    PROVE  ActivityInv'
<1> USE Entries DEF ActivityInv
<1>1. UNCHANGED <<ns, ledger, act, staged, create, call, worker>> /\ Others(u)
  BY DEF Others, ActivityTypes, AbortUpload, ReapUpload
<1>2. row'[u].epoch = row[u].epoch /\ row[u].life = "OPEN" /\ row'[u].life \in {"ABORTED", "EXPIRED"}
  BY LifeMoves DEF AbortUpload, ReapUpload, Lives, Closed
<1>3. row' \in [Uploads -> UploadType]
  BY LifeMoves DEF AbortUpload, ReapUpload, Lives, Closed
<1>4. ActivityTypes'
  BY <1>1, <1>2, <1>3 DEF ActivityTypes
<1>5. UploadInv(u)'
  BY <1>1, <1>2 DEF UploadInv, Registered, NotYet, Staged, Tied, Acknowledged, ActivityTypes, ActivityType, Closed
<1>6. Dismissed'
  BY <1>1, <1>2 DEF Dismissed, Others, UploadInv, NotYet, Staged, ActivityTypes, WorkerType, Closed
<1> QED BY <1>1, <1>4, <1>5, <1>6, OneUpload

\* Time passes over an upload, or its operation is cleared.
LEMMA OldKeeps ==
    ASSUME ActivityInv, NEW u \in Uploads, TombstoneOver(u) \/ ClearReference(u)
    PROVE  ActivityInv'
<1> USE Entries DEF ActivityInv
<1>1. UNCHANGED <<ns, ledger, act, staged, create, call, worker>> /\ Others(u)
  BY DEF Others, ActivityTypes, TombstoneOver, ClearReference
<1>2. row'[u].epoch = row[u].epoch /\ row'[u].life = row[u].life
  BY RowAges DEF TombstoneOver, ClearReference
<1>3. row' \in [Uploads -> UploadType]
  BY RowAges DEF TombstoneOver, ClearReference
<1>4. ActivityTypes'
  BY <1>1, <1>2, <1>3 DEF ActivityTypes
<1>5. UploadInv(u)'
  BY <1>1, <1>2 DEF UploadInv, Registered, NotYet, Staged, Tied, Acknowledged, ActivityTypes, ActivityType, Closed
<1>6. Dismissed'
  BY <1>1, <1>2 DEF Dismissed, Others, UploadInv, NotYet, Staged, ActivityTypes, WorkerType, Closed
<1> QED BY <1>1, <1>4, <1>5, <1>6, OneUpload

\* A registration grows late.
LEMMA LateKeeps ==
    ASSUME ActivityInv, NEW u \in Uploads, RegistrationLate(u)
    PROVE  ActivityInv'
<1> USE Entries DEF ActivityInv
<1>1. UNCHANGED <<ns, ledger, row, staged, create, call, worker>> /\ Others(u)
  BY DEF Others, ActivityTypes, RegistrationLate
<1>2. act'[u].epoch = act[u].epoch /\ act[u].state = "REGISTERING" /\ act'[u].state = "REGISTERING"
  BY DEF ActivityTypes, ActivityType, UploadType, CallType, RegistrationLate
<1>3. act' \in [Uploads -> ActivityType]
  BY ActMoves DEF RegistrationLate
<1>4. ActivityTypes'
  BY <1>1, <1>2, <1>3 DEF ActivityTypes
<1>5. UploadInv(u)'
  BY <1>1, <1>2 DEF UploadInv, Registered, NotYet, Staged, Tied, Acknowledged, ActivityTypes, ActivityType, Closed
<1>6. Dismissed'
  BY <1>1, <1>2 DEF Dismissed, Others, UploadInv, NotYet, Staged, ActivityTypes, WorkerType, Closed
<1> QED BY <1>1, <1>4, <1>5, <1>6, OneUpload

\* Artifacts of a closed upload are deleted.
LEMMA ArtifactsKeep ==
    ASSUME ActivityInv, NEW u \in Uploads, ReconcileArtifacts(u)
    PROVE  ActivityInv'
<1> USE Entries DEF ActivityInv
<1>1. UNCHANGED <<ns, ledger, act, row, create, call, worker>> /\ Others(u)
  BY DEF Others, ActivityTypes, ReconcileArtifacts, Set
<1>2. staged'[u] = 0
  BY DEF ActivityTypes, ActivityType, UploadType, CallType, ReconcileArtifacts, Set
<1>3. staged' \in [Uploads -> Nat]
  BY DEF ActivityTypes, ActivityType, UploadType, CallType, WorkerType, CreateSteps, Lives, Closed, ReconcileArtifacts, Set
<1>4. ActivityTypes'
  BY <1>1, <1>2, <1>3 DEF ActivityTypes
<1>5. UploadInv(u)'
  BY <1>1, <1>2 DEF UploadInv, Registered, NotYet, Staged, Tied, Acknowledged, ActivityTypes, ActivityType, Closed
<1>6. Dismissed'
  BY <1>1, <1>2 DEF Dismissed, Others, UploadInv, NotYet, Staged, ActivityTypes, WorkerType, Closed
<1> QED BY <1>1, <1>4, <1>5, <1>6, OneUpload

\* The worker deletes an upload row.
LEMMA RetireKeeps ==
    ASSUME ActivityInv, NEW u \in Uploads, Retire(u)
    PROVE  ActivityInv'
<1> USE Entries DEF ActivityInv
<1>1. UNCHANGED <<ns, ledger, act, staged, create, call>> /\ Others(u)
  BY DEF Others, ActivityTypes, Retire, Retirable, Set, NoUpload
<1>2. /\ row[u].life \in Closed /\ row'[u].life = "none" /\ staged[u] = 0
      /\ worker'.pc = "retired" /\ worker'.upload = {u}
  BY DEF ActivityTypes, ActivityType, UploadType, CallType, Retire, Retirable, Set, NoUpload
<1>3. row' \in [Uploads -> UploadType]
  BY DEF ActivityTypes, ActivityType, UploadType, CallType, WorkerType, CreateSteps, Lives, Closed, Retire, Retirable, Set, NoUpload
<1>4. worker' \in WorkerType
  BY DEF ActivityTypes, ActivityType, UploadType, CallType, WorkerType, CreateSteps, Lives, Closed, Retire, Retirable, Set, NoUpload
<1>5. ActivityTypes'
  BY <1>1, <1>2, <1>3, <1>4 DEF ActivityTypes
<1>6. UploadInv(u)'
  BY <1>1, <1>2 DEF UploadInv, Registered, NotYet, Staged, Tied, Acknowledged, ActivityTypes, ActivityType, Closed
<1>7. Dismissed'
  BY <1>1, <1>2 DEF Dismissed, Others, UploadInv, NotYet, Staged, ActivityTypes, WorkerType, Closed
<1> QED BY <1>1, <1>5, <1>6, <1>7, OneUpload

\* The worker looks up a late registration.
LEMMA FoundKeeps ==
    ASSUME ActivityInv, NEW u \in Uploads, ReconcileRead(u)
    PROVE  ActivityInv'
<1> USE Entries DEF ActivityInv
<1>1. UNCHANGED <<ns, ledger, act, row, staged, create, call>> /\ Others(u)
  BY DEF Others, ActivityTypes, ReconcileRead
<1>2. worker'.pc = "found" /\ ledger = "postgres"
  BY DEF ActivityTypes, ActivityType, UploadType, CallType, ReconcileRead
<1>3. worker' \in WorkerType
  BY DEF ActivityTypes, ActivityType, UploadType, CallType, WorkerType, CreateSteps, Lives, Closed, ReconcileRead
<1>4. ActivityTypes'
  BY <1>1, <1>2, <1>3 DEF ActivityTypes
<1>5. UploadInv(u)'
  BY <1>1, <1>2 DEF UploadInv, Registered, NotYet, Staged, Tied, Acknowledged, ActivityTypes, ActivityType, Closed
<1>6. Dismissed'
  BY <1>1, <1>2 DEF Dismissed, Others, UploadInv, NotYet, Staged, ActivityTypes, WorkerType, Closed
<1> QED BY <1>1, <1>4, <1>5, <1>6, OneUpload

\* A step that leaves uploads and namespace alone keeps their invariant.
LEMMA ActsChange ==
    ASSUME ActivityInv, UNCHANGED <<ledger, ns, row, staged, create, call>>,
           act' \in [Uploads -> ActivityType], worker' \in WorkerType, worker'.pc = "idle" \/ worker' = worker,
           \A u \in Uploads :
               \/ act'[u] = act[u]
               \/ act'[u].state = "none" /\ (act[u].state # "ACTIVE" \/ (row[u].life = "none" /\ staged[u] = 0))
               \/ /\ act[u].state = "REGISTERING" /\ act'[u].state = "ACTIVE" /\ ledger = "postgres"
                  /\ act'[u].epoch = act[u].epoch /\ ~act'[u].late
    PROVE  ActivityInv'
<1>1. ActivityTypes' /\ Dismissed'
  BY DEF ActivityInv, ActivityTypes, Dismissed
<1>2. ASSUME NEW u \in Uploads PROVE UploadInv(u)'
  BY <1>2, Entries DEF ActivityInv, UploadInv, Registered, NotYet, Staged, Tied, Acknowledged, ActivityType
<1> QED BY <1>1, <1>2 DEF ActivityInv

\* finish_multipart_activity for an upload whose row was retired.
LEMMA FinishRetiredKeeps ==
    ASSUME ActivityInv, FinishRetired
    PROVE  ActivityInv'
<1>1. PICK u \in worker.upload : FinishActivity(u, worker.epoch)
  BY DEF FinishRetired
<1>2. u \in Uploads /\ row[u].life = "none" /\ staged[u] = 0
  BY DEF ActivityInv, Dismissed, ActivityTypes, WorkerType, FinishRetired
<1>3. act \in [Uploads -> ActivityType] /\ NoAct \in ActivityType /\ NoAct.state = "none"
  BY DEF ActivityInv, ActivityTypes, ActivityType, NoAct
<1>4. worker' \in WorkerType /\ worker'.pc = "idle"
  BY DEF FinishRetired, Idle, WorkerType
<1>5. act' = act \/ act' = [act EXCEPT ![u] = NoAct]
  BY <1>1 DEF FinishActivity, Set
<1>6. act' \in [Uploads -> ActivityType] /\ \A v \in Uploads :
         act'[v] = act[v] \/ (act'[v].state = "none" /\ row[v].life = "none" /\ staged[v] = 0)
  BY <1>2, <1>3, <1>5
<1> QED BY <1>4, <1>6, ActsChange DEF FinishRetired

\* reconcile_multipart_activities changes the row only while it is a registration.
LEMMA ReconcileKeeps ==
    ASSUME ActivityInv, ReconcileWrite
    PROVE  ActivityInv'
<1>1. PICK u \in worker.upload : act' = [act EXCEPT ![u] = Reconciled(u)]
  BY DEF ReconcileWrite, Set
<1>2. u \in Uploads /\ ledger = "postgres" /\ act \in [Uploads -> ActivityType] /\ act[u] \in ActivityType
  BY DEF ActivityInv, Dismissed, ActivityTypes, WorkerType, ReconcileWrite
<1>3. worker' \in WorkerType /\ worker'.pc = "idle"
  BY DEF ReconcileWrite, Idle, WorkerType
<1>4. Reconciled(u) \in ActivityType /\
         \/ Reconciled(u) = act[u]
         \/ Reconciled(u).state = "none" /\ act[u].state # "ACTIVE"
         \/ /\ act[u].state = "REGISTERING" /\ Reconciled(u).state = "ACTIVE"
            /\ Reconciled(u).epoch = act[u].epoch /\ ~Reconciled(u).late
  BY <1>2 DEF Reconciled, ActivityType, NoAct
<1>5. act' \in [Uploads -> ActivityType] /\ act'[u] = Reconciled(u)
         /\ \A v \in Uploads : v # u => act'[v] = act[v]
  BY <1>1, <1>2, <1>4
<1> QED BY <1>2, <1>3, <1>4, <1>5, ActsChange DEF ReconcileWrite

\* The in-memory ledger drops late registrations, and none that is ACTIVE is late.
LEMMA DropsKeep ==
    ASSUME ActivityInv, ReconcileMemory
    PROVE  ActivityInv'
<1>1. act \in [Uploads -> ActivityType] /\ NoAct \in ActivityType /\ NoAct.state = "none" /\ worker \in WorkerType
  BY DEF ActivityInv, ActivityTypes, ActivityType, NoAct
<1>2. act' \in [Uploads -> ActivityType] /\ worker' = worker
  BY <1>1 DEF ReconcileMemory
<1>3. \A u \in Uploads : act'[u] = act[u] \/ (act'[u].state = "none" /\ act[u].state # "ACTIVE")
  BY <1>1 DEF ReconcileMemory, ActivityInv, UploadInv, Registered
<1> QED BY <1>1, <1>2, <1>3, ActsChange DEF ReconcileMemory

\* The worker dies.
LEMMA WorkerLostKeeps ==
    ASSUME ActivityInv, WorkerLost
    PROVE  ActivityInv'
<1>1. act' = act /\ act \in [Uploads -> ActivityType] /\ worker' \in WorkerType /\ worker'.pc = "idle"
  BY DEF WorkerLost, Idle, WorkerType, ActivityInv, ActivityTypes
<1> QED BY <1>1, ActsChange DEF WorkerLost

\* A purge begins, and ends once nothing of the epoch is left.
LEMMA PurgeKeeps ==
    ASSUME ActivityInv, PurgeNamespace \/ FinishPurge
    PROVE  ActivityInv'
<1>1. /\ UNCHANGED <<ledger, act, row, staged, create, call, worker>> /\ ns'.epoch \in Nat \ {0}
      /\ ns' \in [state : {"ACTIVE", "PURGING"}, epoch : Nat \ {0}]
  BY DEF PurgeNamespace, FinishPurge, ActivityInv, ActivityTypes
<1>2. ActivityTypes' /\ Dismissed'
  BY <1>1 DEF ActivityInv, ActivityTypes, Dismissed
<1>3. ASSUME NEW u \in Uploads PROVE UploadInv(u)'
  <2>1. CASE PurgeNamespace
    <3>1. ns'.epoch = ns.epoch
      BY <2>1 DEF PurgeNamespace, ActivityInv, ActivityTypes
    <3> QED BY <1>1, <3>1, Entries DEF ActivityInv, UploadInv, Registered, NotYet, Staged, Tied, Acknowledged
  <2>2. CASE FinishPurge
    <3>1. act[u].state = "none"
      BY <2>2, Entries DEF FinishPurge, PurgeBlocked, BlockedPostgres, BlockedMemory, ActivityInv, UploadInv, Registered,
                           ActivityTypes, ActivityType
    <3>2. ledger = "postgres" /\ row[u].life # "none" => row[u].epoch # ns.epoch
      BY <2>2, Entries DEF FinishPurge, PurgeBlocked, BlockedPostgres, ActivityInv, ActivityTypes, UploadType
    <3>3. ~Tied(u)
      BY <3>1, <3>2 DEF Tied
    <3> QED BY <1>1, <3>1, <3>3, Entries DEF ActivityInv, UploadInv, Registered, NotYet, Staged, Acknowledged
  <2> QED BY <2>1, <2>2
<1> QED BY <1>2, <1>3 DEF ActivityInv

\* Initially there is no upload.
LEMMA ActivityStarts == ActivityInit => ActivityInv
<1> SUFFICES ASSUME ActivityInit PROVE ActivityInv
  OBVIOUS
<1>1. ActivityTypes
  BY DEF ActivityInit, ActivityTypes, NoAct, NoUpload, Idle, ActivityType, UploadType, CallType, WorkerType, CreateSteps, Lives
<1>2. Dismissed
  BY DEF ActivityInit, Dismissed, Idle
<1>3. ASSUME NEW u \in Uploads PROVE UploadInv(u)
  BY <1>3 DEF ActivityInit, UploadInv, Registered, NotYet, Staged, Acknowledged, NoAct, NoUpload
<1> QED BY <1>1, <1>2, <1>3 DEF ActivityInv

\* Every step keeps artifacts tied to the epoch that runs.
LEMMA ActivitySteps == ActivityInv /\ [ActivityNext]_activityVars => ActivityInv'
<1> SUFFICES ASSUME ActivityInv, [ActivityNext]_activityVars PROVE ActivityInv'
  OBVIOUS
<1>1. ASSUME NEW u \in Uploads,
             \/ CreateBegin(u) \/ CreateUpload(u) \/ CreateConfirm(u)
             \/ CreateAbort(u) \/ CreateDelete(u) \/ CreateFinish(u) \/ CreateLost(u)
      PROVE  ActivityInv'
  BY <1>1, BeginKeeps, CreatedKeeps, ConfirmKeeps, AbortKeeps, DeleteKeeps, FinishKeeps, LostKeeps
<1>2. ASSUME NEW u \in Uploads,
             \/ CallAssert(u, "part") \/ CallAssert(u, "complete")
             \/ PartStage(u) \/ CompleteBegin(u) \/ CompleteEnd(u) \/ AbortUpload(u) \/ ReapUpload(u)
      PROVE  ActivityInv'
  BY <1>2, AssertKeeps, StageKeeps, CompleteKeeps, EndKeeps, CloseKeeps
<1>3. ASSUME NEW u \in Uploads,
             \/ TombstoneOver(u) \/ RegistrationLate(u)
             \/ ReconcileArtifacts(u) \/ ClearReference(u) \/ Retire(u) \/ ReconcileRead(u)
      PROVE  ActivityInv'
  BY <1>3, OldKeeps, LateKeeps, ArtifactsKeep, RetireKeeps, FoundKeeps
<1>4. ASSUME FinishRetired \/ ReconcileWrite \/ ReconcileMemory \/ WorkerLost \/ PurgeNamespace \/ FinishPurge
      PROVE  ActivityInv'
  BY <1>4, FinishRetiredKeeps, ReconcileKeeps, DropsKeep, WorkerLostKeeps, PurgeKeeps
<1>5. CASE UNCHANGED activityVars
  BY <1>5 DEF activityVars, ActivityInv, ActivityTypes, Dismissed, UploadInv, Registered, NotYet, Staged, Tied, Acknowledged
<1> QED BY <1>1, <1>2, <1>3, <1>4, <1>5 DEF ActivityNext

\* Staged artifacts, and calls that may still stage some, are tied to the epoch that runs by
\* the row that blocks its purge, for any number of uploads, epochs and lost processes.
THEOREM ArtifactsTied == ActivitySpec => []ActivityInv
BY ActivityStarts, ActivitySteps, PTL DEF ActivitySpec

\* A finished purge leaves no staged artifact behind and none appears later, and an acknowledged
\* upload stays registered while it is open (begin_multipart_activity, finish_purge), for both
\* authority repositories.
THEOREM StagingStaysRegistered == ActivitySpec => []StagingRegistered
<1>1. ActivityInv => StagingRegistered
  BY DEF ActivityInv, UploadInv, Staged, Acknowledged, Registered, StagingRegistered
<1> QED BY <1>1, ArtifactsTied, PTL

-----------------------------------------------------------------------------
(* Reads of the single host's store                                        *)
(*                                                                         *)
(* The argument: a pointer names a version whose writer is past its        *)
(* rename, a version is written once, and content is removed under the     *)
(* lock only after the pointer left it.  So a reader that finds its        *)
(* content gone has seen the pointer move since it loaded it, unless a     *)
(* power loss brought an unsynced pointer back.                            *)

WriterSteps == {"start", "lock", "rename", "publish", "remove", "done", "failed", "notEmpty"}
Holding == {"rename", "publish", "remove"}
Past == {"remove", "done", "failed"}
Versions == Writers \cup {None}
Outcomes == {"unread", "corrupt", "failed", "listed"}

DiskType == [bucket : BOOLEAN, temps : SUBSET Writers, data : SUBSET Writers,
             meta : [Keys -> Versions], synced : [Keys -> Versions]]
WriterType == [pc : WriterSteps, op : Ops, key : Keys \cup {None}, prev : Versions]
ReaderType == [pc : {"start", "open", "reload", "list", "done"}, key : Keys \cup {None, "list"},
               ver : Versions, retry : BOOLEAN, names : SUBSET Keys, got : Versions \cup Outcomes]
GhostType == [seen : [Readers -> SUBSET Versions], moves : [Readers -> Nat],
              torn : SUBSET Keys, faults : Nat]

StoreTypes ==
    /\ disk \in DiskType /\ lock \in Versions /\ writer \in [Writers -> WriterType]
    /\ reader \in [Readers -> ReaderType] /\ fsGhost \in GhostType

\* A pointer to v for key k: its writer renamed the content and may have published it.
Names(k, v) == v # None => writer[v].key = k /\ writer[v].pc \in Past

Pointing == \A k \in Keys : Names(k, disk.meta[k]) /\ Names(k, disk.synced[k])

\* A writer that holds the lock, and what it will remove.
Mutating(w) ==
    /\ writer[w].pc # "start" => writer[w].key \in Keys
    /\ writer[w].pc \in Holding => lock = w /\ Names(writer[w].key, writer[w].prev)
    /\ writer[w].pc = "publish" => w \in disk.data
    /\ writer[w].pc = "remove" /\ writer[w].prev # None =>
          disk.meta[writer[w].key] # writer[w].prev

Backed == \A k \in Keys : disk.meta[k] \in disk.data \cup {None} \/ k \in fsGhost.torn

DiskInv == Pointing /\ Backed /\ \A w \in Writers : Mutating(w)

\* A reader that opens an object saw its pointer, and every move of it since.
Reading(r) ==
    reader[r].pc \in {"open", "reload"} =>
        /\ reader[r].key \in Keys /\ reader[r].ver \in Writers
        /\ writer[reader[r].ver].pc \in Past
        /\ {reader[r].ver, disk.meta[reader[r].key]} \subseteq fsGhost.seen[r]
        /\ reader[r].retry => fsGhost.moves[r] >= 1
        /\ disk.meta[reader[r].key] # reader[r].ver =>
              fsGhost.moves[r] >= 1 /\ (reader[r].retry => fsGhost.moves[r] >= 2)
        /\ reader[r].pc = "reload" => reader[r].ver \notin disk.data

Listing(r) ==
    reader[r].pc = "list" =>
        reader[r].key = "list" /\ \A k \in Keys : disk.meta[k] \in fsGhost.seen[r]

Answered(r) ==
    /\ reader[r].pc # "done" => reader[r].got = "unread"
    /\ reader[r].pc = "start" => ~reader[r].retry
    /\ reader[r].got \in Versions => reader[r].got \in fsGhost.seen[r]
    /\ reader[r].got = "failed" => None \in fsGhost.seen[r]

ReaderInv(r) == Reading(r) /\ Listing(r) /\ Answered(r)

\* The inductive invariant.
StoreInv == StoreTypes /\ DiskInv /\ \A r \in Readers : ReaderInv(r)

\* The parts of the state.
LEMMA Fields ==
    ASSUME StoreTypes
    PROVE  /\ disk.bucket \in BOOLEAN /\ disk.temps \in SUBSET Writers /\ disk.data \in SUBSET Writers
           /\ disk.meta \in [Keys -> Versions] /\ disk.synced \in [Keys -> Versions]
           /\ fsGhost.seen \in [Readers -> SUBSET Versions] /\ fsGhost.moves \in [Readers -> Nat]
           /\ fsGhost.torn \in SUBSET Keys /\ fsGhost.faults \in Nat
           /\ \A w \in Writers : writer[w] \in WriterType
           /\ \A r \in Readers : reader[r] \in ReaderType
BY DEF StoreTypes, DiskType, GhostType

\* A fault is counted.
LEMMA FaultCounted ==
    ASSUME StoreTypes
    PROVE  /\ CountFault \in GhostType /\ CountFault.seen = fsGhost.seen
           /\ CountFault.moves = fsGhost.moves /\ CountFault.torn = fsGhost.torn
BY DEF CountFault, StoreTypes, GhostType

\* The readers of k.
Watching(r, k) == reader[r].pc \notin {"start", "done"} /\ reader[r].key \in {k, "list"}

\* They see the pointer move.
LEMMA MoveSeen ==
    ASSUME StoreTypes, NEW k \in Keys, NEW v \in Versions
    PROVE  /\ Moved(k, v) \in GhostType /\ Moved(k, v).torn = fsGhost.torn /\ Moved(k, v).faults = fsGhost.faults
           /\ \A r \in Readers :
                /\ Moved(k, v).seen[r] = IF Watching(r, k) THEN fsGhost.seen[r] \cup {v} ELSE fsGhost.seen[r]
                /\ Moved(k, v).moves[r] = IF Watching(r, k) THEN fsGhost.moves[r] + 1 ELSE fsGhost.moves[r]
<1> DEFINE seen == [r \in Readers |-> IF Watching(r, k) THEN fsGhost.seen[r] \cup {v} ELSE fsGhost.seen[r]]
           moves == [r \in Readers |-> IF Watching(r, k) THEN fsGhost.moves[r] + 1 ELSE fsGhost.moves[r]]
<1>1. Moved(k, v) = [fsGhost EXCEPT !.seen = seen, !.moves = moves]
  BY DEF Moved, Watching
<1>2. seen \in [Readers -> SUBSET Versions] /\ moves \in [Readers -> Nat]
  BY Fields
<1>3. fsGhost \in GhostType
  BY DEF StoreTypes
<1>4. /\ Moved(k, v) \in GhostType /\ Moved(k, v).torn = fsGhost.torn /\ Moved(k, v).faults = fsGhost.faults
      /\ Moved(k, v).seen = seen /\ Moved(k, v).moves = moves
  <2> HIDE DEF seen, moves
  <2> QED BY <1>1, <1>2, <1>3 DEF GhostType
<1> QED BY <1>4

\* A mutation moves on and leaves the others alone.
Advance(w) ==
    /\ \A x \in Writers : x # w => writer'[x] = writer[x]
    /\ writer[w].pc \in Past => writer'[w].pc \in Past /\ writer'[w].key = writer[w].key

\* A version named by a pointer stays one that was written.
LEMMA NamesKept ==
    ASSUME NEW w \in Writers, Advance(w), NEW k, NEW v \in Versions, Names(k, v)
    PROVE  Names(k, v)'
BY DEF Names, Advance, Versions

\* What readers notice of a mutation: contents come from writers not yet past their rename,
\* and pointers stay or move before their eyes.
Noticed ==
    /\ reader' = reader
    /\ \A v \in Writers : writer[v].pc \in Past => writer'[v].pc \in Past
    /\ \A v \in disk'.data : v \in disk.data \/ writer[v].pc \notin Past
    /\ \/ disk'.meta = disk.meta /\ fsGhost'.seen = fsGhost.seen /\ fsGhost'.moves = fsGhost.moves
       \/ \E k \in Keys, v \in Versions :
            /\ disk'.meta = [disk.meta EXCEPT ![k] = v]
            /\ \A r \in Readers :
                 /\ fsGhost'.seen[r] = IF Watching(r, k) THEN fsGhost.seen[r] \cup {v} ELSE fsGhost.seen[r]
                 /\ fsGhost'.moves[r] = IF Watching(r, k) THEN fsGhost.moves[r] + 1 ELSE fsGhost.moves[r]

\* A reader that saw the pointer move still knows where it is.
LEMMA ReadersKeep ==
    ASSUME StoreInv, Noticed, NEW r \in Readers
    PROVE  ReaderInv(r)'
<1> USE Fields DEF StoreInv
<1>1. CASE disk'.meta = disk.meta /\ fsGhost'.seen = fsGhost.seen /\ fsGhost'.moves = fsGhost.moves
  BY <1>1 DEF Noticed, ReaderInv, Reading, Listing, Answered
<1>2. ASSUME NEW k \in Keys, NEW v \in Versions, disk'.meta = [disk.meta EXCEPT ![k] = v],
             fsGhost'.seen[r] = IF Watching(r, k) THEN fsGhost.seen[r] \cup {v} ELSE fsGhost.seen[r],
             fsGhost'.moves[r] = IF Watching(r, k) THEN fsGhost.moves[r] + 1 ELSE fsGhost.moves[r]
      PROVE  ReaderInv(r)'
  <2>1. disk'.meta[k] = v /\ \A j \in Keys : j # k => disk'.meta[j] = disk.meta[j]
    BY <1>2
  <2>2. fsGhost.moves[r] \in Nat /\ reader' = reader
    BY DEF Noticed
  <2>3. Listing(r)' /\ Answered(r)'
    BY <1>2, <2>1, <2>2, StoreAssumption DEF ReaderInv, Listing, Answered, Watching
  <2>4. Reading(r)'
    <3> SUFFICES ASSUME reader[r].pc \in {"open", "reload"}
                 PROVE  Reading(r)'
      BY <2>2 DEF Reading
    <3>1. Reading(r)
      BY DEF ReaderInv
    <3>2. CASE reader[r].key = k
      <4>1. Watching(r, k)
        BY <3>2 DEF Watching
      <4>2. /\ fsGhost'.seen[r] = fsGhost.seen[r] \cup {v} /\ fsGhost'.moves[r] = fsGhost.moves[r] + 1
            /\ disk'.meta[reader[r].key] = v
        BY <1>2, <2>1, <3>2, <4>1
      <4> QED BY <2>2, <3>1, <4>2 DEF Reading, Noticed
    <3>3. CASE reader[r].key # k
      <4>1. reader[r].key \in Keys
        BY <3>1 DEF Reading
      <4>2. ~Watching(r, k)
        BY <3>3, <4>1, StoreAssumption DEF Watching
      <4>3. /\ fsGhost'.seen[r] = fsGhost.seen[r] /\ fsGhost'.moves[r] = fsGhost.moves[r]
            /\ disk'.meta[reader[r].key] = disk.meta[reader[r].key]
        BY <1>2, <2>1, <3>3, <4>1, <4>2
      <4> QED BY <2>2, <3>1, <4>3 DEF Reading, Noticed
    <3> QED BY <3>2, <3>3
  <2> QED BY <2>3, <2>4 DEF ReaderInv
<1> QED BY <1>1, <1>2 DEF Noticed

\* What a mutation has to show.
StepKeeps == StoreTypes' /\ DiskInv' /\ Noticed

\* The record of one writer changes.
LEMMA WriterMoves ==
    ASSUME StoreTypes, NEW w \in Writers, NEW x \in WriterSteps,
           \/ writer' = [writer EXCEPT ![w].pc = x]
           \/ \E p \in Versions : writer' = [writer EXCEPT ![w].pc = x, ![w].prev = p]
    PROVE  /\ writer' \in [Writers -> WriterType] /\ writer'[w].pc = x /\ writer'[w].key = writer[w].key
           /\ \A y \in Writers : y # w => writer'[y] = writer[y]
BY DEF StoreTypes, WriterType

\* The lock of w is given back, and nobody else's.
LEMMA LockGiven ==
    ASSUME StoreTypes, DiskInv, NEW w \in Writers, Unlocked(w)
    PROVE  /\ lock' \in Versions
           /\ \A y \in Writers : y # w /\ writer[y].pc \in Holding => lock' = y
BY StoreAssumption DEF Unlocked, StoreTypes, DiskInv, Mutating, Versions

\* A put writes its temporary file, or fails before it has the lock.
LEMMA TempKeeps ==
    ASSUME StoreTypes, DiskInv, NEW w \in Writers, CreateTempFile(w) \/ PutFails(w)
    PROVE  StepKeeps
<1> USE Fields
<1>1. /\ disk' \in DiskType /\ disk'.meta = disk.meta /\ disk'.synced = disk.synced /\ disk'.data = disk.data
      /\ lock' = lock /\ reader' = reader
  <2>1. \/ disk' = disk \/ disk' = [disk EXCEPT !.bucket = TRUE, !.temps = @ \cup {w}]
        \/ disk' = [disk EXCEPT !.temps = @ \ {w}]
    BY DEF CreateTempFile, PutFails
  <2>2. disk \in DiskType /\ lock' = lock /\ reader' = reader
    BY DEF StoreTypes, CreateTempFile, PutFails
  <2>3. CASE disk' = disk
    BY <2>2, <2>3
  <2>4. CASE disk' = [disk EXCEPT !.bucket = TRUE, !.temps = @ \cup {w}]
    BY <2>2, <2>4 DEF DiskType
  <2>5. CASE disk' = [disk EXCEPT !.temps = @ \ {w}]
    BY <2>2, <2>5 DEF DiskType
  <2> QED BY <2>1, <2>2, <2>3, <2>4, <2>5
<1>2. /\ fsGhost' \in GhostType /\ fsGhost'.torn = fsGhost.torn /\ fsGhost'.seen = fsGhost.seen
      /\ fsGhost'.moves = fsGhost.moves
  BY FaultCounted DEF CreateTempFile, PutFails, StoreTypes
<1>3. /\ writer' \in [Writers -> WriterType] /\ writer[w].pc \in {"start", "lock"}
      /\ writer'[w].pc \in {"lock", "failed"} /\ writer'[w].key \in Keys
      /\ \A y \in Writers : y # w => writer'[y] = writer[y]
  <2>1. CASE CreateTempFile(w)
    <3>1. PICK k \in Keys, op \in Ops : writer' = [writer EXCEPT ![w].pc = "lock", ![w].op = op, ![w].key = k]
      BY <2>1 DEF CreateTempFile
    <3>2. writer[w] \in WriterType /\ writer \in [Writers -> WriterType] /\ writer[w].pc = "start"
      BY <2>1 DEF CreateTempFile, StoreTypes
    <3> DEFINE now == [writer[w] EXCEPT !.pc = "lock", !.op = op, !.key = k]
    <3>3. now \in WriterType /\ now.pc = "lock" /\ now.key = k
      BY <3>2 DEF WriterType, WriterSteps
    <3>4. writer' = [writer EXCEPT ![w] = now]
      BY <3>1, <3>2
    <3> HIDE DEF now
    <3> QED BY <3>2, <3>3, <3>4
  <2>2. CASE PutFails(w)
    <3>1. writer[w].pc = "lock" /\ writer' = [writer EXCEPT ![w].pc = "failed"]
      BY <2>2 DEF PutFails, Step
    <3> QED BY <3>1, WriterMoves DEF WriterSteps, DiskInv, Mutating
  <2> QED BY <2>1, <2>2
<1>4. StoreTypes'
  BY <1>1, <1>2, <1>3 DEF StoreTypes
<1>5. Advance(w)
  BY <1>3 DEF Advance, Past
<1>6. Pointing' /\ Backed'
  BY <1>1, <1>2, <1>5, NamesKept DEF Pointing, Backed, DiskInv
<1>7. ASSUME NEW y \in Writers PROVE Mutating(y)'
  <2>1. CASE y = w
    BY <1>3, <2>1 DEF Mutating, Holding
  <2>2. CASE y # w
    BY <1>1, <1>3, <1>5, <2>2, NamesKept DEF Mutating, DiskInv, WriterType
  <2> QED BY <2>1, <2>2
<1>8. Noticed
  BY <1>1, <1>2, <1>3 DEF Noticed, Past
<1> QED BY <1>4, <1>6, <1>7, <1>8 DEF StepKeeps, DiskInv

\* commit_temp takes the lock and remembers the version it will replace.
LEMMA LockKeeps ==
    ASSUME StoreTypes, DiskInv, NEW w \in Writers, LockPut(w)
    PROVE  StepKeeps
<1> USE Fields
<1>1. /\ disk' \in DiskType /\ disk'.meta = disk.meta /\ disk'.synced = disk.synced /\ disk'.data = disk.data
      /\ lock = None /\ lock' = w /\ reader' = reader /\ fsGhost' = fsGhost
  BY DEF LockPut, StoreTypes, DiskType
<1>2. writer[w].pc = "lock" /\ writer[w].key \in Keys /\ disk.meta[writer[w].key] \in Versions
  BY DEF LockPut, DiskInv, Mutating
<1>3. /\ writer' \in [Writers -> WriterType] /\ writer'[w].pc = "rename" /\ writer'[w].key = writer[w].key
      /\ \A y \in Writers : y # w => writer'[y] = writer[y]
  BY <1>2, WriterMoves DEF LockPut, WriterSteps
<1>4. writer'[w].prev = disk.meta[writer[w].key]
  BY <1>2 DEF LockPut, StoreTypes, WriterType
<1>5. StoreTypes'
  BY <1>1, <1>3 DEF StoreTypes, Versions
<1>6. Advance(w)
  BY <1>2, <1>3 DEF Advance, Past
<1>7. Pointing' /\ Backed'
  BY <1>1, <1>6, NamesKept DEF Pointing, Backed, DiskInv
<1>8. ASSUME NEW y \in Writers PROVE Mutating(y)'
  <2>1. CASE y = w
    <3>1. Names(writer[w].key, disk.meta[writer[w].key])'
      BY <1>1, <1>2, <1>3, <1>7 DEF Pointing
    <3>2. Names(writer[w].key, writer[w].prev)'
      BY <1>1, <1>3, <1>4, <3>1 DEF Names
    <3> QED BY <1>1, <1>2, <1>3, <2>1, <3>2 DEF Mutating, Holding
  <2>2. CASE y # w
    <3>1. writer[y].pc \notin Holding
      BY <1>1, StoreAssumption DEF DiskInv, Mutating
    <3> QED BY <1>1, <1>3, <2>2, <3>1 DEF Mutating, DiskInv, Holding
  <2> QED BY <2>1, <2>2
<1>9. Noticed
  BY <1>1, <1>2, <1>3 DEF Noticed, Past
<1> QED BY <1>5, <1>7, <1>8, <1>9 DEF StepKeeps, DiskInv

\* The content gets its name, or the temporary file is gone with its bucket.
LEMMA RenameKeeps ==
    ASSUME StoreTypes, DiskInv, NEW w \in Writers, RenameData(w)
    PROVE  StepKeeps
<1> USE Fields
<1>1. /\ disk' \in DiskType /\ disk'.meta = disk.meta /\ disk'.synced = disk.synced
      /\ disk'.data \in {disk.data, disk.data \cup {w}} /\ reader' = reader /\ fsGhost' = fsGhost
  <2>1. CASE disk' = disk
    BY <2>1 DEF RenameData, StoreTypes
  <2>2. CASE disk' = [disk EXCEPT !.temps = @ \ {w}, !.data = @ \cup {w}]
    BY <2>2 DEF RenameData, StoreTypes, DiskType
  <2> QED BY <2>1, <2>2 DEF RenameData
<1>2. /\ writer[w].pc = "rename" /\ writer[w].key \in Keys /\ lock = w
      /\ Names(writer[w].key, writer[w].prev)
  BY DEF RenameData, DiskInv, Mutating, Holding
<1>3. \/ /\ writer' = [writer EXCEPT ![w].pc = "publish"] /\ lock' = lock /\ w \in disk'.data
      \/ writer' = [writer EXCEPT ![w].pc = "failed"] /\ Unlocked(w)
  <2>1. CASE w \in disk.temps
    <3>1. disk' = [disk EXCEPT !.temps = @ \ {w}, !.data = @ \cup {w}] /\ disk \in DiskType
      BY <2>1 DEF RenameData, StoreTypes
    <3>2. w \in disk'.data
      BY <3>1 DEF DiskType
    <3> QED BY <2>1, <3>2 DEF RenameData, Step
  <2>2. CASE w \notin disk.temps
    BY <2>2 DEF RenameData, Finish, Step
  <2> QED BY <2>1, <2>2
<1>4. /\ writer' \in [Writers -> WriterType] /\ writer'[w].pc \in {"publish", "failed"}
      /\ writer'[w].key = writer[w].key /\ writer'[w].prev = writer[w].prev
      /\ \A y \in Writers : y # w => writer'[y] = writer[y]
  BY <1>3 DEF StoreTypes, WriterType, WriterSteps
<1>5. lock' \in Versions /\ (writer'[w].pc = "publish" => lock' = w /\ w \in disk'.data)
  BY <1>2, <1>3, LockGiven DEF StoreTypes, WriterType
<1>6. StoreTypes'
  BY <1>1, <1>4, <1>5 DEF StoreTypes
<1>7. Advance(w)
  BY <1>2, <1>4 DEF Advance, Past
<1>8. Pointing' /\ Backed'
  BY <1>1, <1>7, NamesKept DEF Pointing, Backed, DiskInv
<1>9. ASSUME NEW y \in Writers PROVE Mutating(y)'
  <2>1. CASE y = w
    <3>1. Names(writer[w].key, writer[w].prev)'
      <4>1. Names(writer[w].key, writer[w].prev) /\ writer[w].prev \in Versions
        BY <1>2 DEF WriterType
      <4>2. writer[w].prev # None => writer'[writer[w].prev] = writer[writer[w].prev]
        BY <1>2, <1>4, <4>1 DEF Names, Past, Versions
      <4> QED BY <1>4, <4>1, <4>2 DEF Names
    <3> QED BY <1>2, <1>4, <1>5, <2>1, <3>1 DEF Mutating, Holding
  <2>2. CASE y # w
    <3>1. writer[y].pc \notin Holding
      BY <1>2, <2>2 DEF DiskInv, Mutating
    <3> QED BY <1>1, <1>4, <2>2, <3>1 DEF Mutating, DiskInv, Holding
  <2> QED BY <2>1, <2>2
<1>10. Noticed
  <2>1. \A v \in disk'.data : v \in disk.data \/ writer[v].pc \notin Past
    BY <1>1, <1>2 DEF Past
  <2> QED BY <1>1, <1>4, <1>7, <2>1 DEF Noticed, Advance
<1> QED BY <1>6, <1>8, <1>9, <1>10 DEF StepKeeps, DiskInv

\* The writers that do not move, while no other one holds the lock.
LEMMA OthersKeep ==
    ASSUME StoreTypes, DiskInv, NEW w \in Writers, lock \in {w, None}, NEW y \in Writers, y # w,
           writer'[y] = writer[y]
    PROVE  Mutating(y)'
<1>1. writer[y].pc \notin Holding
  BY StoreAssumption DEF DiskInv, Mutating
<1> QED BY <1>1 DEF Mutating, DiskInv, Holding

\* The pointer moves to the new version.  A failed sync leaves it torn.
LEMMA PublishKeeps ==
    ASSUME StoreTypes, DiskInv, NEW w \in Writers, WriteMetadata(w)
    PROVE  StepKeeps
<1> USE Fields
<1>k. PICK k \in Keys : writer[w].key = k
  BY DEF WriteMetadata, DiskInv, Mutating
<1>1. /\ writer[w].pc = "publish" /\ lock = w /\ w \in disk.data /\ w \in Versions
      /\ Names(k, writer[w].prev) /\ lock' = lock /\ reader' = reader /\ disk \in DiskType
  BY <1>k DEF WriteMetadata, DiskInv, Mutating, Holding, Versions, StoreTypes
<1>2. PICK sync \in BOOLEAN :
        /\ disk' = [disk EXCEPT !.meta[k] = w,
                                !.synced = IF sync THEN [disk.meta EXCEPT ![k] = w] ELSE @]
        /\ fsGhost' = [Moved(k, w) EXCEPT !.torn = IF sync THEN Broken \ {k} ELSE @ \cup {k},
                                          !.faults = IF sync THEN @ ELSE @ + 1]
  BY <1>k DEF WriteMetadata
<1>3. /\ writer' \in [Writers -> WriterType] /\ writer'[w].pc = "remove"
      /\ writer'[w].key = k /\ writer'[w].prev = writer[w].prev
      /\ \A y \in Writers : y # w => writer'[y] = writer[y]
  BY <1>k DEF WriteMetadata, Step, StoreTypes, WriterType, WriterSteps
<1>4. /\ disk' \in DiskType /\ disk'.data = disk.data /\ disk'.meta = [disk.meta EXCEPT ![k] = w]
      /\ disk'.synced \in {disk.synced, [disk.meta EXCEPT ![k] = w]}
  <2> DEFINE meta == [disk.meta EXCEPT ![k] = w]
             synced == IF sync THEN [disk.meta EXCEPT ![k] = w] ELSE disk.synced
  <2>1. meta \in [Keys -> Versions] /\ synced \in [Keys -> Versions] /\ synced \in {disk.synced, meta}
    BY <1>1
  <2>2. disk' = [disk EXCEPT !.meta = meta, !.synced = synced]
    BY <1>1, <1>2 DEF DiskType
  <2> HIDE DEF meta, synced
  <2>3. disk' \in DiskType /\ disk'.data = disk.data /\ disk'.meta = meta /\ disk'.synced = synced
    BY <1>1, <2>1, <2>2 DEF DiskType
  <2> QED BY <2>1, <2>3 DEF meta
<1>5. /\ fsGhost' \in GhostType /\ fsGhost'.seen = Moved(k, w).seen /\ fsGhost'.moves = Moved(k, w).moves
      /\ fsGhost'.torn = Broken \ {k} \/ fsGhost'.torn = fsGhost.torn \cup {k}
  <2> DEFINE ghost == Moved(k, w)
             torn == IF sync THEN Broken \ {k} ELSE ghost.torn \cup {k}
             count == IF sync THEN ghost.faults ELSE ghost.faults + 1
  <2>1. ghost \in GhostType /\ ghost.torn = fsGhost.torn
    BY <1>1, MoveSeen
  <2>2. /\ torn \in SUBSET Keys /\ count \in Nat
        /\ torn = Broken \ {k} \/ torn = fsGhost.torn \cup {k}
    <3>1. ghost.torn \in SUBSET Keys /\ ghost.faults \in Nat
      BY <2>1 DEF GhostType
    <3> HIDE DEF ghost
    <3> QED BY <1>1, <2>1, <3>1 DEF Broken
  <2>3. fsGhost' = [ghost EXCEPT !.torn = torn, !.faults = count]
    BY <1>2
  <2> HIDE DEF ghost, torn, count
  <2>4. fsGhost' \in GhostType /\ fsGhost'.seen = ghost.seen /\ fsGhost'.moves = ghost.moves /\ fsGhost'.torn = torn
    BY <2>1, <2>2, <2>3 DEF GhostType
  <2> QED BY <2>2, <2>4 DEF ghost
<1>6. StoreTypes'
  BY <1>1, <1>3, <1>4, <1>5 DEF StoreTypes
<1>7. Advance(w)
  BY <1>1, <1>3 DEF Advance, Past
<1>8. Names(k, w)'
  BY <1>3 DEF Names, Past
<1>9. Pointing'
  <2>1. ASSUME NEW j \in Keys, NEW v \in Versions, v = disk'.meta[j] \/ v = disk'.synced[j]
        PROVE  Names(j, v)'
    <3>1. v \in {disk.meta[j], disk.synced[j]} \/ (j = k /\ v = w)
      BY <1>4, <2>1
    <3>2. CASE v \in {disk.meta[j], disk.synced[j]}
      BY <1>7, <3>2, NamesKept DEF Pointing, DiskInv
    <3> QED BY <1>8, <3>1, <3>2
  <2>2. \A j \in Keys : disk'.meta[j] \in Versions /\ disk'.synced[j] \in Versions
    BY <1>4 DEF DiskType
  <2> QED BY <2>1, <2>2 DEF Pointing, Names
<1>10. Backed'
  <2>1. ASSUME NEW j \in Keys PROVE disk'.meta[j] \in disk'.data \cup {None} \/ j \in fsGhost'.torn
    <3>1. CASE j = k
      BY <1>1, <1>4, <3>1
    <3>2. CASE j # k
      <4>1. disk'.meta[j] = disk.meta[j]
        BY <1>4, <3>2
      <4> QED BY <1>4, <1>5, <3>2, <4>1 DEF Broken, Backed, DiskInv
    <3> QED BY <3>1, <3>2
  <2> QED BY <2>1 DEF Backed
<1>11. Mutating(w)'
  <2>1. writer[w].prev \in Versions /\ writer[w].prev # w
    BY <1>1, StoreAssumption DEF WriterType, Names, Past, Versions
  <2>2. Names(k, writer[w].prev)'
    BY <1>1, <1>3, <2>1 DEF Names, Versions
  <2>3. disk'.meta[k] = w
    BY <1>1, <1>4
  <2> QED BY <1>1, <1>3, <2>1, <2>2, <2>3 DEF Mutating, Holding
<1>12. ASSUME NEW y \in Writers, y # w PROVE Mutating(y)'
  BY <1>1, <1>3, <1>12, OthersKeep
<1>13. Noticed
  <2>1. \A v \in Writers : writer[v].pc \in Past => writer'[v].pc \in Past
    BY <1>7 DEF Advance
  <2>2. \A r \in Readers :
           /\ fsGhost'.seen[r] = IF Watching(r, k) THEN fsGhost.seen[r] \cup {w} ELSE fsGhost.seen[r]
           /\ fsGhost'.moves[r] = IF Watching(r, k) THEN fsGhost.moves[r] + 1 ELSE fsGhost.moves[r]
    <3> DEFINE ghost == Moved(k, w)
    <3>1. \A r \in Readers :
             /\ ghost.seen[r] = IF Watching(r, k) THEN fsGhost.seen[r] \cup {w} ELSE fsGhost.seen[r]
             /\ ghost.moves[r] = IF Watching(r, k) THEN fsGhost.moves[r] + 1 ELSE fsGhost.moves[r]
      BY <1>1, MoveSeen
    <3>2. fsGhost'.seen = ghost.seen /\ fsGhost'.moves = ghost.moves
      BY <1>5
    <3> HIDE DEF ghost
    <3> QED BY <3>1, <3>2
  <2> QED BY <1>1, <1>4, <2>1, <2>2 DEF Noticed
<1> QED BY <1>6, <1>9, <1>10, <1>11, <1>12, <1>13 DEF StepKeeps, DiskInv

\* The replaced content is removed once no pointer names it, or the publication failed.
LEMMA EndKeepsStore ==
    ASSUME StoreTypes, DiskInv, NEW w \in Writers, RemovePrevious(w) \/ WriteMetadataFails(w)
    PROVE  StepKeeps
<1> USE Fields
<1>1. /\ writer[w].pc \in {"publish", "remove"} /\ writer[w].key \in Keys /\ lock = w
      /\ reader' = reader /\ Unlocked(w) /\ disk \in DiskType
  BY DEF RemovePrevious, WriteMetadataFails, Finish, DiskInv, Mutating, Holding, StoreTypes
<1>2. /\ fsGhost' \in GhostType /\ fsGhost'.torn = fsGhost.torn /\ fsGhost'.seen = fsGhost.seen
      /\ fsGhost'.moves = fsGhost.moves
  BY FaultCounted DEF RemovePrevious, WriteMetadataFails, StoreTypes
<1>3. /\ writer' \in [Writers -> WriterType] /\ writer'[w].pc \in {"done", "failed"}
      /\ writer'[w].key = writer[w].key /\ \A y \in Writers : y # w => writer'[y] = writer[y]
  <2>1. CASE writer' = [writer EXCEPT ![w].pc = "done"]
    BY <2>1, WriterMoves DEF WriterSteps
  <2>2. CASE writer' = [writer EXCEPT ![w].pc = "failed"]
    BY <2>2, WriterMoves DEF WriterSteps
  <2> QED BY <2>1, <2>2 DEF RemovePrevious, WriteMetadataFails, Finish, Step
<1>4. /\ disk' \in DiskType /\ disk'.meta = disk.meta /\ disk'.synced = disk.synced
      /\ disk'.data = disk.data \/ (writer[w].pc = "remove" /\ disk'.data = disk.data \ {writer[w].prev})
  <2>1. CASE RemovePrevious(w)
    BY <1>1, <2>1 DEF RemovePrevious, DiskType
  <2>2. CASE WriteMetadataFails(w)
    BY <1>1, <2>2 DEF WriteMetadataFails
  <2> QED BY <2>1, <2>2
<1>5. StoreTypes'
  BY <1>1, <1>2, <1>3, <1>4, LockGiven DEF StoreTypes
<1>6. Advance(w)
  BY <1>3 DEF Advance, Past
<1>7. Pointing'
  BY <1>4, <1>6, NamesKept DEF Pointing, DiskInv
<1>8. Backed'
  <2>1. ASSUME NEW j \in Keys, disk.meta[j] \in disk.data, writer[w].pc = "remove"
        PROVE  disk.meta[j] # writer[w].prev
    <3>1. disk.meta[j] \in Writers /\ disk.meta[j] # None /\ Names(j, disk.meta[j])
      BY <2>1, StoreAssumption DEF DiskInv, Pointing
    <3>2. /\ writer[w].prev # None => disk.meta[writer[w].key] # writer[w].prev
          /\ Names(writer[w].key, writer[w].prev)
      BY <2>1 DEF DiskInv, Mutating, Holding
    <3> QED BY <3>1, <3>2 DEF Names
  <2> QED BY <1>2, <1>4, <2>1 DEF Backed, DiskInv
<1>9. Mutating(w)'
  BY <1>1, <1>3 DEF Mutating, Holding
<1>10. ASSUME NEW y \in Writers, y # w PROVE Mutating(y)'
  BY <1>1, <1>3, <1>10, OthersKeep
<1>11. Noticed
  BY <1>1, <1>2, <1>3, <1>4, <1>6 DEF Noticed, Advance, Past
<1> QED BY <1>5, <1>7, <1>8, <1>9, <1>10, <1>11 DEF StepKeeps, DiskInv

\* A delete finds nothing, or removes the pointer without syncing the directory.
LEMMA DeleteKeepsStore ==
    ASSUME StoreTypes, DiskInv, NEW w \in Writers, Delete(w)
    PROVE  StepKeeps
<1> USE Fields
<1>k. PICK k \in Keys : writer[w].key = k
  BY DEF Delete, DiskInv, Mutating
<1>1. /\ writer[w].pc = "lock" /\ lock = None /\ reader' = reader /\ disk \in DiskType
      /\ None \in Versions /\ w # None
  BY StoreAssumption DEF Delete, StoreTypes, Versions
<1>2. CASE disk.meta[k] = None
  <2>1. /\ writer' = [writer EXCEPT ![w].pc = "done"] /\ lock' = lock /\ disk' = disk /\ fsGhost' = fsGhost
    BY <1>k, <1>1, <1>2 DEF Delete, Finish, Step, Unlocked
  <2>2. /\ writer' \in [Writers -> WriterType] /\ writer'[w].pc = "done" /\ writer'[w].key = k
        /\ \A y \in Writers : y # w => writer'[y] = writer[y]
    BY <1>k, <2>1, WriterMoves DEF WriterSteps
  <2>3. StoreTypes'
    BY <1>1, <2>1, <2>2 DEF StoreTypes
  <2>4. Advance(w)
    BY <1>1, <2>2 DEF Advance, Past
  <2>5. Pointing' /\ Backed'
    BY <2>1, <2>4, NamesKept DEF Pointing, Backed, DiskInv
  <2>6. Mutating(w)'
    BY <2>2 DEF Mutating, Holding
  <2>7. ASSUME NEW y \in Writers, y # w PROVE Mutating(y)'
    BY <1>1, <2>2, <2>7, OthersKeep
  <2>8. Noticed
    BY <1>1, <2>1, <2>4 DEF Noticed, Advance
  <2> QED BY <2>3, <2>5, <2>6, <2>7, <2>8 DEF StepKeeps, DiskInv
<1>3. CASE disk.meta[k] # None
  <2>1. /\ writer' = [writer EXCEPT ![w].pc = "remove", ![w].prev = disk.meta[k]] /\ lock' = w
        /\ disk' = [disk EXCEPT !.meta[k] = None]
        /\ fsGhost' = [Moved(k, None) EXCEPT !.torn = @ \cup {k}]
    BY <1>k, <1>3 DEF Delete
  <2>2. /\ writer' \in [Writers -> WriterType] /\ writer'[w].pc = "remove" /\ writer'[w].key = k
        /\ \A y \in Writers : y # w => writer'[y] = writer[y]
    <3>1. disk.meta[k] \in Versions
      OBVIOUS
    <3> QED BY <1>k, <2>1, <3>1, WriterMoves DEF WriterSteps
  <2>3. writer'[w].prev = disk.meta[k]
    BY <2>1 DEF StoreTypes, WriterType
  <2>4. /\ disk' \in DiskType /\ disk'.data = disk.data /\ disk'.meta = [disk.meta EXCEPT ![k] = None]
        /\ disk'.synced = disk.synced
    <3> DEFINE meta == [disk.meta EXCEPT ![k] = None]
    <3>1. meta \in [Keys -> Versions] /\ disk' = [disk EXCEPT !.meta = meta]
      BY <1>1, <2>1 DEF DiskType
    <3> HIDE DEF meta
    <3>2. disk' \in DiskType /\ disk'.data = disk.data /\ disk'.meta = meta /\ disk'.synced = disk.synced
      BY <1>1, <3>1 DEF DiskType
    <3> QED BY <3>2 DEF meta
  <2>5. /\ fsGhost' \in GhostType /\ fsGhost'.torn = fsGhost.torn \cup {k}
        /\ \A r \in Readers :
             /\ fsGhost'.seen[r] = IF Watching(r, k) THEN fsGhost.seen[r] \cup {None} ELSE fsGhost.seen[r]
             /\ fsGhost'.moves[r] = IF Watching(r, k) THEN fsGhost.moves[r] + 1 ELSE fsGhost.moves[r]
    <3> DEFINE ghost == Moved(k, None)
    <3>1. /\ ghost \in GhostType /\ ghost.torn = fsGhost.torn
          /\ \A r \in Readers :
               /\ ghost.seen[r] = IF Watching(r, k) THEN fsGhost.seen[r] \cup {None} ELSE fsGhost.seen[r]
               /\ ghost.moves[r] = IF Watching(r, k) THEN fsGhost.moves[r] + 1 ELSE fsGhost.moves[r]
      BY <1>1, MoveSeen
    <3>2. fsGhost' = [ghost EXCEPT !.torn = ghost.torn \cup {k}]
      BY <2>1
    <3> HIDE DEF ghost
    <3>3. /\ fsGhost' \in GhostType /\ fsGhost'.torn = fsGhost.torn \cup {k}
          /\ fsGhost'.seen = ghost.seen /\ fsGhost'.moves = ghost.moves
      BY <3>1, <3>2 DEF GhostType
    <3> QED BY <3>1, <3>3
  <2>6. StoreTypes'
    BY <1>1, <2>1, <2>2, <2>4, <2>5 DEF StoreTypes, Versions
  <2>7. Advance(w)
    BY <1>1, <2>2 DEF Advance, Past
  <2>8. Pointing'
    <3>1. ASSUME NEW j \in Keys, NEW v \in Versions, v = disk'.meta[j] \/ v = disk'.synced[j]
          PROVE  Names(j, v)'
      <4>1. v \in {disk.meta[j], disk.synced[j]} \/ v = None
        BY <2>4, <3>1
      <4>2. CASE v \in {disk.meta[j], disk.synced[j]}
        BY <2>7, <4>2, NamesKept DEF Pointing, DiskInv
      <4> QED BY <4>1, <4>2 DEF Names
    <3>2. \A j \in Keys : disk'.meta[j] \in Versions /\ disk'.synced[j] \in Versions
      BY <2>4 DEF DiskType
    <3> QED BY <3>1, <3>2 DEF Pointing, Names
  <2>9. Backed'
    BY <2>4, <2>5 DEF Backed, DiskInv
  <2>10. Mutating(w)'
    <3>1. PICK v \in Versions : v = disk.meta[k]
      OBVIOUS
    <3>2. Names(k, v)'
      BY <2>7, <3>1, NamesKept DEF Pointing, DiskInv
    <3>3. writer'[w].prev = v /\ disk'.meta[k] = None /\ lock' = w
      BY <2>1, <2>3, <2>4, <3>1
    <3> QED BY <2>2, <3>2, <3>3 DEF Mutating, Names, Holding
  <2>11. ASSUME NEW y \in Writers, y # w PROVE Mutating(y)'
    BY <1>1, <2>2, <2>11, OthersKeep
  <2>12. Noticed
    BY <1>1, <2>4, <2>5, <2>7 DEF Noticed, Advance
  <2> QED BY <2>6, <2>8, <2>9, <2>10, <2>11, <2>12 DEF StepKeeps, DiskInv
<1> QED BY <1>2, <1>3

\* A bucket is dropped only while no pointer names content.
LEMMA DropKeeps ==
    ASSUME StoreTypes, DiskInv, NEW w \in Writers, DeleteBucket(w)
    PROVE  StepKeeps
<1> USE Fields
<1>1. /\ writer[w].pc = "lock" /\ lock = None /\ reader' = reader /\ fsGhost' = fsGhost /\ disk \in DiskType
      /\ writer[w].key \in Keys /\ w # None /\ Unlocked(w)
  BY StoreAssumption DEF DeleteBucket, StoreTypes, DiskInv, Mutating, Finish
<1>2. /\ writer' \in [Writers -> WriterType] /\ writer'[w].pc \in {"done", "notEmpty"}
      /\ writer'[w].key = writer[w].key /\ \A y \in Writers : y # w => writer'[y] = writer[y]
  <2>1. CASE writer' = [writer EXCEPT ![w].pc = "done"]
    BY <2>1, WriterMoves DEF WriterSteps
  <2>2. CASE writer' = [writer EXCEPT ![w].pc = "notEmpty"]
    BY <2>2, WriterMoves DEF WriterSteps
  <2> QED BY <2>1, <2>2 DEF DeleteBucket, Finish, Step
<1>3. /\ disk' \in DiskType /\ disk'.meta = disk.meta /\ disk'.synced = disk.synced
      /\ disk'.data = disk.data \/ (disk'.data = {} /\ \A j \in Keys : disk.meta[j] = None)
  <2>1. CASE disk' = disk
    BY <1>1, <2>1
  <2>2. CASE /\ disk' = [disk EXCEPT !.bucket = FALSE, !.temps = {}, !.data = {}]
             /\ \A j \in Keys : disk.meta[j] = None
    BY <1>1, <2>2 DEF DiskType
  <2> QED BY <2>1, <2>2 DEF DeleteBucket
<1>4. StoreTypes'
  BY <1>1, <1>2, <1>3, LockGiven DEF StoreTypes
<1>5. Advance(w)
  BY <1>1, <1>2 DEF Advance, Past
<1>6. Pointing'
  BY <1>3, <1>5, NamesKept DEF Pointing, DiskInv
<1>7. Backed'
  BY <1>1, <1>3 DEF Backed, DiskInv
<1>8. Mutating(w)'
  BY <1>1, <1>2 DEF Mutating, Holding
<1>9. ASSUME NEW y \in Writers, y # w PROVE Mutating(y)'
  BY <1>1, <1>2, <1>9, OthersKeep
<1>10. Noticed
  BY <1>1, <1>3, <1>5 DEF Noticed, Advance
<1> QED BY <1>4, <1>6, <1>7, <1>8, <1>9, <1>10 DEF StepKeeps, DiskInv

\* A step of one reader leaves the store and the other readers alone.
LEMMA OneReader ==
    ASSUME StoreInv, NEW r \in Readers, UNCHANGED <<disk, lock, writer>>,
           reader' \in [Readers -> ReaderType], fsGhost' \in GhostType,
           fsGhost'.torn = fsGhost.torn, fsGhost'.moves = fsGhost.moves,
           \A x \in Readers : x # r => reader'[x] = reader[x] /\ fsGhost'.seen[x] = fsGhost.seen[x],
           ReaderInv(r)'
    PROVE  StoreInv'
<1>1. StoreTypes' /\ DiskInv'
  BY DEF StoreInv, StoreTypes, DiskInv, Pointing, Names, Backed, Mutating
<1>2. ASSUME NEW x \in Readers, x # r PROVE ReaderInv(x)'
  BY <1>2 DEF StoreInv, ReaderInv, Reading, Listing, Answered
<1> QED BY <1>1, <1>2 DEF StoreInv

\* A reader answers.
LEMMA Answering ==
    ASSUME StoreInv, NEW r \in Readers, NEW got \in Versions \cup Outcomes, UNCHANGED <<disk, lock, writer, fsGhost>>,
           reader' = Answer(r, got), got \in Versions => got \in fsGhost.seen[r],
           got = "failed" => None \in fsGhost.seen[r]
    PROVE  StoreInv'
<1>1. reader[r] \in ReaderType /\ reader \in [Readers -> ReaderType] /\ fsGhost \in GhostType
  BY DEF StoreInv, StoreTypes
<1> DEFINE now == [reader[r] EXCEPT !.pc = "done", !.got = got]
<1>2. now \in ReaderType /\ now.pc = "done" /\ now.got = got
  BY <1>1 DEF ReaderType
<1>3. reader' = [reader EXCEPT ![r] = now]
  BY <1>1 DEF Answer
<1> HIDE DEF now
<1>4. reader' \in [Readers -> ReaderType] /\ reader'[r] = now /\ \A x \in Readers : x # r => reader'[x] = reader[x]
  BY <1>1, <1>2, <1>3
<1>5. ReaderInv(r)'
  BY <1>2, <1>4 DEF ReaderInv, Reading, Listing, Answered
<1> QED BY <1>1, <1>4, <1>5, OneReader

\* A reader loads a pointer, and sees it.
LEMMA OpenKeeps ==
    ASSUME StoreInv, NEW r \in Readers, Open(r)
    PROVE  StoreInv'
<1> USE Fields DEF StoreInv
<1>1. /\ reader[r] \in ReaderType /\ reader \in [Readers -> ReaderType] /\ fsGhost \in GhostType
      /\ reader[r].pc = "start" /\ reader[r].got = "unread" /\ reader[r].retry = FALSE
      /\ UNCHANGED <<disk, lock, writer>>
  BY DEF Open, StoreTypes, ReaderInv, Answered, ReaderType
<1>2. PICK k \in Keys :
        /\ reader' = [(IF disk.meta[k] = None THEN Answer(r, None) ELSE reader) EXCEPT
                         ![r].pc = IF disk.meta[k] = None THEN "done" ELSE "open",
                         ![r].key = k, ![r].ver = disk.meta[k]]
        /\ fsGhost' = [fsGhost EXCEPT !.seen[r] = {disk.meta[k]}]
  BY DEF Open
<1>3. PICK v \in Versions : v = disk.meta[k]
  OBVIOUS
<1> DEFINE now == IF v = None THEN [reader[r] EXCEPT !.pc = "done", !.key = k, !.ver = v, !.got = None]
                  ELSE [reader[r] EXCEPT !.pc = "open", !.key = k, !.ver = v]
<1>4. reader' = [reader EXCEPT ![r] = now]
  <2>1. CASE v = None
    <3> DEFINE answered == [reader[r] EXCEPT !.pc = "done", !.got = None]
    <3>1. Answer(r, None) = [reader EXCEPT ![r] = answered]
      BY <1>1 DEF Answer
    <3>2. reader' = [Answer(r, None) EXCEPT ![r].pc = "done", ![r].key = k, ![r].ver = v]
      BY <1>2, <1>3, <2>1
    <3>3. now = [answered EXCEPT !.pc = "done", !.key = k, !.ver = v]
      BY <1>1, <2>1 DEF ReaderType
    <3> HIDE DEF answered, now
    <3> QED BY <1>1, <3>1, <3>2, <3>3
  <2>2. CASE v # None
    BY <1>1, <1>2, <1>3, <2>2 DEF ReaderType
  <2> QED BY <2>1, <2>2
<1>5. /\ now \in ReaderType /\ now.key = k /\ now.ver = v /\ now.retry = FALSE
      /\ now.pc = IF v = None THEN "done" ELSE "open"
      /\ now.got = IF v = None THEN None ELSE "unread"
  <2>1. CASE v = None
    BY <1>1, <1>3, <2>1 DEF ReaderType, Versions
  <2>2. CASE v # None
    BY <1>1, <1>3, <2>2 DEF ReaderType, Versions
  <2> QED BY <2>1, <2>2
<1> HIDE DEF now
<1>6. reader' \in [Readers -> ReaderType] /\ reader'[r] = now /\ \A x \in Readers : x # r => reader'[x] = reader[x]
  BY <1>1, <1>4, <1>5
<1>7. /\ fsGhost' \in GhostType /\ fsGhost'.torn = fsGhost.torn /\ fsGhost'.moves = fsGhost.moves
      /\ fsGhost'.seen[r] = {v} /\ \A x \in Readers : x # r => fsGhost'.seen[x] = fsGhost.seen[x]
  <2> DEFINE seen == [fsGhost.seen EXCEPT ![r] = {v}]
  <2>1. seen \in [Readers -> SUBSET Versions] /\ fsGhost' = [fsGhost EXCEPT !.seen = seen]
    BY <1>1, <1>2, <1>3 DEF GhostType
  <2> HIDE DEF seen
  <2>2. /\ fsGhost' \in GhostType /\ fsGhost'.torn = fsGhost.torn /\ fsGhost'.moves = fsGhost.moves
        /\ fsGhost'.seen = seen
    BY <1>1, <2>1 DEF GhostType
  <2> QED BY <2>2 DEF seen
<1>8. v # None => v \in Writers /\ writer[v].pc \in Past
  BY <1>3 DEF DiskInv, Pointing, Names, Versions
<1>9. ReaderInv(r)'
  BY <1>1, <1>3, <1>5, <1>6, <1>7, <1>8, StoreAssumption DEF ReaderInv, Reading, Listing, Answered, Versions
<1> QED BY <1>1, <1>6, <1>7, <1>9, OneReader

\* A reader finds the content of its version, or finds it gone.
LEMMA ContentKeeps ==
    ASSUME StoreInv, NEW r \in Readers, OpenMetadata(r)
    PROVE  StoreInv'
<1> USE Fields
<1>1. /\ reader[r].pc = "open" /\ UNCHANGED <<disk, lock, writer, fsGhost>> /\ Reading(r) /\ Answered(r)
      /\ reader[r] \in ReaderType /\ reader \in [Readers -> ReaderType] /\ fsGhost \in GhostType
  BY DEF OpenMetadata, StoreInv, ReaderInv, StoreTypes
<1>2. CASE reader[r].ver \in disk.data
  <2>1. PICK v \in Versions : v = reader[r].ver
    BY <1>1 DEF ReaderType
  <2>2. v \in fsGhost.seen[r] /\ v # "failed" /\ reader' = Answer(r, v)
    BY <1>1, <1>2, <2>1, StoreAssumption DEF OpenMetadata, Reading, Versions
  <2> QED BY <1>1, <2>2, Answering
<1>3. CASE reader[r].ver \notin disk.data
  <2> DEFINE now == [reader[r] EXCEPT !.pc = "reload"]
  <2>1. reader' = [reader EXCEPT ![r] = now]
    BY <1>1, <1>3 DEF OpenMetadata
  <2>2. /\ now \in ReaderType /\ now.pc = "reload" /\ now.key = reader[r].key /\ now.ver = reader[r].ver
        /\ now.retry = reader[r].retry /\ now.got = reader[r].got
    BY <1>1 DEF ReaderType
  <2> HIDE DEF now
  <2>3. reader' \in [Readers -> ReaderType] /\ reader'[r] = now /\ \A x \in Readers : x # r => reader'[x] = reader[x]
    BY <1>1, <2>1, <2>2
  <2>4. ReaderInv(r)'
    BY <1>1, <1>3, <2>2, <2>3 DEF ReaderInv, Reading, Listing, Answered
  <2> QED BY <1>1, <2>3, <2>4, OneReader
<1> QED BY <1>2, <1>3

\* A reader follows a changed pointer once, and otherwise answers.
LEMMA ReloadKeeps ==
    ASSUME StoreInv, NEW r \in Readers, LoadMetadata(r)
    PROVE  StoreInv'
<1> USE Fields
<1>1. /\ reader[r].pc = "reload" /\ UNCHANGED <<disk, lock, writer, fsGhost>> /\ Reading(r) /\ Answered(r)
      /\ reader[r] \in ReaderType /\ reader \in [Readers -> ReaderType] /\ fsGhost \in GhostType
  BY DEF LoadMetadata, StoreInv, ReaderInv, StoreTypes
<1>k. PICK k \in Keys : k = reader[r].key
  BY <1>1 DEF Reading
<1>v. PICK v \in Versions : v = disk.meta[k]
  BY DEF StoreInv
<1>2. CASE v = None
  <2>1. reader' = Answer(r, v) /\ v \in fsGhost.seen[r] /\ v # "failed"
    BY <1>1, <1>k, <1>v, <1>2, StoreAssumption DEF LoadMetadata, Reading, Versions
  <2> QED BY <1>1, <2>1, Answering
<1>3. CASE v # None /\ Corrupted(r)
  <2>1. reader' = Answer(r, "corrupt") /\ "corrupt" \notin Versions /\ "corrupt" \in Versions \cup Outcomes
    BY <1>k, <1>v, <1>3, StoreAssumption DEF LoadMetadata, Versions, Outcomes
  <2> QED BY <1>1, <2>1, Answering
<1>4. CASE v # None /\ ~Corrupted(r)
  <2>1. reader[r].retry = FALSE /\ v # reader[r].ver /\ fsGhost.moves[r] >= 1 /\ v \in fsGhost.seen[r]
    BY <1>1, <1>k, <1>v, <1>4 DEF Corrupted, Reading, ReaderType
  <2>2. v \in Writers /\ writer[v].pc \in Past
    BY <1>v, <1>4 DEF StoreInv, DiskInv, Pointing, Names, Versions
  <2> DEFINE now == [reader[r] EXCEPT !.pc = "open", !.ver = v, !.retry = TRUE]
  <2>3. reader' = [reader EXCEPT ![r] = now]
    BY <1>1, <1>k, <1>v, <1>4 DEF LoadMetadata
  <2>4. /\ now \in ReaderType /\ now.pc = "open" /\ now.key = k /\ now.ver = v /\ now.retry = TRUE
        /\ now.got = reader[r].got
    BY <1>1, <1>k DEF ReaderType
  <2> HIDE DEF now
  <2>5. reader' \in [Readers -> ReaderType] /\ reader'[r] = now /\ \A x \in Readers : x # r => reader'[x] = reader[x]
    BY <1>1, <2>3, <2>4
  <2>6. ReaderInv(r)'
    BY <1>1, <1>v, <2>1, <2>2, <2>4, <2>5 DEF ReaderInv, Reading, Listing, Answered
  <2> QED BY <1>1, <2>5, <2>6, OneReader
<1> QED BY <1>2, <1>3, <1>4

\* A listing names the pointers, then reads each.
LEMMA ListKeeps ==
    ASSUME StoreInv, NEW r \in Readers, ListObjects(r)
    PROVE  StoreInv'
<1> USE Fields DEF StoreInv
<1>1. /\ reader[r] \in ReaderType /\ reader \in [Readers -> ReaderType] /\ fsGhost \in GhostType
      /\ reader[r].pc = "start" /\ reader[r].got = "unread" /\ reader[r].retry = FALSE
      /\ UNCHANGED <<disk, lock, writer>>
  BY DEF ListObjects, StoreTypes, ReaderInv, Answered, ReaderType
<1> DEFINE names == {k \in Keys : disk.meta[k] # None}
           now == [reader[r] EXCEPT !.pc = "list", !.key = "list", !.names = names]
           all == {disk.meta[k] : k \in Keys}
           seen == [fsGhost.seen EXCEPT ![r] = all]
<1>2. reader' = [reader EXCEPT ![r] = now]
  BY <1>1 DEF ListObjects, ReaderType
<1>3. now \in ReaderType /\ now.pc = "list" /\ now.key = "list" /\ now.got = "unread"
  <2>1. names \in SUBSET Keys
    OBVIOUS
  <2> HIDE DEF names
  <2> QED BY <1>1, <2>1 DEF ReaderType
<1>4. all \in SUBSET Versions /\ \A k \in Keys : disk.meta[k] \in all
  OBVIOUS
<1>5. fsGhost' = [fsGhost EXCEPT !.seen = seen]
  BY <1>1 DEF ListObjects, GhostType
<1> HIDE DEF now, all
<1>6. seen \in [Readers -> SUBSET Versions] /\ seen[r] = all /\ \A x \in Readers : x # r => seen[x] = fsGhost.seen[x]
  BY <1>4
<1> HIDE DEF seen
<1>7. /\ fsGhost' \in GhostType /\ fsGhost'.torn = fsGhost.torn /\ fsGhost'.moves = fsGhost.moves
      /\ fsGhost'.seen = seen
  BY <1>1, <1>5, <1>6 DEF GhostType
<1>8. reader' \in [Readers -> ReaderType] /\ reader'[r] = now /\ \A x \in Readers : x # r => reader'[x] = reader[x]
  BY <1>1, <1>2, <1>3
<1>9. ReaderInv(r)'
  BY <1>1, <1>3, <1>4, <1>6, <1>7, <1>8, StoreAssumption DEF ReaderInv, Reading, Listing, Answered, Versions
<1> QED BY <1>1, <1>6, <1>7, <1>8, <1>9, OneReader

\* A listing fails on a pointer that is gone.
LEMMA NextNameKeeps ==
    ASSUME StoreInv, NEW r \in Readers, ReadMetadataFile(r)
    PROVE  StoreInv'
<1> USE Fields
<1>1. /\ reader[r].pc = "list" /\ UNCHANGED <<disk, lock, writer, fsGhost>> /\ Listing(r) /\ Answered(r)
      /\ reader[r] \in ReaderType /\ reader \in [Readers -> ReaderType] /\ fsGhost \in GhostType
  BY DEF ReadMetadataFile, StoreInv, ReaderInv, StoreTypes
<1>2. Outcomes \cap Versions = {}
  BY StoreAssumption DEF Versions, Outcomes
<1>3. CASE reader' = Answer(r, "listed")
  BY <1>1, <1>2, <1>3, Answering DEF Outcomes
<1>4. ASSUME NEW k \in reader[r].names,
             reader' = IF disk.meta[k] = None THEN Answer(r, "failed") ELSE [reader EXCEPT ![r].names = @ \ {k}]
      PROVE  StoreInv'
  <2>1. k \in Keys
    BY <1>1, <1>4 DEF ReaderType
  <2>2. CASE disk.meta[k] = None
    <3>1. None \in fsGhost.seen[r] /\ reader' = Answer(r, "failed")
      BY <1>1, <1>4, <2>1, <2>2 DEF Listing
    <3> QED BY <1>1, <1>2, <3>1, Answering DEF Outcomes
  <2>3. CASE disk.meta[k] # None
    <3> DEFINE now == [reader[r] EXCEPT !.names = reader[r].names \ {k}]
    <3>1. reader' = [reader EXCEPT ![r] = now]
      BY <1>1, <1>4, <2>3
    <3>2. now \in ReaderType /\ now.pc = "list" /\ now.key = reader[r].key /\ now.got = reader[r].got
      BY <1>1 DEF ReaderType
    <3> HIDE DEF now
    <3>3. reader' \in [Readers -> ReaderType] /\ reader'[r] = now
          /\ \A x \in Readers : x # r => reader'[x] = reader[x]
      BY <1>1, <3>1, <3>2
    <3>4. ReaderInv(r)'
      BY <1>1, <3>2, <3>3 DEF ReaderInv, Reading, Listing, Answered
    <3> QED BY <1>1, <3>3, <3>4, OneReader
  <2> QED BY <2>2, <2>3
<1> QED BY <1>3, <1>4 DEF ReadMetadataFile

\* A restart ends what was under way, and may bring a torn pointer back.
LEMMA RestartKeeps ==
    ASSUME StoreInv, RemoveStaleTemps
    PROVE  StoreInv'
<1> USE Fields DEF StoreInv
<1>1. /\ fsGhost' \in GhostType /\ fsGhost'.torn = fsGhost.torn /\ fsGhost'.seen = fsGhost.seen
      /\ fsGhost'.moves = fsGhost.moves
  BY FaultCounted DEF RemoveStaleTemps
<1>2. lock' = None /\ None \in Versions /\ disk \in DiskType
  BY DEF RemoveStaleTemps, Versions, StoreTypes
<1>3. ASSUME NEW w \in Writers
      PROVE  /\ writer'[w] \in WriterType /\ writer'[w].key = writer[w].key /\ writer'[w].pc \notin Holding
             /\ writer[w].pc \in Past => writer'[w].pc \in Past
             /\ writer'[w].pc # "start" => writer[w].pc # "start"
  <2>1. writer'[w] = IF writer[w].pc \in {"start", "done", "failed", "notEmpty"}
                     THEN writer[w] ELSE [writer[w] EXCEPT !.pc = "failed"]
    BY DEF RemoveStaleTemps, Halted
  <2>2. CASE writer[w].pc \in {"start", "done", "failed", "notEmpty"}
    BY <2>1, <2>2 DEF Holding, Past
  <2>3. CASE writer[w].pc \notin {"start", "done", "failed", "notEmpty"}
    BY <2>1, <2>3 DEF WriterType, WriterSteps, Holding, Past
  <2> QED BY <2>2, <2>3
<1>4. writer' \in [Writers -> WriterType]
  <2>1. writer' = [w \in Writers |-> writer'[w]]
    BY DEF RemoveStaleTemps, Halted
  <2> QED BY <1>3, <2>1
<1>5. /\ disk' \in DiskType /\ disk'.synced = disk.synced /\ disk'.data = disk.data
      /\ \A k \in Keys : disk'.meta[k] = disk.meta[k] \/ (k \in fsGhost.torn /\ disk'.meta[k] = disk.synced[k])
  <2>1. CASE disk' = [disk EXCEPT !.temps = {}]
    BY <1>2, <2>1 DEF DiskType
  <2>2. ASSUME NEW back \in SUBSET fsGhost.torn,
               disk' = [disk EXCEPT !.temps = {},
                          !.meta = [k \in Keys |-> IF k \in back THEN disk.synced[k] ELSE @[k]]]
        PROVE  /\ disk' \in DiskType /\ disk'.synced = disk.synced /\ disk'.data = disk.data
               /\ \A k \in Keys : disk'.meta[k] = disk.meta[k]
                                   \/ (k \in fsGhost.torn /\ disk'.meta[k] = disk.synced[k])
    <3> DEFINE meta == [k \in Keys |-> IF k \in back THEN disk.synced[k] ELSE disk.meta[k]]
    <3>1. disk' = [disk EXCEPT !.temps = {}, !.meta = meta]
      BY <2>2
    <3>2. /\ meta \in [Keys -> Versions]
          /\ \A k \in Keys : meta[k] = disk.meta[k] \/ (k \in fsGhost.torn /\ meta[k] = disk.synced[k])
      BY <2>2
    <3> HIDE DEF meta
    <3>3. disk' \in DiskType /\ disk'.synced = disk.synced /\ disk'.data = disk.data /\ disk'.meta = meta
      BY <1>2, <3>1, <3>2 DEF DiskType
    <3> QED BY <3>2, <3>3
  <2> QED BY <2>1, <2>2 DEF RemoveStaleTemps
<1>6. ASSUME NEW r \in Readers
      PROVE  /\ reader'[r] \in ReaderType /\ reader'[r].pc \in {"start", "done"} /\ reader'[r].got = reader[r].got
             /\ reader'[r].pc = "start" => reader[r].pc = "start" /\ reader'[r].retry = reader[r].retry
  <2>1. reader'[r] = IF reader[r].pc = "start" THEN reader[r] ELSE [reader[r] EXCEPT !.pc = "done"]
    BY DEF RemoveStaleTemps
  <2> QED BY <2>1 DEF ReaderType
<1>7. reader' \in [Readers -> ReaderType]
  <2>1. reader' = [r \in Readers |-> reader'[r]]
    BY DEF RemoveStaleTemps
  <2> QED BY <1>6, <2>1
<1>8. StoreTypes'
  BY <1>1, <1>2, <1>4, <1>5, <1>7 DEF StoreTypes
<1>9. Pointing'
  <2>1. ASSUME NEW j \in Keys, NEW v \in Versions, v = disk'.meta[j] \/ v = disk'.synced[j]
        PROVE  Names(j, v)'
    <3>1. Names(j, v)
      BY <1>5, <2>1 DEF Pointing, DiskInv
    <3> QED BY <1>3, <3>1 DEF Names, Versions
  <2>2. \A j \in Keys : disk'.meta[j] \in Versions /\ disk'.synced[j] \in Versions
    BY <1>5 DEF DiskType
  <2> QED BY <2>1, <2>2 DEF Pointing, Names
<1>10. Backed'
  BY <1>1, <1>5 DEF Backed, DiskInv
<1>11. ASSUME NEW w \in Writers PROVE Mutating(w)'
  BY <1>3 DEF Mutating, DiskInv, Holding
<1>12. ASSUME NEW r \in Readers PROVE ReaderInv(r)'
  BY <1>1, <1>6 DEF ReaderInv, Reading, Listing, Answered
<1> QED BY <1>8, <1>9, <1>10, <1>11, <1>12 DEF DiskInv

\* The store starts empty.
LEMMA StoreStarts == StoreInit => StoreInv
<1> SUFFICES ASSUME StoreInit PROVE StoreInv
  OBVIOUS
<1>1. StoreTypes
  <2>1. disk \in DiskType /\ lock \in Versions
    BY DEF StoreInit, DiskType, Versions
  <2>2. writer \in [Writers -> WriterType]
    BY DEF StoreInit, WriterType, WriterSteps, Ops, Versions
  <2>3. reader \in [Readers -> ReaderType]
    BY DEF StoreInit, ReaderType, Versions, Outcomes
  <2>4. fsGhost \in GhostType
    BY DEF StoreInit, GhostType
  <2> QED BY <2>1, <2>2, <2>3, <2>4 DEF StoreTypes
<1>2. DiskInv
  BY DEF StoreInit, DiskInv, Pointing, Names, Backed, Mutating, Holding
<1>3. ASSUME NEW r \in Readers PROVE ReaderInv(r)
  BY StoreAssumption DEF StoreInit, ReaderInv, Reading, Listing, Answered, Versions
<1> QED BY <1>1, <1>2, <1>3 DEF StoreInv

\* Every step of writers, readers and restarts keeps the invariant.
LEMMA StoreSteps == StoreInv /\ [StoreNext]_storeVars => StoreInv'
<1> SUFFICES ASSUME StoreInv, [StoreNext]_storeVars PROVE StoreInv'
  OBVIOUS
<1>1. ASSUME NEW w \in Writers,
             \/ CreateTempFile(w) \/ PutFails(w) \/ LockPut(w) \/ RenameData(w) \/ WriteMetadata(w)
             \/ WriteMetadataFails(w) \/ RemovePrevious(w) \/ Delete(w) \/ DeleteBucket(w)
      PROVE  StoreInv'
  <2>1. StoreTypes /\ DiskInv
    BY DEF StoreInv
  <2>2. StepKeeps
    BY <1>1, <2>1, TempKeeps, LockKeeps, RenameKeeps, PublishKeeps, EndKeepsStore, DeleteKeepsStore, DropKeeps
  <2> QED BY <2>2, ReadersKeep DEF StepKeeps, StoreInv
<1>2. ASSUME NEW r \in Readers,
             Open(r) \/ OpenMetadata(r) \/ LoadMetadata(r) \/ ListObjects(r) \/ ReadMetadataFile(r)
      PROVE  StoreInv'
  BY <1>2, OpenKeeps, ContentKeeps, ReloadKeeps, ListKeeps, NextNameKeeps
<1>3. CASE UNCHANGED storeVars
  BY <1>3 DEF storeVars, StoreInv, StoreTypes, DiskInv, Pointing, Names, Backed, Mutating, ReaderInv, Reading, Listing, Answered
<1> QED BY <1>1, <1>2, <1>3, RestartKeeps DEF StoreNext

\* A pointer names a version its writer finished, content leaves the disk only after its
\* pointer, and a reader saw every move of the pointer it follows, for any number of keys,
\* writers, readers and restarts (commit_temp, delete, open_metadata).
THEOREM PointersFollowed == StoreSpec => []StoreInv
BY StoreStarts, StoreSteps, PTL DEF StoreSpec

\* A read returns a version or an absence that was current while it ran, and reports corruption
\* only when the pointer moved twice under it or a directory entry was torn.
THEOREM ReadsServeOneVersion == StoreSpec => []ReadsOneVersion
<1>1. StoreInv => ReadsOneVersion
  <2> SUFFICES ASSUME StoreInv PROVE ReadsOneVersion
    OBVIOUS
  <2>1. ASSUME NEW r \in Readers, Corrupted(r)
        PROVE  fsGhost.moves[r] >= 2 \/ reader[r].key \in fsGhost.torn
    <3>1. Reading(r) /\ Backed
      BY DEF StoreInv, ReaderInv, DiskInv
    <3> QED BY <2>1, <3>1 DEF Corrupted, Reading, Backed
  <2>2. Backed /\ \A r \in Readers : Answered(r)
    BY DEF StoreInv, DiskInv, ReaderInv
  <2> QED BY <2>1, <2>2 DEF Backed, Answered, Versions, ReadsOneVersion
<1> QED BY <1>1, PointersFollowed, PTL

-----------------------------------------------------------------------------
(* The log of the single host's journal                                    *)
(*                                                                         *)
(* The argument: the directory always holds a run of accepted states, its  *)
(* snapshot one of them and its frames the events from at most the one     *)
(* after the snapshot to the last, so that replaying it gives the last     *)
(* state (ReplayLast, by induction over the frames: the first position at  *)
(* which the replay and the run differ cannot exist).  Memory holds that   *)
(* state too, or the one before while a frame waits for its sync, and      *)
(* whatever cuts the unsynced frame off cuts the run at the same place.    *)

\* The rows and events of the journal.
Row == [st : States \cup {"none"}, ref : Refs \cup {NoRef}, notBefore : Nat, absent : Nat,
        owner : Owners \cup {Nobody}, part : Digests \cup {NoPart}, expected : BOOLEAN]
EventData == States \cup Refs \cup {NoRef} \cup Digests \cup Times \cup Owners
EventTypes == {"IntentInserted", "Opened", "ExpectedChanged", "ReferenceChanged", "StateChanged",
               "PartRecorded", "MutationLaunched", "ExactAbsenceObserved", "Claimed", "TerminalRetired"}
Events == [type : EventTypes, a : EventData, b : EventData]

\* What one event may do to a row.
Allowed(old, new) ==
    /\ new \in Row
    /\ new # Retired => /\ old.st \in TerminalStates => new.st = old.st
                        /\ old.part # NoPart => new.part = old.part
    /\ new.absent > 0 => new.absent >= new.notBefore

\* The states a log went through, from the empty one.
StateAt(rows, n) == IF n = 0 THEN Retired ELSE rows[n]
Chained(rows) == rows \in Seq(Row) /\ \A n \in 1..Len(rows) : Allowed(StateAt(rows, n - 1), rows[n])

\* The directory d holds exactly these states: its snapshot is one of them, and the
\* frames are the events from at most the one after the snapshot to the last.
Directory == [dir : {"none", "bare", "log"}, tmp : BOOLEAN, snap : [seq : Nat, state : Row],
              first : Nat \ {0}, frames : Seq(Events), torn : BOOLEAN]
Recorded(d, rows) ==
    /\ d \in Directory
    /\ d.first <= d.snap.seq + 1 /\ Top(d) = Len(rows)
    /\ d.frames # <<>> => LastFrame(d) = Len(rows)
    /\ d.snap.state = StateAt(rows, d.snap.seq)
    /\ \A j \in 1..Len(d.frames) :
          rows[d.first + j - 1] = ReduceTransition(StateAt(rows, d.first + j - 2), d.frames[j])
    /\ d.dir # "log" => d.frames = <<>> /\ d.snap.seq = 0

\* The process: what it holds in memory is the last state, or, while a frame is
\* written and not synced, the one before.
Writing == {"creating", "append", "sync"}
Finishing == {"reply", "snapshot", "truncate"}
Entry == [up : BOOLEAN, pc : {"down", "idle"} \cup Writing \cup Finishing, known : BOOLEAN,
          poisoned : BOOLEAN, seq : Nat, state : Row, count : Nat, next : Events \cup {Retired}]
Serving(m, d, rows) ==
    /\ m.seq = IF m.pc = "sync" THEN Len(rows) - 1 ELSE Len(rows)
    /\ m.state = StateAt(rows, m.seq)
    /\ ~m.known => m.seq = 0 /\ m.pc \notin Finishing
    /\ m.known => m.pc # "creating"
    /\ m.known \/ m.pc \in {"append", "sync"} => d.dir = "log"
    /\ m.pc \in Writing => m.next \in Events /\ Allowed(m.state, ReduceTransition(m.state, m.next))
    /\ m.pc = "sync" => /\ d.frames # <<>> /\ d.snap.seq <= m.seq
                        /\ rows[Len(rows)] = ReduceTransition(m.state, m.next)
    /\ m.pc = "truncate" => d.snap.seq = m.seq
Running(m) == m.up /\ ~m.poisoned

Consistent(f, m, rows, told) ==
    /\ Chained(rows) /\ Recorded(f, rows)
    /\ m \in Entry /\ (Running(m) => Serving(m, f, rows) /\ told <= m.seq)
    /\ m.pc # "down" => m.up
    /\ m.pc \notin {"down", "idle"} => ~m.poisoned
    /\ told \in Nat /\ told <= Len(rows)
    /\ told > 0 => f.dir = "log"

\* The inductive invariant of the journal.
LogInv ==
    /\ past \in [truth : Seq(Row), told : Nat, crashes : Nat]
    /\ Consistent(files, mem, past.truth, past.told)

\* Every set of naturals that is not empty has a least element.
LEMMA LeastNatural ==
  ASSUME NEW T \in SUBSET Nat, T # {}
  PROVE  \E x \in T : \A y \in T : x <= y
<1>1. PICK R : R = OpToRel(<, Nat)
  OBVIOUS
<1>2. IsWellFoundedOn(R, Nat)
  BY <1>1, NatLessThanWellFounded
<1>3. PICK x \in T : \A y \in T : ~(<<y, x>> \in R)
  BY <1>2, WFMin
<1>4. \A y \in T : y < x => <<y, x>> \in R
  BY <1>1 DEF OpToRel
<1>5. ASSUME NEW y \in T
      PROVE  x <= y
  <2>1. x \in Nat /\ y \in Nat /\ ~(y < x)
    BY <1>3, <1>4
  <2> QED BY <2>1
<1> QED BY <1>5

\* A state on the way is a row, never the rejection.
LEMMA RowsAccepted ==
  ASSUME NEW rows, Chained(rows), NEW n \in 0..Len(rows)
  PROVE  StateAt(rows, n) \in Row /\ StateAt(rows, n) # Rejected
<1>1. Retired \in Row
  BY DEF Retired, Row
<1>2. StateAt(rows, n) \in Row
  BY <1>1 DEF StateAt, Chained
<1>3. Rejected.st = "rejected"
  BY DEF Rejected, Retired
<1>4. StateAt(rows, n).st # "rejected"
  BY <1>2 DEF Row, States
<1> QED BY <1>2, <1>3, <1>4

\* Replaying a directory gives the last state it records.
LEMMA ReplayLast ==
  ASSUME NEW d, NEW rows, Recorded(d, rows), Chained(rows)
  PROVE  ReplayState(d) = StateAt(rows, Len(rows))
<1> DEFINE S == d.snap.seq
           top == Top(d)
           G(f) == [n \in S..top |-> IF n = S THEN d.snap.state ELSE IF f[n - 1] = Rejected THEN Rejected
                                     ELSE ReduceTransition(f[n - 1], d.frames[n - d.first + 1])]
           w == [n \in S..top |-> StateAt(rows, n)]
<1>1. S \in Nat /\ top \in Nat /\ S <= top /\ top = Len(rows) /\ d.first \in Nat \ {0} /\ Len(d.frames) \in Nat
  BY DEF Recorded, Directory, Top, LastFrame, Chained
<1>2. ASSUME NEW n \in S..top, n # S
      PROVE  /\ n - 1 \in S..top /\ n - d.first + 1 \in 1..Len(d.frames)
             /\ StateAt(rows, n - 1) # Rejected
             /\ StateAt(rows, n) = ReduceTransition(StateAt(rows, n - 1), d.frames[n - d.first + 1])
  <2>1. n \in Nat /\ S < n /\ n <= top /\ n - 1 \in S..top /\ n # 0
    BY <1>1, <1>2
  <2>2. d.first <= n /\ n <= LastFrame(d)
    BY <1>1, <2>1 DEF Recorded, Top, LastFrame
  <2>3. PICK j : j = n - d.first + 1
    OBVIOUS
  <2>4. j \in 1..Len(d.frames) /\ d.first + j - 1 = n /\ d.first + j - 2 = n - 1
    <3>1. PICK a, b : a = d.first /\ b = Len(d.frames)
      OBVIOUS
    <3>2. a \in Nat /\ b \in Nat /\ n \in Nat /\ a <= n /\ n <= a + b - 1 /\ j = n - a + 1
      BY <1>1, <2>1, <2>2, <2>3, <3>1 DEF LastFrame
    <3>3. j \in 1..b /\ a + j - 1 = n /\ a + j - 2 = n - 1
      BY ONLY <3>2
    <3> QED BY <3>1, <3>3
  <2>5. rows[n] = ReduceTransition(StateAt(rows, n - 1), d.frames[j])
    BY <2>4 DEF Recorded
  <2>6. StateAt(rows, n - 1) # Rejected
    BY <1>1, <2>1, RowsAccepted
  <2> QED BY <2>1, <2>3, <2>4, <2>5, <2>6 DEF StateAt
<1>3. w = G(w)
  <2>1. ASSUME NEW n \in S..top
        PROVE  w[n] = G(w)[n]
    <3>1. CASE n = S
      BY <3>1 DEF Recorded
    <3>2. CASE n # S
      BY <1>2, <3>2
    <3> QED BY <3>1, <3>2
  <2> QED BY <2>1
<1>4. PICK r : r = CHOOSE f : f = G(f)
  OBVIOUS
<1>5. r = G(r)
  BY <1>3, <1>4
<1>6. ReplayState(d) = r[top]
  BY <1>4 DEF ReplayState
<1>7. ASSUME NEW n \in S..top
      PROVE  r[n] = w[n]
  <2> DEFINE T == {m \in S..top : r[m] # w[m]}
  <2> SUFFICES ASSUME T # {}
               PROVE  FALSE
    OBVIOUS
  <2>1. T \in SUBSET Nat
    BY <1>1
  <2>2. PICK m \in T : \A y \in T : m <= y
    BY <2>1, LeastNatural
  <2>3. m \in S..top /\ r[m] # w[m]
    OBVIOUS
  <2>4. m # S
    <3>1. r[S] = d.snap.state
      BY <1>1, <1>5
    <3> QED BY <1>1, <2>3, <3>1 DEF Recorded
  <2>5. m - 1 \in S..top /\ m - 1 \notin T
    <3>1. m - 1 \in S..top
      BY <1>2, <2>3, <2>4
    <3>2. m \in Nat /\ ~(m <= m - 1)
      BY <1>1, <2>3
    <3> QED BY <2>2, <3>1, <3>2
  <2>6. r[m - 1] = StateAt(rows, m - 1)
    BY <2>5
  <2>7. r[m] = ReduceTransition(r[m - 1], d.frames[m - d.first + 1])
    BY <1>2, <1>5, <2>3, <2>4, <2>6
  <2>8. StateAt(rows, m) = ReduceTransition(StateAt(rows, m - 1), d.frames[m - d.first + 1])
    BY <1>2, <2>3, <2>4
  <2>9. w[m] = StateAt(rows, m)
    BY <2>3
  <2> HIDE DEF w, T
  <2> QED BY ONLY <2>3, <2>6, <2>7, <2>8, <2>9
<1>8. top \in S..top
  BY <1>1
<1>9. r[top] = w[top] /\ w[top] = StateAt(rows, top)
  BY <1>7, <1>8
<1> HIDE DEF w, G, top
<1> QED BY <1>1, <1>6, <1>9

\* A step that leaves snapshot, frames and states alone.
LEMMA MemoryMoves ==
  ASSUME NEW f, NEW m, NEW rows, NEW told, Consistent(f, m, rows, told),
         NEW g \in Directory, g.snap = f.snap, g.first = f.first, g.frames = f.frames,
         g.dir = f.dir \/ (f.frames = <<>> /\ f.snap.seq = 0), told > 0 => g.dir = "log",
         NEW k \in Entry, k.pc # "down" => k.up, k.pc \notin {"down", "idle"} => ~k.poisoned,
         Running(k) => Serving(k, g, rows) /\ told <= k.seq
  PROVE  Consistent(g, k, rows, told)
<1>1. Top(g) = Top(f) /\ LastFrame(g) = LastFrame(f)
  BY DEF Top, LastFrame
<1>2. Recorded(g, rows)
  BY <1>1 DEF Consistent, Recorded
<1> QED BY <1>2 DEF Consistent

\* The fields of a memory entry and of a directory.
LEMMA Shapes ==
  ASSUME NEW f, NEW m, NEW rows, NEW told, Consistent(f, m, rows, told)
  PROVE  /\ f \in Directory /\ m \in Entry /\ rows \in Seq(Row) /\ told \in Nat /\ Len(rows) \in Nat
         /\ f.frames \in Seq(Events) /\ Len(f.frames) \in Nat /\ f.first \in Nat \ {0} /\ f.snap.seq \in Nat
         /\ f.snap.seq <= Len(rows) /\ m.seq \in Nat /\ m.state \in Row
         /\ Running(m) => Serving(m, f, rows) /\ told <= m.seq
         /\ m.pc \notin {"down", "idle"} => Running(m) /\ Serving(m, f, rows) /\ told <= m.seq
<1>1. f \in Directory /\ m \in Entry /\ rows \in Seq(Row) /\ told \in Nat
  BY DEF Consistent, Recorded, Chained
<1>2. /\ Len(rows) \in Nat /\ f.frames \in Seq(Events) /\ Len(f.frames) \in Nat /\ f.first \in Nat \ {0}
      /\ f.snap.seq \in Nat /\ m.seq \in Nat /\ m.state \in Row
  BY <1>1 DEF Directory, Entry
<1>3. f.snap.seq <= Len(rows)
  BY <1>2 DEF Consistent, Recorded, Top, LastFrame
<1>4. m.pc \notin {"down", "idle"} => Running(m)
  BY DEF Consistent, Running
<1> QED BY <1>1, <1>2, <1>3, <1>4 DEF Consistent

\* An accepted event is about to be written.
LEMMA EventKeeps ==
  ASSUME NEW f, NEW m, NEW rows, NEW told, Consistent(f, m, rows, told), Running(m), m.pc = "idle",
         NEW ev \in Events, Allowed(m.state, ReduceTransition(m.state, ev)),
         NEW g \in Directory, NEW to \in {"creating", "append"}, to = "creating" <=> ~m.known,
         IF m.known THEN g = f
         ELSE g = [f EXCEPT !.dir = IF f.dir = "none" THEN "bare" ELSE f.dir]
  PROVE  Consistent(g, [m EXCEPT !.pc = to, !.next = ev], rows, told)
<1> DEFINE k == [m EXCEPT !.pc = to, !.next = ev]
<1>1. m \in Entry /\ f \in Directory /\ Serving(m, f, rows) /\ told <= m.seq /\ told \in Nat
  BY Shapes
<1>2. /\ k \in Entry /\ k.pc = to /\ k.next = ev /\ k.seq = m.seq /\ k.state = m.state
      /\ k.known = m.known /\ k.up = m.up /\ k.poisoned = m.poisoned
  BY <1>1 DEF Entry, Writing, Finishing
<1>3. /\ g.snap = f.snap /\ g.first = f.first /\ g.frames = f.frames
      /\ g.dir = f.dir \/ (f.dir # "log" /\ g.dir # "log")
  BY <1>1 DEF Directory
<1>4. f.dir # "log" => f.frames = <<>> /\ f.snap.seq = 0 /\ told = 0
  BY <1>1 DEF Consistent, Recorded
<1> HIDE DEF k
<1>5. Serving(k, g, rows)
  BY <1>1, <1>2, <1>3 DEF Serving, Writing, Finishing
<1>6. k.up /\ ~k.poisoned
  BY <1>2 DEF Running
<1>7. told > 0 => g.dir = "log"
  BY <1>1, <1>3, <1>4 DEF Consistent
<1>8. Consistent(g, k, rows, told)
  BY <1>1, <1>2, <1>3, <1>4, <1>5, <1>6, <1>7, MemoryMoves
<1> QED BY <1>8 DEF k

\* A process that has not seen the entry has an empty log.
LEMMA EmptyLog ==
  ASSUME NEW f, NEW m, NEW rows, NEW told, Consistent(f, m, rows, told), Running(m), ~m.known, m.pc # "sync"
  PROVE  Len(rows) = 0 /\ f.frames = <<>> /\ f.snap.seq = 0 /\ told = 0
<1>1. /\ rows \in Seq(Row) /\ told \in Nat /\ Len(rows) \in Nat /\ Len(f.frames) \in Nat /\ f.frames \in Seq(Events)
      /\ f.first \in Nat \ {0} /\ f.snap.seq \in Nat /\ Serving(m, f, rows)
  BY Shapes
<1>2. Len(rows) = 0
  BY <1>1 DEF Serving
<1>3. told = 0 /\ Top(f) = 0
  BY <1>1, <1>2 DEF Consistent, Recorded
<1>4. f.snap.seq = 0 /\ Len(f.frames) = 0
  BY <1>1, <1>3 DEF Top, LastFrame
<1> QED BY <1>1, <1>2, <1>3, <1>4

\* The log of a new entry is created.
LEMMA CreateKeeps ==
  ASSUME NEW f, NEW m, NEW rows, NEW told, Consistent(f, m, rows, told), m.pc = "creating"
  PROVE  Consistent([f EXCEPT !.dir = "log"], [m EXCEPT !.pc = "append"], rows, told)
<1> DEFINE k == [m EXCEPT !.pc = "append"]
           g == [f EXCEPT !.dir = "log"]
<1>1. f \in Directory /\ m \in Entry /\ Running(m) /\ Serving(m, f, rows) /\ told <= m.seq
  BY Shapes
<1>2. f.frames = <<>> /\ f.snap.seq = 0
  BY <1>1, EmptyLog DEF Serving
<1>3. /\ k \in Entry /\ k.pc = "append" /\ k.next = m.next /\ k.seq = m.seq /\ k.state = m.state
      /\ k.known = m.known /\ k.up = m.up /\ k.poisoned = m.poisoned
  BY <1>1 DEF Entry, Writing
<1>4. g \in Directory /\ g.snap = f.snap /\ g.first = f.first /\ g.frames = f.frames /\ g.dir = "log"
  BY <1>1 DEF Directory
<1> HIDE DEF k, g
<1>5. Serving(k, g, rows)
  BY <1>1, <1>3, <1>4 DEF Serving, Writing, Finishing
<1>6. k.up /\ ~k.poisoned
  BY <1>1, <1>3 DEF Running
<1>7. Consistent(g, k, rows, told)
  BY <1>1, <1>2, <1>3, <1>4, <1>5, <1>6, MemoryMoves
<1> QED BY <1>7 DEF k, g

\* The append is given up before a frame is written.
LEMMA GiveUpKeeps ==
  ASSUME NEW f, NEW m, NEW rows, NEW told, Consistent(f, m, rows, told), m.pc \in {"creating", "append"},
         NEW g, g = f \/ (~m.known /\ g = [f EXCEPT !.dir = "none"])
  PROVE  Consistent(g, [m EXCEPT !.pc = "idle", !.next = Retired], rows, told)
<1> DEFINE k == [m EXCEPT !.pc = "idle", !.next = Retired]
<1>1. f \in Directory /\ m \in Entry /\ Running(m) /\ Serving(m, f, rows) /\ told <= m.seq /\ told \in Nat
  BY Shapes
<1>2. ~m.known => f.frames = <<>> /\ f.snap.seq = 0 /\ told = 0
  BY <1>1, EmptyLog
<1>3. /\ k \in Entry /\ k.pc = "idle" /\ k.seq = m.seq /\ k.state = m.state
      /\ k.known = m.known /\ k.up = m.up /\ k.poisoned = m.poisoned
  BY <1>1 DEF Entry, Writing
<1>4. /\ g \in Directory /\ g.snap = f.snap /\ g.first = f.first /\ g.frames = f.frames
      /\ g.dir = f.dir \/ ~m.known
  BY <1>1 DEF Directory
<1> HIDE DEF k
<1>5. Serving(k, g, rows)
  BY <1>1, <1>3, <1>4 DEF Serving, Writing, Finishing
<1>6. k.up /\ ~k.poisoned
  BY <1>1, <1>3 DEF Running
<1>7. told > 0 => g.dir = "log"
  BY <1>1, <1>2, <1>4 DEF Consistent
<1>8. g.dir = f.dir \/ (f.frames = <<>> /\ f.snap.seq = 0)
  BY <1>2, <1>4
<1>9. Consistent(g, k, rows, told)
  BY <1>1, <1>3, <1>4, <1>5, <1>6, <1>7, <1>8, MemoryMoves
<1> QED BY <1>9 DEF k

\* The frame written is synced.
LEMMA SyncKeeps ==
  ASSUME NEW f, NEW m, NEW rows, NEW told, Consistent(f, m, rows, told), m.pc = "sync",
         NEW to \in {"snapshot", "reply"}
  PROVE  Consistent(f, [m EXCEPT !.pc = to, !.seq = m.seq + 1, !.count = m.count + 1, !.known = TRUE,
                                 !.state = ReduceTransition(m.state, m.next), !.next = Retired], rows, told)
<1> DEFINE k == [m EXCEPT !.pc = to, !.seq = m.seq + 1, !.count = m.count + 1, !.known = TRUE,
                          !.state = ReduceTransition(m.state, m.next), !.next = Retired]
<1>1. /\ f \in Directory /\ m \in Entry /\ Running(m) /\ Serving(m, f, rows) /\ told <= m.seq /\ told \in Nat
      /\ rows \in Seq(Row) /\ Len(rows) \in Nat /\ m.seq \in Nat
  BY Shapes
<1>2. /\ Len(rows) = m.seq + 1 /\ rows[Len(rows)] = ReduceTransition(m.state, m.next) /\ f.dir = "log"
      /\ Len(rows) # 0
  BY <1>1 DEF Serving
<1>3. ReduceTransition(m.state, m.next) \in Row
  BY <1>1, <1>2
<1>4. /\ k \in Entry /\ k.pc = to /\ k.seq = m.seq + 1 /\ k.state = rows[Len(rows)]
      /\ k.known = TRUE /\ k.up = m.up /\ k.poisoned = m.poisoned
  <2>1. PICK last, seq, count : last = ReduceTransition(m.state, m.next) /\ seq = m.seq + 1 /\ count = m.count + 1
    OBVIOUS
  <2>2. last \in Row /\ seq \in Nat /\ count \in Nat /\ to \in Finishing
    BY <1>1, <1>3, <2>1 DEF Entry, Finishing
  <2>3. k = [m EXCEPT !.pc = to, !.seq = seq, !.count = count, !.known = TRUE, !.state = last, !.next = Retired]
    BY <2>1
  <2> HIDE DEF k
  <2>4. /\ k \in Entry /\ k.pc = to /\ k.seq = seq /\ k.state = last
        /\ k.known = TRUE /\ k.up = m.up /\ k.poisoned = m.poisoned
    BY <1>1, <2>2, <2>3 DEF Entry
  <2> QED BY <1>2, <2>1, <2>4
<1> HIDE DEF k
<1>5. Serving(k, f, rows)
  BY <1>1, <1>2, <1>4 DEF Serving, Writing, Finishing, StateAt
<1>6. k.up /\ ~k.poisoned /\ told <= k.seq
  BY <1>1, <1>4 DEF Running
<1>7. told > 0 => f.dir = "log"
  BY <1>2
<1>8. Consistent(f, k, rows, told)
  BY <1>1, <1>4, <1>5, <1>6, <1>7, MemoryMoves
<1> QED BY <1>8 DEF k

\* The caller is told.
LEMMA ReplyKeeps ==
  ASSUME NEW f, NEW m, NEW rows, NEW told, Consistent(f, m, rows, told), m.pc = "reply"
  PROVE  Consistent(f, [m EXCEPT !.pc = "idle"], rows, m.seq)
<1> DEFINE k == [m EXCEPT !.pc = "idle"]
<1>1. /\ f \in Directory /\ m \in Entry /\ Running(m) /\ Serving(m, f, rows)
      /\ Len(rows) \in Nat /\ m.seq \in Nat
  BY Shapes
<1>2. m.known /\ f.dir = "log" /\ m.seq = Len(rows)
  BY <1>1 DEF Serving, Finishing, Entry
<1>3. /\ k \in Entry /\ k.pc = "idle" /\ k.seq = m.seq /\ k.state = m.state
      /\ k.known = m.known /\ k.up = m.up /\ k.poisoned = m.poisoned
  BY <1>1 DEF Entry, Writing
<1> HIDE DEF k
<1>4. Serving(k, f, rows)
  BY <1>1, <1>2, <1>3 DEF Serving, Writing, Finishing
<1>5. k.up /\ ~k.poisoned
  BY <1>1, <1>3 DEF Running
<1>6. Consistent(f, k, rows, m.seq)
  BY <1>1, <1>2, <1>3, <1>4, <1>5 DEF Consistent
<1> QED BY <1>6 DEF k

\* The temporary file of a compaction comes and goes.
LEMMA TemporaryKeeps ==
  ASSUME NEW f, NEW m, NEW rows, NEW told, Consistent(f, m, rows, told), m.pc \in {"snapshot", "truncate"},
         NEW b \in BOOLEAN, NEW k, k = m \/ k = [m EXCEPT !.pc = "reply"]
  PROVE  Consistent([f EXCEPT !.tmp = b], k, rows, told)
<1> DEFINE g == [f EXCEPT !.tmp = b]
<1>1. f \in Directory /\ m \in Entry /\ Running(m) /\ Serving(m, f, rows) /\ told <= m.seq /\ told \in Nat
  BY Shapes
<1>2. g \in Directory /\ g.snap = f.snap /\ g.first = f.first /\ g.frames = f.frames /\ g.dir = f.dir
  BY <1>1 DEF Directory
<1>3. /\ k \in Entry /\ k.pc \in {m.pc, "reply"} /\ k.seq = m.seq /\ k.state = m.state
      /\ k.known = m.known /\ k.up = m.up /\ k.poisoned = m.poisoned
  BY <1>1 DEF Entry, Finishing
<1> HIDE DEF g
<1>4. Serving(k, g, rows)
  BY <1>1, <1>2, <1>3 DEF Serving, Writing, Finishing
<1>5. k.up /\ ~k.poisoned /\ told <= k.seq
  BY <1>1, <1>3 DEF Running
<1>6. told > 0 => g.dir = "log"
  BY <1>2 DEF Consistent
<1>7. Consistent(g, k, rows, told)
  BY <1>1, <1>2, <1>3, <1>4, <1>5, <1>6, MemoryMoves
<1> QED BY <1>7 DEF g

\* One more event on the log.
LEMMA WriteKeeps ==
  ASSUME NEW f, NEW m, NEW rows, NEW told, Consistent(f, m, rows, told), m.pc = "append"
  PROVE  Consistent([f EXCEPT !.frames = Append(f.frames, m.next),
                              !.first = IF f.frames = <<>> THEN m.seq + 1 ELSE f.first],
                    [m EXCEPT !.pc = "sync"], Append(rows, ReduceTransition(m.state, m.next)), told)
<1> DEFINE k == [m EXCEPT !.pc = "sync"]
           g == [f EXCEPT !.frames = Append(f.frames, m.next),
                          !.first = IF f.frames = <<>> THEN m.seq + 1 ELSE f.first]
<1>1. /\ f \in Directory /\ m \in Entry /\ Running(m) /\ Serving(m, f, rows) /\ told <= m.seq /\ told \in Nat
      /\ rows \in Seq(Row) /\ Len(rows) \in Nat /\ m.seq \in Nat /\ f.frames \in Seq(Events)
      /\ Len(f.frames) \in Nat /\ f.first \in Nat \ {0} /\ f.snap.seq \in Nat /\ f.snap.seq <= Len(rows)
  BY Shapes
<1>2. PICK new : new = ReduceTransition(m.state, m.next)
  OBVIOUS
<1>3. PICK longer : longer = Append(rows, new)
  OBVIOUS
<1>4. /\ m.seq = Len(rows) /\ m.state = StateAt(rows, m.seq) /\ m.next \in Events /\ Allowed(m.state, new)
      /\ f.dir = "log" /\ m.known \in BOOLEAN
  BY <1>1, <1>2 DEF Serving, Writing, Entry
<1>5. new \in Row
  BY <1>4 DEF Allowed
<1>6. /\ longer \in Seq(Row) /\ Len(longer) = m.seq + 1 /\ longer[m.seq + 1] = new
      /\ \A i \in 1..m.seq : longer[i] = rows[i]
  BY <1>1, <1>3, <1>4, <1>5
<1>7. \A i \in 0..m.seq : StateAt(longer, i) = StateAt(rows, i)
  BY <1>1, <1>6 DEF StateAt
<1>8. Chained(longer)
  <2>1. ASSUME NEW n \in 1..Len(longer)
        PROVE  Allowed(StateAt(longer, n - 1), longer[n])
    <3>1. CASE n = m.seq + 1
      BY <1>1, <1>4, <1>6, <1>7, <3>1
    <3>2. CASE n \in 1..m.seq
      <4>1. n - 1 \in 0..m.seq
        BY <1>1, <3>2
      <4> QED BY <1>4, <1>6, <1>7, <3>2, <4>1 DEF Consistent, Chained
    <3> QED BY <1>1, <1>6, <3>1, <3>2
  <2> QED BY <1>6, <2>1 DEF Chained
<1>9. PICK a : a = IF f.frames = <<>> THEN m.seq + 1 ELSE f.first
  OBVIOUS
<1>10. PICK longLog : longLog = Append(f.frames, m.next)
  OBVIOUS
<1>11. /\ longLog \in Seq(Events) /\ Len(longLog) = Len(f.frames) + 1 /\ longLog[Len(f.frames) + 1] = m.next
       /\ \A j \in 1..Len(f.frames) : longLog[j] = f.frames[j]
  BY <1>1, <1>4, <1>10
<1>12. a \in Nat \ {0} /\ a <= f.snap.seq + 1 /\ a + Len(f.frames) = m.seq + 1 /\ (Len(f.frames) # 0 => a = f.first)
  <2>1. CASE f.frames = <<>>
    <3>1. Top(f) = m.seq /\ Len(f.frames) = 0 /\ a = m.seq + 1 /\ f.first <= f.snap.seq + 1
      BY <1>4, <1>9, <2>1 DEF Consistent, Recorded
    <3> QED BY <1>1, <3>1 DEF Top, LastFrame
  <2>2. CASE f.frames # <<>>
    <3>1. LastFrame(f) = m.seq /\ a = f.first /\ f.first <= f.snap.seq + 1
      BY <1>4, <1>9, <2>2 DEF Consistent, Recorded
    <3> QED BY <1>1, <3>1 DEF LastFrame
  <2> QED BY <2>1, <2>2
<1>13. g = [f EXCEPT !.frames = longLog, !.first = a]
  BY <1>9, <1>10
<1>14. k \in Entry /\ k.pc = "sync" /\ k.next = m.next /\ k.seq = m.seq /\ k.state = m.state
       /\ k.known = m.known /\ k.up = m.up /\ k.poisoned = m.poisoned
  BY <1>1 DEF Entry, Writing
<1> HIDE DEF k, g
<1>15. /\ g \in Directory /\ g.snap = f.snap /\ g.first = a /\ g.frames = longLog /\ g.dir = f.dir
  BY <1>1, <1>11, <1>12, <1>13 DEF Directory
<1>16. LastFrame(g) = m.seq + 1 /\ Top(g) = m.seq + 1
  <2>1. PICK q, s, z : q = Len(f.frames) /\ s = m.seq /\ z = f.snap.seq
    OBVIOUS
  <2>2. q \in Nat /\ s \in Nat /\ z \in Nat /\ a \in Nat /\ a + q = s + 1 /\ z <= s
    BY <1>1, <1>4, <1>12, <2>1
  <2>3. LastFrame(g) = a + (q + 1) - 1
    BY <1>11, <1>15, <2>1 DEF LastFrame
  <2>4. a + (q + 1) - 1 = s + 1 /\ s + 1 > z
    BY ONLY <2>2
  <2> QED BY <1>15, <2>1, <2>3, <2>4 DEF Top
<1>17. g.snap.state = StateAt(longer, g.snap.seq)
  <2>1. f.snap.state = StateAt(rows, f.snap.seq)
    BY DEF Consistent, Recorded
  <2>2. f.snap.seq \in 0..m.seq
    BY <1>1, <1>4
  <2> QED BY <1>7, <1>15, <2>1, <2>2
<1>18. ASSUME NEW j \in 1..Len(g.frames)
       PROVE  longer[g.first + j - 1] = ReduceTransition(StateAt(longer, g.first + j - 2), g.frames[j])
  <2>1. CASE j = Len(f.frames) + 1
    <3>1. a + j - 1 = m.seq + 1 /\ a + j - 2 = m.seq /\ m.seq \in 0..m.seq
      <4>1. PICK q, s : q = Len(f.frames) /\ s = m.seq
        OBVIOUS
      <4>2. q \in Nat /\ s \in Nat /\ a \in Nat /\ a + q = s + 1 /\ j = q + 1
        BY <1>1, <1>12, <2>1, <4>1
      <4>3. a + j - 1 = s + 1 /\ a + j - 2 = s /\ s \in 0..s
        BY ONLY <4>2
      <4> QED BY <4>1, <4>3
    <3> QED BY <1>2, <1>4, <1>6, <1>7, <1>11, <1>15, <2>1, <3>1
  <2>2. CASE j \in 1..Len(f.frames)
    <3>1. a = f.first /\ rows[a + j - 1] = ReduceTransition(StateAt(rows, a + j - 2), f.frames[j])
      <4>1. rows[f.first + j - 1] = ReduceTransition(StateAt(rows, f.first + j - 2), f.frames[j])
        BY <2>2 DEF Consistent, Recorded
      <4>2. Len(f.frames) # 0
        BY <1>1, <2>2
      <4> QED BY <1>12, <4>1, <4>2
    <3>2. PICK i, p : i = a + j - 1 /\ p = a + j - 2
      OBVIOUS
    <3>3. i \in 1..m.seq /\ p \in 0..m.seq
      <4>1. PICK q : q = Len(f.frames)
        OBVIOUS
      <4>2. q \in Nat /\ j \in 1..q /\ a \in Nat \ {0} /\ a + q = m.seq + 1 /\ m.seq \in Nat
        BY <1>1, <1>12, <2>2, <4>1
      <4> QED BY ONLY <3>2, <4>2
    <3> QED BY <1>6, <1>7, <1>11, <1>15, <2>2, <3>1, <3>2, <3>3
  <2> QED BY <1>1, <1>11, <1>15, <2>1, <2>2
<1>19. Recorded(g, longer)
  BY <1>4, <1>6, <1>12, <1>15, <1>16, <1>17, <1>18 DEF Recorded
<1>20. Serving(k, g, longer)
  <2>1. StateAt(longer, m.seq) = StateAt(rows, m.seq)
    BY <1>1, <1>7
  <2>2. g.frames # <<>>
    BY <1>1, <1>11, <1>15
  <2>3. ~m.known => m.seq = 0
    BY <1>1 DEF Serving
  <2> QED BY <1>1, <1>2, <1>4, <1>6, <1>14, <1>15, <2>1, <2>2, <2>3 DEF Serving, Writing, Finishing
<1>21. k.up /\ ~k.poisoned
  BY <1>1, <1>14 DEF Running
<1>22. told <= Len(longer) /\ g.dir = "log"
  BY <1>1, <1>4, <1>6, <1>15
<1>23. Consistent(g, k, longer, told)
  BY <1>1, <1>8, <1>14, <1>19, <1>20, <1>21, <1>22 DEF Consistent
<1> QED BY <1>2, <1>3, <1>23 DEF k, g

\* The directory under a new snapshot, and with its log emptied.
Snapshotted(f, m) == [f EXCEPT !.tmp = FALSE, !.snap = [seq |-> m.seq, state |-> m.state]]
Emptied(f, m) == [f EXCEPT !.tmp = FALSE, !.frames = <<>>, !.first = m.seq + 1]

\* The snapshot of the last state records the same log.
LEMMA SnapshotRecords ==
  ASSUME NEW f, NEW m, NEW rows, NEW told, Consistent(f, m, rows, told), m.pc = "snapshot",
         NEW g, g = Snapshotted(f, m)
  PROVE  /\ Recorded(g, rows) /\ g.snap.seq = m.seq /\ g.dir = "log"
         /\ m.known /\ m.seq = Len(rows) /\ m.state = StateAt(rows, m.seq)
<1>1. /\ f \in Directory /\ m \in Entry /\ Running(m) /\ Serving(m, f, rows)
      /\ rows \in Seq(Row) /\ Len(rows) \in Nat /\ m.seq \in Nat /\ m.state \in Row /\ f.frames \in Seq(Events)
      /\ Len(f.frames) \in Nat /\ f.first \in Nat \ {0} /\ f.snap.seq \in Nat /\ f.snap.seq <= Len(rows)
  BY Shapes
<1>2. m.known /\ f.dir = "log" /\ m.seq = Len(rows) /\ m.state = StateAt(rows, m.seq)
  BY <1>1 DEF Serving, Finishing, Entry
<1>3. /\ g \in Directory /\ g.snap.seq = m.seq /\ g.snap.state = m.state /\ g.first = f.first /\ g.frames = f.frames
      /\ g.dir = f.dir
  BY <1>1 DEF Directory, Snapshotted
<1>4. Top(f) = Len(rows) /\ f.first <= f.snap.seq + 1 /\ LastFrame(g) = LastFrame(f)
  BY <1>3 DEF Consistent, Recorded, LastFrame
<1>5. Top(g) = Len(rows) /\ g.first <= g.snap.seq + 1
  <2>1. PICK l, a, z, s : l = LastFrame(f) /\ a = f.first /\ z = f.snap.seq /\ s = Len(rows)
    OBVIOUS
  <2>2. /\ l \in Int /\ a \in Nat /\ z \in Nat /\ s \in Nat /\ z <= s /\ a <= z + 1
        /\ (IF l > z THEN l ELSE z) = s
    BY <1>1, <1>4, <2>1 DEF Top, LastFrame
  <2>3. (IF l > s THEN l ELSE s) = s /\ a <= s + 1
    BY ONLY <2>2
  <2> QED BY <1>2, <1>3, <1>4, <2>1, <2>3 DEF Top
<1>6. g.frames # <<>> => LastFrame(g) = Len(rows)
  BY <1>3, <1>4 DEF Consistent, Recorded
<1>7. \A j \in 1..Len(g.frames) :
          rows[g.first + j - 1] = ReduceTransition(StateAt(rows, g.first + j - 2), g.frames[j])
  BY <1>3 DEF Consistent, Recorded
<1> QED BY <1>2, <1>3, <1>5, <1>6, <1>7 DEF Recorded

\* Under a snapshot of the last state the log may be emptied.
LEMMA TruncationRecords ==
  ASSUME NEW f, NEW m, NEW rows, NEW told, Consistent(f, m, rows, told), m.pc = "truncate",
         NEW g, g = Emptied(f, m)
  PROVE  /\ Recorded(g, rows) /\ g.snap.seq = m.seq /\ g.dir = "log"
         /\ m.known /\ m.seq = Len(rows) /\ m.state = StateAt(rows, m.seq)
<1>1. /\ f \in Directory /\ m \in Entry /\ Running(m) /\ Serving(m, f, rows)
      /\ rows \in Seq(Row) /\ Len(rows) \in Nat /\ m.seq \in Nat
  BY Shapes
<1>2. m.known /\ f.dir = "log" /\ m.seq = Len(rows) /\ m.state = StateAt(rows, m.seq) /\ f.snap.seq = m.seq
  BY <1>1 DEF Serving, Finishing, Entry
<1>3. PICK a, none : a = m.seq + 1 /\ none = <<>>
  OBVIOUS
<1>4. a \in Nat \ {0} /\ none \in Seq(Events) /\ Len(none) = 0
  BY <1>1, <1>3
<1>5. g \in Directory /\ g.snap = f.snap /\ g.first = a /\ g.frames = none /\ g.dir = f.dir
  BY <1>1, <1>3, <1>4 DEF Directory, Emptied
<1>6. LastFrame(g) = m.seq /\ Top(g) = Len(rows)
  <2>1. LastFrame(g) = a + 0 - 1
    BY <1>4, <1>5 DEF LastFrame
  <2>2. LastFrame(g) = m.seq
    BY <1>1, <1>3, <2>1
  <2> QED BY <1>1, <1>2, <1>5, <2>2 DEF Top
<1>7. f.snap.state = StateAt(rows, f.snap.seq)
  BY DEF Consistent, Recorded
<1>8. g.first <= g.snap.seq + 1
  BY <1>1, <1>2, <1>3, <1>5
<1> QED BY <1>2, <1>3, <1>4, <1>5, <1>6, <1>7, <1>8 DEF Recorded

\* A compaction step that succeeds.
LEMMA CompactKeeps ==
  ASSUME NEW f, NEW m, NEW rows, NEW told, Consistent(f, m, rows, told), m.pc \notin {"down", "idle"},
         NEW g, Recorded(g, rows), g.snap.seq = m.seq, g.dir = "log",
         m.known, m.seq = Len(rows), m.state = StateAt(rows, m.seq),
         NEW k, k = [m EXCEPT !.pc = "truncate"] \/ k = [m EXCEPT !.pc = "reply", !.count = 0]
  PROVE  Consistent(g, k, rows, told)
<1>1. m \in Entry /\ Running(m) /\ told <= m.seq /\ told \in Nat /\ m.seq \in Nat
  BY Shapes
<1>2. /\ k \in Entry /\ k.pc \in {"truncate", "reply"} /\ k.seq = m.seq /\ k.state = m.state
      /\ k.known = m.known /\ k.up = m.up /\ k.poisoned = m.poisoned
  <2>1. CASE k = [m EXCEPT !.pc = "truncate"]
    BY ONLY <1>1, <2>1 DEF Entry, Finishing
  <2>2. CASE k = [m EXCEPT !.pc = "reply", !.count = 0]
    BY ONLY <1>1, <2>2 DEF Entry, Finishing
  <2> QED BY <2>1, <2>2
<1>3. Serving(k, g, rows)
  BY <1>1, <1>2 DEF Serving, Writing, Finishing
<1>4. k.up /\ ~k.poisoned
  BY <1>1, <1>2 DEF Running
<1> QED BY <1>1, <1>2, <1>3, <1>4 DEF Consistent

\* A process that loads a directory serves the last state it records.
LEMMA LoadKeeps ==
  ASSUME NEW d, NEW rows, NEW told \in Nat, Chained(rows), Recorded(d, rows), told <= Len(rows),
         told > 0 => d.dir = "log",
         NEW failed \in Entry, ~Running(failed), failed.pc \in {"down", "idle"}, failed.pc # "down" => failed.up
  PROVE  /\ d.dir = "none" => Consistent(d, [Down EXCEPT !.up = TRUE, !.pc = "idle"], rows, told)
         /\ Loadable(d) => Consistent([d EXCEPT !.torn = FALSE], Loaded(d), rows, told)
         /\ Consistent(d, failed, rows, told)
<1>1. /\ d \in Directory /\ rows \in Seq(Row) /\ Len(rows) \in Nat /\ d.snap.seq \in Nat /\ d.first \in Nat \ {0}
      /\ Len(d.frames) \in Nat /\ Top(d) = Len(rows) /\ d.frames \in Seq(Events)
  BY DEF Recorded, Chained, Directory
<1>2. Retired \in Row /\ Len(rows) \in 0..Len(rows)
  BY <1>1 DEF Retired, Row
<1>3. ASSUME d.dir = "none"
      PROVE  Consistent(d, [Down EXCEPT !.up = TRUE, !.pc = "idle"], rows, told)
  <2>1. d.snap.seq = 0 /\ d.frames = <<>> /\ d.first <= 1
    BY <1>3 DEF Recorded
  <2>2. Len(rows) = 0
    BY <1>1, <2>1 DEF Top, LastFrame
  <2>3. PICK k : k = [Down EXCEPT !.up = TRUE, !.pc = "idle"]
    OBVIOUS
  <2>4. /\ k \in Entry /\ k.pc = "idle" /\ k.seq = 0 /\ k.state = Retired /\ k.known = FALSE /\ k.up = TRUE
        /\ k.poisoned = FALSE
    BY <1>2, <2>3 DEF Down, Entry
  <2>5. Serving(k, d, rows)
    BY <2>2, <2>4 DEF Serving, StateAt, Writing, Finishing
  <2>6. Consistent(d, k, rows, told)
    BY <2>2, <2>4, <2>5 DEF Consistent
  <2> QED BY <2>3, <2>6
<1>4. ASSUME Loadable(d)
      PROVE  Consistent([d EXCEPT !.torn = FALSE], Loaded(d), rows, told)
  <2>1. d.dir = "log"
    BY <1>4 DEF Loadable, ValidateEntryFiles
  <2>2. PICK last, g, k, top, n : last = ReplayState(d) /\ g = [d EXCEPT !.torn = FALSE] /\ k = Loaded(d)
                                  /\ top = Top(d) /\ n = Len(d.frames)
    OBVIOUS
  <2>3. last = StateAt(rows, Len(rows)) /\ last \in Row
    BY <1>2, <2>2, ReplayLast, RowsAccepted
  <2>4. k = [Down EXCEPT !.up = TRUE, !.pc = "idle", !.known = TRUE, !.seq = top, !.state = last, !.count = n]
    BY <2>2 DEF Loaded
  <2>5. /\ k \in Entry /\ k.pc = "idle" /\ k.seq = top /\ k.state = last /\ k.known = TRUE /\ k.up = TRUE
        /\ k.poisoned = FALSE
    <3>1. top \in Nat /\ n \in Nat /\ last \in Row /\ Retired \in Row
      BY <1>1, <1>2, <2>2, <2>3
    <3> QED BY ONLY <2>4, <3>1 DEF Down, Entry
  <2>6. /\ g \in Directory /\ g.snap = d.snap /\ g.first = d.first /\ g.frames = d.frames
        /\ g.dir = d.dir
    BY <1>1, <2>2 DEF Directory
  <2>7. Top(g) = Top(d) /\ LastFrame(g) = LastFrame(d)
    BY <2>6 DEF Top, LastFrame
  <2>8. Recorded(g, rows)
    BY <2>6, <2>7 DEF Recorded
  <2>9. Serving(k, g, rows)
    BY <1>1, <2>1, <2>2, <2>3, <2>5, <2>6 DEF Serving, Writing, Finishing
  <2>10. Consistent(g, k, rows, told)
    BY <1>1, <2>1, <2>2, <2>5, <2>6, <2>8, <2>9 DEF Consistent
  <2> QED BY <2>2, <2>10
<1>5. Consistent(d, failed, rows, told)
  BY DEF Consistent
<1> QED BY <1>3, <1>4, <1>5

\* Without the frame that was being written the log is the one before it.
LEMMA UnwrittenRecords ==
  ASSUME NEW f, NEW m, NEW rows, NEW told, Consistent(f, m, rows, told), m.pc = "sync", NEW torn \in BOOLEAN,
         NEW d, d = [f EXCEPT !.frames = SubSeq(f.frames, 1, Len(f.frames) - 1), !.torn = torn]
  PROVE  /\ Top(d) = Len(rows) - 1 /\ d.dir = "log"
         /\ Chained(SubSeq(rows, 1, Top(d))) /\ Recorded(d, SubSeq(rows, 1, Top(d)))
         /\ told <= Len(SubSeq(rows, 1, Top(d)))
<1>1. /\ f \in Directory /\ m \in Entry /\ Serving(m, f, rows) /\ told <= m.seq /\ told \in Nat
      /\ rows \in Seq(Row) /\ Len(rows) \in Nat /\ m.seq \in Nat /\ f.frames \in Seq(Events)
      /\ Len(f.frames) \in Nat /\ f.first \in Nat \ {0} /\ f.snap.seq \in Nat
  BY Shapes
<1>2. f.dir = "log" /\ Len(rows) = m.seq + 1 /\ f.frames # <<>> /\ f.snap.seq <= m.seq /\ LastFrame(f) = Len(rows)
  BY <1>1 DEF Serving, Consistent, Recorded
<1>3. PICK q : q = Len(f.frames) - 1
  OBVIOUS
<1>4. q \in Nat /\ q + 1 = Len(f.frames) /\ f.first + q = m.seq + 1
  <2>1. Len(f.frames) # 0
    BY <1>1, <1>2
  <2>2. PICK p, a, s : p = Len(f.frames) /\ a = f.first /\ s = m.seq
    OBVIOUS
  <2>3. p \in Nat \ {0} /\ a \in Nat /\ s \in Nat /\ a + p - 1 = s + 1 /\ q = p - 1
    BY <1>1, <1>2, <1>3, <2>1, <2>2 DEF LastFrame
  <2>4. q \in Nat /\ q + 1 = p /\ a + q = s + 1
    BY ONLY <2>3
  <2> QED BY <2>2, <2>4
<1>5. PICK short : short = SubSeq(f.frames, 1, q)
  OBVIOUS
<1>6. short \in Seq(Events) /\ Len(short) = q /\ \A j \in 1..q : short[j] = f.frames[j]
  BY <1>1, <1>4, <1>5
<1>7. d \in Directory /\ d.snap = f.snap /\ d.first = f.first /\ d.frames = short /\ d.dir = f.dir
  BY <1>1, <1>3, <1>5, <1>6 DEF Directory
<1>8. LastFrame(d) = m.seq /\ Top(d) = m.seq
  <2>1. LastFrame(d) = m.seq
    <3>1. PICK a, s : a = f.first /\ s = m.seq
      OBVIOUS
    <3>2. a \in Nat /\ q \in Nat /\ s \in Nat /\ a + q = s + 1
      BY <1>1, <1>4, <3>1
    <3>3. a + q - 1 = s
      BY ONLY <3>2
    <3> QED BY <1>6, <1>7, <3>1, <3>3 DEF LastFrame
  <2> QED BY <1>1, <1>2, <1>7, <2>1 DEF Top
<1>9. PICK before : before = SubSeq(rows, 1, m.seq)
  OBVIOUS
<1>10. before \in Seq(Row) /\ Len(before) = m.seq /\ \A i \in 1..m.seq : before[i] = rows[i]
  <2>1. PICK s : s = m.seq
    OBVIOUS
  <2>2. s \in Nat /\ s <= Len(rows) /\ rows \in Seq(Row) /\ before = SubSeq(rows, 1, s)
    BY <1>1, <1>2, <1>9, <2>1
  <2>3. before \in Seq(Row) /\ Len(before) = s /\ \A i \in 1..s : before[i] = rows[i]
    BY ONLY <2>2
  <2> QED BY <2>1, <2>3
<1>11. \A i \in 0..m.seq : StateAt(before, i) = StateAt(rows, i)
  BY <1>1, <1>10 DEF StateAt
<1>12. Chained(before)
  <2>1. ASSUME NEW n \in 1..Len(before)
        PROVE  Allowed(StateAt(before, n - 1), before[n])
    <3>1. n \in 1..m.seq /\ n - 1 \in 0..m.seq /\ n \in 1..Len(rows)
      BY <1>1, <1>2, <1>10
    <3> QED BY <1>10, <1>11, <3>1 DEF Consistent, Chained
  <2> QED BY <1>10, <2>1 DEF Chained
<1>13. d.snap.state = StateAt(before, d.snap.seq)
  <2>1. f.snap.state = StateAt(rows, f.snap.seq) /\ f.snap.seq \in 0..m.seq
    BY <1>1, <1>2 DEF Consistent, Recorded
  <2> QED BY <1>7, <1>11, <2>1
<1>14. ASSUME NEW j \in 1..Len(d.frames)
       PROVE  before[d.first + j - 1] = ReduceTransition(StateAt(before, d.first + j - 2), d.frames[j])
  <2>1. j \in 1..q /\ j \in 1..Len(f.frames)
    BY <1>1, <1>4, <1>6, <1>7
  <2>2. rows[f.first + j - 1] = ReduceTransition(StateAt(rows, f.first + j - 2), f.frames[j])
    BY <2>1 DEF Consistent, Recorded
  <2>3. PICK i, p : i = f.first + j - 1 /\ p = f.first + j - 2
    OBVIOUS
  <2>4. i \in 1..m.seq /\ p \in 0..m.seq
    <3>1. PICK a, s : a = f.first /\ s = m.seq
      OBVIOUS
    <3>2. a \in Nat \ {0} /\ q \in Nat /\ j \in 1..q /\ s \in Nat /\ a + q = s + 1 /\ i = a + j - 1 /\ p = a + j - 2
      BY <1>1, <1>4, <2>1, <2>3, <3>1
    <3>3. i \in 1..s /\ p \in 0..s
      BY ONLY <3>2
    <3> QED BY <3>1, <3>3
  <2> QED BY <1>6, <1>7, <1>10, <1>11, <2>1, <2>2, <2>3, <2>4
<1>15. d.first <= d.snap.seq + 1
  BY <1>7 DEF Consistent, Recorded
<1>16. Recorded(d, before)
  BY <1>2, <1>7, <1>8, <1>10, <1>13, <1>14, <1>15 DEF Recorded
<1>17. Top(d) = Len(rows) - 1
  BY <1>1, <1>2, <1>8
<1> QED BY <1>1, <1>2, <1>7, <1>8, <1>9, <1>10, <1>12, <1>16, <1>17

\* The events the journal's calls make of a state.
Callable(old, ev) ==
    \/ ev \in {IntentInserted, Opened, ExpectedChanged}
    \/ \E from, to \in Refs \cup {NoRef} : ev = ReferenceChanged(from, to)
    \/ \E e \in CanTransition : ev = StateChanged(e[1], e[2])
    \/ \E d \in Digests : ev = PartRecorded(d)
    \/ \E t \in Times : ev = MutationLaunched(t)
    \/ \E t \in Times : t >= old.notBefore /\ ev = ExactAbsenceObserved(t)
    \/ \E o \in Owners : ev = Claimed(o)
    \/ \E st \in TerminalStates, ref \in Refs \cup {NoRef} : ev = TerminalRetired(st, ref)

\* An event is what it was made of.
LEMMA EventShape ==
  ASSUME NEW type \in EventTypes, NEW a \in EventData, NEW b \in EventData
  PROVE  /\ Event(type, a, b) \in Events /\ Event(type, a, b).type = type
         /\ Event(type, a, b).a = a /\ Event(type, a, b).b = b
BY DEF Event, Events

\* An event that is accepted does to the state what is allowed: a verdict and a part stay,
\* an absence is observed after the launches.
LEMMA CallsAllowed ==
  ASSUME NEW old \in Row, old.absent > 0 => old.absent >= old.notBefore,
         NEW ev, Callable(old, ev), ReduceTransition(old, ev) # Rejected
  PROVE  ev \in Events /\ Allowed(old, ReduceTransition(old, ev))
<1>1. Accepts(old, ev) /\ ReduceTransition(old, ev) = Effect(old, ev)
  BY DEF ReduceTransition
<1>2. Retired \in Row /\ Retired.st = "none" /\ Retired.part = NoPart /\ Retired.absent = 0
  BY DEF Retired, Row
<1>data. NoRef \in EventData /\ "Intent" \in EventData /\ "Open" \in EventData
  BY DEF EventData, States
<1>types. /\ "IntentInserted" \in EventTypes /\ "Opened" \in EventTypes /\ "ExpectedChanged" \in EventTypes
          /\ "ReferenceChanged" \in EventTypes /\ "StateChanged" \in EventTypes /\ "PartRecorded" \in EventTypes
          /\ "MutationLaunched" \in EventTypes /\ "ExactAbsenceObserved" \in EventTypes
          /\ "Claimed" \in EventTypes /\ "TerminalRetired" \in EventTypes
  BY DEF EventTypes
<1>3. CASE ev = IntentInserted
  <2>1. ev.type = "IntentInserted" /\ ev \in Events
    BY <1>data, <1>types, <1>3, EventShape DEF IntentInserted
  <2>2. old = Retired /\ Effect(old, ev) = [Retired EXCEPT !.st = "Intent"]
    BY <1>1, <2>1 DEF Accepts, Effect
  <2>3. Allowed(old, [Retired EXCEPT !.st = "Intent"])
    BY <1>2, <2>2 DEF Allowed, TerminalStates, Row, States, Retired
  <2> QED BY <1>1, <2>1, <2>2, <2>3
<1>4. CASE ev = Opened
  <2>1. ev.type = "Opened" /\ ev \in Events
    BY <1>data, <1>types, <1>4, EventShape DEF Opened
  <2>2. old.st = "Intent" /\ Effect(old, ev) = [old EXCEPT !.st = "Open"]
    BY <1>1, <2>1 DEF Accepts, Effect
  <2>3. Allowed(old, [old EXCEPT !.st = "Open"])
    BY <2>2 DEF Allowed, TerminalStates, Row, States
  <2> QED BY <1>1, <2>1, <2>2, <2>3
<1>5. CASE ev = ExpectedChanged
  <2>1. ev.type = "ExpectedChanged" /\ ev \in Events
    BY <1>data, <1>types, <1>5, EventShape DEF ExpectedChanged
  <2>2. Effect(old, ev) = [old EXCEPT !.expected = TRUE]
    BY <2>1 DEF Effect
  <2>3. Allowed(old, [old EXCEPT !.expected = TRUE])
    BY DEF Allowed, Row
  <2> QED BY <1>1, <2>1, <2>2, <2>3
<1>6. ASSUME NEW from \in Refs \cup {NoRef}, NEW to \in Refs \cup {NoRef}, ev = ReferenceChanged(from, to)
      PROVE  ev \in Events /\ Allowed(old, ReduceTransition(old, ev))
  <2>1. ev.type = "ReferenceChanged" /\ ev.b = to /\ ev \in Events
    <3>1. from \in EventData /\ to \in EventData
      BY DEF EventData
    <3>2. ev = Event("ReferenceChanged", from, to)
      BY <1>6 DEF ReferenceChanged
    <3> QED BY ONLY <1>data, <1>types, <3>1, <3>2, EventShape
  <2>2. Effect(old, ev) = [old EXCEPT !.ref = to]
    BY <2>1 DEF Effect
  <2>3. Allowed(old, [old EXCEPT !.ref = to])
    BY DEF Allowed, Row
  <2> QED BY <1>1, <2>1, <2>2, <2>3
<1>7. ASSUME NEW e \in CanTransition, ev = StateChanged(e[1], e[2])
      PROVE  ev \in Events /\ Allowed(old, ReduceTransition(old, ev))
  <2>1. PICK a, b : a = e[1] /\ b = e[2]
    OBVIOUS
  <2>2. a \in States \ TerminalStates /\ b \in States
    BY <2>1 DEF CanTransition, States, TerminalStates
  <2>3. ev.type = "StateChanged" /\ ev.a = a /\ ev.b = b /\ ev \in Events
    <3>1. a \in EventData /\ b \in EventData
      BY <2>2 DEF EventData
    <3>2. ev = Event("StateChanged", a, b)
      BY <1>7, <2>1, <2>2 DEF StateChanged
    <3> QED BY ONLY <1>data, <1>types, <3>1, <3>2, EventShape
  <2>4. old.st = a /\ Effect(old, ev) = [old EXCEPT !.st = b, !.owner = Nobody]
    BY <1>1, <2>3 DEF Accepts, Effect
  <2>5. Allowed(old, [old EXCEPT !.st = b, !.owner = Nobody])
    BY <2>2, <2>4 DEF Allowed, Row
  <2> QED BY <1>1, <2>3, <2>4, <2>5
<1>8. ASSUME NEW d \in Digests, ev = PartRecorded(d)
      PROVE  ev \in Events /\ Allowed(old, ReduceTransition(old, ev))
  <2>1. ev.type = "PartRecorded" /\ ev.a = d /\ ev \in Events
    <3>1. d \in EventData
      BY DEF EventData
    <3>2. ev = Event("PartRecorded", d, NoRef)
      BY <1>8 DEF PartRecorded
    <3> QED BY ONLY <1>data, <1>types, <3>1, <3>2, EventShape
  <2>2. old.part \in {NoPart, d} /\ Effect(old, ev) = [old EXCEPT !.part = d]
    BY <1>1, <2>1 DEF Accepts, Effect, SamePart
  <2>3. Allowed(old, [old EXCEPT !.part = d])
    BY <2>2 DEF Allowed, Row
  <2> QED BY <1>1, <2>1, <2>2, <2>3
<1>9. ASSUME NEW t \in Times, ev = MutationLaunched(t)
      PROVE  ev \in Events /\ Allowed(old, ReduceTransition(old, ev))
  <2>1. ev.type = "MutationLaunched" /\ ev.a = t /\ ev \in Events /\ t \in Nat
    <3>1. t \in EventData /\ t \in Nat
      BY DEF EventData, Times
    <3>2. ev = Event("MutationLaunched", t, NoRef)
      BY <1>9 DEF MutationLaunched
    <3> QED BY ONLY <1>data, <1>types, <3>1, <3>2, EventShape
  <2>2. PICK w : w = Later(old.notBefore, t)
    OBVIOUS
  <2>3. w \in Nat /\ Effect(old, ev) = [old EXCEPT !.notBefore = w, !.absent = 0]
    BY <2>1, <2>2 DEF Effect, Launch, Later, Row
  <2>4. Allowed(old, [old EXCEPT !.notBefore = w, !.absent = 0])
    <3>1. PICK new : new = [old EXCEPT !.notBefore = w, !.absent = 0]
      OBVIOUS
    <3>2. new \in Row /\ new.st = old.st /\ new.part = old.part /\ new.absent = 0
      BY <2>3, <3>1 DEF Row
    <3> QED BY <3>1, <3>2 DEF Allowed
  <2> QED BY <1>1, <2>1, <2>3, <2>4
<1>10. ASSUME NEW t \in Times, t >= old.notBefore, ev = ExactAbsenceObserved(t)
       PROVE  ev \in Events /\ Allowed(old, ReduceTransition(old, ev))
  <2>1. ev.type = "ExactAbsenceObserved" /\ ev.a = t /\ ev \in Events /\ t \in Nat
    <3>1. t \in EventData /\ t \in Nat
      BY DEF EventData, Times
    <3>2. ev = Event("ExactAbsenceObserved", t, NoRef)
      BY <1>10 DEF ExactAbsenceObserved
    <3> QED BY ONLY <1>data, <1>types, <3>1, <3>2, EventShape
  <2>2. Effect(old, ev) = [old EXCEPT !.absent = t]
    BY <2>1 DEF Effect
  <2>3. Allowed(old, [old EXCEPT !.absent = t])
    BY <1>10, <2>1 DEF Allowed, Row
  <2> QED BY <1>1, <2>1, <2>2, <2>3
<1>11. ASSUME NEW o \in Owners, ev = Claimed(o)
       PROVE  ev \in Events /\ Allowed(old, ReduceTransition(old, ev))
  <2>1. ev.type = "Claimed" /\ ev.a = o /\ ev \in Events
    <3>1. o \in EventData
      BY DEF EventData
    <3>2. ev = Event("Claimed", o, NoRef)
      BY <1>11 DEF Claimed
    <3> QED BY ONLY <1>data, <1>types, <3>1, <3>2, EventShape
  <2>2. Effect(old, ev) = [old EXCEPT !.owner = o]
    BY <2>1 DEF Effect
  <2>3. Allowed(old, [old EXCEPT !.owner = o])
    BY DEF Allowed, Row
  <2> QED BY <1>1, <2>1, <2>2, <2>3
<1>12. ASSUME NEW st \in TerminalStates, NEW ref \in Refs \cup {NoRef}, ev = TerminalRetired(st, ref)
       PROVE  ev \in Events /\ Allowed(old, ReduceTransition(old, ev))
  <2>1. ev.type = "TerminalRetired" /\ ev \in Events
    <3>1. st \in EventData /\ ref \in EventData
      BY DEF EventData, TerminalStates, States
    <3>2. ev = Event("TerminalRetired", st, ref)
      BY <1>12 DEF TerminalRetired
    <3> QED BY ONLY <1>data, <1>types, <3>1, <3>2, EventShape
  <2>2. Effect(old, ev) = Retired
    BY <2>1 DEF Effect
  <2>3. Allowed(old, Retired)
    BY <1>2 DEF Allowed
  <2> QED BY <1>1, <2>1, <2>2, <2>3
<1> QED BY <1>3, <1>4, <1>5, <1>6, <1>7, <1>8, <1>9, <1>10, <1>11, <1>12 DEF Callable

\* Every call of the journal begins the append of such an event.
LEMMA CallsBegin ==
  ASSUME JournalCall
  PROVE  \E ev : Callable(mem.state, ev) /\ (CreateDirectory(ev) \/ Append1(ev))
<1>1. CASE InsertIntent
  BY <1>1 DEF InsertIntent, Callable
<1>2. CASE SetOpen
  BY <1>2 DEF SetOpen, Callable
<1>3. CASE SetExpected
  BY <1>3 DEF SetExpected, Callable
<1>4. CASE ChangeReference
  BY <1>4 DEF ChangeReference, Callable
<1>5. CASE Transition
  BY <1>5 DEF Transition, Callable
<1>6. CASE RecordPart
  BY <1>6 DEF RecordPart, Callable
<1>7. CASE RecordMutationLaunch
  BY <1>7 DEF RecordMutationLaunch, Callable
<1>8. CASE ConfirmExactAbsence
  BY <1>8 DEF ConfirmExactAbsence, Callable
<1>9. CASE ClaimReconcilable
  BY <1>9 DEF ClaimReconcilable, Callable
<1>10. CASE RetireTerminal
  BY <1>10 DEF RetireTerminal, Callable
<1> QED BY <1>1, <1>2, <1>3, <1>4, <1>5, <1>6, <1>7, <1>8, <1>9, <1>10 DEF JournalCall

\* The journal starts with no entry.
LEMMA JournalStarts ==
  ASSUME JournalInit
  PROVE  LogInv
<1>1. Retired \in Row
  BY DEF Retired, Row
<1>2. PICK none : none = <<>>
  OBVIOUS
<1>3. none \in Seq(Row) /\ none \in Seq(Events) /\ Len(none) = 0
  BY <1>2
<1>4. past \in [truth : Seq(Row), told : Nat, crashes : Nat] /\ past.truth = none /\ past.told = 0
  BY <1>2, <1>3 DEF JournalInit, LogInit
<1>5. PICK f : f = files
  OBVIOUS
<1>6. /\ f \in Directory /\ f.dir = "none" /\ f.snap.seq = 0 /\ f.snap.state = Retired /\ f.first = 1
      /\ f.frames = none
  BY <1>1, <1>2, <1>3, <1>5 DEF JournalInit, LogInit, NoSnap, Directory
<1>7. LastFrame(f) = 0 /\ Top(f) = 0
  BY <1>3, <1>6 DEF LastFrame, Top
<1>8. Chained(none) /\ Recorded(f, none)
  BY <1>2, <1>3, <1>6, <1>7 DEF Chained, Recorded, StateAt
<1>9. Down \in Entry /\ ~Running(Down) /\ Down.pc = "down"
  BY <1>1 DEF Down, Entry, Running
<1>10. Consistent(f, [Down EXCEPT !.up = TRUE, !.pc = "idle"], none, 0)
  <2>1. 0 \in Nat /\ 0 <= Len(none) /\ (0 > 0 => f.dir = "log") /\ Down.pc \in {"down", "idle"}
        /\ (Down.pc # "down" => Down.up)
    BY <1>3, <1>9
  <2> QED BY ONLY <1>6, <1>8, <1>9, <2>1, LoadKeeps
<1>11. mem = [Down EXCEPT !.up = TRUE, !.pc = "idle"]
  BY DEF JournalInit, LogInit
<1> QED BY <1>4, <1>5, <1>10, <1>11 DEF LogInv

\* Loading the directory d.
LEMMA LoadStep ==
  ASSUME NEW d, NEW rows, NEW told \in Nat, Chained(rows), Recorded(d, rows), told <= Len(rows),
         told > 0 => d.dir = "log",
         NEW failed \in Entry, ~Running(failed), failed.pc \in {"down", "idle"}, failed.pc # "down" => failed.up,
         Load(d, failed)
  PROVE  Consistent(files', mem', rows, told)
<1>1. /\ d.dir = "none" => Consistent(d, [Down EXCEPT !.up = TRUE, !.pc = "idle"], rows, told)
      /\ Loadable(d) => Consistent([d EXCEPT !.torn = FALSE], Loaded(d), rows, told)
      /\ Consistent(d, failed, rows, told)
  BY LoadKeeps
<1>2. CASE d.dir = "none"
  BY <1>1, <1>2 DEF Load
<1>3. CASE d.dir # "none" /\ Loadable(d)
  BY <1>1, <1>3 DEF Load
<1>4. CASE d.dir # "none" /\ ~Loadable(d)
  BY <1>1, <1>4 DEF Load
<1> QED BY <1>2, <1>3, <1>4

\* A directory reloaded after an unknown outcome.
LEMMA ReloadStep ==
  ASSUME NEW f, NEW m, NEW rows, NEW told, Consistent(f, m, rows, told), m.pc \notin {"down", "idle"}, m = mem,
         NEW d, NEW kept, Chained(kept), Recorded(d, kept), told <= Len(kept), d.dir = "log",
         ReloadAfterUnknown(d)
  PROVE  Consistent(files', mem', kept, told)
<1>1. m \in Entry /\ Running(m) /\ told \in Nat
  BY Shapes
<1>2. PICK k : k = [m EXCEPT !.pc = "idle", !.poisoned = TRUE]
  OBVIOUS
<1>3. k \in Entry /\ k.pc = "idle" /\ k.poisoned = TRUE /\ k.up = m.up
  BY <1>1, <1>2 DEF Entry
<1>4. ~Running(k) /\ k.up
  BY <1>1, <1>3 DEF Running
<1>5. Load(d, k)
  BY <1>2 DEF ReloadAfterUnknown
<1> QED BY <1>1, <1>3, <1>4, <1>5, LoadStep

\* Every call and every system call, failure and crash keeps the invariant.
LEMMA JournalStep ==
  ASSUME LogInv, JournalNext
  PROVE  LogInv'
<1>1. PICK f, m, rows, told : f = files /\ m = mem /\ rows = past.truth /\ told = past.told
  OBVIOUS
<1>2. Consistent(f, m, rows, told) /\ past \in [truth : Seq(Row), told : Nat, crashes : Nat]
  BY <1>1 DEF LogInv
<1>3. /\ f \in Directory /\ m \in Entry /\ rows \in Seq(Row) /\ told \in Nat /\ Len(rows) \in Nat
      /\ f.frames \in Seq(Events) /\ Len(f.frames) \in Nat /\ f.first \in Nat \ {0} /\ f.snap.seq \in Nat
      /\ f.snap.seq <= Len(rows) /\ m.seq \in Nat /\ m.state \in Row
      /\ Running(m) => Serving(m, f, rows) /\ told <= m.seq
      /\ m.pc \notin {"down", "idle"} => Running(m) /\ Serving(m, f, rows) /\ told <= m.seq
  BY <1>2, Shapes
<1>4. Chained(rows) /\ Recorded(f, rows) /\ told <= Len(rows) /\ (told > 0 => f.dir = "log") /\ Top(f) = Len(rows)
  BY <1>2 DEF Consistent, Recorded
<1>5. SubSeq(rows, 1, Len(rows)) = rows
  BY <1>3
<1>6. ASSUME UNCHANGED past, Consistent(files', mem', rows, told)
      PROVE  LogInv'
  BY <1>1, <1>2, <1>6 DEF LogInv
<1>7. CASE JournalCall
  <2>1. PICK ev : Callable(mem.state, ev) /\ (CreateDirectory(ev) \/ Append1(ev))
    BY <1>7, CallsBegin
  <2>2. Running(m) /\ m.pc = "idle" /\ Serving(m, f, rows)
    BY <1>1, <1>3, <2>1 DEF CreateDirectory, Append1, Healthy, Running
  <2>3. m.seq \in 0..Len(rows) /\ m.state = StateAt(rows, m.seq) /\ (~m.known => m.seq = 0)
    BY <1>3, <2>2 DEF Serving
  <2>4. m.state.absent > 0 => m.state.absent >= m.state.notBefore
    <3>1. CASE m.seq = 0
      BY <2>3, <3>1 DEF StateAt, Retired
    <3>2. CASE m.seq \in 1..Len(rows)
      BY <1>4, <2>3, <3>2 DEF StateAt, Chained, Allowed
    <3> QED BY <1>3, <2>3, <3>1, <3>2
  <2>5. ReduceTransition(m.state, ev) # Rejected
    BY <1>1, <2>1, <2>3 DEF CreateDirectory, Append1, StateAt
  <2>6. ev \in Events /\ Allowed(m.state, ReduceTransition(m.state, ev))
    BY <1>1, <1>3, <2>1, <2>4, <2>5, CallsAllowed
  <2>7. CASE CreateDirectory(ev)
    <3>1. PICK g : g = [f EXCEPT !.dir = IF f.dir = "none" THEN "bare" ELSE f.dir]
      OBVIOUS
    <3>2. ~m.known /\ files' = g /\ mem' = [m EXCEPT !.pc = "creating", !.next = ev] /\ UNCHANGED past
      BY <1>1, <2>7, <3>1 DEF CreateDirectory
    <3>3. g \in Directory
      BY <1>3, <3>1 DEF Directory
    <3>4. Consistent(g, [m EXCEPT !.pc = "creating", !.next = ev], rows, told)
      BY <1>2, <2>2, <2>6, <3>1, <3>2, <3>3, EventKeeps
    <3> QED BY <1>6, <3>2, <3>4
  <2>8. CASE Append1(ev)
    <3>1. m.known /\ files' = f /\ mem' = [m EXCEPT !.pc = "append", !.next = ev] /\ UNCHANGED past
      BY <1>1, <2>8 DEF Append1
    <3>2. Consistent(f, [m EXCEPT !.pc = "append", !.next = ev], rows, told)
      BY <1>2, <1>3, <2>2, <2>6, <3>1, EventKeeps
    <3> QED BY <1>6, <3>1, <3>2
  <2> QED BY <2>1, <2>7, <2>8
<1>8. CASE CreateLog
  <2>1. /\ m.pc = "creating" /\ UNCHANGED past
        /\ files' = [f EXCEPT !.dir = "log"] /\ mem' = [m EXCEPT !.pc = "append"]
    BY <1>1, <1>8 DEF CreateLog
  <2> QED BY <1>2, <1>6, <2>1, CreateKeeps
<1>9. CASE CreateLogFails \/ AppendFails
  <2>1. /\ m.pc \in {"creating", "append"} /\ UNCHANGED past
        /\ files' = f \/ (~m.known /\ files' = [f EXCEPT !.dir = "none"])
        /\ mem' = [m EXCEPT !.pc = "idle", !.next = Retired]
    BY <1>1, <1>9 DEF CreateLogFails, AppendFails
  <2>2. PICK g : g = files'
    OBVIOUS
  <2>3. g = f \/ (~m.known /\ g = [f EXCEPT !.dir = "none"])
    BY <2>1, <2>2
  <2>4. Consistent(g, [m EXCEPT !.pc = "idle", !.next = Retired], rows, told)
    BY <1>2, <2>1, <2>3, GiveUpKeeps
  <2> QED BY <1>6, <2>1, <2>2, <2>4
<1>10. CASE WriteFrame
  <2>1. /\ m.pc = "append" /\ mem' = [m EXCEPT !.pc = "sync"]
        /\ files' = [f EXCEPT !.frames = Append(f.frames, m.next),
                              !.first = IF f.frames = <<>> THEN m.seq + 1 ELSE f.first]
    BY <1>1, <1>10 DEF WriteFrame
  <2>2. PICK longer : longer = Append(rows, ReduceTransition(m.state, m.next))
    OBVIOUS
  <2>3. past' = [past EXCEPT !.truth = longer]
    BY <1>1, <1>10, <2>2 DEF WriteFrame
  <2>4. Consistent(files', mem', longer, told)
    BY <1>2, <2>1, <2>2, WriteKeeps
  <2>5. longer \in Seq(Row)
    BY <2>4 DEF Consistent, Chained
  <2>6. past' \in [truth : Seq(Row), told : Nat, crashes : Nat] /\ past'.truth = longer /\ past'.told = told
    BY <1>1, <1>2, <2>3, <2>5
  <2> QED BY <2>4, <2>6 DEF LogInv
<1>11. CASE WriteUnknown
  <2>1. m.pc = "sync"
    BY <1>1, <1>11 DEF WriteUnknown
  <2>2. PICK d : d \in {files, Unwritten(TRUE)} /\ ReloadAfterUnknown(d) /\ Reached(d)
    BY <1>11 DEF WriteUnknown
  <2>3. PICK kept : kept = SubSeq(rows, 1, Top(d))
    OBVIOUS
  <2>4. Chained(kept) /\ Recorded(d, kept) /\ told <= Len(kept) /\ d.dir = "log"
    <3>1. CASE d = files
      BY <1>1, <1>3, <1>4, <1>5, <2>1, <2>3, <3>1 DEF Serving
    <3>2. CASE d = Unwritten(TRUE)
      <4>1. d = [f EXCEPT !.frames = SubSeq(f.frames, 1, Len(f.frames) - 1), !.torn = TRUE]
        BY <1>1, <3>2 DEF Unwritten
      <4> QED BY <1>2, <2>1, <2>3, <4>1, UnwrittenRecords
    <3> QED BY <2>2, <3>1, <3>2
  <2>5. Consistent(files', mem', kept, told)
    BY <1>1, <1>2, <2>1, <2>2, <2>4, ReloadStep
  <2>6. past' = [past EXCEPT !.truth = kept] /\ kept \in Seq(Row)
    BY <1>1, <2>2, <2>3, <2>4 DEF Reached, Chained
  <2>7. past' \in [truth : Seq(Row), told : Nat, crashes : Nat] /\ past'.truth = kept /\ past'.told = told
    BY <1>1, <1>2, <2>6
  <2> QED BY <2>5, <2>7 DEF LogInv
<1>12. CASE SyncFrame
  <2>1. PICK to : to = IF mem.count + 1 >= CompactAfter THEN "snapshot" ELSE "reply"
    OBVIOUS
  <2>2. /\ m.pc = "sync" /\ UNCHANGED past /\ files' = f
        /\ mem' = [m EXCEPT !.pc = to, !.seq = m.seq + 1, !.count = m.count + 1, !.known = TRUE,
                            !.state = ReduceTransition(m.state, m.next), !.next = Retired]
    BY <1>1, <1>12, <2>1 DEF SyncFrame
  <2>3. to \in {"snapshot", "reply"}
    BY <2>1
  <2> QED BY <1>2, <1>6, <2>2, <2>3, SyncKeeps
<1>13. CASE LogReply
  <2>1. /\ m.pc = "reply" /\ past' = [past EXCEPT !.told = m.seq] /\ files' = f
        /\ mem' = [m EXCEPT !.pc = "idle"]
    BY <1>1, <1>13 DEF LogReply
  <2>2. Consistent(files', mem', rows, m.seq)
    BY <1>2, <2>1, ReplyKeeps
  <2>3. past' \in [truth : Seq(Row), told : Nat, crashes : Nat] /\ past'.truth = rows /\ past'.told = m.seq
    BY <1>1, <1>2, <1>3, <2>1
  <2> QED BY <2>2, <2>3 DEF LogInv
<1>14. CASE WriteTemporary
  <2>1. /\ m.pc \in {"snapshot", "truncate"} /\ UNCHANGED past /\ files' = [f EXCEPT !.tmp = TRUE] /\ mem' = m
    BY <1>1, <1>14 DEF WriteTemporary
  <2> QED BY <1>2, <1>6, <2>1, TemporaryKeeps
<1>15. CASE TemporaryFails
  <2>1. /\ m.pc \in {"snapshot", "truncate"} /\ UNCHANGED past /\ files' = [f EXCEPT !.tmp = FALSE]
        /\ mem' = [m EXCEPT !.pc = "reply"]
    BY <1>1, <1>15 DEF TemporaryFails
  <2>2. PICK k : k = [m EXCEPT !.pc = "reply"]
    OBVIOUS
  <2>3. Consistent([f EXCEPT !.tmp = FALSE], k, rows, told)
    BY <1>2, <2>1, <2>2, TemporaryKeeps
  <2> QED BY <1>6, <2>1, <2>2, <2>3
<1>16. CASE PublishSnapshot
  <2>1. PICK d : d = Snapshotted(f, m)
    OBVIOUS
  <2>2. /\ m.pc = "snapshot" /\ UNCHANGED past
        /\ (files' = d /\ mem' = [m EXCEPT !.pc = "truncate"]) \/ ReloadAfterUnknown(d)
    BY <1>1, <1>16, <2>1 DEF PublishSnapshot, Snapshotted
  <2>3. /\ Recorded(d, rows) /\ d.snap.seq = m.seq /\ d.dir = "log"
        /\ m.known /\ m.seq = Len(rows) /\ m.state = StateAt(rows, m.seq)
    <3>1. Consistent(f, m, rows, told) /\ m.pc = "snapshot"
      BY <1>2, <2>2
    <3> QED BY ONLY <2>1, <3>1, SnapshotRecords
  <2>4. CASE files' = d /\ mem' = [m EXCEPT !.pc = "truncate"]
    <3>1. PICK k : k = [m EXCEPT !.pc = "truncate"]
      OBVIOUS
    <3>2. Consistent(d, k, rows, told)
      BY <1>2, <2>2, <2>3, <3>1, CompactKeeps
    <3> QED BY <1>6, <2>2, <2>4, <3>1, <3>2
  <2>5. CASE ReloadAfterUnknown(d)
    <3>1. Consistent(files', mem', rows, told)
      BY <1>1, <1>2, <1>4, <2>2, <2>3, <2>5, ReloadStep
    <3> QED BY <1>6, <2>2, <3>1
  <2> QED BY <2>2, <2>4, <2>5
<1>17. CASE TruncateLog
  <2>1. PICK d : d = Emptied(f, m)
    OBVIOUS
  <2>2. /\ m.pc = "truncate" /\ UNCHANGED past
        /\ (files' = d /\ mem' = [m EXCEPT !.pc = "reply", !.count = 0]) \/ ReloadAfterUnknown(d)
    BY <1>1, <1>17, <2>1 DEF TruncateLog, Emptied
  <2>3. /\ Recorded(d, rows) /\ d.snap.seq = m.seq /\ d.dir = "log"
        /\ m.known /\ m.seq = Len(rows) /\ m.state = StateAt(rows, m.seq)
    <3>1. Consistent(f, m, rows, told) /\ m.pc = "truncate"
      BY <1>2, <2>2
    <3> QED BY ONLY <2>1, <3>1, TruncationRecords
  <2>4. CASE files' = d /\ mem' = [m EXCEPT !.pc = "reply", !.count = 0]
    <3>1. PICK k : k = [m EXCEPT !.pc = "reply", !.count = 0]
      OBVIOUS
    <3>2. Consistent(d, k, rows, told)
      BY <1>2, <2>2, <2>3, <3>1, CompactKeeps
    <3> QED BY <1>6, <2>2, <2>4, <3>1, <3>2
  <2>5. CASE ReloadAfterUnknown(d)
    <3>1. Consistent(files', mem', rows, told)
      BY <1>1, <1>2, <1>4, <2>2, <2>3, <2>5, ReloadStep
    <3> QED BY <1>6, <2>2, <3>1
  <2> QED BY <2>2, <2>4, <2>5
<1>18. CASE LogCrash
  <2>1. PICK d : /\ d \in {files} \cup IF mem.pc = "sync" THEN {Unwritten(TRUE), Unwritten(FALSE)} ELSE {}
                 /\ files' = d
                 /\ past' = [past EXCEPT !.crashes = @ + 1, !.truth = SubSeq(@, 1, Top(d))]
    BY <1>18 DEF LogCrash
  <2>2. mem' = Down
    BY <1>18 DEF LogCrash
  <2>3. PICK kept : kept = SubSeq(rows, 1, Top(d))
    OBVIOUS
  <2>4. Chained(kept) /\ Recorded(d, kept) /\ told <= Len(kept) /\ (told > 0 => d.dir = "log")
    <3>1. CASE d = files
      BY <1>1, <1>4, <1>5, <2>3, <3>1
    <3>2. ASSUME NEW torn \in BOOLEAN, m.pc = "sync", d = Unwritten(torn)
          PROVE  Chained(kept) /\ Recorded(d, kept) /\ told <= Len(kept) /\ d.dir = "log"
      <4>1. d = [f EXCEPT !.frames = SubSeq(f.frames, 1, Len(f.frames) - 1), !.torn = torn]
        BY <1>1, <3>2 DEF Unwritten
      <4> QED BY <1>2, <2>3, <3>2, <4>1, UnwrittenRecords
    <3>3. d = files \/ (m.pc = "sync" /\ (d = Unwritten(TRUE) \/ d = Unwritten(FALSE)))
      BY <1>1, <2>1
    <3> QED BY <3>1, <3>2, <3>3
  <2>5. Down \in Entry /\ ~Running(Down) /\ Down.pc = "down"
    BY DEF Down, Entry, Running, Row, Retired
  <2>6. Consistent(d, Down, kept, told)
    BY <1>3, <2>4, <2>5, LoadKeeps
  <2>7. kept \in Seq(Row)
    BY <2>4 DEF Chained
  <2>8. past' \in [truth : Seq(Row), told : Nat, crashes : Nat] /\ past'.truth = kept /\ past'.told = told
    <3>1. PICK n : n = past.crashes + 1
      OBVIOUS
    <3>2. past' = [past EXCEPT !.crashes = n, !.truth = kept] /\ n \in Nat
      BY <1>1, <1>2, <2>1, <2>3, <3>1
    <3> QED BY <1>1, <1>2, <2>7, <3>2
  <2> QED BY <2>1, <2>2, <2>6, <2>8 DEF LogInv
<1>19. CASE Restart
  <2>1. Down \in Entry /\ ~Running(Down) /\ Down.pc = "down"
    BY DEF Down, Entry, Running, Row, Retired
  <2>2. Load(f, Down) /\ UNCHANGED past
    BY <1>1, <1>19 DEF Restart
  <2>3. Consistent(files', mem', rows, told)
    BY <1>3, <1>4, <2>1, <2>2, LoadStep
  <2> QED BY <1>6, <2>2, <2>3
<1> QED BY <1>7, <1>8, <1>9, <1>10, <1>11, <1>12, <1>13, <1>14, <1>15, <1>16, <1>17, <1>18, <1>19
        DEF JournalNext, LogStep

\* What the invariant says of the journal.
LEMMA JournalExact ==
  ASSUME LogInv
  PROVE  JournalReplays
<1>1. PICK f, m, rows, told : f = files /\ m = mem /\ rows = past.truth /\ told = past.told
  OBVIOUS
<1>2. Consistent(f, m, rows, told)
  BY <1>1 DEF LogInv
<1>3. /\ f \in Directory /\ m \in Entry /\ rows \in Seq(Row) /\ told \in Nat /\ Len(rows) \in Nat
      /\ Len(f.frames) \in Nat /\ f.first \in Nat \ {0} /\ f.snap.seq \in Nat /\ m.seq \in Nat
      /\ Running(m) => Serving(m, f, rows) /\ told <= m.seq
  BY <1>2, Shapes
<1>4. Chained(rows) /\ told <= Len(rows) /\ (told > 0 => f.dir = "log") /\ Top(f) = Len(rows)
      /\ f.first <= f.snap.seq + 1
  BY <1>2 DEF Consistent, Recorded
<1>5. ReplayExact
  <2>1. ASSUME Healthy, mem.known
        PROVE  /\ mem.seq >= past.told /\ mem.seq = Len(past.truth)
               /\ mem.state = IF mem.seq = 0 THEN Retired ELSE past.truth[mem.seq]
    <3>1. Running(m) /\ m.pc = "idle"
      BY <1>1, <2>1 DEF Healthy, Running
    <3>2. told <= m.seq /\ m.seq = Len(rows) /\ m.state = StateAt(rows, m.seq)
      BY <1>3, <3>1 DEF Serving
    <3> QED BY <1>1, <1>3, <3>2 DEF StateAt
  <2> QED BY <2>1 DEF ReplayExact
<1>6. AcknowledgedOnDisk
  <2>1. f.snap.seq >= told \/ LastFrame(f) >= told
    BY <1>3, <1>4 DEF Top, LastFrame
  <2> QED BY <1>1, <1>4, <2>1 DEF AcknowledgedOnDisk
<1>7. RecordsFinal
  <2>1. ASSUME NEW i \in 1..(Len(rows) - 1), rows[i + 1] # Retired
        PROVE  /\ rows[i].st \in TerminalStates => rows[i + 1].st = rows[i].st
               /\ rows[i].part # NoPart => rows[i + 1].part = rows[i].part
    <3>1. PICK n : n = i + 1
      OBVIOUS
    <3>2. n \in 1..Len(rows) /\ n - 1 = i /\ i # 0
      BY <1>3, <3>1
    <3>3. Allowed(StateAt(rows, n - 1), rows[n])
      BY <1>4, <3>2 DEF Chained
    <3> QED BY <2>1, <3>1, <3>2, <3>3 DEF Allowed, StateAt
  <2> QED BY <1>1, <2>1 DEF RecordsFinal
<1>8. AbsenceOutlastsLaunches
  BY <1>1, <1>4 DEF AbsenceOutlastsLaunches, Chained, Allowed
<1> QED BY <1>5, <1>6, <1>7, <1>8 DEF JournalReplays

\* The invariant holds of every run of the journal.
THEOREM JournalInvariant == JournalSpec => []LogInv
<1>1. LogInv /\ UNCHANGED journalVars => LogInv'
  <2>1. LogInv /\ UNCHANGED journalVars => files' = files /\ mem' = mem /\ past' = past
    BY DEF journalVars
  <2> QED BY <2>1 DEF LogInv
<1>2. LogInv /\ [JournalNext]_journalVars => LogInv'
  BY <1>1, JournalStep
<1> QED BY <1>2, JournalStarts, PTL DEF JournalSpec

\* Whatever failed syncs, interrupted compactions, crashes and restarts happen, the journal
\* serves what its acknowledged events add up to, and a recorded verdict, part or absence
\* is final.
THEOREM JournalKeepsRecords == JournalSpec => []JournalReplays
BY JournalInvariant, JournalExact, PTL
=============================================================================
