------------------------ MODULE PipelineSessionProofs ------------------------
(***************************************************************************)
(* A session that returned to its caller holds neither guest memory nor a  *)
(* job, and the executor's budget counts exactly the permits held, for any *)
(* number of sessions, threads, queue slots and units of memory.           *)
(*                                                                         *)
(* The argument: a permit is held exactly while its job is pending or      *)
(* running; a task ends only after its job ended or was taken back; and a  *)
(* queued job is in the queue once, pending or taken back, so that a       *)
(* thread never starts a job whose permit is gone.                         *)
(*                                                                         *)
(* The second half is about credentials: what a dashboard caller was told  *)
(* decides what later requests meet, for any number of keys, tokens,       *)
(* calls, requests, faults and restarts.                                   *)
(***************************************************************************)
EXTENDS PipelineSession, CredentialStore, FiniteSetTheorems, TLAPS

CallerStates == {"idle", "open", "returned", "dropped"} \cup Waiting
Tasks == {"none", "reserve", "send", "receive", "drain", "ended"}
Jobs == {"none", "pending", "ended", "void"} \cup Running

Types ==
    /\ caller \in [Sessions -> CallerStates] /\ task \in [Sessions -> Tasks] /\ job \in [Sessions -> Jobs]
    /\ permit \in [Sessions -> BOOLEAN] /\ used \in Nat /\ queue \in Seq(Sessions)

\* The budget counts the permits held.
Holders == {s \in Sessions : permit[s]}
Counted == IsFiniteSet(Holders) /\ used = Cardinality(Holders) /\ used <= MemoryBudget

\* A permit is held while the job may use memory.
Permitted(s) == permit[s] <=> job[s] \in {"pending"} \cup Running

\* A task follows its job.
Follows(s) ==
    /\ caller[s] = "idle" => task[s] = "none"
    /\ task[s] \in {"none", "reserve"} => job[s] = "none"
    /\ task[s] = "send" => job[s] = "pending"
    /\ task[s] = "receive" => job[s] \in {"pending", "ended"} \cup Running
    /\ task[s] = "drain" => job[s] \in {"ended"} \cup Running
    /\ task[s] = "ended" => job[s] \in {"ended", "void"}
    /\ caller[s] = "returned" => task[s] = "ended"
    /\ Permitted(s)

\* A queued job is in the queue once, and has not begun.
Queued ==
    /\ \A i \in 1..Len(queue) : task[queue[i]] \in {"receive", "ended"} /\ job[queue[i]] \in {"pending", "void"}
    /\ \A i, j \in 1..Len(queue) : queue[i] = queue[j] => i = j

\* The inductive invariant.
SessionInv == Types /\ Counted /\ Queued /\ \A s \in Sessions : Follows(s)

-----------------------------------------------------------------------------
(* Lemmas                                                                  *)

\* Nothing of another session's caller, task, job and permit changes.
Alone(s) ==
    \A t \in Sessions : t # s =>
        caller'[t] = caller[t] /\ task'[t] = task[t] /\ job'[t] = job[t] /\ permit'[t] = permit[t]

\* Updating one session.
LEMMA OneSet ==
    ASSUME NEW S, NEW f \in [Sessions -> S], NEW s \in Sessions, NEW v \in S
    PROVE  /\ Set(f, s, v) \in [Sessions -> S] /\ Set(f, s, v)[s] = v
           /\ \A t \in Sessions : t # s => Set(f, s, v)[t] = f[t]
BY DEF Set

\* A step of one session that leaves queue and permits alone.
LEMMA QuietStep ==
    ASSUME SessionInv, NEW s \in Sessions, Alone(s), Types', UNCHANGED <<permit, used, queue>>, Follows(s)',
           \/ task'[s] \in {"receive", "ended"} /\ job'[s] \in {"pending", "void"}
           \/ \A i \in 1..Len(queue) : queue[i] # s
    PROVE  SessionInv'
<1>1. Counted'
  BY DEF SessionInv, Counted, Holders
<1>2. Queued'
  <2>1. \A i \in 1..Len(queue) : queue[i] \in Sessions
    BY DEF SessionInv, Types
  <2> QED BY <2>1 DEF SessionInv, Queued, Alone
<1>3. \A t \in Sessions : t # s => Follows(t)'
  BY DEF SessionInv, Follows, Permitted, Alone
<1> QED BY <1>1, <1>2, <1>3 DEF SessionInv

\* A step that only moves a caller.
LEMMA CallerStep ==
    ASSUME SessionInv, NEW s \in Sessions, NEW c \in CallerStates, caller[s] # "idle", caller' = Set(caller, s, c),
           c # "idle", c = "returned" => task[s] = "ended",
           UNCHANGED <<task, job, permit, used, queue>>
    PROVE  SessionInv'
<1>1. /\ caller' \in [Sessions -> CallerStates] /\ caller'[s] = c
      /\ \A t \in Sessions : t # s => caller'[t] = caller[t]
  <2>1. caller \in [Sessions -> CallerStates]
    BY DEF SessionInv, Types
  <2> QED BY <2>1 DEF Set
<1>2. Types'
  BY <1>1 DEF SessionInv, Types
<1>3. \A t \in Sessions : Permitted(t)'
  <2>1. permit' = permit /\ job' = job
    OBVIOUS
  <2>2. \A t \in Sessions : Permitted(t)
    BY DEF SessionInv, Follows
  <2> QED BY <2>1, <2>2 DEF Permitted
<1>4. \A t \in Sessions : Follows(t)'
  BY <1>1, <1>3 DEF SessionInv, Follows
<1> QED BY <1>2, <1>4 DEF SessionInv, Counted, Holders, Queued

\* A running job moves on.
LEMMA JobStep ==
    ASSUME SessionInv, NEW s \in Sessions, NEW j \in Running, job[s] \in Running, job' = Set(job, s, j),
           UNCHANGED <<caller, task, permit, used, queue>>
    PROVE  SessionInv'
<1>1. /\ job' \in [Sessions -> Jobs] /\ job'[s] = j /\ \A t \in Sessions : t # s => job'[t] = job[t]
  <2>1. j \in Jobs
    BY DEF Jobs
  <2>2. job \in [Sessions -> Jobs]
    BY DEF SessionInv, Types
  <2> QED BY <2>1, <2>2, OneSet
<1>2. Types' /\ Alone(s)
  BY <1>1 DEF SessionInv, Types, Alone
<1>3. Follows(s)'
  <2>1. Permitted(s)'
    BY <1>1 DEF SessionInv, Follows, Permitted
  <2> QED BY <1>1, <2>1 DEF SessionInv, Follows, Running
<1>4. \A i \in 1..Len(queue) : queue[i] # s
  BY DEF SessionInv, Queued, Running
<1> QED BY <1>2, <1>3, <1>4, QuietStep

\* A permit is taken, or given back.
LEMMA PermitTaken ==
    ASSUME Types, Counted, NEW s \in Sessions, ~permit[s], used < MemoryBudget,
           permit' = Set(permit, s, TRUE), used' = used + 1
    PROVE  Counted' /\ permit' \in [Sessions -> BOOLEAN] /\ permit'[s] /\ used' \in Nat
           /\ \A t \in Sessions : t # s => permit'[t] = permit[t]
<1>1. permit' \in [Sessions -> BOOLEAN] /\ permit'[s] = TRUE /\ \A t \in Sessions : t # s => permit'[t] = permit[t]
  BY DEF Set, Types
<1>2. Holders' = Holders \cup {s} /\ s \notin Holders
  BY <1>1 DEF Holders
<1>3. IsFiniteSet(Holders') /\ Cardinality(Holders') = Cardinality(Holders) + 1
  BY <1>2, FS_AddElement DEF Counted
<1>4. used = Cardinality(Holders) /\ used \in Nat
  BY DEF Types, Counted
<1>5. Counted' /\ used' \in Nat
  BY <1>3, <1>4, MemoryBudgetAssumption DEF Counted
<1> QED BY <1>1, <1>5

\* Dropping a permit gives back exactly its share of the budget.
LEMMA PermitReturned ==
    ASSUME Types, Counted, NEW s \in Sessions, permit[s],
           permit' = Set(permit, s, FALSE), used' = used - 1
    PROVE  Counted' /\ permit' \in [Sessions -> BOOLEAN] /\ ~permit'[s] /\ used' \in Nat
           /\ \A t \in Sessions : t # s => permit'[t] = permit[t]
<1>1. permit' \in [Sessions -> BOOLEAN] /\ permit'[s] = FALSE /\ \A t \in Sessions : t # s => permit'[t] = permit[t]
  BY DEF Set, Types
<1>2. Holders' = Holders \ {s} /\ s \in Holders
  BY <1>1 DEF Holders
<1>3. IsFiniteSet(Holders') /\ Cardinality(Holders') = Cardinality(Holders) - 1
  BY <1>2, FS_RemoveElement DEF Counted
<1>4. used' \in Nat
  BY <1>3, FS_CardinalityType DEF Counted
<1>5. Counted'
  BY <1>3, <1>4, MemoryBudgetAssumption DEF Types, Counted
<1> QED BY <1>1, <1>4, <1>5

\* A step of one session that leaves the queue alone.
LEMMA PermitStep ==
    ASSUME SessionInv, NEW s \in Sessions, Alone(s), Types', Counted', UNCHANGED queue, Follows(s)',
           \/ task'[s] \in {"receive", "ended"} /\ job'[s] \in {"pending", "void"}
           \/ \A i \in 1..Len(queue) : queue[i] # s
    PROVE  SessionInv'
<1>1. Queued'
  <2>1. \A i \in 1..Len(queue) : queue[i] \in Sessions
    BY DEF SessionInv, Types
  <2> QED BY <2>1 DEF SessionInv, Queued, Alone
<1>2. \A t \in Sessions : t # s => Follows(t)'
  BY DEF SessionInv, Follows, Permitted, Alone
<1> QED BY <1>1, <1>2 DEF SessionInv

-----------------------------------------------------------------------------
(* The executor                                                            *)

\* Reserving memory: all of the session's budget or none.
LEMMA ReserveKeeps ==
    ASSUME SessionInv, NEW s \in Sessions, TaskReserve(s)
    PROVE  SessionInv'
<1>0. /\ Types /\ Counted /\ Follows(s) /\ task[s] = "reserve" /\ UNCHANGED <<caller, queue>>
      /\ task \in [Sessions -> Tasks] /\ job \in [Sessions -> Jobs]
  BY DEF SessionInv, Types, TaskReserve
<1>1. job[s] = "none" /\ ~permit[s] /\ \A i \in 1..Len(queue) : queue[i] # s
  BY <1>0 DEF SessionInv, Follows, Permitted, Running, Queued
<1>2. CASE task' = Set(task, s, "ended") /\ job' = Set(job, s, "void") /\ UNCHANGED <<permit, used>>
  <2>1. /\ task' \in [Sessions -> Tasks] /\ task'[s] = "ended" /\ \A t \in Sessions : t # s => task'[t] = task[t]
    BY <1>0, <1>2 DEF Set, Tasks
  <2>2. /\ job' \in [Sessions -> Jobs] /\ job'[s] = "void" /\ \A t \in Sessions : t # s => job'[t] = job[t]
    BY <1>0, <1>2 DEF Set, Jobs
  <2>3. Types' /\ Alone(s)
    BY <1>0, <1>2, <2>1, <2>2 DEF Types, Alone
  <2>4. Permitted(s)'
    BY <1>1, <1>2, <2>2 DEF Permitted, Running
  <2>5. Follows(s)'
    BY <1>0, <2>1, <2>2, <2>4 DEF Follows
  <2> QED BY <1>0, <1>1, <1>2, <2>3, <2>5, QuietStep
<1>3. CASE /\ used < MemoryBudget /\ used' = used + 1 /\ permit' = Set(permit, s, TRUE)
           /\ job' = Set(job, s, "pending") /\ task' = Set(task, s, "send")
  <2>1. /\ task' \in [Sessions -> Tasks] /\ task'[s] = "send" /\ \A t \in Sessions : t # s => task'[t] = task[t]
    BY <1>0, <1>3 DEF Set, Tasks
  <2>2. /\ job' \in [Sessions -> Jobs] /\ job'[s] = "pending" /\ \A t \in Sessions : t # s => job'[t] = job[t]
    BY <1>0, <1>3 DEF Set, Jobs
  <2>3. Counted' /\ permit' \in [Sessions -> BOOLEAN] /\ permit'[s] /\ used' \in Nat
        /\ \A t \in Sessions : t # s => permit'[t] = permit[t]
    BY <1>0, <1>1, <1>3, PermitTaken
  <2>4. Types' /\ Alone(s)
    BY <1>0, <2>1, <2>2, <2>3 DEF Types, Alone
  <2>5. Permitted(s)'
    BY <2>2, <2>3 DEF Permitted
  <2>6. Follows(s)'
    BY <1>0, <2>1, <2>2, <2>5 DEF Follows
  <2> QED BY <1>0, <1>1, <2>3, <2>4, <2>6, PermitStep
<1> QED BY <1>2, <1>3 DEF TaskReserve

\* A job that has not begun is taken back and its task ends.
LEMMA TakenBack ==
    ASSUME SessionInv, NEW s \in Sessions, job[s] = "pending", TakePending(s), task' = Set(task, s, "ended"),
           UNCHANGED <<caller, queue>>, task[s] # "none"
    PROVE  SessionInv'
<1>0. /\ Types /\ Counted /\ Follows(s) /\ task \in [Sessions -> Tasks] /\ job \in [Sessions -> Jobs]
      /\ job' = Set(job, s, "void") /\ permit' = Set(permit, s, FALSE) /\ used' = used - 1
  BY DEF SessionInv, Types, TakePending
<1>1. permit[s]
  BY <1>0 DEF Follows, Permitted
<1>2. /\ task' \in [Sessions -> Tasks] /\ task'[s] = "ended" /\ \A t \in Sessions : t # s => task'[t] = task[t]
  BY <1>0 DEF Set, Tasks
<1>3. /\ job' \in [Sessions -> Jobs] /\ job'[s] = "void" /\ \A t \in Sessions : t # s => job'[t] = job[t]
  BY <1>0 DEF Set, Jobs
<1>4. Counted' /\ permit' \in [Sessions -> BOOLEAN] /\ ~permit'[s] /\ used' \in Nat
      /\ \A t \in Sessions : t # s => permit'[t] = permit[t]
  BY <1>0, <1>1, PermitReturned
<1>5. Types' /\ Alone(s)
  BY <1>0, <1>2, <1>3, <1>4 DEF Types, Alone
<1>6. Permitted(s)'
  BY <1>3, <1>4 DEF Permitted, Running
<1>7. Follows(s)'
  BY <1>0, <1>2, <1>3, <1>6 DEF Follows
<1> QED BY <1>2, <1>3, <1>4, <1>5, <1>7, PermitStep

\* Queueing the job, or giving the permit back when nobody takes it.
LEMMA SendKeeps ==
    ASSUME SessionInv, NEW s \in Sessions, TaskSend(s)
    PROVE  SessionInv'
<1>0. /\ Types /\ Follows(s) /\ task[s] = "send" /\ job[s] = "pending" /\ UNCHANGED caller
      /\ task \in [Sessions -> Tasks] /\ queue \in Seq(Sessions)
  BY DEF SessionInv, Types, Follows, TaskSend
<1>1. CASE queue' = Append(queue, s) /\ task' = Set(task, s, "receive") /\ UNCHANGED <<job, permit, used>>
  <2>1. /\ task' \in [Sessions -> Tasks] /\ task'[s] = "receive" /\ \A t \in Sessions : t # s => task'[t] = task[t]
    BY <1>0, <1>1 DEF Set, Tasks
  <2>2. /\ queue' \in Seq(Sessions) /\ Len(queue') = Len(queue) + 1 /\ queue'[Len(queue) + 1] = s
        /\ \A i \in 1..Len(queue) : queue'[i] = queue[i]
    BY <1>0, <1>1
  <2>3. \A i \in 1..Len(queue) : queue[i] # s /\ queue[i] \in Sessions
    BY <1>0 DEF SessionInv, Queued
  <2>4. Types'
    BY <1>0, <1>1, <2>1, <2>2 DEF Types
  <2>5. Queued'
    <3>1. ASSUME NEW i \in 1..Len(queue')
          PROVE  task'[queue'[i]] \in {"receive", "ended"} /\ job'[queue'[i]] \in {"pending", "void"}
      <4>1. CASE i = Len(queue) + 1
        BY <1>0, <1>1, <2>1, <2>2, <4>1
      <4>2. CASE i \in 1..Len(queue)
        BY <1>1, <2>1, <2>2, <2>3, <4>2 DEF SessionInv, Queued
      <4> QED BY <1>0, <2>2, <4>1, <4>2
    <3>2. ASSUME NEW i \in 1..Len(queue'), NEW j \in 1..Len(queue'), queue'[i] = queue'[j]
          PROVE  i = j
      <4>1. CASE i \in 1..Len(queue) /\ j \in 1..Len(queue)
        BY <2>2, <3>2, <4>1 DEF SessionInv, Queued
      <4>2. CASE i = Len(queue) + 1 \/ j = Len(queue) + 1
        BY <1>0, <2>2, <2>3, <3>2, <4>2
      <4> QED BY <1>0, <2>2, <4>1, <4>2
    <3> QED BY <3>1, <3>2 DEF Queued
  <2>6. Counted'
    BY <1>1 DEF SessionInv, Counted, Holders
  <2>7. \A t \in Sessions : Follows(t)'
    <3>1. \A t \in Sessions : Permitted(t)'
      <4>1. permit' = permit /\ job' = job
        BY <1>1
      <4>2. \A t \in Sessions : Permitted(t)
        BY DEF SessionInv, Follows
      <4> QED BY <4>1, <4>2 DEF Permitted
    <3> QED BY <1>0, <1>1, <2>1, <3>1 DEF SessionInv, Follows
  <2> QED BY <2>4, <2>5, <2>6, <2>7 DEF SessionInv
<1>2. CASE TakePending(s) /\ task' = Set(task, s, "ended") /\ UNCHANGED queue
  BY <1>0, <1>2, TakenBack
<1> QED BY <1>1, <1>2 DEF TaskSend

\* The blocking task ends only when its job is over.
LEMMA ReceiveKeeps ==
    ASSUME SessionInv, NEW s \in Sessions, TaskReceive(s) \/ TaskDrain(s)
    PROVE  SessionInv'
<1>0. /\ Types /\ Follows(s) /\ task[s] \in {"receive", "drain"} /\ UNCHANGED <<caller, queue>>
      /\ task \in [Sessions -> Tasks]
  BY DEF SessionInv, Types, TaskReceive, TaskDrain
<1>1. CASE job[s] = "pending" /\ TakePending(s) /\ task' = Set(task, s, "ended")
  BY <1>0, <1>1, TakenBack
<1>2. ASSUME NEW k \in {"drain", "ended"}, task' = Set(task, s, k), UNCHANGED <<job, permit, used>>,
             job[s] # "pending", k = "ended" => job[s] = "ended"
      PROVE  SessionInv'
  <2>1. /\ task' \in [Sessions -> Tasks] /\ task'[s] = k /\ \A t \in Sessions : t # s => task'[t] = task[t]
    BY <1>0, <1>2 DEF Set, Tasks
  <2>2. Types' /\ Alone(s)
    BY <1>0, <1>2, <2>1 DEF Types, Alone
  <2>3. job[s] \in {"ended"} \cup Running
    BY <1>0, <1>2 DEF Follows
  <2>4. \A i \in 1..Len(queue) : queue[i] # s
    BY <2>3 DEF SessionInv, Queued, Running
  <2>5. Permitted(s)'
    <3>1. permit' = permit /\ job' = job
      BY <1>2
    <3> QED BY <1>0, <3>1 DEF Follows, Permitted
  <2>6. Follows(s)'
    BY <1>0, <1>2, <2>1, <2>3, <2>5 DEF Follows
  <2> QED BY <1>0, <1>2, <2>2, <2>4, <2>6, QuietStep
<1> QED BY <1>1, <1>2 DEF TaskReceive, TaskDrain

\* A worker thread takes the job at the head of the queue.
LEMMA TakeKeeps ==
    ASSUME SessionInv, WorkerTake
    PROVE  SessionInv'
<1>0. /\ Types /\ Counted /\ queue \in Seq(Sessions) /\ queue # <<>> /\ job \in [Sessions -> Jobs]
      /\ UNCHANGED <<caller, task, permit, used>> /\ queue' = Tail(queue)
  BY DEF SessionInv, Types, WorkerTake
<1>1. PICK s \in Sessions : s = Head(queue)
  BY <1>0
<1>2. /\ Len(queue) >= 1 /\ s = queue[1] /\ 1 \in 1..Len(queue) /\ Len(queue) \in Nat
  BY <1>0, <1>1
<1>3. /\ queue' \in Seq(Sessions) /\ Len(queue') = Len(queue) - 1
      /\ \A i \in 1..Len(queue') : queue'[i] = queue[i + 1] /\ i + 1 \in 1..Len(queue) /\ i + 1 # 1
  BY <1>0, <1>2
<1>4. \A i \in 1..Len(queue') : queue'[i] # s /\ queue'[i] \in Sessions
  BY <1>2, <1>3 DEF SessionInv, Queued
<1>5. task[s] \in {"receive", "ended"} /\ job[s] \in {"pending", "void"} /\ Follows(s)
  BY <1>2 DEF SessionInv, Queued
<1>6. /\ job' \in [Sessions -> Jobs] /\ \A t \in Sessions : t # s => job'[t] = job[t]
      /\ \/ job[s] = "void" /\ job'[s] = "void"
         \/ job[s] = "pending" /\ job'[s] = "start"
  <2>1. CASE job[s] = "void" /\ job' = job
    BY <1>0, <2>1
  <2>2. CASE job[s] # "void" /\ job' = Set(job, s, "start")
    BY <1>0, <1>5, <2>2 DEF Set, Jobs, Running
  <2> QED BY <1>1, <2>1, <2>2 DEF WorkerTake
<1>7. Types'
  BY <1>0, <1>3, <1>6 DEF Types
<1>8. Queued'
  <2>1. \A i \in 1..Len(queue') : task'[queue'[i]] \in {"receive", "ended"} /\ job'[queue'[i]] \in {"pending", "void"}
    BY <1>0, <1>3, <1>4, <1>6 DEF SessionInv, Queued
  <2>2. ASSUME NEW i \in 1..Len(queue'), NEW j \in 1..Len(queue'), queue'[i] = queue'[j]
        PROVE  i = j
    <3>1. i + 1 = j + 1
      BY <1>3, <2>2 DEF SessionInv, Queued
    <3> QED BY <3>1
  <2> QED BY <2>1, <2>2 DEF Queued
<1>9. \A t \in Sessions : Follows(t)'
  <2>1. permit' = permit /\ task' = task /\ caller' = caller
    BY <1>0
  <2>2. ASSUME NEW t \in Sessions, t # s
        PROVE  Follows(t)'
    <3>1. Permitted(t)'
      BY <1>6, <2>1, <2>2 DEF SessionInv, Follows, Permitted
    <3> QED BY <1>6, <2>1, <2>2, <3>1 DEF SessionInv, Follows
  <2>3. Follows(s)'
    <3>1. Permitted(s)'
      BY <1>5, <1>6, <2>1 DEF Follows, Permitted, Running
    <3> QED BY <1>5, <1>6, <2>1, <3>1 DEF Follows, Running
  <2> QED BY <2>2, <2>3
<1>10. Counted'
  BY <1>0 DEF Counted, Holders
<1> QED BY <1>7, <1>8, <1>9, <1>10 DEF SessionInv

\* A job that ends drops its permit before it reports.
LEMMA EndKeeps ==
    ASSUME SessionInv, NEW s \in Sessions, JobEnd(s)
    PROVE  SessionInv'
<1>0. /\ Types /\ Counted /\ Follows(s) /\ job \in [Sessions -> Jobs] /\ job[s] = "ending"
      /\ job' = Set(job, s, "ended") /\ permit' = Set(permit, s, FALSE) /\ used' = used - 1
      /\ UNCHANGED <<caller, task, queue>>
  BY DEF SessionInv, Types, JobEnd
<1>1. permit[s]
  BY <1>0 DEF Follows, Permitted, Running
<1>2. /\ job' \in [Sessions -> Jobs] /\ job'[s] = "ended" /\ \A t \in Sessions : t # s => job'[t] = job[t]
  BY <1>0 DEF Set, Jobs
<1>3. Counted' /\ permit' \in [Sessions -> BOOLEAN] /\ ~permit'[s] /\ used' \in Nat
      /\ \A t \in Sessions : t # s => permit'[t] = permit[t]
  BY <1>0, <1>1, PermitReturned
<1>4. Types' /\ Alone(s)
  BY <1>0, <1>2, <1>3 DEF Types, Alone
<1>5. Permitted(s)'
  BY <1>2, <1>3 DEF Permitted, Running
<1>6. Follows(s)'
  BY <1>0, <1>2, <1>5 DEF Follows, Running
<1>7. \A i \in 1..Len(queue) : queue[i] # s
  BY <1>0 DEF SessionInv, Queued
<1> QED BY <1>0, <1>3, <1>4, <1>6, <1>7, PermitStep

-----------------------------------------------------------------------------
(* The actor, the caller and the deadline                                  *)

\* A running job keeps its permit from step to step.
LEMMA ActorKeeps ==
    ASSUME SessionInv, NEW s \in Sessions, JobStart(s) \/ JobReceive(s) \/ JobProcess(s) \/ JobFinish(s)
    PROVE  SessionInv'
<1>1. UNCHANGED <<caller, task, permit, used, queue>> /\ job[s] \in Running
  BY DEF JobStart, JobReceive, JobProcess, JobFinish, Running
<1>2. \E j \in Running : job' = Set(job, s, j)
  <2>1. CASE JobReceive(s)
    <3>1. \/ job' = Set(job, s, "call") \/ job' = Set(job, s, "last") \/ job' = Set(job, s, "ending")
      BY <2>1 DEF JobReceive
    <3> QED BY <3>1 DEF Running
  <2> QED BY <2>1 DEF JobStart, JobProcess, JobFinish, Running
<1> QED BY <1>1, <1>2, JobStep

\* A new session starts with neither job nor permit.
LEMMA StartKeeps ==
    ASSUME SessionInv, NEW s \in Sessions, Start(s)
    PROVE  SessionInv'
<1>0. /\ Types /\ Follows(s) /\ caller[s] = "idle" /\ UNCHANGED <<job, permit, used, queue>>
      /\ caller \in [Sessions -> CallerStates] /\ task \in [Sessions -> Tasks]
      /\ caller' = Set(caller, s, "starting") /\ task' = Set(task, s, "reserve")
  BY DEF SessionInv, Types, Start
<1>1. /\ caller' \in [Sessions -> CallerStates] /\ caller'[s] = "starting" /\ \A t \in Sessions : t # s => caller'[t] = caller[t]
  BY <1>0 DEF Set, CallerStates, Waiting
<1>2. /\ task' \in [Sessions -> Tasks] /\ task'[s] = "reserve" /\ \A t \in Sessions : t # s => task'[t] = task[t]
  BY <1>0 DEF Set, Tasks
<1>3. Types' /\ Alone(s)
  BY <1>0, <1>1, <1>2 DEF Types, Alone
<1>4. job[s] = "none"
  BY <1>0 DEF Follows
<1>5. Permitted(s)'
  <2>1. permit' = permit /\ job' = job
    BY <1>0
  <2> QED BY <1>0, <2>1 DEF Follows, Permitted
<1>6. Follows(s)'
  BY <1>0, <1>1, <1>2, <1>4, <1>5 DEF Follows
<1>7. \A i \in 1..Len(queue) : queue[i] # s
  BY <1>4 DEF SessionInv, Queued
<1> QED BY <1>0, <1>3, <1>6, <1>7, QuietStep

\* A caller returns only from a join, so after the task ended.
LEMMA CallerKeeps ==
    ASSUME SessionInv, NEW s \in Sessions,
           \/ Call(s, "sending") \/ Call(s, "finishSending") \/ CancelAndWait(s) \/ DropSession(s)
           \/ Started(s) \/ SendProcess(s) \/ SendFinish(s) \/ Processed(s) \/ Finished(s) \/ Joined(s)
    PROVE  SessionInv'
<1>1. UNCHANGED <<task, job, permit, used, queue>> /\ caller[s] # "idle"
  BY DEF Call, CancelAndWait, DropSession, Started, SendProcess, SendFinish, Send, Processed, Finished, Joined, Waiting
<1>2. \E c \in CallerStates : caller' = Set(caller, s, c) /\ c # "idle" /\ (c = "returned" => task[s] = "ended")
  <2>1. CASE Call(s, "sending") \/ Call(s, "finishSending")
    BY <2>1 DEF Call, CallerStates, Waiting
  <2>2. CASE CancelAndWait(s) \/ Finished(s)
    <3>1. caller' = Set(caller, s, "joining")
      BY <2>2 DEF CancelAndWait, Abort, Finished
    <3> QED BY <3>1 DEF CallerStates, Waiting
  <2>6. CASE DropSession(s)
    <3>1. caller' = Set(caller, s, "dropped")
      BY <2>6 DEF DropSession
    <3> QED BY <3>1 DEF CallerStates, Waiting
  <2>3. CASE Started(s) \/ Processed(s)
    <3>1. caller' = Set(caller, s, "open") \/ caller' = Set(caller, s, "joining")
      BY <2>3 DEF Started, Processed, Abort
    <3> QED BY <3>1 DEF CallerStates, Waiting
  <2>4. CASE SendProcess(s) \/ SendFinish(s)
    <3>1. \/ caller' = Set(caller, s, "awaiting") \/ caller' = Set(caller, s, "finishing")
          \/ caller' = Set(caller, s, "joining")
      BY <2>4 DEF SendProcess, SendFinish, Send, Abort
    <3> QED BY <3>1 DEF CallerStates, Waiting
  <2>5. CASE Joined(s)
    BY <2>5 DEF Joined, CallerStates
  <2> QED BY <2>1, <2>2, <2>3, <2>4, <2>5, <2>6
<1> QED BY <1>1, <1>2, CallerStep

\* Neither the deadline nor the watchdog touches the executor.
LEMMA IdleKeeps ==
    ASSUME SessionInv, UNCHANGED <<caller, task, job, permit, used, queue>>
    PROVE  SessionInv'
<1>1. caller' = caller /\ task' = task /\ job' = job /\ permit' = permit /\ used' = used /\ queue' = queue
  OBVIOUS
<1> QED BY <1>1 DEF SessionInv, Types, Counted, Holders, Queued, Follows, Permitted

-----------------------------------------------------------------------------
(* The theorems                                                            *)

\* Initially no session holds anything.
LEMMA SessionStarts == SessionInit => SessionInv
<1> SUFFICES ASSUME SessionInit
             PROVE  SessionInv
  OBVIOUS
<1>1. Types
  BY DEF SessionInit, Types, CallerStates, Tasks, Jobs
<1>2. Holders = {}
  BY DEF SessionInit, Holders
<1>3. Counted
  BY <1>2, FS_EmptySet, MemoryBudgetAssumption DEF SessionInit, Counted
<1>4. Queued
  BY DEF SessionInit, Queued
<1>5. \A s \in Sessions : Follows(s)
  <2>1. \A s \in Sessions : Permitted(s)
    BY DEF SessionInit, Permitted, Running
  <2> QED BY <2>1 DEF SessionInit, Follows
<1> QED BY <1>1, <1>3, <1>4, <1>5 DEF SessionInv

\* Every step keeps permits and jobs together.
LEMMA SessionSteps == SessionInv /\ [SessionNext]_sessionVars => SessionInv'
<1> SUFFICES ASSUME SessionInv, [SessionNext]_sessionVars
             PROVE  SessionInv'
  OBVIOUS
<1>1. ASSUME NEW s \in Sessions, Progress(s)
      PROVE  SessionInv'
  <2>1. CASE TaskReserve(s) \/ TaskSend(s) \/ TaskReceive(s) \/ TaskDrain(s)
    BY <2>1, ReserveKeeps, SendKeeps, ReceiveKeeps
  <2>2. CASE JobStart(s) \/ JobReceive(s) \/ JobProcess(s) \/ JobFinish(s) \/ JobEnd(s)
    BY <2>2, ActorKeeps, EndKeeps
  <2>3. CASE Started(s) \/ SendProcess(s) \/ SendFinish(s) \/ Processed(s) \/ Finished(s) \/ Joined(s)
    BY <2>3, CallerKeeps
  <2>4. CASE Watchdog(s) \/ Deadline(s)
    BY <2>4, IdleKeeps DEF Watchdog, Deadline
  <2> QED BY <1>1, <2>1, <2>2, <2>3, <2>4 DEF Progress
<1>2. ASSUME NEW s \in Sessions,
             Start(s) \/ Call(s, "sending") \/ Call(s, "finishSending") \/ CancelAndWait(s) \/ DropSession(s)
      PROVE  SessionInv'
  BY <1>2, StartKeeps, CallerKeeps
<1>3. CASE WorkerTake
  BY <1>3, TakeKeeps
<1>4. CASE UNCHANGED sessionVars
  BY <1>4, IdleKeeps DEF sessionVars
<1> QED BY <1>1, <1>2, <1>3, <1>4 DEF SessionNext

\* A permit is held exactly while its job is pending or running, and the executor's
\* queue holds no job twice and none that began.
THEOREM PermitsFollowJobs == SessionSpec => []SessionInv
BY SessionStarts, SessionSteps, PTL DEF SessionSpec

\* A caller that got its result back leaves neither a task, a job nor guest memory
\* behind, and the budget of executor.rs counts exactly the permits held, for every
\* number of sessions, threads, queue slots and units of memory.
THEOREM NothingHeld == SessionSpec => []ReturnedHoldsNothing
<1>1. SessionInv => ReturnedHoldsNothing
  <2> SUFFICES ASSUME SessionInv
               PROVE  ReturnedHoldsNothing
    OBVIOUS
  <2>1. used = Cardinality({s \in Sessions : permit[s]}) /\ used <= MemoryBudget
    BY DEF SessionInv, Counted, Holders
  <2>2. ASSUME NEW s \in Sessions, caller[s] = "returned"
        PROVE  ~permit[s] /\ task[s] = "ended" /\ job[s] \in {"ended", "void"}
    <3>1. task[s] = "ended" /\ job[s] \in {"ended", "void"} /\ Permitted(s)
      BY <2>2 DEF SessionInv, Follows
    <3> QED BY <3>1 DEF Permitted, Running
  <2> QED BY <2>1, <2>2 DEF ReturnedHoldsNothing
<1> QED BY <1>1, PermitsFollowJobs, PTL

-----------------------------------------------------------------------------
(* Credentials: acknowledged changes decide.                               *)
(*                                                                         *)
(* The argument: a mutation of the file repository holds the mutation lock *)
(* from its copy of the other map to its answer, so while nobody holds it  *)
(* memory, snapshot and synced snapshot are the same map, and its holder   *)
(* is the only difference between them.  What a caller was told is what    *)
(* the synced snapshot (or the table) says, or nothing.  A request that    *)
(* nobody disturbed still finds the row its client was told of: every      *)
(* change of a row marks the requests under way for it, and a rewrap       *)
(* changes neither what the row promises nor whether it opens.             *)

\* Shapes of the records.
StoredRow == [live : BOOLEAN, envelope : {"none", "v1", "v2"}, era : Nat, pem : {0, 1}]
Promise == [live : BOOLEAN, envelope : {"none", "any", "unknown"}, era : {0}, pem : {0, 1}]
KeyOps == {"create_key", "set_public_key", "delete_key"}
TokenOps == {"create_mcp_token", "delete_mcp_token"}
CallShape ==
    [op : KeyOps \cup TokenOps \cup {"none"}, at : {"idle", "start", "copied", "changed", "renamed", "done"},
     cred : Creds \cup {Nobody}, copy : [Creds -> StoredRow] \cup {<<>>}, before : StoredRow]
RequestShape ==
    [path : {"none", "sigv4", "token", "pair"},
     at : {"idle", "read", "decrypt", "rewrap", "reread", "reread_failed", "done"},
     cred : Creds \cup {Nobody}, good : BOOLEAN, pem : {0, 1}, era : {0}, told : Promise,
     touched : BOOLEAN, answer : {"none", "accepted", "denied", "unavailable", "lost"}]

\* A row of credential c that can be opened where there is a cipher.
Opens(c, row) == c \in Keys /\ row.live /\ cipher # "none" => row.envelope # "none"

Stored(rows) == rows \in [Creds -> StoredRow] /\ \A c \in Creds : Opens(c, rows[c])

CredentialTypes ==
    /\ config \in Configs
    /\ process \in [up : BOOLEAN, era : Nat]
    /\ Stored(creds) /\ Stored(disk) /\ Stored(durable)
    /\ locks \in [{"mutation", "keys", "tokens"} -> Callers \cup {Nobody}]
    /\ acked \in [Creds -> Promise]
    /\ expired \subseteq Creds

\* A call works on a credential of its kind, and holds the mutation lock of the
\* file repository from its copy to its answer.
Working(k) == k.at \notin {"idle", "done"}
Holding(k) == k.at \in {"copied", "changed", "renamed"}
Fits(k, w) ==
    /\ k \in CallShape
    /\ Working(k) => (k.op \in KeyOps /\ k.cred \in Keys) \/ (k.op \in TokenOps /\ k.cred \in Tokens)
    /\ Holding(k) <=> locks.mutation = w
    /\ Holding(k) => repo = "file"
    /\ k.at = "copied" => k.cred \in Tokens
Serialized == DOMAIN calls = Callers /\ \A w \in Callers : Fits(calls[w], w)

\* How far the holder of the lock got: old is what the map held before its change.
Persisting(k) ==
    LET old == [creds EXCEPT ![k.cred] = k.before] IN
    /\ k.at = "copied" => disk = creds /\ durable = creds
    /\ k.at = "changed" => disk = old /\ durable = old
    /\ k.at = "renamed" => disk = creds /\ durable = old
    /\ Holding(k) => \A o \in Creds : LockOf(o) # LockOf(k.cred) => k.copy[o] = creds[o]
Persisted ==
    process.up /\ repo = "file" =>
        /\ locks.mutation = Nobody => disk = creds /\ durable = creds
        /\ \A w \in Callers : Persisting(calls[w])

\* What a caller was told rests on what a restart brings back.
Base == IF repo = "file" THEN durable ELSE creds
Promised == \A c \in Creds : acked[c] = Unknown \/ acked[c] = Expect(Base[c])

\* A process that is down has nothing under way, and what somebody was told is in
\* both snapshots.
Stopped ==
    ~process.up =>
        /\ \A w \in Callers : ~Working(calls[w])
        /\ \A r \in Requests : requests[r].at \in {"idle", "done"}
        /\ repo = "file" => \A c \in Creds : acked[c] # Unknown => disk[c] = durable[c]

\* A request in flight noticed every change of its credential that may be undone.
Pending(q) == q.at \notin {"idle", "done"}
Disturbed ==
    \A w \in Callers, r \in Requests :
        calls[w].at \in {"changed", "renamed"} /\ Pending(requests[r]) /\ requests[r].cred = calls[w].cred =>
            requests[r].touched

\* A request that nobody disturbed finds what its client was told.
Agrees(q, row) ==
    Pending(q) /\ ~q.touched /\ q.told # Unknown =>
        /\ q.told = Expect(IF q.cred \in expired THEN Absent ELSE row)
        /\ q.at # "read" => q.told.live /\ q.pem = q.told.pem
        /\ q.at \in {"rewrap", "reread", "reread_failed"} => DecryptResult(row) = "secret"
        /\ q.at = "reread" => row.envelope = "v2"

Asking(q) ==
    /\ q \in RequestShape
    /\ q.at # "idle" => q.cred \in Creds /\ (q.path = "token" <=> q.cred \in Tokens)
    /\ q.at \notin {"idle", "read", "done"} => q.path = "sigv4"
    /\ q.at # "done" => q.answer = "none"

Decided(q) ==
    /\ q.answer = "accepted" /\ ~q.touched /\ q.told # Unknown =>
          q.told.live /\ q.good /\ (q.path # "token" => q.pem = q.told.pem)
    /\ q.answer = "denied" /\ q.good /\ ~q.touched /\ q.told # Unknown /\ q.told.live =>
          q.path = "sigv4" /\ cipher = "none"

Fair(q) == Asking(q) /\ Decided(q) /\ (Pending(q) => Agrees(q, creds[q.cred]))
Answered == DOMAIN requests = Requests /\ \A r \in Requests : Fair(requests[r])

CredentialInv ==
    CredentialTypes /\ Serialized /\ Persisted /\ Promised /\ Stopped /\ Disturbed /\ Answered

\* What is left alone leaves the requests as they are.
LEMMA RequestsRest ==
  ASSUME CredentialInv, creds' = creds, requests' = requests, expired' = expired,
         process' = process, config' = config
  PROVE  Answered'
BY DEF CredentialInv, Answered, Fair, Asking, Decided, Agrees, Pending, DecryptResult, cipher

\* A change of one credential leaves requests for others as they are, and frees
\* those that noticed it.
LEMMA ChangeKeeps ==
  ASSUME CredentialInv, NEW c \in Creds, NEW row, creds' = [creds EXCEPT ![c] = row],
         config' = config, process' = process, expired' = expired \/ expired' = expired \cup {c},
         DOMAIN requests' = Requests,
         \A r \in Requests : \/ requests'[r] = requests[r]
                             \/ requests'[r] = [requests[r] EXCEPT !.touched = TRUE],
         \A r \in Requests : Pending(requests[r]) /\ requests[r].cred = c => requests'[r].touched
  PROVE  Answered'
<1> SUFFICES ASSUME NEW r \in Requests
             PROVE  Fair(requests[r])'
  BY DEF Answered
<1>p. PICK p : p = requests'[r]
  OBVIOUS
<1>q. PICK q : q = requests[r]
  OBVIOUS
<1>1. Fair(q) /\ q \in RequestShape
  BY <1>q DEF CredentialInv, Answered, Fair, Asking
<1>2. /\ p \in RequestShape
      /\ p.path = q.path /\ p.at = q.at /\ p.cred = q.cred /\ p.good = q.good /\ p.pem = q.pem
      /\ p.told = q.told /\ p.answer = q.answer /\ (q.touched => p.touched)
  <2>1. CASE p = q
    BY <1>1, <2>1
  <2>2. CASE p = [q EXCEPT !.touched = TRUE]
    BY <1>1, <2>2 DEF RequestShape
  <2> QED BY <1>p, <1>q, <2>1, <2>2
<1>3. Asking(p)
  BY <1>1, <1>2 DEF Fair, Asking
<1>4. Decided(p)
  BY <1>1, <1>2 DEF Fair, Decided
<1>5. ASSUME Pending(p), ~p.touched
      PROVE  Agrees(q, creds[q.cred]) /\ q.cred # c /\ q.cred \in Creds
  BY <1>1, <1>2, <1>5, <1>p, <1>q DEF Fair, Pending, Asking
<1>6. creds \in [Creds -> StoredRow]
  BY DEF CredentialInv, CredentialTypes, Stored
<1>7. ASSUME Pending(p), ~p.touched
      PROVE  creds'[p.cred] = creds[q.cred] /\ (p.cred \in expired' <=> q.cred \in expired)
  BY <1>2, <1>5, <1>6, <1>7
<1>8. Pending(p) => Agrees(p, creds[p.cred])'
  BY <1>2, <1>5, <1>7 DEF Agrees, Pending, DecryptResult, cipher
<1>9. Asking(requests[r])' /\ Decided(requests[r])'
  BY <1>3, <1>4, <1>p DEF Asking, Decided, cipher
<1> QED BY <1>8, <1>9, <1>p DEF Fair, Pending

\* Sealing a legacy secret anew changes nothing a request relies on.
Alike(a, b) == b = a \/ (a.live /\ a.envelope = "v1" /\ b = [a EXCEPT !.envelope = "v2"])

\* Such a row opens, reads and promises as before.
LEMMA AlikeRows ==
  ASSUME NEW a \in StoredRow, NEW b, Alike(a, b)
  PROVE  /\ b \in StoredRow /\ Expect(b) = Expect(a) /\ DecryptResult(b) = DecryptResult(a)
         /\ b.live = a.live /\ b.pem = a.pem /\ (a.envelope = "v2" => b.envelope = "v2")
         /\ \A c : Opens(c, a) => Opens(c, b)
BY DEF Alike, StoredRow, Expect, DecryptResult, Opens

\* The map after a rewrap, or without one.
Renewed(c, rows) == rows = creds \/ (creds[c].live /\ creds[c].envelope = "v1" /\ rows = Rewrapped(c))

\* A rewrap keeps the map well formed and every row alike.
LEMMA RenewedRows ==
  ASSUME Stored(creds), NEW c \in Creds, NEW rows, Renewed(c, rows)
  PROVE  Stored(rows) /\ \A o \in Creds : Alike(creds[o], rows[o])
<1>1. CASE rows = creds
  BY <1>1 DEF Alike
<1>2. CASE creds[c].live /\ creds[c].envelope = "v1" /\ rows = Rewrapped(c)
  <2> DEFINE old == creds[c]
             new == [old EXCEPT !.envelope = "v2"]
  <2>1. rows = [creds EXCEPT ![c] = new] /\ old \in StoredRow
    BY <1>2 DEF Rewrapped, Stored
  <2>2. Alike(old, new)
    BY <1>2 DEF Alike
  <2> HIDE DEF new
  <2>3. new \in StoredRow /\ \A o : Opens(o, old) => Opens(o, new)
    BY <2>1, <2>2, AlikeRows
  <2>4. rows \in [Creds -> StoredRow] /\ rows[c] = new /\ \A o \in Creds : o # c => rows[o] = creds[o]
    BY <2>1, <2>3 DEF Stored
  <2> QED BY <2>2, <2>3, <2>4 DEF Stored, Alike
<1> QED BY <1>1, <1>2 DEF Renewed

\* A step of request r that leaves it fair leaves all requests fair.
LEMMA StepAnswers ==
  ASSUME CredentialInv, NEW r \in Requests, NEW q, requests' = [requests EXCEPT ![r] = q],
         NEW c \in Creds, Renewed(c, creds'),
         config' = config, process' = process, expired' = expired,
         Asking(q), Decided(q), Pending(q) => Agrees(q, creds[q.cred])'
  PROVE  Answered'
<1>1. Stored(creds) /\ DOMAIN requests = Requests
  BY DEF CredentialInv, CredentialTypes, Answered
<1>2. PICK rows : rows = creds'
  OBVIOUS
<1>3. \A o \in Creds : Alike(creds[o], rows[o])
  BY <1>1, <1>2, RenewedRows
<1>4. DOMAIN requests' = Requests
  BY <1>1
<1>5. Fair(requests[r])'
  <2>1. requests'[r] = q
    BY <1>1
  <2>2. Asking(q)' /\ Decided(q)'
    BY DEF Asking, Decided, cipher
  <2> QED BY <2>1, <2>2 DEF Fair, Pending
<1>6. ASSUME NEW s \in Requests, s # r
      PROVE  Fair(requests[s])'
  <2>1. PICK p : p = requests[s]
    OBVIOUS
  <2>2. requests'[s] = p /\ Fair(p)
    BY <1>1, <1>6, <2>1 DEF CredentialInv, Answered
  <2>3. Asking(p)' /\ Decided(p)'
    BY <2>2 DEF Fair, Asking, Decided, cipher
  <2>4. ASSUME Pending(p)
        PROVE  Agrees(p, creds[p.cred])'
    <3>1. p.cred \in Creds /\ Agrees(p, creds[p.cred])
      BY <2>2, <2>4 DEF Fair, Asking, Pending
    <3>2. PICK a : a = creds[p.cred]
      OBVIOUS
    <3>3. PICK b : b = rows[p.cred]
      OBVIOUS
    <3>4. a \in StoredRow /\ Alike(a, b)
      BY <1>1, <1>3, <3>1, <3>2, <3>3 DEF Stored
    <3>5. /\ Expect(b) = Expect(a) /\ DecryptResult(b) = DecryptResult(a)
          /\ (a.envelope = "v2" => b.envelope = "v2")
      BY <3>4, AlikeRows
    <3>6. Agrees(p, b)
      BY <3>1, <3>2, <3>5 DEF Agrees
    <3> QED BY <1>2, <3>3, <3>6 DEF Agrees, DecryptResult, cipher
  <2> QED BY <2>2, <2>3, <2>4 DEF Fair, Pending
<1> QED BY <1>4, <1>5, <1>6 DEF Answered

\* A step of a request keeps what the repository and its callers rely on.
LEMMA StepStores ==
  ASSUME CredentialInv, process.up, NEW r \in Requests, NEW q, requests' = [requests EXCEPT ![r] = q],
         q.cred = requests[r].cred, q.touched = requests[r].touched, Pending(requests[r]),
         NEW c \in Creds, Renewed(c, creds'),
         config' = config, process' = process, expired' = expired,
         locks' = locks, calls' = calls, acked' = acked,
         \/ creds' = creds /\ disk' = disk /\ durable' = durable
         \/ repo # "file" /\ disk' = disk /\ durable' = durable
         \/ repo = "file" /\ locks.mutation = Nobody /\ disk' = creds' /\ durable' = creds'
  PROVE  (CredentialTypes /\ Serialized /\ Persisted /\ Promised /\ Stopped /\ Disturbed)'
<1>1. Stored(creds) /\ DOMAIN requests = Requests
  BY DEF CredentialInv, CredentialTypes, Answered
<1>2. PICK rows : rows = creds'
  OBVIOUS
<1>3. Stored(rows) /\ \A o \in Creds : Alike(creds[o], rows[o])
  BY <1>1, <1>2, RenewedRows
<1>4. \A o \in Creds : Expect(rows[o]) = Expect(creds[o])
  BY <1>1, <1>3, AlikeRows DEF Stored
<1>5. Stored(creds)' /\ Stored(disk)' /\ Stored(durable)'
  <2>1. Stored(disk) /\ Stored(durable)
    BY DEF CredentialInv, CredentialTypes
  <2> QED BY <1>2, <1>3, <2>1 DEF Stored, Opens, cipher
<1>6. CredentialTypes'
  BY <1>5 DEF CredentialInv, CredentialTypes
<1>7. Serialized'
  BY DEF CredentialInv, Serialized, Fits, Working, Holding, repo
<1>8. Persisted'
  <2>1. CASE creds' = creds /\ disk' = disk /\ durable' = durable
    BY <2>1 DEF CredentialInv, Persisted, Persisting, Holding, LockOf, repo
  <2>2. CASE repo # "file"
    BY <2>2 DEF Persisted, repo
  <2>3. CASE repo = "file" /\ locks.mutation = Nobody /\ disk' = creds' /\ durable' = creds'
    <3>1. \A w \in Callers : ~Holding(calls[w])
      BY <2>3, CredentialAssumption DEF CredentialInv, Serialized, Fits
    <3> QED BY <2>3, <3>1 DEF Persisted, Persisting, Holding
  <2> QED BY <2>1, <2>2, <2>3
<1>9. Promised'
  <2>1. repo' = repo
    BY DEF repo
  <2>2. CASE creds' = creds /\ disk' = disk /\ durable' = durable
    BY <2>1, <2>2 DEF CredentialInv, Promised, Base
  <2>3. CASE repo # "file"
    BY <1>2, <1>4, <2>1, <2>3 DEF CredentialInv, Promised, Base, Expect, Unknown
  <2>4. CASE repo = "file" /\ locks.mutation = Nobody /\ disk' = creds' /\ durable' = creds'
    <3>1. durable = creds
      BY <2>4 DEF CredentialInv, Persisted
    <3> QED BY <1>2, <1>4, <2>1, <2>4, <3>1 DEF CredentialInv, Promised, Base, Expect, Unknown
  <2> QED BY <2>2, <2>3, <2>4
<1>10. Stopped'
  BY DEF Stopped
<1>11. Disturbed'
  <2>1. ASSUME NEW s \in Requests
        PROVE  /\ requests'[s].cred = requests[s].cred /\ requests'[s].touched = requests[s].touched
               /\ Pending(requests'[s]) => Pending(requests[s])
    BY <1>1, <2>1
  <2> QED BY <2>1 DEF CredentialInv, Disturbed, Pending
<1> QED BY <1>6, <1>7, <1>8, <1>9, <1>10, <1>11

\* What a step of a request may do to the repository.
Steady(c) ==
    /\ config' = config /\ process' = process /\ expired' = expired
    /\ locks' = locks /\ calls' = calls /\ acked' = acked
    /\ Renewed(c, creds')
    /\ \/ creds' = creds /\ disk' = disk /\ durable' = durable
       \/ repo # "file" /\ disk' = disk /\ durable' = durable
       \/ repo = "file" /\ locks.mutation = Nobody /\ disk' = creds' /\ durable' = creds'

\* A step of a pending request keeps the invariant if it leaves the request fair.
LEMMA StepKeeps ==
  ASSUME CredentialInv, process.up, NEW r \in Requests, Pending(requests[r]), NEW c \in Creds, Steady(c),
         NEW q, requests' = [requests EXCEPT ![r] = q],
         q.cred = requests[r].cred, q.touched = requests[r].touched,
         Asking(q), Decided(q), Pending(q) => Agrees(q, creds[q.cred])'
  PROVE  CredentialInv'
<1>1. Answered'
  BY StepAnswers DEF Steady
<1>2. (CredentialTypes /\ Serialized /\ Persisted /\ Promised /\ Stopped /\ Disturbed)'
  BY StepStores DEF Steady
<1> QED BY <1>1, <1>2 DEF CredentialInv

Verdicts == {"accepted", "denied", "unavailable"}

\* Answering with v.
LEMMA AnswerRow ==
  ASSUME CredentialInv, NEW r \in Requests, NEW v, Answer(r, v)
  PROVE  requests' = [requests EXCEPT ![r] = [requests[r] EXCEPT !.at = "done", !.answer = v]]
BY DEF CredentialInv, Answered, Answer

\* An answer the promise allows keeps the invariant.
LEMMA AnswerKeeps ==
  ASSUME CredentialInv, process.up, NEW r \in Requests, Pending(requests[r]), NEW c \in Creds, Steady(c),
         NEW v \in Verdicts, NEW m \in {0, 1},
         requests' = [requests EXCEPT ![r] = [requests[r] EXCEPT !.at = "done", !.answer = v, !.pem = m]],
         ~requests[r].touched /\ requests[r].told # Unknown =>
            /\ v = "accepted" => /\ requests[r].told.live /\ requests[r].good
                                 /\ requests[r].path # "token" => m = requests[r].told.pem
            /\ v = "denied" /\ requests[r].good /\ requests[r].told.live =>
                  requests[r].path = "sigv4" /\ cipher = "none"
  PROVE  CredentialInv'
<1>1. PICK p : p = requests[r]
  OBVIOUS
<1>2. Asking(p) /\ p \in RequestShape
  BY <1>1 DEF CredentialInv, Answered, Fair, Asking
<1> DEFINE q == [p EXCEPT !.at = "done", !.answer = v, !.pem = m]
<1>3. /\ q \in RequestShape /\ q.at = "done" /\ q.answer = v /\ q.pem = m /\ q.cred = p.cred
      /\ q.touched = p.touched /\ q.told = p.told /\ q.good = p.good /\ q.path = p.path
  BY <1>2 DEF RequestShape, Verdicts
<1>4. requests' = [requests EXCEPT ![r] = q]
  BY <1>1
<1> HIDE DEF q
<1>5. Asking(q) /\ ~Pending(q)
  BY <1>1, <1>2, <1>3 DEF Asking, Pending
<1>6. Decided(q)
  BY <1>1, <1>3 DEF Decided
<1> QED BY <1>1, <1>3, <1>4, <1>5, <1>6, StepKeeps

\* The same where the public key stays as it was read.
LEMMA PlainKeeps ==
  ASSUME CredentialInv, process.up, NEW r \in Requests, Pending(requests[r]), NEW c \in Creds, Steady(c),
         NEW v \in Verdicts, Answer(r, v),
         ~requests[r].touched /\ requests[r].told # Unknown =>
            /\ v = "accepted" => /\ requests[r].told.live /\ requests[r].good
                                 /\ requests[r].path # "token" => requests[r].pem = requests[r].told.pem
            /\ v = "denied" /\ requests[r].good /\ requests[r].told.live =>
                  requests[r].path = "sigv4" /\ cipher = "none"
  PROVE  CredentialInv'
<1>1. PICK p : p = requests[r]
  OBVIOUS
<1>2. p \in RequestShape
  BY <1>1 DEF CredentialInv, Answered, Fair, Asking
<1>3. PICK m : m = p.pem
  OBVIOUS
<1>4. m \in {0, 1}
  BY <1>2, <1>3 DEF RequestShape
<1>5. [p EXCEPT !.at = "done", !.answer = v] = [p EXCEPT !.at = "done", !.answer = v, !.pem = m]
  BY <1>2, <1>3 DEF RequestShape
<1>6. requests' = [requests EXCEPT ![r] = [requests[r] EXCEPT !.at = "done", !.answer = v, !.pem = m]]
  BY <1>1, <1>5, AnswerRow
<1> QED BY <1>1, <1>3, <1>4, <1>6, AnswerKeeps

\* What a pending request knows of the row it reads.
LEMMA Reads ==
  ASSUME CredentialInv, NEW r \in Requests, Pending(requests[r])
  PROVE  LET q == requests[r]
             row == creds[q.cred]
         IN  /\ q \in RequestShape /\ q.cred \in Creds /\ (q.path = "token" <=> q.cred \in Tokens)
             /\ q.at # "read" => q.path = "sigv4"
             /\ row \in StoredRow /\ Opens(q.cred, row) /\ row.pem \in {0, 1}
             /\ ~q.touched /\ q.told # Unknown =>
                   /\ q.told.live => q.cred \notin expired /\ row.live /\ row.pem = q.told.pem
                   /\ row.live /\ q.cred \notin expired => q.told.live /\ row.pem = q.told.pem
                   /\ q.at # "read" => q.told.live /\ q.pem = q.told.pem
                   /\ q.at \in {"rewrap", "reread", "reread_failed"} => DecryptResult(row) = "secret"
                   /\ q.at = "reread" => row.envelope = "v2"
<1>1. PICK q : q = requests[r]
  OBVIOUS
<1>2. Fair(q) /\ Asking(q) /\ q.cred \in Creds
  BY <1>1 DEF CredentialInv, Answered, Fair, Asking, Pending
<1>3. PICK row : row = creds[q.cred]
  OBVIOUS
<1>4. row \in StoredRow /\ Opens(q.cred, row)
  BY <1>2, <1>3 DEF CredentialInv, CredentialTypes, Stored
<1>5. row.pem \in {0, 1}
  BY <1>4 DEF StoredRow
<1>6. Agrees(q, row)
  BY <1>1, <1>2, <1>3 DEF Fair
<1>7. ASSUME ~q.touched, q.told # Unknown
      PROVE  /\ q.told.live => q.cred \notin expired /\ row.live /\ row.pem = q.told.pem
             /\ row.live /\ q.cred \notin expired => q.told.live /\ row.pem = q.told.pem
             /\ q.at # "read" => q.told.live /\ q.pem = q.told.pem
             /\ q.at \in {"rewrap", "reread", "reread_failed"} => DecryptResult(row) = "secret"
             /\ q.at = "reread" => row.envelope = "v2"
  <2>1. Pending(q)
    BY <1>1
  <2>2. /\ q.told = Expect(IF q.cred \in expired THEN Absent ELSE row)
        /\ q.at # "read" => q.told.live /\ q.pem = q.told.pem
        /\ q.at \in {"rewrap", "reread", "reread_failed"} => DecryptResult(row) = "secret"
        /\ q.at = "reread" => row.envelope = "v2"
    BY <1>6, <1>7, <2>1 DEF Agrees
  <2>3. CASE q.cred \in expired
    <3>1. q.told = Expect(Absent)
      BY <2>2, <2>3
    <3>2. ~q.told.live
      BY <3>1 DEF Expect, Absent
    <3> QED BY <2>2, <2>3, <3>2
  <2>4. CASE q.cred \notin expired
    <3>1. q.told = Expect(row)
      BY <2>2, <2>4
    <3>2. q.told.live = row.live /\ q.told.pem = row.pem
      BY <3>1 DEF Expect
    <3> QED BY <2>2, <2>4, <3>2
  <2> QED BY <2>3, <2>4
<1> QED BY <1>1, <1>2, <1>3, <1>4, <1>5, <1>7 DEF Asking, Pending

\* Steps that leave the repository alone.
LEMMA Quiet ==
  ASSUME creds' = creds, disk' = disk, durable' = durable, locks' = locks, calls' = calls, acked' = acked,
         UNCHANGED <<config, process, expired>>, NEW c
  PROVE  Steady(c)
BY DEF Steady, Renewed

\* Key pairs and tokens: one read decides.
LEMMA ResolveKeeps ==
  ASSUME CredentialInv, process.up, NEW r \in Requests, requests[r].at = "read",
         ResolveCredentials(r) \/ ResolveMcpToken(r), UNCHANGED <<config, process, expired>>
  PROVE  CredentialInv'
<1>1. PICK p : p = requests[r]
  OBVIOUS
<1>2. PICK row : row = creds[p.cred]
  OBVIOUS
<1>3. Pending(p)
  BY <1>1 DEF Pending
<1>4. /\ p \in RequestShape /\ p.cred \in Creds /\ row.pem \in {0, 1}
      /\ ~p.touched /\ p.told # Unknown =>
           /\ p.told.live => p.cred \notin expired /\ row.live
           /\ row.live /\ p.cred \notin expired => p.told.live /\ row.pem = p.told.pem
  BY <1>1, <1>2, <1>3, Reads
<1>5. Steady(p.cred)
  BY Quiet DEF Unchanged, ResolveCredentials, ResolveMcpToken
<1>6. CASE Answer(r, "denied") /\ ~(row.live /\ p.good /\ p.cred \notin expired)
  BY <1>1, <1>3, <1>4, <1>5, <1>6, PlainKeeps DEF Verdicts
<1>7. CASE Answer(r, "accepted") /\ p.path = "token" /\ row.live /\ p.good /\ p.cred \notin expired
  BY <1>1, <1>3, <1>4, <1>5, <1>7, PlainKeeps DEF Verdicts
<1>8. CASE /\ requests' = [requests EXCEPT ![r].at = "done", ![r].answer = "accepted", ![r].pem = row.pem]
           /\ row.live /\ p.good /\ p.cred \notin expired
  <2>1. PICK m : m = row.pem
    OBVIOUS
  <2>2. requests' = [requests EXCEPT ![r] = [requests[r] EXCEPT !.at = "done", !.answer = "accepted", !.pem = m]]
    BY <1>8, <2>1 DEF CredentialInv, Answered
  <2> QED BY <1>1, <1>3, <1>4, <1>5, <1>8, <2>1, <2>2, AnswerKeeps DEF Verdicts
<1>9. CASE ResolveCredentials(r)
  BY <1>1, <1>2, <1>6, <1>8, <1>9 DEF ResolveCredentials, GetKey, IsExpired
<1>10. CASE ResolveMcpToken(r)
  BY <1>1, <1>2, <1>6, <1>7, <1>10 DEF ResolveMcpToken, IsExpired
<1> QED BY <1>9, <1>10

\* SigV4, the first read.
LEMMA SigV4Keeps ==
  ASSUME CredentialInv, process.up, NEW r \in Requests, requests[r].at = "read",
         SigV4GetKey(r), UNCHANGED <<config, process, expired>>
  PROVE  CredentialInv'
<1>1. PICK p : p = requests[r]
  OBVIOUS
<1>2. PICK row : row = creds[p.cred]
  OBVIOUS
<1>3. Pending(p)
  BY <1>1 DEF Pending
<1>4. /\ p \in RequestShape /\ p.cred \in Creds /\ row.pem \in {0, 1}
      /\ (p.path = "token" <=> p.cred \in Tokens)
      /\ ~p.touched /\ p.told # Unknown =>
           /\ p.told.live => p.cred \notin expired /\ row.live
           /\ row.live /\ p.cred \notin expired => p.told.live /\ row.pem = p.told.pem
  BY <1>1, <1>2, <1>3, Reads
<1>5. Steady(p.cred) /\ creds' = creds
  BY Quiet DEF Unchanged, SigV4GetKey
<1>6. CASE Answer(r, "denied") /\ ~(row.live /\ p.cred \notin expired)
  BY <1>1, <1>3, <1>4, <1>5, <1>6, PlainKeeps DEF Verdicts
<1>7. CASE /\ requests' = [requests EXCEPT ![r].at = "decrypt", ![r].pem = row.pem]
           /\ row.live /\ p.cred \notin expired
  <2> DEFINE q == [p EXCEPT !.at = "decrypt", !.pem = row.pem]
  <2>1. requests' = [requests EXCEPT ![r] = q]
    BY <1>1, <1>7 DEF CredentialInv, Answered
  <2>2. /\ q \in RequestShape /\ q.at = "decrypt" /\ q.pem = row.pem /\ q.cred = p.cred
        /\ q.touched = p.touched /\ q.told = p.told /\ q.path = p.path /\ q.answer = p.answer
    BY <1>4 DEF RequestShape
  <2> HIDE DEF q
  <2>3. p.path = "sigv4" /\ p.answer = "none"
    BY <1>1 DEF SigV4GetKey, CredentialInv, Answered, Fair, Asking
  <2>4. Asking(q) /\ Decided(q)
    BY <1>4, <2>2, <2>3 DEF Asking, Decided
  <2>5. Agrees(p, row)
    BY <1>1, <1>2, <1>3 DEF CredentialInv, Answered, Fair
  <2>6. Agrees(q, row)
    BY <1>3, <1>4, <1>7, <2>2, <2>5 DEF Agrees
  <2>7. Agrees(q, creds[q.cred])'
    BY <1>2, <1>5, <2>2, <2>6 DEF Agrees, DecryptResult, cipher
  <2> QED BY <1>1, <1>3, <1>4, <1>5, <2>1, <2>2, <2>4, <2>7, StepKeeps
<1> QED BY <1>1, <1>2, <1>6, <1>7 DEF SigV4GetKey, GetKey, IsExpired

\* A read that fails says so.
LEMMA ReadFailsKeeps ==
  ASSUME CredentialInv, process.up, NEW r \in Requests, requests[r].at = "read",
         ReadFails(r), UNCHANGED <<config, process, expired>>
  PROVE  CredentialInv'
<1>1. PICK p : p = requests[r]
  OBVIOUS
<1>2. Pending(p)
  BY <1>1 DEF Pending
<1>3. p.cred \in Creds
  BY <1>1, <1>2, Reads
<1>4. Steady(p.cred)
  BY Quiet DEF ReadFails
<1>5. Answer(r, "unavailable")
  BY DEF ReadFails
<1> QED BY <1>1, <1>2, <1>3, <1>4, <1>5, PlainKeeps DEF Verdicts

\* A signature over the secret that is there decides as it should.
LEMMA AuthorizeKeeps ==
  ASSUME CredentialInv, process.up, NEW r \in Requests, Pending(requests[r]), requests[r].at # "read",
         NEW c \in Creds, Steady(c), Authorize(r)
  PROVE  CredentialInv'
<1>1. PICK p : p = requests[r]
  OBVIOUS
<1>2. ~p.touched /\ p.told # Unknown => p.told.live /\ p.pem = p.told.pem
  BY <1>1, Reads
<1>3. CASE p.good
  <2>1. Answer(r, "accepted")
    BY <1>1, <1>3 DEF Authorize
  <2> QED BY <1>1, <1>2, <1>3, <2>1, PlainKeeps DEF Verdicts
<1>4. CASE ~p.good
  <2>1. Answer(r, "denied")
    BY <1>1, <1>4 DEF Authorize
  <2> QED BY <1>1, <1>2, <1>4, <2>1, PlainKeeps DEF Verdicts
<1> QED BY <1>3, <1>4

\* The request goes on: it is at a later point and knows as much.
LEMMA GoesOn ==
  ASSUME CredentialInv, process.up, NEW r \in Requests, Pending(requests[r]), requests[r].at # "read",
         NEW c \in Creds, Steady(c), NEW to \in {"rewrap", "reread", "reread_failed"},
         requests' = [requests EXCEPT ![r].at = to],
         ~requests[r].touched /\ requests[r].told # Unknown =>
            /\ DecryptResult(creds[requests[r].cred]) = "secret"
            /\ to = "reread" => creds'[requests[r].cred].envelope = "v2"
  PROVE  CredentialInv'
<1>1. PICK p : p = requests[r]
  OBVIOUS
<1>2. Asking(p) /\ Agrees(p, creds[p.cred]) /\ p.cred \in Creds
  BY <1>1 DEF CredentialInv, Answered, Fair, Asking, Pending
<1> DEFINE q == [p EXCEPT !.at = to]
<1>3. requests' = [requests EXCEPT ![r] = q]
  BY <1>1 DEF CredentialInv, Answered
<1>4. /\ q \in RequestShape /\ q.at = to /\ q.pem = p.pem /\ q.cred = p.cred
      /\ q.touched = p.touched /\ q.told = p.told /\ q.path = p.path /\ q.answer = p.answer
  BY <1>2 DEF RequestShape, Asking
<1> HIDE DEF q
<1>5. p.path = "sigv4" /\ p.answer = "none" /\ (p.path = "token" <=> p.cred \in Tokens)
  BY <1>1, <1>2 DEF Asking, Pending
<1>6. Asking(q) /\ Decided(q)
  <2>1. Asking(q)
    BY <1>2, <1>4, <1>5 DEF Asking
  <2>2. Decided(q)
    BY <1>4, <1>5 DEF Decided
  <2> QED BY <2>1, <2>2
<1>7. PICK a : a = creds[p.cred]
  OBVIOUS
<1>8. PICK b : b = creds'[p.cred]
  OBVIOUS
<1>9. a \in StoredRow /\ Alike(a, b)
  <2>1. Stored(creds)
    BY DEF CredentialInv, CredentialTypes
  <2>2. PICK rows : rows = creds'
    OBVIOUS
  <2>3. \A o \in Creds : Alike(creds[o], rows[o])
    BY <2>1, <2>2, RenewedRows DEF Steady
  <2> QED BY <1>2, <1>7, <1>8, <2>1, <2>2, <2>3 DEF Stored
<1>10. Expect(b) = Expect(a) /\ DecryptResult(b) = DecryptResult(a)
  BY <1>9, AlikeRows
<1>11. Agrees(q, b)
  BY <1>1, <1>2, <1>4, <1>7, <1>8, <1>10 DEF Agrees, Pending
<1>12. Agrees(q, creds[q.cred])'
  BY <1>4, <1>8, <1>11 DEF Agrees, DecryptResult, cipher, Steady
<1> QED BY <1>1, <1>3, <1>4, <1>6, <1>12, StepKeeps

\* SigV4, the second read.
LEMMA DecryptKeeps ==
  ASSUME CredentialInv, process.up, NEW r \in Requests,
         DecryptVerifiedSecret(r), UNCHANGED <<config, process, expired>>
  PROVE  CredentialInv'
<1>1. PICK p : p = requests[r]
  OBVIOUS
<1>2. PICK row : row = creds[p.cred]
  OBVIOUS
<1>3. Pending(p) /\ p.at = "decrypt"
  BY <1>1 DEF Pending, DecryptVerifiedSecret
<1>4. /\ p.cred \in Creds /\ p.path = "sigv4" /\ p.cred \in Keys /\ Opens(p.cred, row)
      /\ ~p.touched /\ p.told # Unknown => p.told.live /\ row.live /\ p.pem = p.told.pem
  <2>1. /\ p.cred \in Creds /\ p.path = "sigv4" /\ (p.path = "token" <=> p.cred \in Tokens)
        /\ Opens(p.cred, row)
        /\ ~p.touched /\ p.told # Unknown =>
             /\ p.told.live => row.live
             /\ p.told.live /\ p.pem = p.told.pem
    BY <1>1, <1>2, <1>3, Reads
  <2> QED BY <2>1 DEF Creds
<1>5. Steady(p.cred) /\ creds' = creds
  BY Quiet DEF Unchanged, DecryptVerifiedSecret
<1>6. CASE ~row.live /\ Answer(r, "denied")
  BY <1>1, <1>3, <1>4, <1>5, <1>6, PlainKeeps DEF Verdicts
<1>7. CASE row.live /\ DecryptResult(row) = "nothing" /\ Answer(r, "denied")
  <2>1. cipher = "none"
    BY <1>4, <1>7 DEF DecryptResult, Opens
  <2> QED BY <1>1, <1>3, <1>4, <1>5, <1>7, <2>1, PlainKeeps DEF Verdicts
<1>8. CASE Answer(r, "unavailable")
  BY <1>1, <1>3, <1>4, <1>5, <1>8, PlainKeeps DEF Verdicts
<1>9. CASE Authorize(r)
  BY <1>1, <1>3, <1>4, <1>5, <1>9, AuthorizeKeeps
<1>10. CASE DecryptResult(row) = "secret" /\ requests' = [requests EXCEPT ![r].at = "rewrap"]
  <2>1. PICK to : to = "rewrap"
    OBVIOUS
  <2> QED BY <1>1, <1>2, <1>3, <1>4, <1>5, <1>10, <2>1, GoesOn
<1> QED BY <1>1, <1>2, <1>6, <1>7, <1>8, <1>9, <1>10 DEF DecryptVerifiedSecret, GetKey

\* A secret that somebody sealed anew meanwhile is accepted.
LEMMA AcceptKeeps ==
  ASSUME CredentialInv, process.up, NEW r \in Requests,
         requests[r].at \in {"rewrap", "reread", "reread_failed"},
         creds' = creds, disk' = disk, durable' = durable, locks' = locks, calls' = calls, acked' = acked,
         UNCHANGED <<config, process, expired>>,
         IF AcceptRewrapped(creds[requests[r].cred]) THEN Authorize(r)
         ELSE Answer(r, "unavailable")
              \/ (Answer(r, "denied") /\ (creds[requests[r].cred].envelope = "v1" => ~creds[requests[r].cred].live)
                                      /\ requests[r].at # "reread_failed")
  PROVE  CredentialInv'
<1>1. PICK p : p = requests[r]
  OBVIOUS
<1>2. PICK row : row = creds[p.cred]
  OBVIOUS
<1>3. Pending(p) /\ p.at # "read"
  BY <1>1 DEF Pending
<1>4. /\ p.cred \in Creds /\ row \in StoredRow
      /\ ~p.touched /\ p.told # Unknown =>
            p.told.live /\ row.live /\ DecryptResult(row) = "secret"
  <2>1. /\ p.cred \in Creds /\ row \in StoredRow
        /\ ~p.touched /\ p.told # Unknown =>
             /\ p.told.live => row.live
             /\ p.told.live /\ DecryptResult(row) = "secret"
    BY <1>1, <1>2, <1>3, Reads
  <2> QED BY <2>1
<1>5. Steady(p.cred)
  BY Quiet
<1>6. CASE AcceptRewrapped(row)
  BY <1>1, <1>2, <1>3, <1>4, <1>5, <1>6, AuthorizeKeeps
<1>7. CASE Answer(r, "unavailable")
  BY <1>1, <1>3, <1>4, <1>5, <1>7, PlainKeeps DEF Verdicts
<1>8. CASE ~AcceptRewrapped(row) /\ Answer(r, "denied") /\ (row.envelope = "v1" => ~row.live)
  <2>1. ~(~p.touched /\ p.told # Unknown)
    <3> SUFFICES ASSUME ~p.touched, p.told # Unknown
                 PROVE  FALSE
      OBVIOUS
    <3>1. row.live /\ DecryptResult(row) = "secret"
      BY <1>4
    <3>2. row.envelope = "v2"
      BY <1>4, <1>8, <3>1 DEF DecryptResult, StoredRow
    <3> QED BY <1>8, <3>1, <3>2 DEF AcceptRewrapped, MatchingV2
  <2> QED BY <1>1, <1>3, <1>4, <1>5, <1>8, <2>1, PlainKeeps DEF Verdicts
<1> QED BY <1>1, <1>2, <1>6, <1>7, <1>8

\* A legacy secret is sealed anew, in any of the three repositories.
LEMMA RewrapKeeps ==
  ASSUME CredentialInv, process.up, SyncFails = FALSE, NEW r \in Requests, requests[r].at = "rewrap",
         MemRewrap(r) \/ FileRewrap(r) \/ PgRewrap(r), UNCHANGED <<config, process, expired>>
  PROVE  CredentialInv'
<1>1. PICK p : p = requests[r]
  OBVIOUS
<1>2. PICK row : row = creds[p.cred]
  OBVIOUS
<1>3. Pending(p) /\ p.at # "read" /\ p.at = "rewrap"
  BY <1>1 DEF Pending
<1>4. /\ p.cred \in Creds /\ row \in StoredRow
      /\ ~p.touched /\ p.told # Unknown => row.live /\ DecryptResult(row) = "secret"
  <2>1. /\ p.cred \in Creds /\ row \in StoredRow
        /\ ~p.touched /\ p.told # Unknown =>
             /\ p.told.live => row.live
             /\ p.told.live /\ DecryptResult(row) = "secret"
    BY <1>1, <1>2, <1>3, Reads
  <2> QED BY <2>1
<1> DEFINE matches == row.live /\ row.envelope = "v1"
<1>5. UNCHANGED <<locks, calls, acked>>
  BY DEF MemRewrap, FileRewrap, PgRewrap
<1>6. CASE MemRewrap(r)
  <2>1. CASE matches
    <3>1. creds' = Rewrapped(p.cred) /\ Authorize(r) /\ repo # "file" /\ disk' = disk /\ durable' = durable
      BY <1>1, <1>2, <1>6, <2>1 DEF MemRewrap
    <3>2. Steady(p.cred)
      BY <1>2, <1>5, <2>1, <3>1 DEF Steady, Renewed
    <3> QED BY <1>1, <1>3, <1>4, <3>1, <3>2, AuthorizeKeeps
  <2>2. CASE ~matches
    <3>1. /\ creds' = creds /\ disk' = disk /\ durable' = durable
          /\ IF AcceptRewrapped(row) THEN Authorize(r) ELSE Answer(r, "denied")
      BY <1>1, <1>2, <1>6, <2>2 DEF MemRewrap
    <3> QED BY <1>1, <1>2, <1>3, <1>5, <2>2, <3>1, AcceptKeeps
  <2> QED BY <2>1, <2>2
<1>7. CASE FileRewrap(r)
  <2>1. repo = "file" /\ locks.mutation = Nobody
    BY <1>7 DEF FileRewrap, MutationLockFree
  <2>2. CASE /\ matches /\ creds' = Rewrapped(p.cred) /\ disk' = Rewrapped(p.cred)
             /\ durable' = Rewrapped(p.cred) /\ Authorize(r)
    <3>1. Steady(p.cred)
      BY <1>2, <1>5, <2>1, <2>2 DEF Steady, Renewed
    <3> QED BY <1>1, <1>3, <1>4, <2>2, <3>1, AuthorizeKeeps
  <2>3. CASE matches /\ creds' = creds /\ disk' = disk /\ durable' = durable /\ Answer(r, "unavailable")
    <3>1. Steady(p.cred)
      BY <1>5, <2>3, Quiet
    <3> QED BY <1>1, <1>3, <1>4, <2>3, <3>1, PlainKeeps DEF Verdicts
  <2>4. CASE ~matches
    <3>1. /\ creds' = creds /\ disk' = disk /\ durable' = durable
          /\ IF AcceptRewrapped(row) THEN Authorize(r) ELSE Answer(r, "denied")
      BY <1>1, <1>2, <1>7, <2>4 DEF FileRewrap
    <3> QED BY <1>1, <1>2, <1>3, <1>5, <2>4, <3>1, AcceptKeeps
  <2> QED BY <1>1, <1>2, <1>7, <2>2, <2>3, <2>4 DEF FileRewrap
<1>8. CASE PgRewrap(r)
  <2>1. repo # "file" /\ disk' = disk /\ durable' = durable
    BY <1>8 DEF PgRewrap
  <2>2. creds' = creds \/ (matches /\ creds' = Rewrapped(p.cred))
    BY <1>1, <1>2, <1>8 DEF PgRewrap
  <2>3. Steady(p.cred)
    BY <1>2, <1>5, <2>1, <2>2 DEF Steady, Renewed
  <2>4. CASE Authorize(r)
    BY <1>1, <1>3, <1>4, <2>3, <2>4, AuthorizeKeeps
  <2>5. CASE requests' = [requests EXCEPT ![r].at = "reread_failed"]
    <3>1. PICK to : to = "reread_failed"
      OBVIOUS
    <3> QED BY <1>1, <1>2, <1>3, <1>4, <2>3, <2>5, <3>1, GoesOn
  <2>6. CASE ~matches /\ creds' = creds /\ requests' = [requests EXCEPT ![r].at = "reread"]
    <3>1. PICK to : to = "reread"
      OBVIOUS
    <3>2. ~p.touched /\ p.told # Unknown => row.envelope = "v2"
      BY <1>4, <2>6 DEF DecryptResult, StoredRow
    <3>3. creds'[p.cred].envelope = row.envelope
      BY <1>2, <2>6
    <3> QED BY <1>1, <1>2, <1>3, <1>4, <2>3, <2>6, <3>1, <3>2, <3>3, GoesOn
  <2> QED BY <1>1, <1>2, <1>8, <2>4, <2>5, <2>6 DEF PgRewrap
<1> QED BY <1>6, <1>7, <1>8

\* Postgres reads again after a lost race or a failed update.
LEMMA RereadKeeps ==
  ASSUME CredentialInv, process.up, NEW r \in Requests, PgReread(r), UNCHANGED <<config, process, expired>>
  PROVE  CredentialInv'
<1>1. PICK p : p = requests[r]
  OBVIOUS
<1>2. PICK row : row = creds[p.cred]
  OBVIOUS
<1>3. /\ p.at \in {"reread", "reread_failed"} /\ Pending(p) /\ p.at # "read"
      /\ creds' = creds /\ disk' = disk /\ durable' = durable /\ locks' = locks
      /\ calls' = calls /\ acked' = acked
  BY <1>1 DEF PgReread, Unchanged, Pending
<1>4. Steady(p.cred) /\ p.cred \in Creds
  BY <1>1, <1>3, Quiet, Reads
<1>5. CASE Authorize(r)
  BY <1>1, <1>3, <1>4, <1>5, AuthorizeKeeps
<1>6. CASE Answer(r, "unavailable")
  BY <1>1, <1>3, <1>4, <1>6, PlainKeeps DEF Verdicts
<1>7. CASE ~AcceptRewrapped(row) /\ p.at = "reread" /\ Answer(r, "denied")
  <2>1. ~(~p.touched /\ p.told # Unknown)
    <3> SUFFICES ASSUME ~p.touched, p.told # Unknown
                 PROVE  FALSE
      OBVIOUS
    <3>1. (p.told.live => row.live) /\ p.told.live /\ DecryptResult(row) = "secret" /\ row.envelope = "v2"
      BY <1>1, <1>2, <1>3, <1>7, Reads
    <3> QED BY <1>7, <3>1 DEF AcceptRewrapped, MatchingV2
  <2> QED BY <1>1, <1>3, <1>4, <1>7, <2>1, PlainKeeps DEF Verdicts
<1> QED BY <1>1, <1>2, <1>3, <1>5, <1>6, <1>7 DEF PgReread

\* Authentication keeps the invariant.
LEMMA AuthenticateKeeps ==
  ASSUME CredentialInv, SyncFails = FALSE, NEW r \in Requests, Authenticate(r)
  PROVE  CredentialInv'
BY ResolveKeeps, SigV4Keeps, ReadFailsKeeps, DecryptKeeps, RewrapKeeps, RereadKeeps DEF Authenticate

\* A call that changes its own entry and perhaps its own hold of the lock.
LEMMA CallMoves ==
  ASSUME CredentialInv, NEW w \in Callers, NEW k \in CallShape, calls' = [calls EXCEPT ![w] = k],
         config' = config, locks'.mutation \in {locks.mutation, w, Nobody},
         locks'.mutation = w => locks.mutation \in {w, Nobody},
         locks'.mutation = Nobody => locks.mutation \in {w, Nobody},
         Working(k) => (k.op \in KeyOps /\ k.cred \in Keys) \/ (k.op \in TokenOps /\ k.cred \in Tokens),
         Holding(k) <=> locks'.mutation = w, Holding(k) => repo = "file",
         k.at = "copied" => k.cred \in Tokens
  PROVE  Serialized' /\ calls'[w] = k /\ \A v \in Callers : v # w => calls'[v] = calls[v]
<1>1. DOMAIN calls = Callers /\ \A v \in Callers : Fits(calls[v], v)
  BY DEF CredentialInv, Serialized
<1>2. calls'[w] = k /\ \A v \in Callers : v # w => calls'[v] = calls[v]
  BY <1>1
<1>3. repo' = repo
  BY DEF repo
<1>4. Fits(calls[w], w)'
  BY <1>2, <1>3 DEF Fits
<1>5. ASSUME NEW v \in Callers, v # w
      PROVE  Fits(calls[v], v)'
  <2>1. Nobody # v
    BY CredentialAssumption
  <2>2. locks'.mutation = v <=> locks.mutation = v
    BY <1>5, <2>1
  <2>3. Fits(calls[v], v) /\ calls'[v] = calls[v]
    BY <1>1, <1>2, <1>5
  <2> QED BY <1>3, <2>2, <2>3 DEF Fits, Working, Holding
<1> QED BY <1>1, <1>2, <1>4, <1>5 DEF Serialized

\* An answered call.
LEMMA CallFinished ==
  ASSUME CredentialInv, NEW w \in Callers, NEW told, Finish(w, told)
  PROVE  /\ \E k \in CallShape : /\ calls' = [calls EXCEPT ![w] = k]
                                 /\ k.at = "done" /\ k.cred = calls[w].cred
         /\ acked' = [acked EXCEPT ![calls[w].cred] = told]
<1>1. PICK old : old = calls[w]
  OBVIOUS
<1>2. old \in CallShape /\ DOMAIN calls = Callers
  BY <1>1 DEF CredentialInv, Serialized, Fits
<1> DEFINE k == [old EXCEPT !.at = "done", !.copy = <<>>, !.before = Absent]
<1>3. Absent \in StoredRow
  BY DEF Absent, StoredRow
<1>4. k \in CallShape /\ k.at = "done" /\ k.cred = old.cred
  BY <1>2, <1>3 DEF CallShape
<1>5. calls' = [calls EXCEPT ![w] = k]
  BY <1>1, <1>2 DEF Finish
<1> QED BY <1>1, <1>4, <1>5 DEF Finish

\* Everybody who authenticates with the credential notices.
LEMMA Noticed ==
  ASSUME CredentialInv, NEW c, Touch(c)
  PROVE  /\ DOMAIN requests' = Requests
         /\ \A r \in Requests : \/ requests'[r] = requests[r]
                                \/ requests'[r] = [requests[r] EXCEPT !.touched = TRUE]
         /\ \A r \in Requests : /\ requests[r].cred = c => requests'[r].touched
                                /\ requests'[r].cred = requests[r].cred /\ requests'[r].at = requests[r].at
                                /\ requests[r].touched => requests'[r].touched
<1>1. \A r \in Requests : requests[r] \in RequestShape
  BY DEF CredentialInv, Answered, Fair, Asking
<1>2. /\ DOMAIN requests' = Requests
      /\ \A r \in Requests :
           requests'[r] = IF requests[r].cred = c THEN [requests[r] EXCEPT !.touched = TRUE] ELSE requests[r]
  BY DEF Touch
<1>3. ASSUME NEW r \in Requests
      PROVE  /\ requests[r].cred = c => requests'[r].touched
             /\ requests'[r].cred = requests[r].cred /\ requests'[r].at = requests[r].at
             /\ requests[r].touched => requests'[r].touched
  <2>1. PICK q : q = requests[r]
    OBVIOUS
  <2>2. PICK p : p = requests'[r]
    OBVIOUS
  <2>3. q \in RequestShape /\ p = IF q.cred = c THEN [q EXCEPT !.touched = TRUE] ELSE q
    BY <1>1, <1>2, <2>1, <2>2
  <2>4. /\ q.cred = c => p.touched
        /\ p.cred = q.cred /\ p.at = q.at
        /\ q.touched => p.touched
    BY <2>3 DEF RequestShape
  <2> QED BY <2>1, <2>2, <2>4
<1> QED BY <1>2, <1>3

\* A caller begins.
LEMMA BeginKeeps ==
  ASSUME CredentialInv, NEW w \in Callers, NEW op, NEW c, NEW pem \in {0, 1}, Begin(w, op, c, pem),
         (op \in KeyOps /\ c \in Keys) \/ (op \in TokenOps /\ c \in Tokens)
  PROVE  CredentialInv'
<1> DEFINE k == [Idle EXCEPT !.op = op, !.at = "start", !.cred = c, !.before.pem = pem]
<1>1. /\ k \in CallShape /\ k.at = "start" /\ k.op = op /\ k.cred = c
  BY DEF Idle, Absent, CallShape, StoredRow, Creds
<1>2. /\ calls' = [calls EXCEPT ![w] = k] /\ calls[w].at = "idle" /\ process.up
      /\ config' = config /\ process' = process /\ creds' = creds /\ disk' = disk /\ durable' = durable
      /\ locks' = locks /\ requests' = requests /\ expired' = expired /\ acked' = acked
  BY DEF Begin
<1> HIDE DEF k
<1>3. locks.mutation # w
  BY <1>2 DEF CredentialInv, Serialized, Fits, Holding
<1>4. Serialized' /\ calls'[w] = k /\ \A v \in Callers : v # w => calls'[v] = calls[v]
  BY <1>1, <1>2, <1>3, CallMoves DEF Working, Holding
<1>5. CredentialTypes'
  BY <1>2 DEF CredentialInv, CredentialTypes, Stored, Opens, cipher
<1>6. Persisted'
  BY <1>1, <1>2, <1>4 DEF CredentialInv, Persisted, Persisting, Holding, LockOf, repo
<1>7. Promised'
  BY <1>2 DEF CredentialInv, Promised, Base, repo
<1>8. Stopped'
  BY <1>2 DEF Stopped
<1>9. Disturbed'
  BY <1>1, <1>2, <1>4 DEF CredentialInv, Disturbed
<1>10. Answered'
  BY <1>2, RequestsRest
<1> QED BY <1>4, <1>5, <1>6, <1>7, <1>8, <1>9, <1>10 DEF CredentialInv

\* Memory and Postgres: the row and the answer in one step.
LEMMA CommitKeeps ==
  ASSUME CredentialInv, process.up, repo # "file", NEW w \in Callers, Working(calls[w]),
         NEW row \in StoredRow, Opens(calls[w].cred, row), NEW told \in {Unknown, Expect(row)},
         creds' = [creds EXCEPT ![calls[w].cred] = row], Finish(w, told), Touch(calls[w].cred),
         UNCHANGED <<config, process, expired, disk, durable, locks>>
  PROVE  CredentialInv'
<1>1. PICK c : c = calls[w].cred
  OBVIOUS
<1>2. c \in Creds
  BY <1>1 DEF CredentialInv, Serialized, Fits, Creds
<1>3. PICK k \in CallShape : calls' = [calls EXCEPT ![w] = k] /\ k.at = "done" /\ k.cred = c
  BY <1>1, CallFinished
<1>4. acked' = [acked EXCEPT ![c] = told]
  BY <1>1, CallFinished
<1>5. ~Working(k) /\ ~Holding(k)
  BY <1>3 DEF Working, Holding
<1>6. locks.mutation # w
  BY DEF CredentialInv, Serialized, Fits
<1>7. Serialized' /\ calls'[w] = k /\ \A v \in Callers : v # w => calls'[v] = calls[v]
  BY <1>3, <1>5, <1>6, CallMoves
<1>8. PICK rows : rows = creds'
  OBVIOUS
<1>9. Stored(creds) /\ Stored(disk) /\ Stored(durable) /\ acked \in [Creds -> Promise]
  BY DEF CredentialInv, CredentialTypes
<1>10. Stored(rows) /\ rows[c] = row /\ \A o \in Creds : o # c => rows[o] = creds[o]
  <2>1. Opens(c, row) /\ rows = [creds EXCEPT ![c] = row] /\ Stored(creds)
    BY <1>1, <1>8, <1>9
  <2> QED BY <1>2, <2>1 DEF Stored
<1>11. told \in Promise
  <2>1. Unknown \in Promise
    BY DEF Promise, Unknown
  <2>2. Expect(row) \in Promise
    BY DEF Promise, StoredRow, Expect
  <2> QED BY <2>1, <2>2
<1>12. CredentialTypes'
  <2>1. Stored(creds)' /\ Stored(disk)' /\ Stored(durable)'
    BY <1>8, <1>9, <1>10 DEF Stored, Opens, cipher
  <2>2. acked' \in [Creds -> Promise]
    BY <1>2, <1>4, <1>9, <1>11
  <2> QED BY <2>1, <2>2 DEF CredentialInv, CredentialTypes
<1>13. Persisted'
  BY DEF Persisted, repo
<1>14. Promised'
  <2>1. \A o \in Creds : acked[o] = Unknown \/ acked[o] = Expect(creds[o])
    BY DEF CredentialInv, Promised, Base
  <2>2. \A o \in Creds : acked'[o] = IF o = c THEN told ELSE acked[o]
    BY <1>2, <1>4, <1>9
  <2>3. Base' = rows
    BY <1>8 DEF Base, repo
  <2>4. ASSUME NEW o \in Creds
        PROVE  acked'[o] = Unknown \/ acked'[o] = Expect(rows[o])
    BY <1>10, <2>1, <2>2
  <2> QED BY <2>3, <2>4 DEF Promised, Unknown, Expect
<1>15. Stopped'
  BY DEF Stopped
<1>16. Disturbed'
  BY <1>3, <1>7, Noticed DEF CredentialInv, Disturbed, Pending
<1>17. Answered'
  BY <1>1, <1>2, Noticed, ChangeKeeps
<1> QED BY <1>7, <1>12, <1>13, <1>14, <1>15, <1>16, <1>17 DEF CredentialInv

\* File: the map is changed under the locks.
LEMMA MutateKeeps ==
  ASSUME CredentialInv, process.up, repo = "file", NEW w \in Callers, Working(calls[w]),
         NEW row \in StoredRow, Opens(calls[w].cred, row), NEW k \in CallShape,
         k.at = "changed", k.op = calls[w].op, k.cred = calls[w].cred, k.before = creds[k.cred],
         \A o \in Creds : LockOf(o) # LockOf(k.cred) => k.copy[o] = creds[o],
         disk = creds, durable = creds, locks.mutation \in {w, Nobody}, locks'.mutation = w,
         locks' \in [{"mutation", "keys", "tokens"} -> Callers \cup {Nobody}],
         calls' = [calls EXCEPT ![w] = k],
         creds' = [creds EXCEPT ![k.cred] = row], Touch(k.cred),
         UNCHANGED <<config, process, expired, disk, durable, acked>>
  PROVE  CredentialInv'
<1> DEFINE c == k.cred
<1>1. c \in Creds /\ Working(k) /\ Holding(k) /\ k.at # "copied"
  BY DEF CredentialInv, Serialized, Fits, Creds, Working, Holding
<1>2. Serialized' /\ calls'[w] = k /\ \A v \in Callers : v # w => calls'[v] = calls[v]
  <2>1. (k.op \in KeyOps /\ k.cred \in Keys) \/ (k.op \in TokenOps /\ k.cred \in Tokens)
    BY DEF CredentialInv, Serialized, Fits
  <2>2. locks'.mutation # Nobody
    BY CredentialAssumption
  <2> QED BY <1>1, <2>1, <2>2, CallMoves
<1>3. PICK rows : rows = creds'
  OBVIOUS
<1>4. Stored(creds) /\ Stored(disk) /\ Stored(durable)
  BY DEF CredentialInv, CredentialTypes
<1> HIDE DEF c
<1>5. Stored(rows) /\ rows[c] = row /\ \A o \in Creds : o # c => rows[o] = creds[o]
  <2>1. Opens(c, row) /\ rows = [creds EXCEPT ![c] = row] /\ Stored(creds)
    BY <1>3, <1>4 DEF c
  <2> QED BY <1>1, <2>1 DEF Stored
<1>6. CredentialTypes'
  <2>1. Stored(creds)' /\ Stored(disk)' /\ Stored(durable)'
    BY <1>3, <1>4, <1>5 DEF Stored, Opens, cipher
  <2> QED BY <2>1 DEF CredentialInv, CredentialTypes
<1>7. Persisted'
  <2>1. locks'.mutation # Nobody
    BY CredentialAssumption
  <2>2. [rows EXCEPT ![c] = k.before] = creds
    BY <1>1, <1>3, <1>4 DEF c, Stored
  <2>3. ASSUME NEW o \in Creds, LockOf(o) # LockOf(c)
        PROVE  k.copy[o] = rows[o]
    <3>1. o # c
      BY <2>3
    <3> QED BY <1>5, <2>3, <3>1 DEF c
  <2>4. Persisting(calls[w])'
    BY <1>1, <1>2, <1>3, <2>2, <2>3 DEF Persisting, c, LockOf, Holding
  <2>5. ASSUME NEW v \in Callers, v # w
        PROVE  Persisting(calls[v])'
    <3>1. ~Holding(calls[v])
      BY <2>5, CredentialAssumption DEF CredentialInv, Serialized, Fits
    <3> QED BY <1>2, <2>5, <3>1 DEF Persisting, Holding
  <2> QED BY <2>1, <2>4, <2>5 DEF Persisted
<1>8. Promised'
  BY DEF CredentialInv, Promised, Base, repo
<1>9. Stopped'
  BY DEF Stopped
<1>10. Disturbed'
  BY <1>2, Noticed DEF CredentialInv, Disturbed, Pending
<1>11. Answered'
  BY <1>1, Noticed, ChangeKeeps DEF c
<1> QED BY <1>2, <1>6, <1>7, <1>8, <1>9, <1>10, <1>11 DEF CredentialInv

\* The locks after the answer of the call that held them.
LEMMA Unlocked ==
  ASSUME CredentialInv, NEW w \in Callers, locks' = Unlock(w)
  PROVE  /\ locks' \in [{"mutation", "keys", "tokens"} -> Callers \cup {Nobody}]
         /\ locks'.mutation = IF locks.mutation = w THEN Nobody ELSE locks.mutation
<1>1. locks \in [{"mutation", "keys", "tokens"} -> Callers \cup {Nobody}]
  BY DEF CredentialInv, CredentialTypes
<1> QED BY <1>1 DEF Unlock

\* The other calls while nobody or only w holds the lock.
LEMMA OthersIdle ==
  ASSUME CredentialInv, NEW w \in Callers, locks.mutation \in {w, Nobody}, NEW v \in Callers, v # w
  PROVE  ~Holding(calls[v])
BY CredentialAssumption DEF CredentialInv, Serialized, Fits

\* A call ends: it found nothing, was put back, or is answered with what is stored.
LEMMA CallEndKeeps ==
  ASSUME CredentialInv, process.up, NEW w \in Callers, Working(calls[w]), NEW told,
         Finish(w, told), locks' = Unlock(w),
         told \in {Unknown, acked[calls[w].cred], Expect(creds[calls[w].cred])},
         repo # "file" => durable' = durable /\ disk' = disk /\ creds' = creds /\ told = acked[calls[w].cred],
         repo = "file" /\ locks.mutation = w => disk' = creds' /\ durable' = creds',
         repo = "file" /\ locks.mutation # w =>
            disk' = disk /\ durable' = durable /\ creds' = creds /\ told = acked[calls[w].cred],
         Stored(creds'), Stored(disk'), Stored(durable'),
         Promised', Answered', requests' = requests, UNCHANGED <<config, process, expired>>
  PROVE  CredentialInv'
<1>1. PICK c : c = calls[w].cred
  OBVIOUS
<1>2. c \in Creds
  BY <1>1 DEF CredentialInv, Serialized, Fits, Creds
<1>3. PICK k \in CallShape : calls' = [calls EXCEPT ![w] = k] /\ k.at = "done" /\ k.cred = c
  BY <1>1, CallFinished
<1>4. acked' = [acked EXCEPT ![c] = told]
  BY <1>1, CallFinished
<1>5. ~Working(k) /\ ~Holding(k) /\ k.at # "copied"
  BY <1>3 DEF Working, Holding
<1>6. /\ locks' \in [{"mutation", "keys", "tokens"} -> Callers \cup {Nobody}]
      /\ locks'.mutation = IF locks.mutation = w THEN Nobody ELSE locks.mutation
  BY Unlocked
<1>7. Serialized' /\ calls'[w] = k /\ \A v \in Callers : v # w => calls'[v] = calls[v]
  <2>1. locks'.mutation # w
    BY <1>6, CredentialAssumption
  <2>2. /\ locks'.mutation \in {locks.mutation, w, Nobody}
        /\ locks'.mutation = Nobody => locks.mutation \in {w, Nobody}
    BY <1>6
  <2> QED BY <1>3, <1>5, <2>1, <2>2, CallMoves
<1>8. CredentialTypes'
  <2>1. Stored(creds)' /\ Stored(disk)' /\ Stored(durable)'
    BY DEF Stored, Opens, cipher
  <2>2. told \in Promise
    <3>1. Unknown \in Promise
      BY DEF Promise, Unknown
    <3>2. acked[c] \in Promise /\ creds[c] \in StoredRow
      BY <1>2 DEF CredentialInv, CredentialTypes, Stored
    <3>3. PICK row : row = creds[c]
      OBVIOUS
    <3>4. Expect(row) \in Promise
      BY <3>2, <3>3 DEF Promise, StoredRow, Expect
    <3> QED BY <1>1, <3>1, <3>2, <3>3, <3>4
  <2>3. acked' \in [Creds -> Promise]
    BY <1>2, <1>4, <2>2 DEF CredentialInv, CredentialTypes
  <2> QED BY <1>6, <2>1, <2>3 DEF CredentialInv, CredentialTypes
<1>9. Persisted'
  <2> SUFFICES ASSUME repo = "file"
               PROVE  /\ locks'.mutation = Nobody => disk' = creds' /\ durable' = creds'
                      /\ \A v \in Callers : Persisting(calls[v])'
    BY DEF Persisted, repo
  <2>1. Persisting(calls[w])'
    BY <1>5, <1>7 DEF Persisting, Holding
  <2>2. CASE locks.mutation = w
    <3>1. ASSUME NEW v \in Callers, v # w
          PROVE  Persisting(calls[v])'
      <4>1. ~Holding(calls[v])
        BY <2>2, <3>1, OthersIdle
      <4> QED BY <1>7, <3>1, <4>1 DEF Persisting, Holding
    <3> QED BY <2>1, <2>2, <3>1
  <2>3. CASE locks.mutation # w
    <3>1. ASSUME NEW v \in Callers, v # w
          PROVE  Persisting(calls[v])'
      <4>1. Persisting(calls[v]) /\ calls'[v] = calls[v]
        BY <1>7, <3>1 DEF CredentialInv, Persisted
      <4> QED BY <2>3, <4>1 DEF Persisting, Holding, LockOf
    <3> QED BY <1>6, <2>1, <2>3, <3>1 DEF CredentialInv, Persisted
  <2> QED BY <2>2, <2>3
<1>10. Stopped'
  BY DEF Stopped
<1>11. Disturbed'
  BY <1>3, <1>7 DEF CredentialInv, Disturbed
<1> QED BY <1>7, <1>8, <1>9, <1>10, <1>11 DEF CredentialInv

\* A promise repeated.
LEMMA AckedSame ==
  ASSUME CredentialInv, NEW w \in Callers, Working(calls[w]), Finish(w, acked[calls[w].cred])
  PROVE  acked' = acked
<1>1. PICK c : c = calls[w].cred
  OBVIOUS
<1>2. c \in Creds
  BY <1>1 DEF CredentialInv, Serialized, Fits, Creds
<1>3. acked' = [acked EXCEPT ![c] = acked[c]]
  BY <1>1 DEF Finish
<1> QED BY <1>2, <1>3 DEF CredentialInv, CredentialTypes

\* The repository finds no such row.
LEMMA NotFoundKeeps ==
  ASSUME CredentialInv, process.up, NEW w \in Callers, calls[w].at \in {"start", "copied"},
         Finish(w, acked[calls[w].cred]), locks' = Unlock(w),
         UNCHANGED <<creds, disk, durable, requests, config, process, expired>>
  PROVE  CredentialInv'
<1>1. Working(calls[w])
  BY DEF Working
<1>2. acked' = acked
  BY <1>1, AckedSame
<1>3. Promised'
  BY <1>2 DEF CredentialInv, Promised, Base, repo
<1>4. Answered'
  BY RequestsRest
<1>5. repo = "file" /\ locks.mutation = w => disk = creds /\ durable = creds
  <2> SUFFICES ASSUME repo = "file", locks.mutation = w
               PROVE  disk = creds /\ durable = creds
    OBVIOUS
  <2>1. Holding(calls[w])
    BY DEF CredentialInv, Serialized, Fits
  <2>2. calls[w].at = "copied"
    BY <2>1 DEF Holding
  <2> QED BY <2>2 DEF CredentialInv, Persisted, Persisting
<1>6. Stored(creds) /\ Stored(disk) /\ Stored(durable)
  BY DEF CredentialInv, CredentialTypes
<1>7. PICK told : told = acked[calls[w].cred]
  OBVIOUS
<1> QED BY <1>1, <1>3, <1>4, <1>5, <1>6, <1>7, CallEndKeeps

\* The snapshot cannot be written and the map is put back.
LEMMA RollBackKeeps ==
  ASSUME CredentialInv, process.up, NEW w \in Callers, calls[w].at = "changed",
         creds' = RollBack(w), Finish(w, acked[calls[w].cred]), locks' = Unlock(w),
         UNCHANGED <<disk, durable, requests, config, process, expired>>
  PROVE  CredentialInv'
<1>1. Working(calls[w]) /\ Holding(calls[w])
  BY DEF Working, Holding
<1>2. acked' = acked
  BY <1>1, AckedSame
<1>3. repo = "file" /\ locks.mutation = w
  BY <1>1 DEF CredentialInv, Serialized, Fits
<1>4. creds' = [creds EXCEPT ![calls[w].cred] = calls[w].before] /\ disk = creds' /\ durable = creds'
  BY <1>3 DEF RollBack, CredentialInv, Persisted, Persisting
<1>5. Promised'
  BY <1>2, <1>3 DEF CredentialInv, Promised, Base, repo
<1>6. Stored(disk)
  BY DEF CredentialInv, CredentialTypes
<1>7. Answered'
  <2>1. PICK c : c = calls[w].cred
    OBVIOUS
  <2>2. PICK row : row = calls[w].before
    OBVIOUS
  <2>3. c \in Creds
    BY <1>1, <2>1 DEF CredentialInv, Serialized, Fits, Creds
  <2>4. \A r \in Requests : Pending(requests[r]) /\ requests[r].cred = c => requests'[r].touched
    BY <2>1 DEF CredentialInv, Disturbed
  <2>5. DOMAIN requests' = Requests /\ creds' = [creds EXCEPT ![c] = row]
    BY <1>4, <2>1, <2>2 DEF CredentialInv, Answered
  <2>6. /\ config' = config /\ process' = process /\ expired' = expired
        /\ \A r \in Requests : \/ requests'[r] = requests[r]
                               \/ requests'[r] = [requests[r] EXCEPT !.touched = TRUE]
    OBVIOUS
  <2> QED BY ONLY CredentialInv, <2>3, <2>4, <2>5, <2>6, ChangeKeeps
<1>8. PICK told : told = acked[calls[w].cred]
  OBVIOUS
<1> QED BY <1>1, <1>3, <1>4, <1>5, <1>6, <1>7, <1>8, CallEndKeeps

\* The directory is synced and the caller is told.
LEMMA SyncKeeps ==
  ASSUME CredentialInv, process.up, SyncFails = FALSE, NEW w \in Callers, SyncParent(w),
         UNCHANGED <<config, process, expired>>
  PROVE  CredentialInv'
<1>1. Working(calls[w]) /\ Holding(calls[w]) /\ calls[w].at = "renamed"
  BY DEF Working, Holding, SyncParent
<1>2. repo = "file" /\ locks.mutation = w
  BY <1>1 DEF CredentialInv, Serialized, Fits
<1>3. PICK c : c = calls[w].cred
  OBVIOUS
<1>4. c \in Creds
  BY <1>1, <1>3 DEF CredentialInv, Serialized, Fits, Creds
<1>5. disk = creds /\ durable = [creds EXCEPT ![c] = calls[w].before]
  BY <1>1, <1>2, <1>3 DEF CredentialInv, Persisted, Persisting
<1>6. PICK told : told = Expect(creds[c])
  OBVIOUS
<1>7. /\ Finish(w, told) /\ locks' = Unlock(w) /\ durable' = creds /\ creds' = creds /\ disk' = disk
      /\ requests' = requests
  BY <1>3, <1>5, <1>6 DEF SyncParent
<1>8. acked' = [acked EXCEPT ![c] = told] /\ acked \in [Creds -> Promise] /\ Stored(creds)
  BY <1>3, <1>7 DEF Finish, CredentialInv, CredentialTypes
<1>9. Promised'
  <2>1. \A o \in Creds : acked[o] = Unknown \/ acked[o] = Expect(durable[o])
    BY <1>2 DEF CredentialInv, Promised, Base
  <2>2. \A o \in Creds : o # c => durable[o] = creds[o]
    BY <1>5, <1>8 DEF Stored
  <2>3. Base' = creds
    BY <1>2, <1>7 DEF Base, repo
  <2>4. ASSUME NEW o \in Creds
        PROVE  acked'[o] = Unknown \/ acked'[o] = Expect(creds[o])
    BY <1>4, <1>6, <1>8, <2>1, <2>2
  <2> QED BY <2>3, <2>4 DEF Promised, Unknown, Expect
<1>10. Answered'
  BY <1>7, RequestsRest
<1> QED BY <1>1, <1>2, <1>3, <1>5, <1>6, <1>7, <1>8, <1>9, <1>10, CallEndKeeps

\* A call goes on while the map stays as it is.
LEMMA HoldKeeps ==
  ASSUME CredentialInv, process.up, repo = "file", NEW w \in Callers, Working(calls[w]),
         NEW k \in CallShape, k.op = calls[w].op, k.cred = calls[w].cred,
         calls' = [calls EXCEPT ![w] = k], Holding(k), k.at = "copied" => k.cred \in Tokens,
         k.at # "changed", k.at = "renamed" => calls[w].at = "changed",
         locks.mutation \in {w, Nobody}, locks'.mutation = w,
         locks' \in [{"mutation", "keys", "tokens"} -> Callers \cup {Nobody}],
         Stored(disk'), Persisting(k)',
         UNCHANGED <<creds, durable, requests, acked, config, process, expired>>
  PROVE  CredentialInv'
<1>1. Serialized' /\ calls'[w] = k /\ \A v \in Callers : v # w => calls'[v] = calls[v]
  <2>1. (k.op \in KeyOps /\ k.cred \in Keys) \/ (k.op \in TokenOps /\ k.cred \in Tokens)
    BY DEF CredentialInv, Serialized, Fits
  <2>2. locks'.mutation # Nobody
    BY CredentialAssumption
  <2> QED BY <2>1, <2>2, CallMoves
<1>2. CredentialTypes'
  BY DEF CredentialInv, CredentialTypes, Stored, Opens, cipher
<1>3. Persisted'
  <2>1. locks'.mutation # Nobody
    BY CredentialAssumption
  <2>2. ASSUME NEW v \in Callers, v # w
        PROVE  Persisting(calls[v])'
    <3>1. ~Holding(calls[v])
      BY <2>2, OthersIdle
    <3> QED BY <1>1, <2>2, <3>1 DEF Persisting, Holding
  <2>3. Persisting(calls[w])'
    BY <1>1 DEF Persisting, Holding
  <2> QED BY <2>1, <2>2, <2>3 DEF Persisted
<1>4. Promised'
  BY DEF CredentialInv, Promised, Base, repo
<1>5. Stopped'
  BY DEF Stopped
<1>6. Disturbed'
  BY <1>1 DEF CredentialInv, Disturbed
<1>7. Answered'
  BY RequestsRest
<1> QED BY <1>1, <1>2, <1>3, <1>4, <1>5, <1>6, <1>7 DEF CredentialInv

\* The token mutations copy the keys first.
LEMMA CopyKeeps ==
  ASSUME CredentialInv, process.up, repo = "file", NEW w \in Callers, FileCopyKeys(w),
         UNCHANGED <<config, process, expired>>
  PROVE  CredentialInv'
<1>1. PICK old : old = calls[w]
  OBVIOUS
<1>2. old \in CallShape /\ DOMAIN calls = Callers /\ creds \in [Creds -> StoredRow]
  BY <1>1 DEF CredentialInv, Serialized, Fits, CredentialTypes, Stored
<1>3. /\ old.at = "start" /\ old.cred \in Tokens /\ locks.mutation = Nobody
      /\ locks' = [locks EXCEPT !.mutation = w]
      /\ UNCHANGED <<creds, disk, durable, requests, acked>>
  BY <1>1 DEF FileCopyKeys, MutationLockFree
<1>c. PICK copied : copied = [o \in Creds |-> IF o \in Keys THEN creds[o] ELSE Absent]
  OBVIOUS
<1> DEFINE k == [old EXCEPT !.at = "copied", !.copy = copied]
<1>4. copied \in [Creds -> StoredRow] /\ \A o \in Keys : copied[o] = creds[o]
  <2>1. Absent \in StoredRow
    BY DEF Absent, StoredRow
  <2> QED BY <1>2, <1>c, <2>1 DEF Creds
<1>5. calls' = [calls EXCEPT ![w] = k]
  BY <1>1, <1>2, <1>c DEF FileCopyKeys
<1>6. k \in CallShape /\ k.at = "copied" /\ k.op = old.op /\ k.cred = old.cred /\ k.copy = copied
  BY <1>2, <1>4 DEF CallShape
<1> HIDE DEF k
<1>7. disk = creds /\ durable = creds
  BY <1>3 DEF CredentialInv, Persisted
<1>8. /\ locks' \in [{"mutation", "keys", "tokens"} -> Callers \cup {Nobody}]
      /\ locks'.mutation = w
  BY <1>3 DEF CredentialInv, CredentialTypes
<1>9. Persisting(k)'
  <2>1. ASSUME NEW o \in Creds, LockOf(o) # LockOf(k.cred)
        PROVE  k.copy[o] = creds[o]
    <3>1. k.cred \notin Keys
      BY <1>3, <1>6, CredentialAssumption
    <3>2. o \in Keys
      BY <2>1, <3>1 DEF LockOf
    <3> QED BY <1>4, <1>6, <3>2
  <2> QED BY <1>3, <1>6, <1>7, <2>1 DEF Persisting, LockOf, Holding
<1>10. Stored(disk')
  <2>1. Stored(disk)
    BY DEF CredentialInv, CredentialTypes
  <2> QED BY <1>3, <2>1
<1> QED BY <1>1, <1>3, <1>5, <1>6, <1>8, <1>9, <1>10, HoldKeeps DEF Working, Holding

\* The rename commits both maps as one snapshot.
LEMMA RenameKeeps ==
  ASSUME CredentialInv, process.up, NEW w \in Callers, calls[w].at = "changed",
         disk' = Snapshot(w), calls' = [calls EXCEPT ![w].at = "renamed"],
         UNCHANGED <<creds, durable, locks, requests, acked, config, process, expired>>
  PROVE  CredentialInv'
<1>1. PICK old : old = calls[w]
  OBVIOUS
<1>2. /\ old \in CallShape /\ DOMAIN calls = Callers /\ Stored(creds)
      /\ creds \in [Creds -> StoredRow]
  BY <1>1 DEF CredentialInv, Serialized, Fits, CredentialTypes, Stored
<1> DEFINE k == [old EXCEPT !.at = "renamed"]
<1>3. /\ k \in CallShape /\ k.at = "renamed" /\ k.op = old.op /\ k.cred = old.cred
      /\ k.copy = old.copy /\ k.before = old.before
  BY <1>2 DEF CallShape
<1>4. calls' = [calls EXCEPT ![w] = k]
  BY <1>1, <1>2
<1> HIDE DEF k
<1>5. Holding(old) /\ Working(old) /\ Holding(k) /\ old.at = "changed"
  BY <1>1, <1>3 DEF Holding, Working
<1>6. repo = "file" /\ locks.mutation = w
  BY <1>1, <1>5 DEF CredentialInv, Serialized, Fits
<1>7. /\ durable = [creds EXCEPT ![old.cred] = old.before]
      /\ \A o \in Creds : LockOf(o) # LockOf(old.cred) => old.copy[o] = creds[o]
  BY <1>1, <1>5, <1>6 DEF CredentialInv, Persisted, Persisting
<1>8. disk' = creds
  <2>1. disk' = [o \in Creds |-> IF LockOf(o) = LockOf(old.cred) THEN creds[o] ELSE old.copy[o]]
    BY <1>1 DEF Snapshot
  <2> QED BY <1>2, <1>7, <2>1
<1>9. Persisting(k)'
  BY <1>3, <1>7, <1>8 DEF Persisting, LockOf, Holding
<1>10. locks' \in [{"mutation", "keys", "tokens"} -> Callers \cup {Nobody}]
  BY DEF CredentialInv, CredentialTypes
<1>11. locks' = locks /\ locks'.mutation = w /\ Stored(disk')
  BY <1>2, <1>6, <1>8
<1> QED BY <1>1, <1>3, <1>4, <1>5, <1>6, <1>9, <1>10, <1>11, HoldKeeps

\* The rows the operations write.
LEMMA NewRows ==
  ASSUME process.era \in Nat, NEW pem \in {0, 1}
  PROVE  /\ Absent \in StoredRow /\ \A c : Opens(c, Absent)
         /\ GenerateMcpToken \in StoredRow /\ \A c \in Tokens : Opens(c, GenerateMcpToken)
         /\ BootstrapApiKey \in StoredRow /\ \A c : Opens(c, BootstrapApiKey)
         /\ GenerateApiKey(pem) \in StoredRow /\ \A c : Opens(c, GenerateApiKey(pem))
<1>2. Absent \in StoredRow /\ \A c : Opens(c, Absent)
  BY DEF Absent, StoredRow, Opens
<1>3. GenerateMcpToken \in StoredRow
  BY DEF GenerateMcpToken, Absent, StoredRow
<1>4. \A c \in Tokens : Opens(c, GenerateMcpToken)
  BY CredentialAssumption DEF Opens
<1>5. ASSUME NEW row \in StoredRow
      PROVE  Sealed(row) \in StoredRow /\ \A c : Opens(c, Sealed(row))
  BY DEF Sealed, StoredRow, Opens
<1>6. [Absent EXCEPT !.live = TRUE] \in StoredRow /\ [Absent EXCEPT !.live = TRUE, !.pem = pem] \in StoredRow
  BY DEF Absent, StoredRow
<1> QED BY <1>2, <1>3, <1>4, <1>5, <1>6 DEF BootstrapApiKey, GenerateApiKey

\* Which row a mutation writes, and how.
Writes(w, row) ==
    \/ repo = "memory" /\ InMemory(w, row)
    \/ repo = "postgres" /\ Statement(w, row)
    \/ repo = "file" /\ calls[w].cred \in Keys /\ FileMutate(w, row)
    \/ repo = "file" /\ FileMutateTokens(w, row)

\* Each operation of each repository writes one well-formed row.
LEMMA PerformWrites ==
  ASSUME CredentialInv, NEW w \in Callers, Working(calls[w]), Perform(w)
  PROVE  \E row \in StoredRow : Opens(calls[w].cred, row) /\ Writes(w, row)
<1>e. process.era \in Nat
  BY DEF CredentialInv, CredentialTypes
<1>1. PICK k : k = calls[w]
  OBVIOUS
<1>2. /\ k \in CallShape
      /\ (k.op \in KeyOps /\ k.cred \in Keys) \/ (k.op \in TokenOps /\ k.cred \in Tokens)
  BY <1>1 DEF CredentialInv, Serialized, Fits
<1>3. PICK pem : pem = k.before.pem
  OBVIOUS
<1>4. pem \in {0, 1}
  BY <1>2, <1>3 DEF CallShape, StoredRow
<1>5. PICK old : old = creds[k.cred]
  OBVIOUS
<1> DEFINE set == [old EXCEPT !.pem = pem]
<1>6. old \in StoredRow /\ Opens(k.cred, old)
  BY <1>2, <1>5 DEF CredentialInv, CredentialTypes, Stored, Creds
<1>7. set \in StoredRow /\ Opens(k.cred, set)
  BY <1>4, <1>6 DEF StoredRow, Opens
<1>8. ASSUME k.op \in KeyOps
      PROVE  k.cred \in Keys
  BY <1>2, <1>8 DEF KeyOps, TokenOps
<1>9. ASSUME k.op \in TokenOps
      PROVE  k.cred \in Tokens
  BY <1>2, <1>9 DEF KeyOps, TokenOps
<1>10. CASE k.op = "create_key"
  <2>1. Writes(w, GenerateApiKey(pem))
    BY <1>1, <1>3, <1>8, <1>10 DEF Perform, Writes, KeyOps, MemCreateKey, FileCreateKey, PgCreateKey
  <2> QED BY <1>4, <1>e, <2>1, NewRows
<1>11. CASE k.op = "set_public_key"
  <2>1. Writes(w, set)
    BY <1>1, <1>3, <1>5, <1>8, <1>11 DEF Perform, Writes, KeyOps, MemSetPublicKey, FileSetPublicKey, PgSetPublicKey
  <2> QED BY <1>1, <1>7, <2>1
<1>12. CASE k.op = "delete_key"
  <2>1. Writes(w, Absent)
    BY <1>1, <1>8, <1>12 DEF Perform, Writes, KeyOps, MemDeleteKey, FileDeleteKey, PgDeleteKey
  <2> QED BY <1>4, <1>e, <2>1, NewRows
<1>13. CASE k.op = "create_mcp_token"
  <2>1. Writes(w, GenerateMcpToken)
    BY <1>1, <1>13 DEF Perform, Writes, MemCreateMcpToken, FileCreateMcpToken, PgCreateMcpToken
  <2> QED BY <1>1, <1>4, <1>9, <1>13, <1>e, <2>1, NewRows DEF TokenOps
<1>14. CASE k.op = "delete_mcp_token"
  <2>1. Writes(w, Absent)
    BY <1>1, <1>14 DEF Perform, Writes, MemDeleteMcpToken, FileDeleteMcpToken, PgDeleteMcpToken
  <2> QED BY <1>4, <1>e, <2>1, NewRows
<1> QED BY <1>1, <1>10, <1>11, <1>12, <1>13, <1>14 DEF Perform

\* A mutation of the file repository that found the lock free.
LEMMA FileMutateKeeps ==
  ASSUME CredentialInv, process.up, repo = "file", NEW w \in Callers, Working(calls[w]),
         NEW row \in StoredRow, Opens(calls[w].cred, row), FileMutate(w, row),
         UNCHANGED <<config, process, expired>>
  PROVE  CredentialInv'
<1>1. PICK old : old = calls[w]
  OBVIOUS
<1>2. PICK c : c = old.cred
  OBVIOUS
<1>3. /\ old \in CallShape /\ DOMAIN calls = Callers /\ c \in Creds
      /\ creds \in [Creds -> StoredRow]
      /\ locks \in [{"mutation", "keys", "tokens"} -> Callers \cup {Nobody}]
  BY <1>1, <1>2 DEF CredentialInv, Serialized, Fits, CredentialTypes, Stored, Creds
<1>4. /\ locks.mutation = Nobody /\ locks' = [locks EXCEPT !.mutation = w, ![LockOf(c)] = w]
      /\ creds' = [creds EXCEPT ![c] = row] /\ Touch(c) /\ disk' = disk /\ durable' = durable /\ acked' = acked
  BY <1>1, <1>2 DEF FileMutate, MutationLockFree
<1>5. PICK copied : copied = [o \in Creds |-> IF LockOf(o) = LockOf(c) THEN Absent ELSE creds[o]]
  OBVIOUS
<1>6. PICK before : before = creds[c]
  OBVIOUS
<1> DEFINE k == [old EXCEPT !.at = "changed", !.before = before, !.copy = copied]
<1>7. calls' = [calls EXCEPT ![w] = k]
  BY <1>1, <1>2, <1>3, <1>5, <1>6 DEF FileMutate
<1>8. /\ copied \in [Creds -> StoredRow] /\ before \in StoredRow
      /\ \A o \in Creds : LockOf(o) # LockOf(c) => copied[o] = creds[o]
  <2>1. Absent \in StoredRow
    BY DEF Absent, StoredRow
  <2> QED BY <1>3, <1>5, <1>6, <2>1
<1>9. /\ k \in CallShape /\ k.at = "changed" /\ k.op = old.op /\ k.cred = c /\ k.copy = copied
      /\ k.before = before
  BY <1>2, <1>3, <1>8 DEF CallShape
<1> HIDE DEF k
<1>10. /\ locks' \in [{"mutation", "keys", "tokens"} -> Callers \cup {Nobody}]
       /\ locks'.mutation = w
  BY <1>3, <1>4 DEF LockOf
<1>11. disk = creds /\ durable = creds
  BY <1>4 DEF CredentialInv, Persisted
<1>12. /\ k.op = calls[w].op /\ k.cred = calls[w].cred /\ k.before = creds[k.cred] /\ k.at = "changed"
       /\ \A o \in Creds : LockOf(o) # LockOf(k.cred) => k.copy[o] = creds[o]
       /\ locks.mutation \in {w, Nobody} /\ k \in CallShape
       /\ creds' = [creds EXCEPT ![k.cred] = row] /\ Touch(k.cred)
  BY <1>1, <1>2, <1>4, <1>6, <1>8, <1>9
<1>13. UNCHANGED <<config, process, expired, disk, durable, acked>>
  BY <1>4
<1> QED
  BY ONLY CredentialInv, process.up, repo = "file", Working(calls[w]), row \in StoredRow, w \in Callers,
          Opens(calls[w].cred, row), <1>7, <1>10, <1>11, <1>12, <1>13, MutateKeeps

\* A mutation of tokens that holds the lock since its copy.
LEMMA FileMutateTokensKeeps ==
  ASSUME CredentialInv, process.up, repo = "file", NEW w \in Callers, Working(calls[w]),
         NEW row \in StoredRow, Opens(calls[w].cred, row), FileMutateTokens(w, row),
         UNCHANGED <<config, process, expired>>
  PROVE  CredentialInv'
<1>1. PICK old : old = calls[w]
  OBVIOUS
<1>2. PICK c : c = old.cred
  OBVIOUS
<1>3. /\ old \in CallShape /\ DOMAIN calls = Callers /\ c \in Creds
      /\ creds \in [Creds -> StoredRow]
      /\ locks \in [{"mutation", "keys", "tokens"} -> Callers \cup {Nobody}]
  BY <1>1, <1>2 DEF CredentialInv, Serialized, Fits, CredentialTypes, Stored, Creds
<1>4. /\ old.at = "copied" /\ locks' = [locks EXCEPT !.tokens = w]
      /\ creds' = [creds EXCEPT ![c] = row] /\ Touch(c) /\ disk' = disk /\ durable' = durable /\ acked' = acked
  BY <1>1, <1>2 DEF FileMutateTokens
<1>5. PICK before : before = creds[c]
  OBVIOUS
<1> DEFINE k == [old EXCEPT !.at = "changed", !.before = before]
<1>6. calls' = [calls EXCEPT ![w] = k]
  BY <1>1, <1>2, <1>3, <1>5 DEF FileMutateTokens
<1>7. before \in StoredRow
  BY <1>3, <1>5
<1>8. /\ k \in CallShape /\ k.at = "changed" /\ k.op = old.op /\ k.cred = c /\ k.copy = old.copy
      /\ k.before = before
  BY <1>2, <1>3, <1>7 DEF CallShape
<1> HIDE DEF k
<1>9. locks.mutation = w
  BY <1>1, <1>4 DEF CredentialInv, Serialized, Fits, Holding
<1>10. /\ locks' \in [{"mutation", "keys", "tokens"} -> Callers \cup {Nobody}]
       /\ locks'.mutation = w
  BY <1>3, <1>4, <1>9
<1>11. /\ disk = creds /\ durable = creds
       /\ \A o \in Creds : LockOf(o) # LockOf(c) => old.copy[o] = creds[o]
  BY <1>1, <1>2, <1>4 DEF CredentialInv, Persisted, Persisting, Holding
<1>12. /\ k.op = calls[w].op /\ k.cred = calls[w].cred /\ k.before = creds[k.cred] /\ k.at = "changed"
       /\ \A o \in Creds : LockOf(o) # LockOf(k.cred) => k.copy[o] = creds[o]
       /\ locks.mutation \in {w, Nobody} /\ k \in CallShape
       /\ creds' = [creds EXCEPT ![k.cred] = row] /\ Touch(k.cred)
  BY <1>1, <1>2, <1>4, <1>5, <1>8, <1>9, <1>11
<1>13. UNCHANGED <<config, process, expired, disk, durable, acked>>
  BY <1>4
<1> QED
  BY ONLY CredentialInv, process.up, repo = "file", Working(calls[w]), row \in StoredRow, w \in Callers,
          Opens(calls[w].cred, row), <1>6, <1>10, <1>11, <1>12, <1>13, MutateKeeps

\* A mutation keeps the invariant, in every repository.
LEMMA PerformKeeps ==
  ASSUME CredentialInv, process.up, NEW w \in Callers, Working(calls[w]), Perform(w),
         UNCHANGED <<config, process, expired>>
  PROVE  CredentialInv'
<1>1. PICK row \in StoredRow : Opens(calls[w].cred, row) /\ Writes(w, row)
  BY PerformWrites
<1>2. PICK c : c = calls[w].cred
  OBVIOUS
<1>3. c \in Creds
  BY <1>2 DEF CredentialInv, Serialized, Fits, Creds
<1>4. ASSUME repo # "file", NEW new \in StoredRow, Opens(c, new), NEW told \in {Unknown, Expect(new)},
             creds' = [creds EXCEPT ![c] = new], Finish(w, told), Touch(c),
             UNCHANGED <<disk, durable, locks>>
      PROVE  CredentialInv'
  BY <1>2, <1>4, CommitKeeps
<1>5. CASE repo = "memory" /\ InMemory(w, row)
  <2>1. PICK told : told = Expect(row)
    OBVIOUS
  <2>2. creds' = [creds EXCEPT ![c] = row] /\ Finish(w, told) /\ Touch(c) /\ UNCHANGED <<disk, durable, locks>>
    BY <1>2, <1>5, <2>1 DEF InMemory
  <2> QED BY <1>1, <1>2, <1>4, <1>5, <2>1, <2>2
<1>6. CASE repo = "postgres" /\ Statement(w, row)
  <2>1. Touch(c) /\ UNCHANGED <<disk, durable, locks>> /\ repo # "file"
    BY <1>2, <1>6 DEF Statement
  <2>2. CASE creds' = [creds EXCEPT ![c] = row] /\ Finish(w, Expect(row))
    <3>1. PICK told : told = Expect(row)
      OBVIOUS
    <3> QED BY <1>1, <1>2, <1>4, <2>1, <2>2, <3>1
  <2>3. CASE (\E lands \in {row, creds[c]} : creds' = [creds EXCEPT ![c] = lands]) /\ Finish(w, Unknown)
    <3>1. PICK lands \in {row, creds[c]} : creds' = [creds EXCEPT ![c] = lands]
      BY <2>3
    <3>2. lands \in StoredRow /\ Opens(c, lands)
      BY <1>1, <1>2, <1>3, <3>1 DEF CredentialInv, CredentialTypes, Stored
    <3>3. PICK told : told = Unknown
      OBVIOUS
    <3> QED BY <1>4, <2>1, <2>3, <3>1, <3>2, <3>3
  <2> QED BY <1>2, <1>6, <2>2, <2>3 DEF Statement
<1>7. CASE repo = "file" /\ FileMutate(w, row)
  BY <1>1, <1>7, FileMutateKeeps
<1>8. CASE repo = "file" /\ FileMutateTokens(w, row)
  BY <1>1, <1>8, FileMutateTokensKeeps
<1> QED BY <1>1, <1>5, <1>6, <1>7, <1>8 DEF Writes

\* Every step of a dashboard call keeps the invariant.
LEMMA ServeKeeps ==
  ASSUME CredentialInv, SyncFails = FALSE, NEW w \in Callers, Serve(w)
  PROVE  CredentialInv'
<1>1. process.up /\ UNCHANGED <<config, process, expired>> /\ calls[w].at \in {"start", "copied", "changed", "renamed"}
  BY DEF Serve
<1>2. Working(calls[w])
  BY <1>1 DEF Working
<1>3. CASE Perform(w)
  BY <1>1, <1>2, <1>3, PerformKeeps
<1>4. CASE /\ calls[w].at \in {"start", "copied"} /\ Finish(w, acked[calls[w].cred]) /\ locks' = Unlock(w)
           /\ UNCHANGED <<creds, disk, durable, requests, faults>>
  BY <1>1, <1>4, NotFoundKeeps
<1>5. CASE repo = "file" /\ FileCopyKeys(w)
  BY <1>1, <1>5, CopyKeeps
<1>6. CASE PersistSnapshot(w)
  <2>1. calls[w].at = "changed" /\ requests' = requests
    BY <1>6 DEF PersistSnapshot
  <2>2. CASE /\ disk' = Snapshot(w) /\ calls' = [calls EXCEPT ![w].at = "renamed"]
             /\ UNCHANGED <<creds, durable, locks, acked>>
    BY <1>1, <2>1, <2>2, RenameKeeps
  <2>3. CASE /\ creds' = RollBack(w) /\ locks' = Unlock(w) /\ Finish(w, acked[calls[w].cred])
             /\ UNCHANGED <<disk, durable>>
    BY <1>1, <2>1, <2>3, RollBackKeeps
  <2> QED BY <1>6, <2>2, <2>3 DEF PersistSnapshot
<1>7. CASE SyncParent(w)
  BY <1>1, <1>7, SyncKeeps
<1> QED BY <1>3, <1>4, <1>5, <1>6, <1>7 DEF Serve

\* A credential no call works on is the same in memory and in both snapshots.
LEMMA UntouchedSame ==
  ASSUME CredentialInv, process.up, repo = "file", NEW c \in Creds, ~Touched(c)
  PROVE  disk[c] = creds[c] /\ durable[c] = creds[c]
<1>1. CASE locks.mutation = Nobody
  BY <1>1 DEF CredentialInv, Persisted
<1>2. CASE locks.mutation # Nobody
  <2>1. PICK w \in Callers : w = locks.mutation
    BY <1>2 DEF CredentialInv, CredentialTypes
  <2>2. Holding(calls[w]) /\ Persisting(calls[w])
    BY <2>1 DEF CredentialInv, Serialized, Fits, Persisted
  <2>3. calls[w].cred # c
    BY <2>2 DEF Touched, Holding
  <2>4. creds \in [Creds -> StoredRow]
    BY DEF CredentialInv, CredentialTypes, Stored
  <2> QED BY <2>2, <2>3, <2>4 DEF Persisting, Holding
<1> QED BY <1>1, <1>2

\* Rows that decide what a promise rests on agree with the map.
LEMMA UntouchedRests ==
  ASSUME CredentialInv, process.up, NEW c \in Creds, ~Touched(c)
  PROVE  acked[c] = Unknown \/ acked[c] = Expect(creds[c])
<1>1. acked[c] = Unknown \/ acked[c] = Expect(Base[c])
  BY DEF CredentialInv, Promised
<1>2. Base[c] = creds[c]
  BY UntouchedSame DEF Base
<1> QED BY <1>1, <1>2

\* A request arrives with what its client was told.
LEMMA ArriveKeeps ==
  ASSUME CredentialInv, NEW r \in Requests, Arrive(r)
  PROVE  CredentialInv'
<1>1. PICK path \in {"sigv4", "token", "pair"}, good \in BOOLEAN, c \in Creds :
        /\ path = "token" <=> c \in Tokens
        /\ requests' = [requests EXCEPT ![r] =
              [Fresh EXCEPT !.path = path, !.at = "read", !.cred = c, !.good = good,
                            !.told = Told(c), !.touched = Touched(c)]]
  <2>1. PICK authorization \in {"none", "sigv4", "bearer_mcp", "bearer_pair", "bearer_other"},
             query, mcpHeader, good \in BOOLEAN, c \in Creds :
          LET path == Path(authorization, query, mcpHeader) IN
          /\ path # "denied"
          /\ path = "token" <=> c \in Tokens
          /\ requests' = [requests EXCEPT ![r] =
                [Fresh EXCEPT !.path = path, !.at = "read", !.cred = c, !.good = good,
                              !.told = Told(c), !.touched = Touched(c)]]
    BY DEF Arrive
  <2>2. PICK path : path = Path(authorization, query, mcpHeader)
    OBVIOUS
  <2>3. path \in {"sigv4", "token", "pair"}
    BY <2>1, <2>2 DEF Path
  <2> QED BY <2>1, <2>2, <2>3
<1>2. PICK told : told = Told(c)
  OBVIOUS
<1>3. PICK touched : touched = Touched(c)
  OBVIOUS
<1> DEFINE q == [Fresh EXCEPT !.path = path, !.at = "read", !.cred = c, !.good = good,
                              !.told = told, !.touched = touched]
<1>4. told \in Promise
  <2>1. acked[c] \in Promise
    BY DEF CredentialInv, CredentialTypes
  <2>2. Expect(Absent) \in Promise
    BY DEF Expect, Absent, Promise
  <2> QED BY <1>2, <2>1, <2>2 DEF Told
<1>5. touched \in BOOLEAN
  BY <1>3 DEF Touched
<1>6. /\ q \in RequestShape /\ q.path = path /\ q.at = "read" /\ q.cred = c /\ q.good = good
      /\ q.told = told /\ q.touched = touched /\ q.answer = "none"
  BY <1>1, <1>4, <1>5 DEF Fresh, RequestShape
<1>7. requests' = [requests EXCEPT ![r] = q]
  BY <1>1, <1>2, <1>3
<1> HIDE DEF q
<1>8. process.up /\ requests[r].at = "idle" /\ process' = process /\ config' = config /\ creds' = creds
      /\ disk' = disk /\ durable' = durable /\ locks' = locks /\ calls' = calls /\ expired' = expired
      /\ acked' = acked
  BY DEF Arrive
<1>9. Asking(q) /\ Decided(q)
  BY <1>1, <1>6 DEF Asking, Decided
<1>10. ASSUME ~q.touched, q.told # Unknown
       PROVE  q.told = Expect(IF q.cred \in expired THEN Absent ELSE creds[q.cred])
  <2>1. ~Touched(c)
    BY <1>3, <1>6, <1>10
  <2>2. acked[c] = Unknown \/ acked[c] = Expect(creds[c])
    BY <1>8, <2>1, UntouchedRests
  <2> QED BY <1>2, <1>6, <1>10, <2>2 DEF Told, IsExpired
<1>11. Agrees(q, creds[q.cred])'
  BY <1>6, <1>8, <1>10 DEF Agrees, Expect
<1>12. Renewed(c, creds')
  BY <1>8 DEF Renewed
<1>13. Answered'
  BY <1>6, <1>7, <1>8, <1>9, <1>11, <1>12, StepAnswers
<1>14. DOMAIN requests = Requests
  BY DEF CredentialInv, Answered
<1>15. Disturbed'
  <2> SUFFICES ASSUME NEW w \in Callers, NEW v \in Requests, calls'[w].at \in {"changed", "renamed"},
                      Pending(requests'[v]), requests'[v].cred = calls'[w].cred
               PROVE  requests'[v].touched
    BY DEF Disturbed, Pending
  <2>1. CASE v = r
    <3>1. requests'[v] = q
      BY <1>7, <1>14, <2>1
    <3>2. calls[w].cred = c /\ calls[w].at \notin {"idle", "done"}
      BY <1>6, <1>8, <3>1
    <3>3. Touched(c)
      BY <3>2 DEF Touched
    <3> QED BY <1>3, <1>6, <3>1, <3>3
  <2>2. CASE v # r
    <3>1. requests'[v] = requests[v]
      BY <1>7, <1>14, <2>2
    <3> QED BY <1>8, <3>1 DEF CredentialInv, Disturbed
  <2> QED BY <2>1, <2>2
<1>16. CredentialTypes' /\ Serialized'
  BY <1>8 DEF CredentialInv, CredentialTypes, Serialized, Fits, repo, Stored, Opens, cipher
<1>17. Persisted' /\ Promised'
  BY <1>8 DEF CredentialInv, Persisted, Persisting, Promised, Base, repo
<1>18. Stopped'
  BY <1>8 DEF Stopped
<1> QED BY <1>13, <1>15, <1>16, <1>17, <1>18 DEF CredentialInv

\* The end of a lifetime is a change that requests under way notice.
LEMMA ExpireKeeps ==
  ASSUME CredentialInv, NEW c \in Creds, Expire(c)
  PROVE  CredentialInv'
<1>1. /\ process' = process /\ config' = config /\ creds' = creds /\ disk' = disk /\ durable' = durable
      /\ locks' = locks /\ calls' = calls /\ expired' = expired \cup {c} /\ acked' = acked /\ Touch(c)
  BY DEF Expire
<1>2. /\ DOMAIN requests' = Requests
      /\ \A r \in Requests : \/ requests'[r] = requests[r]
                             \/ requests'[r] = [requests[r] EXCEPT !.touched = TRUE]
      /\ \A r \in Requests : /\ requests[r].cred = c => requests'[r].touched
                             /\ requests'[r].cred = requests[r].cred /\ requests'[r].at = requests[r].at
                             /\ requests[r].touched => requests'[r].touched
  BY <1>1, Noticed
<1>3. PICK row : row = creds[c]
  OBVIOUS
<1>4. creds' = [creds EXCEPT ![c] = row]
  BY <1>1, <1>3 DEF CredentialInv, CredentialTypes, Stored
<1>5. Answered'
  <2>1. \A r \in Requests : Pending(requests[r]) /\ requests[r].cred = c => requests'[r].touched
    BY <1>2
  <2>2. DOMAIN requests' = Requests /\ (expired' = expired \/ expired' = expired \cup {c})
    BY <1>1, <1>2
  <2>3. \A r \in Requests : \/ requests'[r] = requests[r]
                            \/ requests'[r] = [requests[r] EXCEPT !.touched = TRUE]
    BY <1>2
  <2>4. config' = config /\ process' = process /\ c \in Creds /\ CredentialInv
    BY <1>1
  <2> QED BY ONLY <1>4, <2>1, <2>2, <2>3, <2>4, ChangeKeeps
<1>6. CredentialTypes'
  BY <1>1 DEF CredentialInv, CredentialTypes, Stored, Opens, cipher
<1>7. Serialized'
  BY <1>1 DEF CredentialInv, Serialized, Fits, repo
<1>8. Persisted' /\ Promised'
  BY <1>1 DEF CredentialInv, Persisted, Persisting, Promised, Base, repo
<1>9. Stopped' /\ Disturbed'
  BY <1>1, <1>2 DEF CredentialInv, Stopped, Disturbed, Pending, repo
<1> QED BY <1>5, <1>6, <1>7, <1>8, <1>9 DEF CredentialInv

\* The process dies: what was promised and not under way is in every snapshot.
LEMMA CrashKeeps ==
  ASSUME CredentialInv, Crash
  PROVE  CredentialInv'
<1>1. /\ process.up /\ process' = [up |-> FALSE, era |-> process.era + 1] /\ locks' = Held
      /\ acked' = [c \in Creds |-> IF Touched(c) THEN Unknown ELSE acked[c]]
      /\ config' = config /\ creds' = creds /\ disk' = disk /\ durable' = durable /\ expired' = expired
  BY DEF Crash, Touched
<1>2. CredentialTypes'
  <2>1. process' \in [up : BOOLEAN, era : Nat]
    BY <1>1 DEF CredentialInv, CredentialTypes
  <2>2. locks' \in [{"mutation", "keys", "tokens"} -> Callers \cup {Nobody}]
    BY <1>1 DEF Held
  <2>3. acked' \in [Creds -> Promise]
    <3>1. Unknown \in Promise
      BY DEF Unknown, Promise
    <3> QED BY <1>1, <3>1 DEF CredentialInv, CredentialTypes
  <2> QED BY <1>1, <2>1, <2>2, <2>3 DEF CredentialInv, CredentialTypes, Stored, Opens, cipher
<1>3. /\ DOMAIN calls' = Callers
      /\ \A w \in Callers : calls'[w] \in CallShape /\ ~Working(calls'[w])
  <2>1. DOMAIN calls' = Callers
    BY DEF Crash
  <2>2. ASSUME NEW w \in Callers
        PROVE  calls'[w] \in CallShape /\ ~Working(calls'[w])
    <3>1. PICK k : k = calls[w]
      OBVIOUS
    <3>2. k \in CallShape
      BY <3>1 DEF CredentialInv, Serialized, Fits
    <3>3. Absent \in StoredRow
      BY DEF Absent, StoredRow
    <3>4. calls'[w] = IF k.at = "idle" THEN k ELSE [Idle EXCEPT !.op = k.op, !.cred = k.cred, !.at = "done"]
      BY <3>1 DEF Crash
    <3>5. [Idle EXCEPT !.op = k.op, !.cred = k.cred, !.at = "done"] \in CallShape
      BY <3>2, <3>3 DEF CallShape, Idle
    <3> QED BY <3>2, <3>4, <3>5 DEF Working, CallShape, Idle
  <2> QED BY <2>1, <2>2
<1>4. Serialized'
  <2>1. \A w \in Callers : locks'.mutation # w /\ ~Holding(calls'[w])
    BY <1>1, <1>3, CredentialAssumption DEF Held, Working, Holding
  <2> QED BY <1>3, <2>1 DEF Serialized, Fits, Working, Holding
<1>5. /\ DOMAIN requests' = Requests
      /\ \A r \in Requests : requests'[r] = IF requests[r].at \in {"idle", "done"} THEN requests[r]
                                            ELSE [requests[r] EXCEPT !.at = "done", !.answer = "lost"]
  BY DEF Crash
<1>6. ASSUME NEW r \in Requests
      PROVE  Fair(requests[r])' /\ ~Pending(requests'[r])
  <2>1. PICK p : p = requests[r]
    OBVIOUS
  <2>2. Asking(p) /\ Decided(p)
    BY <2>1 DEF CredentialInv, Answered, Fair
  <2>3. PICK q : q = requests'[r]
    OBVIOUS
  <2>4. CASE p.at \in {"idle", "done"}
    <3>1. q = p
      BY <1>5, <2>1, <2>3, <2>4
    <3> QED BY <1>1, <2>2, <2>3, <2>4, <3>1 DEF Fair, Asking, Decided, Pending, cipher
  <2>5. CASE p.at \notin {"idle", "done"}
    <3>1. q = [p EXCEPT !.at = "done", !.answer = "lost"] /\ p \in RequestShape
      BY <1>5, <2>1, <2>2, <2>3, <2>5 DEF Asking
    <3>2. /\ q \in RequestShape /\ q.at = "done" /\ q.answer = "lost" /\ q.cred = p.cred /\ q.path = p.path
      BY <3>1 DEF RequestShape
    <3>3. Asking(q) /\ ~Pending(q)
      BY <2>2, <2>5, <3>2 DEF Asking, Pending
    <3>4. Fair(q)'
      BY <3>2, <3>3 DEF Fair, Asking, Decided, Pending
    <3> QED BY <2>3, <3>3, <3>4 DEF Fair, Asking, Decided, Pending
  <2> QED BY <2>4, <2>5
<1>7. Answered' /\ Disturbed'
  BY <1>5, <1>6 DEF Answered, Disturbed, Pending
<1>8. Persisted'
  BY <1>1 DEF Persisted
<1>9. Promised'
  BY <1>1 DEF CredentialInv, Promised, Base, repo
<1>10. Stopped'
  <2>1. ASSUME repo = "file", NEW c \in Creds, acked'[c] # Unknown
        PROVE  disk[c] = durable[c]
    <3>1. ~Touched(c)
      BY <1>1, <2>1
    <3> QED BY <1>1, <2>1, <3>1, UntouchedSame
  <2>2. \A w \in Callers : ~Working(calls'[w])
    BY <1>3
  <2>3. \A r \in Requests : requests'[r].at \in {"idle", "done"}
    BY <1>6 DEF Pending
  <2> QED BY <1>1, <2>1, <2>2, <2>3 DEF Stopped, repo, Working
<1> QED BY <1>2, <1>4, <1>7, <1>8, <1>9, <1>10 DEF CredentialInv

\* What start-up serves: the seeded rows are well formed, the others are loaded.
Seeded(rows) == EnsureConfiguredLocalRoot(BootstrapKey(LoadFileStore(rows)))

\* Seeding keeps the shape of the rows.
LEMMA SeedRows ==
  ASSUME CredentialInv, NEW loaded, Stored(loaded)
  PROVE  Stored(Seeded(loaded))
<1>1. process.era \in Nat /\ config \in Configs
  BY DEF CredentialInv, CredentialTypes
<1>2. BootKey \in Keys \cup {Nobody} /\ RootKey \in Keys \cup {Nobody}
  BY <1>1, CredentialAssumption DEF BootKey, RootKey
<1>3. PICK row : row = BootstrapApiKey
  OBVIOUS
<1>4. row \in StoredRow /\ \A c : Opens(c, row)
  BY <1>1, <1>3, NewRows
<1>5. ASSUME NEW rows, Stored(rows), NEW key \in Keys
      PROVE  Stored([rows EXCEPT ![key] = row])
  <2>1. key \in Creds /\ rows \in [Creds -> StoredRow]
    BY <1>5 DEF Creds, Stored
  <2>2. [rows EXCEPT ![key] = row] \in [Creds -> StoredRow]
    BY <1>4, <2>1
  <2>3. ASSUME NEW c \in Creds
        PROVE  Opens(c, [rows EXCEPT ![key] = row][c])
    <3>1. CASE c = key
      BY <1>4, <2>1, <3>1
    <3>2. CASE c # key
      <4>1. [rows EXCEPT ![key] = row][c] = rows[c]
        BY <2>1, <3>2
      <4>2. Opens(c, rows[c])
        BY <1>5 DEF Stored
      <4> QED BY <4>1, <4>2
    <3> QED BY <3>1, <3>2
  <2> QED BY <2>2, <2>3 DEF Stored
<1>6. PICK first : first = BootstrapKey(loaded)
  OBVIOUS
<1>7. Stored(first)
  <2>1. CASE BootKey = Nobody \/ loaded[BootKey].live
    BY <1>6, <2>1 DEF BootstrapKey
  <2>2. CASE ~(BootKey = Nobody \/ loaded[BootKey].live)
    <3>1. first = [loaded EXCEPT ![BootKey] = row]
      BY <1>3, <1>6, <2>2 DEF BootstrapKey
    <3> QED BY <1>2, <1>5, <2>2, <3>1
  <2> QED BY <2>1, <2>2
<1>8. PICK second : second = EnsureConfiguredLocalRoot(first)
  OBVIOUS
<1>9. Stored(second)
  <2>1. CASE RootKey = Nobody \/ first[RootKey].live
    BY <1>7, <1>8, <2>1 DEF EnsureConfiguredLocalRoot
  <2>2. CASE ~(RootKey = Nobody \/ first[RootKey].live)
    <3>1. second = [first EXCEPT ![RootKey] = row]
      BY <1>3, <1>8, <2>2 DEF EnsureConfiguredLocalRoot
    <3> QED BY <1>2, <1>5, <1>7, <2>2, <3>1
  <2> QED BY <2>1, <2>2
<1>10. second = Seeded(loaded)
  BY <1>6, <1>8 DEF Seeded, LoadFileStore
<1> QED BY <1>9, <1>10

\* A restart serves what was promised, or knows that it seeded.
LEMMA StartUpKeeps ==
  ASSUME CredentialInv, StartUp
  PROVE  CredentialInv'
<1>1. /\ ~process.up /\ process' = [process EXCEPT !.up = TRUE] /\ config' = config /\ locks' = locks
      /\ calls' = calls /\ requests' = requests /\ expired' = expired
  BY DEF StartUp
<1>2. PICK loaded \in (IF repo = "file" THEN {disk, durable} ELSE {creds}) :
        LET rows == Seeded(loaded) IN
        /\ creds' = rows
        /\ disk' = IF repo = "file" THEN rows ELSE disk
        /\ durable' = IF repo = "file" THEN rows ELSE durable
        /\ acked' = [c \in Creds |-> IF rows[c] # loaded[c] THEN Expect(rows[c]) ELSE acked[c]]
  BY DEF StartUp, Seeded
<1>3. PICK rows : rows = Seeded(loaded)
  OBVIOUS
<1>4. Stored(loaded) /\ Stored(rows)
  <2>1. Stored(loaded)
    BY <1>2 DEF CredentialInv, CredentialTypes
  <2> QED BY <1>3, <2>1, SeedRows
<1>5. /\ creds' = rows /\ (repo = "file" => disk' = rows /\ durable' = rows)
      /\ (repo # "file" => disk' = disk /\ durable' = durable)
      /\ acked' = [c \in Creds |-> IF rows[c] # loaded[c] THEN Expect(rows[c]) ELSE acked[c]]
  BY <1>2, <1>3
<1>6. CredentialTypes'
  <2>1. process' \in [up : BOOLEAN, era : Nat]
    BY <1>1 DEF CredentialInv, CredentialTypes
  <2>2. acked' \in [Creds -> Promise]
    <3>1. ASSUME NEW c \in Creds
          PROVE  Expect(rows[c]) \in Promise
      <4>1. rows[c] \in StoredRow
        BY <1>4 DEF Stored
      <4> QED BY <4>1 DEF Expect, StoredRow, Promise
    <3> QED BY <1>5, <3>1 DEF CredentialInv, CredentialTypes
  <2>3. Stored(creds)'
    BY <1>1, <1>4, <1>5 DEF Stored, Opens, cipher
  <2>4. Stored(disk)' /\ Stored(durable)'
    BY <1>1, <1>4, <1>5 DEF CredentialInv, CredentialTypes, Stored, Opens, cipher
  <2> QED BY <1>1, <2>1, <2>2, <2>3, <2>4 DEF CredentialInv, CredentialTypes
<1>7. Serialized'
  BY <1>1 DEF CredentialInv, Serialized, Fits, repo
<1>8. /\ \A w \in Callers : ~Working(calls[w])
      /\ \A r \in Requests : requests[r].at \in {"idle", "done"}
      /\ repo = "file" => \A c \in Creds : acked[c] # Unknown => disk[c] = durable[c]
  BY <1>1 DEF CredentialInv, Stopped
<1>9. Persisted'
  BY <1>1, <1>5, <1>8 DEF Persisted, Persisting, Working, Holding, repo
<1>10. Promised'
  <2> SUFFICES ASSUME NEW c \in Creds
               PROVE  acked'[c] = Unknown \/ acked'[c] = Expect(rows[c])
    BY <1>1, <1>5 DEF Promised, Base, repo, Expect
  <2>1. CASE rows[c] # loaded[c]
    BY <1>5, <2>1
  <2>2. CASE rows[c] = loaded[c]
    <3>1. acked'[c] = acked[c]
      BY <1>5, <2>2
    <3>2. acked[c] = Unknown \/ acked[c] = Expect(Base[c])
      BY DEF CredentialInv, Promised
    <3>3. acked[c] # Unknown => loaded[c] = Base[c]
      BY <1>2, <1>8 DEF Base
    <3> QED BY <2>2, <3>1, <3>2, <3>3
  <2> QED BY <2>1, <2>2
<1>11. Answered'
  BY <1>1, <1>8 DEF CredentialInv, Answered, Fair, Asking, Decided, Pending, cipher
<1>12. Disturbed' /\ Stopped'
  BY <1>1, <1>8 DEF Disturbed, Stopped, Pending, CredentialInv, CredentialTypes
<1> QED BY <1>6, <1>7, <1>9, <1>10, <1>11, <1>12 DEF CredentialInv

\* The first state.
LEMMA CredentialStarts ==
  ASSUME CredentialInit
  PROVE  CredentialInv
<1>1. process = [up |-> TRUE, era |-> 1] /\ config \in Configs
  BY DEF CredentialInit
<1>2. PICK there \in SUBSET Creds :
          creds = [c \in Creds |-> IF c \notin there THEN Absent
                                   ELSE IF c \in Tokens THEN GenerateMcpToken
                                   ELSE IF cipher = "durable" THEN Legacy
                                   ELSE BootstrapApiKey]
  BY DEF CredentialInit
<1>3. /\ disk = creds /\ durable = creds /\ locks = Held /\ calls = [w \in Callers |-> Idle]
      /\ requests = [r \in Requests |-> Fresh] /\ expired = {}
      /\ acked = [c \in Creds |-> Expect(creds[c])]
  BY DEF CredentialInit
<1>4. Stored(creds)
  <2>1. process.era \in Nat /\ 0 \in {0, 1}
    BY <1>1
  <2>2. /\ Absent \in StoredRow /\ \A c : Opens(c, Absent)
        /\ GenerateMcpToken \in StoredRow /\ \A c \in Tokens : Opens(c, GenerateMcpToken)
        /\ BootstrapApiKey \in StoredRow /\ \A c : Opens(c, BootstrapApiKey)
    BY <2>1, NewRows
  <2>3. Legacy \in StoredRow /\ \A c : Opens(c, Legacy)
    BY DEF Legacy, Absent, StoredRow, Opens
  <2>4. ASSUME NEW c \in Creds
        PROVE  creds[c] \in StoredRow /\ Opens(c, creds[c])
    <3>1. CASE c \notin there
      BY <1>2, <2>2, <3>1
    <3>2. CASE c \in there /\ c \in Tokens
      BY <1>2, <2>2, <3>2
    <3>3. CASE c \in there /\ c \notin Tokens
      BY <1>2, <2>2, <2>3, <3>3
    <3> QED BY <3>1, <3>2, <3>3
  <2> QED BY <1>2, <2>4 DEF Stored
<1>5. CredentialTypes
  <2>1. acked \in [Creds -> Promise]
    <3>1. ASSUME NEW c \in Creds
          PROVE  Expect(creds[c]) \in Promise
      <4>1. creds[c] \in StoredRow
        BY <1>4 DEF Stored
      <4> QED BY <4>1 DEF Expect, StoredRow, Promise
    <3> QED BY <1>3, <3>1
  <2> QED BY <1>1, <1>3, <1>4, <2>1 DEF CredentialTypes, Held
<1>6. Serialized
  <2>1. Idle \in CallShape /\ Idle.at = "idle"
    BY DEF Idle, CallShape, Absent, StoredRow
  <2> QED BY <1>3, <2>1, CredentialAssumption DEF Serialized, Fits, Held, Working, Holding
<1>7. Persisted /\ Promised /\ Stopped
  BY <1>1, <1>3 DEF Persisted, Persisting, Promised, Base, Stopped, Idle, Holding
<1>8. Disturbed
  BY <1>3 DEF Disturbed, Idle
<1>9. Answered
  <2>1. Fresh \in RequestShape /\ Fresh.at = "idle" /\ Fresh.answer = "none"
    BY DEF Fresh, RequestShape, Promise, Absent
  <2> QED BY <1>3, <2>1 DEF Answered, Fair, Asking, Decided, Pending
<1> QED BY <1>5, <1>6, <1>7, <1>8, <1>9 DEF CredentialInv

\* One step per action; only the sync that fails silently is left out.
LEMMA CredentialSteps ==
  ASSUME SyncFails = FALSE, CredentialInv, [CredentialNext]_credentialVars
  PROVE  CredentialInv'
<1>1. ASSUME NEW w \in Callers, AdminCreateKey(w) \/ AdminDeleteKey(w) \/ AdminSetPublicKey(w)
      PROVE  CredentialInv'
  <2>1. PICK op \in KeyOps, c \in Keys, pem \in {0, 1} : Begin(w, op, c, pem)
    <3>1. CASE AdminCreateKey(w)
      BY <3>1 DEF AdminCreateKey, KeyOps
    <3>2. CASE AdminDeleteKey(w)
      BY <3>2 DEF AdminDeleteKey, KeyOps
    <3>3. CASE AdminSetPublicKey(w)
      BY <3>3 DEF AdminSetPublicKey, KeyOps
    <3> QED BY <1>1, <3>1, <3>2, <3>3
  <2> QED BY <2>1, BeginKeeps
<1>2. ASSUME NEW w \in Callers, AdminCreateMcpToken(w) \/ AdminDeleteMcpToken(w)
      PROVE  CredentialInv'
  <2>1. PICK op \in TokenOps, c \in Tokens : Begin(w, op, c, 0)
    BY <1>2 DEF AdminCreateMcpToken, AdminDeleteMcpToken, TokenOps
  <2> QED BY <2>1, BeginKeeps
<1>3. CASE UNCHANGED credentialVars
  <2>1. /\ config' = config /\ process' = process /\ creds' = creds /\ disk' = disk /\ durable' = durable
        /\ locks' = locks /\ calls' = calls /\ requests' = requests /\ expired' = expired /\ acked' = acked
    BY <1>3 DEF credentialVars
  <2>2. Answered'
    BY <2>1, RequestsRest
  <2>3. CredentialTypes' /\ Serialized'
    BY <2>1 DEF CredentialInv, CredentialTypes, Serialized, Fits, repo, Stored, Opens, cipher
  <2>4. Persisted' /\ Promised' /\ Stopped' /\ Disturbed'
    BY <2>1 DEF CredentialInv, Persisted, Persisting, Promised, Base, Stopped, Disturbed, Pending, repo
  <2> QED BY <2>2, <2>3, <2>4 DEF CredentialInv
<1> QED
  BY <1>1, <1>2, <1>3, ServeKeeps, ArriveKeeps, AuthenticateKeeps, ExpireKeeps, CrashKeeps, StartUpKeeps
  DEF CredentialNext

\* Where a sync that reports success is a sync, what a caller was told rests on what
\* a restart brings back, the mutations of the file repository are serialized from
\* their copy to their answer, and every request that nobody disturbed finds what its
\* client was told.
THEOREM PromisesRest ==
  ASSUME SyncFails = FALSE
  PROVE  CredentialSpec => []CredentialInv
<1>1. CredentialInit => CredentialInv
  BY CredentialStarts
<1>2. CredentialInv /\ [CredentialNext]_credentialVars => CredentialInv'
  BY CredentialSteps
<1> QED BY <1>1, <1>2, PTL DEF CredentialSpec

\* Therefore an acknowledged deletion is final and an acknowledged key is served, in
\* the memory, file and Postgres repositories, with any number of keys, tokens,
\* dashboard calls, requests, faults and restarts.
THEOREM AcknowledgementsDecide ==
  ASSUME SyncFails = FALSE
  PROVE  CredentialSpec => []AcknowledgedDecides
<1>1. CredentialInv => AcknowledgedDecides
  BY DEF CredentialInv, Answered, Fair, Decided, AcknowledgedDecides
<1> QED BY <1>1, PromisesRest, PTL
=============================================================================
