-------------------------- MODULE PipelineSession --------------------------
(* A streaming pipeline session and the executor it runs on                *)
(* (plugin_registry.rs:1027-1539, wasm-runtime/src/executor.rs).           *)
(*                                                                         *)
(* Per session: the caller (an async request that starts a session, sends  *)
(* records, finishes or cancels, and whose future may be dropped at any    *)
(* await), a blocking task (execute_until: memory admission, a bounded     *)
(* queue, the wait for the result), a job (the actor that owns the guest   *)
(* and receives commands), a deadline watchdog and the deadline itself.    *)
(* Sessions share the guest-memory budget, the queue and the worker        *)
(* threads.                                                                *)
(*                                                                         *)
(* Abstracted: every session reserves one unit of guest memory; a record   *)
(* counts one towards the input limit, the other limits (fuel, output,     *)
(* expansion) make a call fail.                                            *)
EXTENDS Naturals, Sequences, FiniteSets

CONSTANTS Sessions,
          Workers,        \* worker threads
          QueueCapacity,
          MemoryBudget,   \* units of guest memory
          MaxInput        \* records a session accepts (max_input_bytes)

ASSUME MemoryBudgetAssumption == MemoryBudget \in Nat

VARIABLES caller, task, job,
          permit, used,      \* guest-memory admission
          queue,             \* the executor's job queue
          chan,              \* the command channel of a session (capacity 1)
          held,              \* the caller holds the strong sender
          answer,            \* the oneshot the caller awaits
          watchdog, cancelled, late, input

sessionVars == <<caller, task, job, permit, used, queue, chan, held, answer,
                 watchdog, cancelled, late, input>>

Waiting == {"starting", "sending", "awaiting", "finishSending", "finishing", "joining"}
Running == {"start", "recv", "call", "last", "ending"}

SessionInit ==
    /\ caller = [s \in Sessions |-> "idle"]
    /\ task = [s \in Sessions |-> "none"]
    /\ job = [s \in Sessions |-> "none"]
    /\ permit = [s \in Sessions |-> FALSE] /\ used = 0
    /\ queue = <<>>
    /\ chan = [s \in Sessions |-> <<>>]
    /\ held = [s \in Sessions |-> FALSE]
    /\ answer = [s \in Sessions |-> "none"]
    /\ watchdog = [s \in Sessions |-> "none"]
    /\ cancelled = [s \in Sessions |-> FALSE]
    /\ late = [s \in Sessions |-> FALSE]
    /\ input = [s \in Sessions |-> 0]

\* execution_control_error: the deadline has passed or the token is cancelled.
ControlError(s) == late[s] \/ cancelled[s]

\* The closure that owns the command receiver still exists.
ReceiverAlive(s) == job[s] \notin {"ended", "void"}

Set(f, s, v) == [f EXCEPT ![s] = v]

(***************************************************************************)
(* The executor.                                                           *)
(***************************************************************************)

\* reserve_until: waits for room in the budget, or fails.
TaskReserve(s) ==
    /\ task[s] = "reserve"
    /\ \/ /\ ControlError(s)
          /\ task' = Set(task, s, "ended")
          /\ job' = Set(job, s, "void")
          /\ UNCHANGED <<permit, used>>
       \/ /\ ~ControlError(s) /\ used < MemoryBudget
          /\ used' = used + 1 /\ permit' = Set(permit, s, TRUE)
          /\ job' = Set(job, s, "pending")
          /\ task' = Set(task, s, "send")
    /\ UNCHANGED <<caller, queue, chan, held, answer, watchdog, cancelled, late, input>>

\* Taking the pending job drops its closure and its permit.
TakePending(s) ==
    /\ job' = Set(job, s, "void")
    /\ permit' = Set(permit, s, FALSE) /\ used' = used - 1

\* execute_until: try_send until the queue has room.
TaskSend(s) ==
    /\ task[s] = "send"
    /\ \/ /\ Len(queue) < QueueCapacity
          /\ queue' = Append(queue, s)
          /\ task' = Set(task, s, "receive")
          /\ UNCHANGED <<job, permit, used, cancelled>>
       \/ /\ Len(queue) = QueueCapacity /\ ControlError(s)
          /\ cancelled' = Set(cancelled, s, TRUE)
          /\ TakePending(s)
          /\ task' = Set(task, s, "ended")
          /\ UNCHANGED queue
    /\ UNCHANGED <<caller, chan, held, answer, watchdog, late, input>>

\* Mutant: a job that already runs is not waited for.
MutTaskReceive(s) ==
    /\ task[s] = "receive"
    /\ \/ /\ ControlError(s)
          /\ cancelled' = Set(cancelled, s, TRUE)
          /\ task' = Set(task, s, "ended")
          /\ IF job[s] = "pending" THEN TakePending(s) ELSE UNCHANGED <<job, permit, used>>
       \/ /\ job[s] = "ended"
          /\ task' = Set(task, s, "ended")
          /\ UNCHANGED <<job, permit, used, cancelled>>
    /\ UNCHANGED <<caller, queue, chan, held, answer, watchdog, late, input>>

\* receive_result_until: a job that has not begun is taken back, one that has
\* is waited for.
TaskReceive(s) ==
    /\ task[s] = "receive"
    /\ \/ /\ ControlError(s)
          /\ cancelled' = Set(cancelled, s, TRUE)
          /\ IF job[s] = "pending"
             THEN TakePending(s) /\ task' = Set(task, s, "ended")
             ELSE task' = Set(task, s, "drain") /\ UNCHANGED <<job, permit, used>>
       \/ /\ job[s] = "ended"
          /\ task' = Set(task, s, "ended")
          /\ UNCHANGED <<job, permit, used, cancelled>>
    /\ UNCHANGED <<caller, queue, chan, held, answer, watchdog, late, input>>

TaskDrain(s) ==
    /\ task[s] = "drain" /\ job[s] = "ended"
    /\ task' = Set(task, s, "ended")
    /\ UNCHANGED <<caller, job, permit, used, queue, chan, held, answer, watchdog,
                   cancelled, late, input>>

\* spawn_worker's loop: a free thread takes the next job; one that was taken
\* back does nothing.
WorkerTake ==
    /\ queue # <<>>
    /\ Cardinality({s \in Sessions : job[s] \in Running}) < Workers
    /\ queue' = Tail(queue)
    /\ job' = IF job[Head(queue)] = "void" THEN job ELSE Set(job, Head(queue), "start")
    /\ UNCHANGED <<caller, task, permit, used, chan, held, answer, watchdog,
                   cancelled, late, input>>

\* make_cancellable_job: the permit is dropped before the result is sent.
JobEnd(s) ==
    /\ job[s] = "ending"
    /\ job' = Set(job, s, "ended")
    /\ permit' = Set(permit, s, FALSE) /\ used' = used - 1
    /\ UNCHANGED <<caller, task, queue, chan, held, answer, watchdog, cancelled, late, input>>

(***************************************************************************)
(* The session actor.                                                      *)
(***************************************************************************)

\* start_session_with_deadline: instantiation and begin of every plugin.
JobStart(s) ==
    /\ job[s] = "start"
    /\ \/ ~ControlError(s) /\ answer' = Set(answer, s, "ok") /\ job' = Set(job, s, "recv")
       \/ answer' = Set(answer, s, "err") /\ job' = Set(job, s, "ending")
    /\ UNCHANGED <<caller, task, permit, used, queue, chan, held, watchdog, cancelled,
                   late, input>>

\* blocking_recv: the next command, or the end when every sender is dropped.
JobReceive(s) ==
    /\ job[s] = "recv"
    /\ \/ /\ chan[s] # <<>>
          /\ chan' = Set(chan, s, Tail(chan[s]))
          /\ job' = Set(job, s, CASE Head(chan[s]) = "process" -> "call"
                                  [] Head(chan[s]) = "finish"  -> "last"
                                  [] OTHER                     -> "ending")
       \/ /\ chan[s] = <<>> /\ ~held[s] /\ watchdog[s] # "send"
          /\ job' = Set(job, s, "ending")
          /\ UNCHANGED chan
    /\ UNCHANGED <<caller, task, permit, used, queue, held, answer, watchdog, cancelled,
                   late, input>>

\* PipelineSession::process: the record passes the plugins in order, or a
\* limit, the deadline, a cancellation or the guest fails it.
JobProcess(s) ==
    /\ job[s] = "call"
    /\ \/ /\ ~ControlError(s) /\ input[s] < MaxInput
          /\ input' = Set(input, s, input[s] + 1)
          /\ answer' = Set(answer, s, "ok") /\ job' = Set(job, s, "recv")
       \/ /\ answer' = Set(answer, s, "err") /\ job' = Set(job, s, "ending")
          /\ UNCHANGED input
    /\ UNCHANGED <<caller, task, permit, used, queue, chan, held, watchdog, cancelled, late>>

\* finish_with_fuel: each plugin is finished and its trailing output routed.
JobFinish(s) ==
    /\ job[s] = "last"
    /\ \/ ~ControlError(s) /\ answer' = Set(answer, s, "ok")
       \/ answer' = Set(answer, s, "err")
    /\ job' = Set(job, s, "ending")
    /\ UNCHANGED <<caller, task, permit, used, queue, chan, held, watchdog, cancelled,
                   late, input>>

(***************************************************************************)
(* The caller.                                                             *)
(***************************************************************************)
Start(s) ==
    /\ caller[s] = "idle"
    /\ caller' = Set(caller, s, "starting")
    /\ task' = Set(task, s, "reserve")
    /\ held' = Set(held, s, TRUE)
    /\ UNCHANGED <<job, permit, used, queue, chan, answer, watchdog, cancelled, late, input>>

\* cancel the token, drop the sender, stop the watchdog, wait for the task.
Abort(s) ==
    /\ cancelled' = Set(cancelled, s, TRUE)
    /\ held' = Set(held, s, FALSE)
    /\ watchdog' = Set(watchdog, s, IF watchdog[s] = "none" THEN "none" ELSE "ended")
    /\ caller' = Set(caller, s, "joining")

\* A oneshot whose sender was dropped unanswered.
Closed(s) == answer[s] = "none" /\ ~ReceiverAlive(s)

\* The caller's await ends badly: an error, a dropped sender, or its timeout.
Fails(s) == answer[s] = "err" \/ Closed(s) \/ late[s]

Started(s) ==
    /\ caller[s] = "starting"
    /\ \/ /\ answer[s] = "ok"
          /\ caller' = Set(caller, s, "open")
          /\ watchdog' = Set(watchdog, s, "sleep")
          /\ UNCHANGED <<cancelled, held>>
       \/ Fails(s) /\ Abort(s)
    /\ answer' = Set(answer, s, "none")
    /\ UNCHANGED <<task, job, permit, used, queue, chan, late, input>>

\* process, finish and cancel_and_wait are called on an open session.
Call(s, next) ==
    /\ caller[s] = "open"
    /\ caller' = Set(caller, s, next)
    /\ UNCHANGED <<task, job, permit, used, queue, chan, held, answer, watchdog, cancelled,
                   late, input>>

CancelAndWait(s) ==
    /\ caller[s] = "open" /\ Abort(s)
    /\ UNCHANGED <<task, job, permit, used, queue, chan, answer, late, input>>

\* sender.send within the deadline: waits for room in the channel.
Send(s, command, next, keep) ==
    /\ \/ /\ chan[s] = <<>> /\ ReceiverAlive(s)
          /\ chan' = Set(chan, s, <<command>>)
          /\ caller' = Set(caller, s, next)
          /\ held' = Set(held, s, keep)
          /\ UNCHANGED <<cancelled, watchdog>>
       \/ /\ ~ReceiverAlive(s) \/ late[s]
          /\ Abort(s)
          /\ UNCHANGED chan
    /\ UNCHANGED <<task, job, permit, used, queue, answer, late, input>>

SendProcess(s) == caller[s] = "sending" /\ Send(s, "process", "awaiting", TRUE)
SendFinish(s) == caller[s] = "finishSending" /\ Send(s, "finish", "finishing", FALSE)

Processed(s) ==
    /\ caller[s] = "awaiting"
    /\ \/ /\ answer[s] = "ok" /\ caller' = Set(caller, s, "open")
          /\ UNCHANGED <<cancelled, held, watchdog>>
       \/ Fails(s) /\ Abort(s)
    /\ answer' = Set(answer, s, "none")
    /\ UNCHANGED <<task, job, permit, used, queue, chan, late, input>>

\* finish waits for the task before it stops the watchdog.
Finished(s) ==
    /\ caller[s] = "finishing"
    /\ \/ answer[s] = "ok" /\ UNCHANGED cancelled
       \/ Fails(s) /\ cancelled' = Set(cancelled, s, TRUE)
    /\ caller' = Set(caller, s, "joining")
    /\ answer' = Set(answer, s, "none")
    /\ UNCHANGED <<task, job, permit, used, queue, chan, held, watchdog, late, input>>

Joined(s) ==
    /\ caller[s] = "joining" /\ task[s] = "ended"
    /\ caller' = Set(caller, s, "returned")
    /\ watchdog' = Set(watchdog, s, IF watchdog[s] = "none" THEN "none" ELSE "ended")
    /\ UNCHANGED <<task, job, permit, used, queue, chan, held, answer, cancelled, late, input>>

\* The request's future is dropped: before the session exists only the sender
\* goes; afterwards Drop also cancels and aborts the watchdog.
DropSession(s) ==
    /\ caller[s] \in Waiting \cup {"open"}
    /\ caller' = Set(caller, s, "dropped")
    /\ held' = Set(held, s, FALSE)
    /\ cancelled' = Set(cancelled, s, cancelled[s] \/ caller[s] # "starting")
    /\ watchdog' = Set(watchdog, s, IF watchdog[s] = "none" THEN "none" ELSE "ended")
    /\ UNCHANGED <<task, job, permit, used, queue, chan, answer, late, input>>

(***************************************************************************)
(* The deadline.                                                           *)
(***************************************************************************)
Deadline(s) ==
    /\ task[s] # "none" /\ ~late[s]
    /\ late' = Set(late, s, TRUE)
    /\ UNCHANGED <<caller, task, job, permit, used, queue, chan, held, answer, watchdog,
                   cancelled, input>>

\* Mutant: the watchdog only cancels the token.
MutWatchdog(s) ==
    /\ watchdog[s] = "sleep" /\ late[s]
    /\ cancelled' = Set(cancelled, s, TRUE)
    /\ watchdog' = Set(watchdog, s, "ended")
    /\ UNCHANGED <<caller, task, job, permit, used, queue, chan, held, answer, late, input>>

\* spawn_deadline_watchdog: cancel, and wake an actor that waits for commands.
Watchdog(s) ==
    /\ \/ /\ watchdog[s] = "sleep" /\ late[s]
          /\ cancelled' = Set(cancelled, s, TRUE)
          /\ watchdog' = Set(watchdog, s, IF held[s] THEN "send" ELSE "ended")
          /\ UNCHANGED chan
       \/ /\ watchdog[s] = "send" /\ (chan[s] = <<>> \/ ~ReceiverAlive(s))
          /\ chan' = Set(chan, s, IF ReceiverAlive(s) THEN <<"cancel">> ELSE chan[s])
          /\ watchdog' = Set(watchdog, s, "ended")
          /\ UNCHANGED cancelled
    /\ UNCHANGED <<caller, task, job, permit, used, queue, held, answer, late, input>>

\* What the runtime, the executor's threads and the clock do by themselves.
Progress(s) ==
    \/ TaskReserve(s) \/ TaskSend(s) \/ TaskReceive(s) \/ TaskDrain(s)
    \/ JobStart(s) \/ JobReceive(s) \/ JobProcess(s) \/ JobFinish(s) \/ JobEnd(s)
    \/ Started(s) \/ SendProcess(s) \/ SendFinish(s) \/ Processed(s) \/ Finished(s)
    \/ Joined(s) \/ Watchdog(s) \/ Deadline(s)

SessionNext ==
    \/ \E s \in Sessions :
          \/ Start(s) \/ Call(s, "sending") \/ Call(s, "finishSending")
          \/ CancelAndWait(s) \/ DropSession(s)
          \/ Progress(s)
    \/ WorkerTake

SessionSpec == SessionInit /\ [][SessionNext]_sessionVars

\* Threads and async tasks are scheduled, guest calls end (fuel and epochs),
\* and time passes; nobody is obliged to call, finish or drop a session.
SessionFairness ==
    /\ WF_sessionVars(WorkerTake)
    /\ \A s \in Sessions :
          /\ WF_sessionVars(TaskReserve(s) \/ TaskSend(s) \/ TaskReceive(s) \/ TaskDrain(s))
          /\ WF_sessionVars(JobStart(s) \/ JobReceive(s) \/ JobProcess(s) \/ JobFinish(s) \/ JobEnd(s))
          /\ WF_sessionVars(Started(s) \/ SendProcess(s) \/ SendFinish(s) \/ Processed(s)
                            \/ Finished(s) \/ Joined(s))
          /\ WF_sessionVars(Watchdog(s))
          /\ WF_sessionVars(Deadline(s))

(***************************************************************************)
(* Properties.                                                             *)
(***************************************************************************)

\* A caller that got its result back, whatever it is, leaves nothing behind:
\* its task has ended and its guest memory is available to the next session
\* ("callers never observe a completed job still consuming capacity",
\* executor.rs:335), and the budget counts exactly the permits held.
ReturnedHoldsNothing ==
    /\ used = Cardinality({s \in Sessions : permit[s]}) /\ used <= MemoryBudget
    /\ \A s \in Sessions : caller[s] = "returned" =>
          ~permit[s] /\ task[s] = "ended" /\ job[s] \in {"ended", "void"}

\* Every call on a session returns, and every session that was started gives
\* its worker thread and its guest memory back, even if its caller never calls
\* again or was dropped at any await (plugin_registry.rs:1320, 1330).
SessionsEnd ==
    \A s \in Sessions :
        /\ (task[s] # "none") ~> (task[s] = "ended" /\ ~permit[s])
        /\ (caller[s] \in Waiting) ~> (caller[s] \in {"open", "returned", "dropped"})
=============================================================================
