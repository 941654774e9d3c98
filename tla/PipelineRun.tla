----------------------------- MODULE PipelineRun -----------------------------
(***************************************************************************)
(* One pipeline session inside its worker: the plugins of a snapshot are   *)
(* instantiated in order, every record passes them in order, finish ends   *)
(* them one after another and sends what each still held through the ones  *)
(* behind it (PipelineSession of plugin_registry.rs), and each guest call  *)
(* runs under a window of fuel, a deadline and a cancellation flag         *)
(* (FilterSession and RuntimeSession of the wasm runtime).                 *)
(*                                                                         *)
(* A guest is arbitrary: a call burns any part of its window, and emits,   *)
(* drops, rejects or traps.  A record is [origin, seen, bytes]: the input  *)
(* it came from (<<"input", i>> or <<"trailing", p>>), the plugins it went *)
(* through and its length.                                                 *)
(***************************************************************************)
EXTENDS Integers, Sequences, FiniteSets

CONSTANTS
    Plugins,            \* number of enabled plugins
    Inputs,             \* bound on the records of a source
    Sizes,              \* lengths a record may have
    MaxFuel,            \* PipelineLimits.max_cumulative_fuel
    ComponentFuel,      \* RuntimeLimits.cumulative_fuel of a component
    CallFuel,           \* RuntimeLimits.per_call_fuel
    MaxInputBytes,      \* PipelineLimits.max_input_bytes
    MaxOutputBytes,     \* PipelineLimits.max_output_bytes
    MaxRecordBytes,     \* max_intermediate_record_bytes, max_plugin_finish_bytes
    Factor, Slack       \* max_expansion_factor, max_expansion_slack_bytes

Plugin == 1..Plugins

VARIABLES
    phase,      \* "start" | "ready" | "routing" | "ending" | "done" | "failed"
    at,         \* the plugin the routed record enters next, or to be started
    finishing,  \* the plugin finish is at, 0 while records are processed
    record,     \* the record being routed
    guest,      \* per plugin: [live, store, consumed, accounted]
    total,      \* PipelineSession.fuel_consumed
    bytes,      \* [input, output, stage]
    taken,      \* records read from the source
    output,     \* the records handed to the caller
    stop        \* "" | "cancelled" | "deadline": what the outside did

runVars == <<phase, at, finishing, record, guest, total, bytes, taken, output, stop>>

NoRecord == [origin |-> <<"none", 0>>, seen |-> <<>>, bytes |-> 0]
NoGuest == [live |-> FALSE, store |-> 0, consumed |-> 0, accounted |-> 0]
Smallest(S) == CHOOSE x \in S : \A y \in S : x <= y

RunInit ==
    /\ phase = "start"
    /\ at = 1
    /\ finishing = 0
    /\ record = NoRecord
    /\ guest = [p \in Plugin |-> NoGuest]
    /\ total = 0
    /\ bytes = [input |-> 0, output |-> 0, stage |-> [p \in Plugin |-> 0]]
    /\ taken = 0
    /\ output = <<>>
    /\ stop = ""

Failed ==
    /\ phase' = "failed"
    /\ record' = NoRecord

-----------------------------------------------------------------------------
(* The wasm runtime.                                                       *)

(* prepare_call: the fuel a call may burn; 0 when it may not be made. *)
MutCallBudget(p, limit) ==
    IF stop # "" THEN 0 ELSE Smallest({guest[p].store, CallFuel})

CallBudget(p, limit) ==
    IF stop # "" THEN 0 ELSE Smallest({guest[p].store, CallFuel, limit})

(* complete_call: what was burned leaves the store and is counted, whether *)
(* the call answered or trapped.                                           *)
CompleteCall(g, burned) == [g EXCEPT !.consumed = @ + burned, !.store = @ - burned]

(* check_cumulative_output, for an output of n bytes so far. *)
WithinExpansion(n) ==
    n <= Smallest({MaxOutputBytes, bytes.input * Factor + Slack})

(* remaining_fuel; 0 stands for fuel_limit_error. *)
RemainingFuel == IF total >= MaxFuel THEN 0 ELSE MaxFuel - total

-----------------------------------------------------------------------------
(* start_session_with_deadline: one plugin after the other.  instantiate   *)
(* burns startup fuel of the same store call_begin then draws on.          *)
StartPlugin ==
    /\ phase = "start"
    /\ at <= Plugins
    /\ LET initial == Smallest({ComponentFuel, MaxFuel - total}) IN
       \/ /\ stop = ""
          /\ initial > 0
          /\ \E startup \in 0..initial, begin \in 0..Smallest({initial, CallFuel}) :
                /\ startup < initial
                /\ begin <= initial - startup
                /\ guest' = [guest EXCEPT ![at] =
                     [live |-> TRUE, store |-> initial - startup - begin,
                      consumed |-> startup + begin, accounted |-> startup + begin]]
                /\ total' = total + startup + begin
          /\ at' = at + 1
          /\ UNCHANGED <<phase, record>>
       \/ \* instantiation or begin refuses, traps or runs out of fuel
          /\ Failed
          /\ UNCHANGED <<at, guest, total>>
    /\ UNCHANGED <<finishing, bytes, taken, output, stop>>

Started ==
    /\ phase = "start"
    /\ at > Plugins
    /\ phase' = "ready"
    /\ UNCHANGED <<at, finishing, record, guest, total, bytes, taken, output, stop>>

(* process: the input bound, then route_from the first plugin. *)
ProcessRecord ==
    /\ phase = "ready"
    /\ finishing = 0
    /\ taken < Inputs
    /\ \E n \in Sizes :
       IF stop = "deadline" \/ bytes.input + n > MaxInputBytes
       THEN Failed /\ UNCHANGED <<at, bytes, taken>>
       ELSE /\ phase' = "routing"
            /\ at' = 1
            /\ taken' = taken + 1
            /\ record' = [origin |-> <<"input", taken + 1>>, seen |-> <<>>, bytes |-> n]
            /\ bytes' = [bytes EXCEPT !.input = @ + n]
    /\ UNCHANGED <<finishing, guest, total, output, stop>>

(* route_from, one plugin: the fuel of the call is accounted before its    *)
(* outcome is looked at; account_fuel never exceeds the limit because the  *)
(* window was no larger than what remained.                                *)
RoutePlugin ==
    /\ phase = "routing"
    /\ at <= Plugins
    /\ guest[at].live
    /\ LET budget == CallBudget(at, RemainingFuel) IN
       \/ /\ budget > 0
          /\ \E burned \in 0..budget :
             LET g == CompleteCall(guest[at], burned)
                 delta == g.consumed - g.accounted
             IN /\ guest' = [guest EXCEPT ![at] = [g EXCEPT !.accounted = g.consumed]]
                /\ total' = total + delta
                /\ IF total + delta > MaxFuel
                   THEN Failed /\ UNCHANGED <<at, bytes>>
                   ELSE \/ \* Emit, within every byte limit or not
                           \E n \in Sizes :
                             IF n <= MaxRecordBytes /\ WithinExpansion(bytes.stage[at] + n)
                             THEN /\ record' = [record EXCEPT !.seen = Append(@, at), !.bytes = n]
                                  /\ bytes' = [bytes EXCEPT !.stage[at] = @ + n]
                                  /\ at' = at + 1
                                  /\ UNCHANGED phase
                             ELSE Failed /\ UNCHANGED <<at, bytes>>
                        \/ \* Drop
                           /\ phase' = IF finishing = 0 THEN "ready" ELSE "ending"
                           /\ record' = NoRecord
                           /\ UNCHANGED <<at, bytes>>
                        \/ \* Reject, an error of the guest or a trap
                           Failed /\ UNCHANGED <<at, bytes>>
       \/ /\ budget = 0
          /\ Failed
          /\ UNCHANGED <<at, guest, total, bytes>>
    /\ UNCHANGED <<finishing, taken, output, stop>>

(* The end of route_from: the output validator, then account_output. *)
EmitOutput ==
    /\ phase = "routing"
    /\ at > Plugins
    /\ \/ /\ WithinExpansion(bytes.output + record.bytes)
          /\ output' = Append(output, record)
          /\ bytes' = [bytes EXCEPT !.output = @ + record.bytes]
          /\ phase' = IF finishing = 0 THEN "ready" ELSE "ending"
          /\ record' = NoRecord
       \/ Failed /\ UNCHANGED <<bytes, output>>
    /\ UNCHANGED <<at, finishing, guest, total, taken, stop>>

(* The caller has no more records: finish_with_fuel. *)
BeginFinish ==
    /\ phase = "ready"
    /\ phase' = "ending"
    /\ finishing' = 0
    /\ UNCHANGED <<at, record, guest, total, bytes, taken, output, stop>>

(* Trailing output enters at the plugin that made it. *)
MutTrailing(p) == p

(* Trailing output enters behind the plugin that made it. *)
Trailing(p) == p + 1

(* finish of the next plugin: it is taken out of the session, ended under  *)
(* what fuel remains, and a failure leaves its fuel unaccounted, which     *)
(* nobody reads because the session fails with it.                         *)
FinishPlugin ==
    /\ phase = "ending"
    /\ finishing < Plugins
    /\ LET p == finishing + 1
           budget == CallBudget(p, RemainingFuel)
       IN  \/ /\ budget > 0
              /\ \E burned \in 0..budget :
                 LET g == CompleteCall(guest[p], burned)
                     delta == g.consumed - g.accounted
                 IN /\ guest' = [guest EXCEPT ![p] = [g EXCEPT !.live = FALSE]]
                    /\ total' = total + delta
                    /\ finishing' = p
                    /\ \/ \* no trailing bytes
                          UNCHANGED <<phase, at, record, bytes>>
                       \/ \E n \in Sizes \ {0} :
                            IF n <= MaxRecordBytes /\ WithinExpansion(bytes.stage[p] + n)
                            THEN /\ record' = [origin |-> <<"trailing", p>>, seen |-> <<>>,
                                               bytes |-> n]
                                 /\ bytes' = [bytes EXCEPT !.stage[p] = @ + n]
                                 /\ at' = Trailing(p)
                                 /\ phase' = "routing"
                            ELSE Failed /\ UNCHANGED <<at, bytes>>
                       \/ Failed /\ UNCHANGED <<at, bytes>>
           \/ /\ budget = 0
              /\ Failed
              /\ UNCHANGED <<at, finishing, guest, total, bytes>>
    /\ UNCHANGED <<taken, output, stop>>

Finished ==
    /\ phase = "ending"
    /\ finishing = Plugins
    /\ \/ phase' = "done" /\ UNCHANGED record
       \/ Failed        \* OutputValidator::finish refuses the stream
    /\ UNCHANGED <<at, finishing, guest, total, bytes, taken, output, stop>>

(* The watchdog, the client or the clock. *)
Interrupt ==
    /\ stop = ""
    /\ phase \notin {"done", "failed"}
    /\ stop' \in {"cancelled", "deadline"}
    /\ UNCHANGED <<phase, at, finishing, record, guest, total, bytes, taken, output>>

RunNext ==
    \/ StartPlugin \/ Started
    \/ ProcessRecord \/ RoutePlugin \/ EmitOutput
    \/ BeginFinish \/ FinishPlugin \/ Finished
    \/ Interrupt

RunSpec == RunInit /\ [][RunNext]_runVars

-----------------------------------------------------------------------------
(* Properties.                                                             *)

Burned ==
    LET sum[p \in 0..Plugins] == IF p = 0 THEN 0 ELSE sum[p - 1] + guest[p].consumed
    IN  sum[Plugins]

Before(o, q) ==
    \/ o[1] = "input" /\ q[1] = "trailing"
    \/ o[1] = q[1] /\ o[2] < q[2]

(* The fuel guests burned never exceeds the pipeline's limit, however the  *)
(* calls share it, and a finished session reports exactly what they burned *)
(* (the usage evidence); every record handed out passed every plugin from  *)
(* its origin on, in order, none of them already ended; outputs keep the   *)
(* order of their origins; the output stays within the expansion allowed.  *)
RunExact ==
    /\ Burned <= MaxFuel
    /\ phase = "done" => total = Burned
    /\ phase = "routing" /\ at <= Plugins => guest[at].live
    /\ \A i \in DOMAIN output :
        LET from == IF output[i].origin[1] = "input" THEN 1 ELSE output[i].origin[2] + 1 IN
        output[i].seen = [k \in 1..(Plugins - from + 1) |-> from + k - 1]
    /\ \A i, j \in DOMAIN output : i < j => Before(output[i].origin, output[j].origin)
    /\ bytes.output <= Smallest({MaxOutputBytes, bytes.input * Factor + Slack})

=============================================================================
