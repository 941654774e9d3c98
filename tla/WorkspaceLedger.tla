-------------------------- MODULE WorkspaceLedger --------------------------
(***************************************************************************)
(* What a managed repository promises about the bytes of one workspace,     *)
(* whichever repository keeps them: one mutation holds a reservation at a   *)
(* time, reservations and allocations stay under the physical bound, an     *)
(* object changes hands by one version at a time, and the counters are at   *)
(* every moment what the objects and the operations say.                    *)
(***************************************************************************)
EXTENDS Integers, FiniteSetsExt

CONSTANTS Ops, Keys, NoOp, VisibleLimit, Headroom

VARIABLES
    object,  \* version and visible size of each key
    hold,    \* what each operation holds: the slot, and its bytes
    usage    \* managed_workspace_usage

Free == [slot |-> FALSE, bytes |-> 0]
Nothing == [cas |-> 0, size |-> 0]

\* The sum of f over the set S.
Total(f, S) == MapThenSumSet(LAMBDA x : f[x], S)

\* The counters the objects and the operations amount to.
Derived(obj, held) ==
    [visible |-> Total([k \in Keys |-> obj[k].size], Keys),
     allocated |-> Total([o \in Ops |-> IF held[o].slot THEN 0 ELSE held[o].bytes], Ops),
     reserved |-> Total([o \in Ops |-> IF held[o].slot THEN held[o].bytes ELSE 0], Ops),
     active |-> IF \E o \in Ops : held[o].slot THEN CHOOSE o \in Ops : held[o].slot ELSE NoOp]

Init ==
    /\ object = [k \in Keys |-> Nothing]
    /\ hold = [o \in Ops |-> Free]
    /\ usage = Derived(object, hold)

\* Operation o comes to hold h, key k to be version v of its object.
Holding(o, h) == hold' = [hold EXCEPT ![o] = h]
Becomes(k, v) == v.cas = object[k].cas + 1 /\ object' = [object EXCEPT ![k] = v]

Reserve(o) ==
    /\ usage.active = NoOp
    /\ hold'[o].slot /\ Holding(o, hold'[o])
    /\ usage.allocated + hold'[o].bytes <= VisibleLimit + Headroom
    /\ UNCHANGED object

\* An operation keeps no more than it reserved.
Commit(o) ==
    /\ hold[o].slot /\ ~hold'[o].slot
    /\ hold'[o].bytes <= hold[o].bytes /\ Holding(o, hold'[o])
    /\ \E k \in Keys : Becomes(k, object'[k])
    /\ usage'.visible <= VisibleLimit

\* An abort gives the reservation back, a release the allocation.
Abort(o) == hold[o].slot /\ Holding(o, Free) /\ UNCHANGED object
Release(o) == ~hold[o].slot /\ Holding(o, Free) /\ UNCHANGED object

Delete(k) ==
    /\ usage.active = NoOp
    /\ object'[k].size = 0 /\ Becomes(k, object'[k])
    /\ UNCHANGED hold

Purge ==
    /\ usage.active = NoOp
    /\ object' = [k \in Keys |-> Nothing] /\ hold' = [o \in Ops |-> Free]

\* A step changes a counter or an object.
Next ==
    /\ usage' # usage \/ object' # object
    /\ \/ \E o \in Ops : Reserve(o) \/ Commit(o) \/ Abort(o) \/ Release(o)
       \/ \E k \in Keys : Delete(k)
       \/ Purge
    /\ usage' = Derived(object', hold')

ledgerVars == <<object, hold, usage>>

Spec == Init /\ [][Next]_ledgerVars
=============================================================================
