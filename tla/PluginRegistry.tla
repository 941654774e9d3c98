--------------------------- MODULE PluginRegistry ---------------------------
(* The plugin catalog, its digest-keyed compile cache, pipeline resolution   *)
(* and the policy gate (plugin_registry.rs, pipeline.rs, pipeline_config.rs, *)
(* policy_gate.rs, and the request handlers that call them).                 *)
(*                                                                           *)
(* A request resolves its chain of steps once, loads an engine per enabled   *)
(* step (from the cache, or fetched and compiled outside the lock), resolves *)
(* its backend, asks the policy gate, and executes.  A multipart upload      *)
(* freezes chain and verdict at its creation and executes them at its        *)
(* completion.  Meanwhile an administrator imports, disables, reorders and   *)
(* removes plugins and the control plane replaces assignment, destination,   *)
(* approval and limits.                                                      *)
(*                                                                           *)
(* Abstracted: one upload; every engine weighs 1; the limits of a policy are *)
(* one number; a component's bytes are its digest.                           *)
EXTENDS Naturals, Sequences, FiniteSets, Functions

CONSTANTS Components,     \* content digests
          Ids,            \* catalog ids of plugins
          Requests,
          Resolvers,      \* subset of {"static", "file", "hosted"}
          Destinations,
          Limits,         \* the values a policy may set
          OperatorLimit,  \* PipelineLimits of the registry
          CacheMaxWeight,
          MaxChanges,     \* administrative changes
          None

VARIABLES catalog,   \* plugins by id, and their order
          cache,     \* RegistryState: engines, recency order, weight
          imports,   \* imports that compile outside the lock
          control,   \* resolver, assignment, destination, approval, limits
          upload,    \* the staged multipart upload
          reqs, changes,
          gone       \* history: digests removed from the catalog

registryVars == <<catalog, cache, imports, control, upload, reqs, changes, gone>>

StepType == [hash : Components, caps : BOOLEAN, enabled : BOOLEAN]
Step(h, c, e) == [hash |-> h, caps |-> c, enabled |-> e]
Enabled(steps) == {i \in DOMAIN steps : steps[i].enabled}

(***************************************************************************)
(* The compile cache.                                                      *)
(***************************************************************************)
Cached(h) == h \in DOMAIN cache.engines

TouchCacheEntry(order, h) == Append(SelectSeq(order, LAMBDA g : g # h), h)

Referenced(plugins) == {plugins[i].hash : i \in {j \in Ids : plugins[j] # None}}

\* Mutant: catalog engines are not pinned.
MutVictims(c, plugins) == {k \in DOMAIN c.order : c.order[k] \in DOMAIN c.engines}

\* The entries no catalog plugin references; the first one is evicted.
Victims(c, plugins) ==
    {k \in DOMAIN c.order : /\ c.order[k] \notin Referenced(plugins)
                            /\ c.order[k] \in DOMAIN c.engines}

EvictUnreferencedEngines(c, plugins) ==
    LET evict[n \in 0 .. Cardinality(Components)] ==
            IF n = 0 THEN c
            ELSE LET d == evict[n - 1]
                     k == CHOOSE i \in Victims(d, plugins) :
                              \A j \in Victims(d, plugins) : i <= j
                 IN IF d.weight <= CacheMaxWeight \/ Victims(d, plugins) = {} THEN d
                    ELSE [engines |-> [h \in DOMAIN d.engines \ {d.order[k]} |-> d.engines[h]],
                          order   |-> SelectSeq(d.order, LAMBDA g : g # d.order[k]),
                          weight  |-> d.weight - 1]
    IN evict[Cardinality(Components)]

InsertEntry(c, h, entry) ==
    [engines |-> [g \in DOMAIN c.engines \cup {h} |-> IF g = h THEN entry ELSE c.engines[g]],
     order   |-> TouchCacheEntry(c.order, h),
     weight  |-> c.weight + 1]

\* The administrator's (or the startup directory's) import looks the digest up
\* and compiles a new component without holding the lock.
ImportBegin(id, h, caps) ==
    /\ changes < MaxChanges /\ imports[id] = None
    /\ catalog.plugins[id] = None
    /\ Cached(h) => cache.engines[h].caps = caps
    /\ imports' = [imports EXCEPT ![id] = [hash |-> h, caps |-> caps]]
    /\ cache' = IF Cached(h) THEN [cache EXCEPT !.order = TouchCacheEntry(@, h)] ELSE cache
    /\ changes' = changes + 1
    /\ UNCHANGED <<catalog, control, upload, reqs, gone>>

\* Under the write lock: another insertion may have won meanwhile.
ImportCommit(id) ==
    LET job == imports[id]
        plugins == [catalog.plugins EXCEPT
                      ![id] = [hash |-> job.hash, caps |-> job.caps, enabled |-> TRUE]]
        conflict == Cached(job.hash) /\ cache.engines[job.hash].caps # job.caps
        inserted == IF Cached(job.hash)
                    THEN [cache EXCEPT !.order = TouchCacheEntry(@, job.hash)]
                    ELSE InsertEntry(cache, job.hash, [digest |-> job.hash, caps |-> job.caps])
    IN /\ job # None
       /\ imports' = [imports EXCEPT ![id] = None]
       /\ IF conflict THEN UNCHANGED <<catalog, cache>>
          ELSE /\ catalog' = [plugins |-> plugins, order |-> Append(catalog.order, id)]
               /\ cache' = EvictUnreferencedEngines(inserted, plugins)
       /\ UNCHANGED <<control, upload, reqs, changes, gone>>

SetEnabled(id, e) ==
    /\ changes < MaxChanges /\ catalog.plugins[id] # None
    /\ catalog.plugins[id].enabled # e
    /\ catalog' = [catalog EXCEPT !.plugins[id].enabled = e]
    /\ changes' = changes + 1
    /\ UNCHANGED <<cache, imports, control, upload, reqs, gone>>

Remove(id) ==
    LET plugins == [catalog.plugins EXCEPT ![id] = None] IN
    /\ changes < MaxChanges /\ catalog.plugins[id] # None
    /\ catalog' = [plugins |-> plugins, order |-> SelectSeq(catalog.order, LAMBDA i : i # id)]
    /\ cache' = EvictUnreferencedEngines(cache, plugins)
    /\ gone' = gone \cup {catalog.plugins[id].hash}
    /\ changes' = changes + 1
    /\ UNCHANGED <<imports, control, upload, reqs>>

\* The named plugins come first; the others keep their relative order.
Reorder(id) ==
    LET order == <<id>> \o SelectSeq(catalog.order, LAMBDA i : i # id) IN
    /\ changes < MaxChanges /\ catalog.plugins[id] # None /\ order # catalog.order
    /\ catalog' = [catalog EXCEPT !.order = order]
    /\ changes' = changes + 1
    /\ UNCHANGED <<cache, imports, control, upload, reqs, gone>>

(***************************************************************************)
(* Resolution.                                                             *)
(***************************************************************************)
EnabledCatalog ==
    LET ids == SelectSeq(catalog.order, LAMBDA i : catalog.plugins[i].enabled) IN
    [k \in DOMAIN ids |-> Step(catalog.plugins[ids[k]].hash, catalog.plugins[ids[k]].caps, TRUE)]

\* StaticPipelineResolver: the enabled catalog in order; an empty one stores
\* writes as they are and denies reads.
StaticResolution == [steps |-> EnabledCatalog, passthrough |-> EnabledCatalog = <<>>]

\* SignedTomlPipelineResolver: the steps were looked up in the catalog at
\* startup and are never looked up in the registry again.
FileResolution == control.assigned

Resolution ==
    CASE control.resolver = "static" -> StaticResolution
      [] control.resolver = "file"   -> FileResolution
      [] OTHER                       -> control.assigned

Resolvable(direction) ==
    control.resolver = "static" /\ direction = "read" => EnabledCatalog # <<>>

PipelineRequiresPassthrough(res) == Enabled(res.steps) = {} /\ ~res.passthrough

(***************************************************************************)
(* The policy gate.                                                        *)
(***************************************************************************)
Unbound == [bound |-> FALSE, dest |-> None, limit |-> 0, version |-> 1]

\* Without a gate every request is approved unbound; a hosted gate (external)
\* denies, or binds the destination it approved: the current one or, for the
\* continuation of an upload, the frozen one.
Verdicts(frozen) ==
    IF ~control.gate THEN {Unbound}
    ELSE [bound : {TRUE}, limit : {control.limit}, version : {1},
          dest : {control.approved} \cup IF frozen.bound THEN {frozen.dest} ELSE {}]

RejectFutureEvidence(verdict) == verdict.version <= 1

BindingMatchesSelection(verdict, dest) == verdict.dest = dest

ConsumePolicy(verdict, dest) ==
    /\ RejectFutureEvidence(verdict)
    /\ verdict.bound => BindingMatchesSelection(verdict, dest)

\* The continuation re-checks the verdict frozen at creation.
ConsumeFrozenPolicy(frozen, dest) == ConsumePolicy(frozen, dest)

Least(a, b) == IF a <= b THEN a ELSE b

MinPolicyLimits(a, b) == Least(a, b)

\* Mutant: a fresh verdict replaces the frozen one.
MutEffectivePolicyLimit(frozen, fresh) ==
    CASE fresh.bound -> fresh.limit
      [] frozen.bound -> frozen.limit
      [] OTHER -> OperatorLimit

\* Completion: both bound, the lesser; one bound, that one; none, no limit.
EffectivePolicyLimit(frozen, fresh) ==
    CASE frozen.bound /\ fresh.bound -> MinPolicyLimits(frozen.limit, fresh.limit)
      [] frozen.bound /\ ~fresh.bound -> frozen.limit
      [] ~frozen.bound /\ fresh.bound -> fresh.limit
      [] OTHER -> OperatorLimit

\* PipelineSnapshot::constrained: limits only tighten, and a zero is refused.
Constrained(limit) == Least(OperatorLimit, limit)

(***************************************************************************)
(* Requests.                                                               *)
(***************************************************************************)
NoResolution == [steps |-> <<>>, passthrough |-> TRUE]
Idle == [pc |-> "idle", kind |-> None, res |-> NoResolution, engines |-> <<>>,
         dest |-> None, verdict |-> Unbound, frozen |-> Unbound, limit |-> OperatorLimit,
         why |-> None]

Become(r, rec) == reqs' = [reqs EXCEPT ![r] = rec]
Fail(r, why) == Become(r, [reqs[r] EXCEPT !.pc = "failed", !.why = why])
OthersSame == UNCHANGED <<catalog, imports, control, changes, gone>>

Begin(r, kind, direction, next) ==
    /\ reqs[r].pc = "idle"
    /\ IF Resolvable(direction)
       THEN Become(r, [reqs[r] EXCEPT !.kind = kind, !.res = Resolution, !.pc = next])
       ELSE Become(r, [reqs[r] EXCEPT !.kind = kind, !.pc = "failed", !.why = "unassigned"])
    /\ OthersSame /\ UNCHANGED <<cache, upload>>

PutResolve(r) == Begin(r, "put", "write", "load")

\* An explicit pass-through read runs no pipeline.
GetResolve(r) == Begin(r, "get", "read", IF Resolution.passthrough THEN "select" ELSE "load")

CreateResolve(r) == Begin(r, "create", "write", "select")

\* A part or a completion loads the upload with what its creation froze; a
\* part resolves its backend first, which is not told apart here.
LoadUpload(r, kind) ==
    /\ reqs[r].pc = "idle" /\ upload.open
    /\ Become(r, [reqs[r] EXCEPT !.kind = kind, !.res = upload.res,
                                 !.frozen = upload.verdict, !.pc = "select"])
    /\ OthersSame /\ UNCHANGED <<cache, upload>>

PartLoad(r) == LoadUpload(r, "part")
CompleteLoad(r) == LoadUpload(r, "complete")

\* engine_for: the next step's engine from the cache, or a fetch.
EngineFor(r) ==
    LET q == reqs[r]
        step == q.res.steps[Len(q.engines) + 1]
    IN /\ q.pc = "load" /\ ~PipelineRequiresPassthrough(q.res)
       /\ Len(q.engines) < Len(q.res.steps)
       /\ \/ /\ ~step.enabled
             /\ Become(r, [q EXCEPT !.engines = Append(@, None)])
             /\ UNCHANGED cache
          \/ /\ step.enabled /\ Cached(step.hash)
             /\ cache' = [cache EXCEPT !.order = TouchCacheEntry(@, step.hash)]
             /\ IF cache.engines[step.hash].caps = step.caps
                THEN Become(r, [q EXCEPT !.engines = Append(@, cache.engines[step.hash])])
                ELSE Fail(r, "capabilities")
          \/ /\ step.enabled /\ ~Cached(step.hash)
             /\ Become(r, [q EXCEPT !.pc = "fetch"])
             /\ UNCHANGED cache
       /\ OthersSame /\ UNCHANGED upload

\* What the component source answers: the registry itself serves what it has
\* cached; the hosted source is external and may lack or garble a component.
Loaded(h) ==
    IF control.resolver # "hosted" THEN IF Cached(h) THEN {h} ELSE {None}
    ELSE Components \cup {None}

Fetch(r) ==
    LET q == reqs[r]
        step == q.res.steps[Len(q.engines) + 1]
    IN /\ q.pc = "fetch"
       /\ \E bytes \in Loaded(step.hash) :
             CASE bytes = None      -> Fail(r, "missing")
               [] bytes # step.hash -> Fail(r, "digest")
               [] OTHER             -> Become(r, [q EXCEPT !.pc = "compiled"])
       /\ OthersSame /\ UNCHANGED <<cache, upload>>

\* insert_engine, after a compilation outside the lock: the entry another
\* request or import made meanwhile is authoritative.
InsertEngine(r) ==
    LET q == reqs[r]
        step == q.res.steps[Len(q.engines) + 1]
        entry == [digest |-> step.hash, caps |-> step.caps]
    IN /\ q.pc = "compiled"
       /\ IF Cached(step.hash)
          THEN IF cache.engines[step.hash].caps # step.caps
               THEN Fail(r, "capabilities") /\ UNCHANGED cache
               ELSE /\ Become(r, [q EXCEPT !.pc = "load",
                                           !.engines = Append(@, cache.engines[step.hash])])
                    /\ cache' = [cache EXCEPT !.order = TouchCacheEntry(@, step.hash)]
          ELSE /\ Become(r, [q EXCEPT !.pc = "load", !.engines = Append(@, entry)])
               /\ cache' = EvictUnreferencedEngines(InsertEntry(cache, step.hash, entry),
                                                    catalog.plugins)
       /\ OthersSame /\ UNCHANGED upload

\* The snapshot is complete (or the empty chain is refused).
SnapshotFor(r) ==
    LET q == reqs[r] IN
    /\ q.pc = "load"
    /\ \/ PipelineRequiresPassthrough(q.res) /\ Fail(r, "passthrough")
       \/ /\ ~PipelineRequiresPassthrough(q.res)
          /\ Len(q.engines) = Len(q.res.steps)
          /\ Become(r, [q EXCEPT !.pc = IF q.kind = "complete" THEN "execute" ELSE "select"])
    /\ OthersSame /\ UNCHANGED <<cache, upload>>

ResolveBackend(r) ==
    /\ reqs[r].pc = "select"
    /\ Become(r, [reqs[r] EXCEPT !.dest = control.dest, !.pc = "enforce"])
    /\ OthersSame /\ UNCHANGED <<cache, upload>>

\* enforce_policy and the consumption of its verdict; limit(v) is what the
\* request may use under it.
Enforce(r, kind, limit(_), next) ==
    LET q == reqs[r] IN
    /\ q.pc = "enforce" /\ q.kind = kind
    /\ \/ control.gate /\ Fail(r, "denied")
       \/ \E v \in Verdicts(q.frozen) :
             IF ConsumePolicy(v, q.dest) /\ ConsumeFrozenPolicy(q.frozen, q.dest)
             THEN Become(r, [q EXCEPT !.verdict = v, !.limit = limit(v), !.pc = next])
             ELSE Fail(r, "denied")
    /\ OthersSame /\ UNCHANGED <<cache, upload>>

Own(v) == IF v.bound THEN v.limit ELSE OperatorLimit

PutEnforce(r) == Enforce(r, "put", Own, "execute")
GetEnforce(r) == Enforce(r, "get", Own, "execute")
CreateEnforce(r) == Enforce(r, "create", Own, "execute")
PartEnforce(r) == Enforce(r, "part", Own, "execute")
CompleteEnforce(r) ==
    Enforce(r, "complete", LAMBDA v : EffectivePolicyLimit(reqs[r].frozen, v), "load")

\* The creation of an upload freezes its chain and a bound verdict.
Freeze(r) ==
    LET q == reqs[r] IN
    /\ q.pc = "execute" /\ q.kind = "create" /\ ~upload.open
    /\ upload' = [open |-> TRUE, res |-> q.res, verdict |-> q.verdict]
    /\ Become(r, [q EXCEPT !.pc = "done"])
    /\ OthersSame /\ UNCHANGED cache

\* The request runs its engines under its limit against its backend.
Execute(r) ==
    LET q == reqs[r] IN
    /\ q.pc = "execute" /\ q.kind # "create"
    /\ IF q.kind # "part" /\ Constrained(q.limit) = 0
       THEN Fail(r, "limits")
       ELSE Become(r, [q EXCEPT !.pc = "done", !.limit = Constrained(@)])
    /\ OthersSame /\ UNCHANGED <<cache, upload>>

(***************************************************************************)
(* The control plane (external).                                           *)
(***************************************************************************)
Change(field, value) ==
    /\ changes < MaxChanges /\ control[field] # value
    /\ control' = [control EXCEPT ![field] = value]
    /\ changes' = changes + 1
    /\ UNCHANGED <<catalog, cache, imports, upload, reqs, gone>>

Assignments ==
    [steps : {<<Step(h, c, e)>> : h \in Components, c \in BOOLEAN, e \in BOOLEAN},
     passthrough : {FALSE}] \cup {NoResolution}

\* An upload created by a newer gateway whose evidence this one cannot read.
NewerUpload ==
    /\ control.gate /\ ~upload.open /\ changes < MaxChanges
    /\ upload' = [open |-> TRUE, res |-> Resolution,
                  verdict |-> [bound |-> TRUE, dest |-> control.approved,
                               limit |-> control.limit, version |-> 2]]
    /\ changes' = changes + 1
    /\ UNCHANGED <<catalog, cache, imports, control, reqs, gone>>

\* load_from_dir at startup: one plugin per component, in file order, each
\* cached and pinned.
LoadFromDir(ids, hash) ==
    /\ catalog = [plugins |-> [i \in Ids |->
                                  IF i \in Range(ids)
                                  THEN [hash |-> hash[i], caps |-> FALSE, enabled |-> TRUE]
                                  ELSE None],
                  order |-> ids]
    /\ cache = [engines |-> [h \in {hash[i] : i \in Range(ids)} |-> [digest |-> h, caps |-> FALSE]],
                order   |-> [k \in DOMAIN ids |-> hash[ids[k]]],
                weight  |-> Len(ids)]

RegistryInit ==
    /\ \E n \in 0 .. Cardinality(Ids), hash \in [Ids -> Components] :
          /\ IsInjective(hash)
          /\ \E ids \in [1 .. n -> Ids] : IsInjective(ids) /\ LoadFromDir(ids, hash)
    /\ imports = [i \in Ids |-> None]
    /\ \E s \in Resolvers, g \in BOOLEAN, a \in Assignments, d \in Destinations, l \in Limits :
          /\ (s = "static") = (a = NoResolution)
          /\ \A i \in DOMAIN a.steps :
                /\ a.steps[i].enabled /\ ~a.steps[i].caps
                \* A file resolver validates its references against that catalog.
                /\ s = "file" => a.steps[i].hash \in Referenced(catalog.plugins)
          /\ g \/ l = OperatorLimit
          /\ control = [resolver |-> s, assigned |-> a, gate |-> g,
                        dest |-> d, approved |-> d, limit |-> l]
    /\ upload = [open |-> FALSE, res |-> NoResolution, verdict |-> Unbound]
    /\ reqs = [r \in Requests |-> Idle]
    /\ changes = 0
    /\ gone = {}

RegistryNext ==
    \/ \E id \in Ids :
          \/ \E h \in Components, caps \in BOOLEAN :
                /\ control.resolver # "hosted" => caps = FALSE
                /\ ImportBegin(id, h, caps)
          \/ ImportCommit(id)
          \/ \E e \in BOOLEAN : SetEnabled(id, e)
          \/ Remove(id)
          \/ Reorder(id)
    \/ \E r \in Requests :
          \/ PutResolve(r)
          \/ GetResolve(r)
          \/ CreateResolve(r)
          \/ PartLoad(r)
          \/ CompleteLoad(r)
          \/ EngineFor(r)
          \/ Fetch(r)
          \/ InsertEngine(r)
          \/ SnapshotFor(r)
          \/ ResolveBackend(r)
          \/ PutEnforce(r)
          \/ GetEnforce(r)
          \/ CreateEnforce(r)
          \/ PartEnforce(r)
          \/ CompleteEnforce(r)
          \/ Freeze(r)
          \/ Execute(r)
    \/ \E d \in Destinations : Change("dest", d) \/ Change("approved", d)
    \/ \E l \in Limits : control.gate /\ Change("limit", l)
    \/ \E a \in Assignments : control.resolver = "hosted" /\ Change("assigned", a)
    \/ NewerUpload

(***************************************************************************)
(* Properties.                                                             *)
(***************************************************************************)

\* Whatever is changed while a request is under way, a request that ran used,
\* for every enabled step of the chain it resolved (or that its upload froze),
\* an engine of exactly that digest registered with exactly the capabilities
\* the step declares, wrote to the destination every verdict in force names,
\* and was limited by the operator, by the frozen and by the fresh verdict
\* (policy_gate.rs:149, 182 and s3_objects.rs:2983).
ExecutesApproved ==
    \A r \in Requests :
        LET q == reqs[r] IN
        q.pc = "done" =>
            /\ q.kind \in {"put", "get", "complete"} /\ ~q.res.passthrough =>
                  \A i \in Enabled(q.res.steps) :
                     /\ q.engines[i].digest = q.res.steps[i].hash
                     /\ q.engines[i].caps = q.res.steps[i].caps
            /\ \A v \in {q.verdict, q.frozen} :
                  v.bound => /\ v.version <= 1
                             /\ q.dest = v.dest
                             /\ q.kind # "part" /\ q.kind # "create" => q.limit <= v.limit
            /\ q.kind # "part" /\ q.kind # "create" => q.limit <= OperatorLimit

\* A gateway that resolves from its own catalog always finds the component and
\* the capabilities it resolved to, however imports, other requests and cache
\* evictions interleave, unless that component was removed from the catalog:
\* "fetches always hit the cache" (plugin_registry.rs:320) and "Cache insertion
\* and catalog pinning are one transaction" (plugin_registry.rs:483).
CatalogServes ==
    \A r \in Requests :
        LET q == reqs[r] IN
        (/\ control.resolver # "hosted"
         /\ q.pc = "failed" /\ q.why \in {"missing", "capabilities", "digest"})
        => \E i \in DOMAIN q.res.steps : q.res.steps[i].hash \in gone
=============================================================================
