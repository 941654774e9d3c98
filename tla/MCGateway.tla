----------------------------- MODULE MCGateway ------------------------------
(***************************************************************************)
(* The gateway around storage, for TLC: wasm sessions, credentials, request *)
(* integrity, the plugin registry and policy evidence.  The components      *)
(* share no state, so one run checks them side by side: the value of part   *)
(* names the component that moves in a behaviour.  PipelineSession and      *)
(* CredentialStore have their own variables; x1 to x8 hold the state of an  *)
(* instantiated component, and a slot it does not use stays 0.              *)
(***************************************************************************)
EXTENDS PipelineSession, CredentialStore, Integers, TLC

CONSTANTS k1, c1, c2, r1, r2, h1, h2, p1, p2, d1, d2, R1, R2, None

VARIABLES part, x1, x2, x3, x4, x5, x6, x7, x8

slots == <<x1, x2, x3, x4, x5, x6, x7, x8>>
allVars == <<part, sessionVars, credentialVars, slots>>

-----------------------------------------------------------------------------
(* Credentials and requests                                                *)

\* Every repository without seeds (in memory without a cipher), and a file repository
\* with a key per process that seeds its key as bootstrap or as root key.
KeyConfigs ==
    {f \in [repo : {"memory", "file", "postgres"}, cipher : {"none", "ephemeral", "durable"},
            boot : {k1, Nobody}, root : {k1, Nobody}] :
       \/ f.boot = Nobody /\ f.root = Nobody /\ f.cipher = (IF f.repo = "memory" THEN "none" ELSE "durable")
       \/ f.repo = "file" /\ f.cipher = "ephemeral" /\ (f.boot = Nobody) # (f.root = Nobody)}

\* Credentials nobody uses, where another component moves.
CredentialIdle ==
    /\ config = [repo |-> "memory", cipher |-> "none", boot |-> Nobody, root |-> Nobody]
    /\ process = [up |-> FALSE, era |-> 0]
    /\ creds = [c \in Creds |-> Absent] /\ disk = creds /\ durable = creds
    /\ locks = Held /\ calls = [w \in Callers |-> Idle] /\ requests = [r \in Requests |-> Fresh]
    /\ expired = {} /\ acked = [c \in Creds |-> Expect(Absent)] /\ faults = 0

\* Bodies of up to three chunks; the channel changes one thing.
Integrity == INSTANCE RequestIntegrity WITH
    client <- x1, wire <- x2, now <- x3, verifier <- x4, tampers <- x5,
    Bodies <- {<<>>, <<<<0>>>>, <<<<0, 1>>, <<1>>>>, <<<<0>>, <<1>>, <<0, 0>>>>},
    Modes <- {"hashed", "unsigned", "signed", "signed_trailer", "unsigned_trailer"},
    Headers <- {"meta"}, Excluded <- {"agent"}, Skew <- 1, MaxPresign <- 2, MaxChunks <- 5,
    MaxTrailers <- 2, MaxDelay <- 3, MaxTampers <- 1

-----------------------------------------------------------------------------
(* Plugins                                                                 *)

\* A cache that holds one of two components.
Registry == INSTANCE PluginRegistry WITH
    catalog <- x1, cache <- x2, imports <- x3, control <- x4, upload <- x5, reqs <- x6, changes <- x7,
    gone <- x8,
    Components <- {h1, h2}, Ids <- {p1, p2}, Requests <- {r1, r2}, Resolvers <- {"static", "file", "hosted"},
    Destinations <- {d1, d2}, Limits <- {1, 2}, OperatorLimit <- 2, CacheMaxWeight <- 1, MaxChanges <- 1

-----------------------------------------------------------------------------
(* Policy evidence                                                         *)

\* Two trust roots, two credentials, a restore or a reset of the service.
Policy == INSTANCE PolicyEvidence WITH
    live <- x1, archived <- x2, faults <- x3, pin <- x4, checkpoints <- x5, retired <- x6,
    Roots <- {R1, R2}, Founder <- c1, Credentials <- {c1, c2},
    EffectiveStates <- {[format |-> "bytes", adapter |-> FALSE, passthrough |-> FALSE, enabled |-> TRUE,
                         mode |-> "s3", versioned |-> TRUE]},
    Kinds <- {"evidence", "chain"}, Carries <- {"head", "all"}, Damages <- {"none"},
    MaxSeq <- 2, MaxFaults <- 1, MaxTail <- 1

-----------------------------------------------------------------------------
\* The slots a component with n variables does not use.
Blank6 == x7 = 0 /\ x8 = 0
Blank5 == x6 = 0 /\ Blank6
Blank0 == x1 = 0 /\ x2 = 0 /\ x3 = 0 /\ x4 = 0 /\ x5 = 0 /\ Blank5

rest8 == <<part, sessionVars, credentialVars>>
rest6 == <<x7, x8, rest8>>
rest5 == <<x6, rest6>>

GatewayInit ==
    /\ \/ part = "sessions" /\ CredentialIdle /\ Blank0
       \/ part = "credentials" /\ CredentialInit /\ Blank0
       \/ part = "integrity" /\ CredentialIdle /\ Integrity!IntegrityInit /\ Blank5
       \/ part = "registry" /\ CredentialIdle /\ Registry!RegistryInit
       \/ part = "policy" /\ CredentialIdle /\ Policy!PolicyInit /\ Blank6
    /\ SessionInit

GatewayNext ==
    \/ part = "sessions" /\ SessionNext /\ UNCHANGED <<part, credentialVars, slots>>
    \/ part = "credentials" /\ CredentialNext /\ UNCHANGED <<part, sessionVars, slots>>
    \/ part = "integrity" /\ Integrity!IntegrityNext /\ UNCHANGED rest5
    \/ part = "registry" /\ Registry!RegistryNext /\ UNCHANGED rest8
    \/ part = "policy" /\ Policy!PolicyNext /\ UNCHANGED rest6

GatewaySpec == GatewayInit /\ [][GatewayNext]_allVars

\* Sessions are interchangeable, and so are callers, destinations and requests.
Symmetry == Permutations(Sessions) \cup Permutations({d1, d2}) \cup Permutations({r1, r2})

-----------------------------------------------------------------------------
(* Properties of the instantiated components                               *)

\* What is executed is what was agreed: a request that is accepted carries exactly the body and
\* headers its client signed (integrity.rs), it runs the components and limits its destination's
\* approval names, whatever imports, removals and evictions happen meanwhile, and every
\* catalogued component can be served (plugin_registry.rs, policy_gate.rs).
ExecutesAsAgreed ==
    /\ part = "integrity" => Integrity!AcceptedAsSigned
    /\ part = "registry" => Registry!ExecutesApproved /\ Registry!CatalogServes

\* The retained head of a pinned root only grows along one history, each approval authorized by
\* the authority before it (pipeline-config/src/verify.rs, cli/src/policy.rs).
HeadExtends == [][part = "policy" => Policy!HeadStep]_slots
=============================================================================
