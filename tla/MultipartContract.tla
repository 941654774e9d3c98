-------------------------- MODULE MultipartContract --------------------------
(***************************************************************************)
(* What a multipart upload promises its clients: it is completed by one     *)
(* list of parts or closed, never both; its object is published at most     *)
(* once, only by a completion that claimed the upload; and a success is     *)
(* answered to that list only, after publication.                           *)
(***************************************************************************)
EXTENDS Naturals

CONSTANTS Fingerprints, NoFingerprint

VARIABLES
    phase,     \* open, claimed, completed, closed or gone
    claim,     \* the fingerprint that claimed the upload
    published, \* how often the object was made visible
    told       \* fingerprints answered with success

contractVars == <<phase, claim, published, told>>

ContractInit == phase = "open" /\ claim = NoFingerprint /\ published = 0 /\ told = {}

Claim(fp) ==
    /\ phase = "open" /\ phase' = "claimed" /\ claim' = fp
    /\ UNCHANGED <<published, told>>

Publish ==
    /\ phase = "claimed" /\ published = 0 /\ published' = 1
    /\ UNCHANGED <<phase, claim, told>>

Complete ==
    /\ phase = "claimed" /\ published = 1 /\ phase' = "completed"
    /\ UNCHANGED <<claim, published, told>>

Answer ==
    /\ phase \in {"completed", "gone"} /\ published = 1 /\ told' = told \cup {claim}
    /\ UNCHANGED <<phase, claim, published>>

Close ==
    /\ phase = "open" /\ phase' = "closed"
    /\ UNCHANGED <<claim, published, told>>

Forget ==
    /\ phase \in {"completed", "closed"} /\ phase' = "gone"
    /\ UNCHANGED <<claim, published, told>>

ContractNext ==
    (\E fp \in Fingerprints : Claim(fp)) \/ Publish \/ Complete \/ Answer \/ Close \/ Forget

ContractSpec == ContractInit /\ [][ContractNext]_contractVars
=============================================================================
