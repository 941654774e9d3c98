--------------------------- MODULE PolicyEvidence ---------------------------
(***************************************************************************)
(* Offline verification of policy approvals: the receipt chain, the        *)
(* evidence a customer exports and the trust store in which the customer   *)
(* keeps a pinned root and retained checkpoints (crates/pipeline-config    *)
(* receipt.rs, trust.rs, evidence.rs, verify.rs, effective_state.rs,       *)
(* webauthn.rs and crates/cli policy.rs).                                  *)
(*                                                                         *)
(* A digest is modelled as the value it is the digest of: the digest of a  *)
(* receipt is the sequence of the bodies up to it, because every body      *)
(* signs its predecessor's digest.  An authority (TrustBundle) is the      *)
(* epoch with, for each credential, the epochs at which it was authorized  *)
(* and revoked (0 = never).                                                *)
(*                                                                         *)
(* The approval service is not part of the repository.  It appends         *)
(* approved receipts to a line of history, may store a receipt whose       *)
(* ceremony began under an older authority, may be restored to an earlier  *)
(* point of its line (after which it grows a different one), and may start *)
(* a new line from a new root.  Customers hold exports of every line it    *)
(* ever served and verify them in any order.                               *)
(***************************************************************************)
EXTENDS Integers, Sequences, FiniteSets, SequencesExt

CONSTANTS
  Roots,        \* trust roots, each the digest of a genesis bundle
  Founder,      \* the credential of the genesis bundles
  Credentials,
  None,
  EffectiveStates, \* [format, adapter, passthrough, enabled, mode, versioned]
  Kinds,        \* artifact kinds: "evidence" and "chain"
  Carries,      \* which checkpoints a chain export carries
  Damages,      \* how the head's stored assertion can differ from the right one
  MaxSeq, MaxFaults, MaxTail

VARIABLES
  live,         \* the service's line: [root, receipts]
  archived,     \* the lines it had served before a restore or a reset
  faults,
  pin,          \* trust.json: the pinned root and bundle snapshot, or None
  checkpoints,  \* checkpoints/<workspace>/: seq -> checkpoint or None
  retired       \* roots whose checkpoints were archived

policyVars == <<live, archived, faults, pin, checkpoints, retired>>

Genesis == [epoch   |-> 1,
            from    |-> [c \in Credentials |-> IF c = Founder THEN 1 ELSE 0],
            revoked |-> [c \in Credentials |-> 0]]

(***************************************************************************)
(* Bodies, bundles and approvals.                                          *)
(***************************************************************************)
DestinationValid(s) ==
  CASE s.mode = "managed"   -> FALSE          \* managed storage needs a topology binding
    [] s.mode = "presigned" -> ~s.versioned
    [] OTHER                -> s.versioned    \* a concrete target or a managed topology

EffectiveStateValid(s) ==
  /\ DestinationValid(s)
  /\ s.format # "bytes" => s.adapter
  /\ s.passthrough \/ s.adapter \/ s.enabled

BundleValid(a) ==
  \A c \in Credentials :
     a.from[c] # 0 => /\ a.from[c] <= a.epoch
                      /\ a.revoked[c] # 0 => a.from[c] < a.revoked[c] /\ a.revoked[c] <= a.epoch

\* TrustBundle::authorize at the bundle's own epoch, Current
Current(a, c) ==
  /\ c \in Credentials
  /\ a.from[c] \in 1..a.epoch
  /\ a.revoked[c] = 0

BodyValid(b) ==
  /\ b.version # 0
  /\ EffectiveStateValid(b.state)
  /\ CASE b.purpose = "signer" ->
            /\ b.replacement # None
            /\ (b.action = "replace") = (b.replaced # None)
       [] OTHER -> b.replacement = None /\ b.replaced = None

Digest(r) == Append(r.prev, r.body)
ReceiptSeq(r) == Len(Digest(r))

ChallengeKind(purpose) ==
  CASE purpose = "policy" -> "envelope" [] purpose = "signer" -> "signer" [] OTHER -> "receipt"

VerifyAssertion(proof, r) ==
  /\ proof.kind = ChallengeKind(r.body.purpose)
  /\ proof.artifact = Digest(r)
  /\ {"UP", "UV"} \subseteq proof.flags
  /\ "AT" \notin proof.flags

VerifyApproval(proof, r) == VerifyAssertion(proof, r) /\ proof.timely

VerifyReceipt(r, a) ==
  /\ BundleValid(a)
  /\ BodyValid(r.body)
  /\ r.body.authority = a
  /\ Current(a, r.proof.by)
  /\ VerifyApproval(r.proof, r)
  /\ IF r.body.replacement = None
     THEN r.counter = None
     ELSE /\ r.body.action = "replace" => Current(a, r.body.replaced)
          /\ r.counter # None
          /\ r.counter.by = r.body.replacement
          /\ r.counter.by # r.proof.by
          /\ a.from[r.body.replacement] = 0
          /\ VerifyApproval(r.counter, r)

\* the authority after a transition
Transition(a, b) ==
  IF b.replacement = None THEN a
  ELSE [epoch   |-> a.epoch + 1,
        from    |-> [a.from EXCEPT ![b.replacement] = a.epoch + 1],
        revoked |-> IF b.replaced = None THEN a.revoked
                    ELSE [a.revoked EXCEPT ![b.replaced] = a.epoch + 1]]

AuthorityAfter(a, bodies) ==
  LET after[i \in 0..Len(bodies)] == IF i = 0 THEN a ELSE Transition(after[i - 1], bodies[i])
  IN  after[Len(bodies)]

(***************************************************************************)
(* The chain: full from the genesis authority, or a suffix of a            *)
(* checkpoint.  A chain that does not verify is Broken.                    *)
(***************************************************************************)
Broken == [head |-> <<>>, authority |-> None]

EnvelopeStep(head, b) ==
  LET version == IF head = <<>> THEN 0 ELSE Last(head).version
  IN  IF b.purpose = "policy" THEN b.version > version
      ELSE /\ version # 0
           /\ b.version = version
           /\ b.purpose = "signer" => b.state = Last(head).state

AdvanceStep(at, r) ==
  IF /\ at # Broken
     /\ r.prev = at.head
     /\ EnvelopeStep(at.head, r.body)
     /\ VerifyReceipt(r, at.authority)
  THEN [head |-> Digest(r), authority |-> Transition(at.authority, r.body)]
  ELSE Broken

AdvanceChain(segment, start) ==
  LET reached[i \in 0..Len(segment)] ==
        IF i = 0 THEN start ELSE AdvanceStep(reached[i - 1], segment[i])
  IN  reached[Len(segment)]

ChainStart(checkpoint) == [head |-> checkpoint.receipt, authority |-> checkpoint.authority]
GenesisStart == [head |-> <<>>, authority |-> Genesis]

(***************************************************************************)
(* The evidence container.                                                 *)
(*   [kind, root, segment (ascending), carried (set of checkpoints),       *)
(*    approval (the retained assertion of an evidence artifact)]           *)
(* A checkpoint is [root, receipt (a digest), authority].                  *)
(***************************************************************************)
CheckpointSeq(c) == Len(c.receipt)
HeadOf(artifact) == Last(artifact.segment)

LinksHold(segment) ==
  \A i \in 1..Len(segment) - 1 : segment[i + 1].prev = Digest(segment[i])

CheckpointLink(c, r) ==
  /\ c.receipt = Digest(r)
  /\ r.body.replacement = None => c.authority = r.body.authority

ContainerLinks(artifact) ==
  /\ artifact.kind = "evidence" => \A c \in artifact.carried : CheckpointLink(c, HeadOf(artifact))
  /\ \A c \in artifact.carried : c.root = artifact.root
  /\ \A c \in artifact.carried, i \in DOMAIN artifact.segment :
        ReceiptSeq(artifact.segment[i]) = CheckpointSeq(c) => CheckpointLink(c, artifact.segment[i])

CarriedAuthority(artifact) ==
  {c.authority : c \in {d \in artifact.carried : CheckpointSeq(d) = ReceiptSeq(HeadOf(artifact))}}

ApprovalMatches(artifact) == artifact.approval = HeadOf(artifact).proof

VerifySelfContained(r, a) == r.body.replacement = None /\ VerifyReceipt(r, a)

(***************************************************************************)
(* How the segment connects to the trust state.                            *)
(***************************************************************************)
Outcome(linkage, at) == [linkage |-> IF at = Broken THEN "failed" ELSE linkage,
                         authority |-> at.authority]

LinksTo(artifact, c) == CheckpointSeq(c) = Len(artifact.segment[1].prev)

Interior(artifact, retained) ==
  {c \in retained :
     \E i \in 1..Len(artifact.segment) - 1 : c.receipt = Digest(artifact.segment[i])}

Highest(set) == CHOOSE c \in set : \A d \in set : CheckpointSeq(d) <= CheckpointSeq(c)

MatchingHead(artifact, retained) ==
  {c \in retained : /\ c.receipt = Digest(HeadOf(artifact))
                    /\ VerifySelfContained(HeadOf(artifact), c.authority)}

SuffixAfter(segment, c) == SelectSeq(segment, LAMBDA r : ReceiptSeq(r) > CheckpointSeq(c))

VerifySegment(artifact, trusted, retained) ==
  LET previous == {c \in retained : LinksTo(artifact, c)}
      interior == Interior(artifact, retained)
      matching == MatchingHead(artifact, retained)
      segment  == artifact.segment
  IN  IF previous # {}
      THEN Outcome("retained", AdvanceChain(segment, ChainStart(Highest(previous))))
      ELSE IF segment[1].prev = <<>> /\ trusted.bundle = Genesis
      THEN Outcome("genesis", AdvanceChain(segment, GenesisStart))
      ELSE IF interior # {}
      THEN LET c == Highest(interior)
           IN  Outcome("retained", AdvanceChain(SuffixAfter(segment, c), ChainStart(c)))
      ELSE IF matching # {}
      THEN [linkage |-> "reconfirmed", authority |-> Highest(matching).authority]
      ELSE IF \E a \in CarriedAuthority(artifact) : VerifySelfContained(HeadOf(artifact), a)
      THEN [linkage |-> "self", authority |-> CHOOSE a \in CarriedAuthority(artifact) : TRUE]
      ELSE Outcome("failed", Broken)

\* mutant: a retained record that contradicts the export is not looked for
MutDivergent(artifact, retained) == FALSE

Divergent(artifact, retained) ==
  \E c \in retained, i \in DOMAIN artifact.segment :
     /\ CheckpointSeq(c) = ReceiptSeq(artifact.segment[i])
     /\ c.receipt # Digest(artifact.segment[i])

\* mutant: the carried post-state is not compared with the derived one
MutCarriedMatches(artifact, outcome) == TRUE

CarriedMatches(artifact, outcome) ==
  \A a \in CarriedAuthority(artifact) : a = outcome.authority

\* container, digests and bodies (steps 1 to 3)
BodiesValid(artifact) == \A i \in DOMAIN artifact.segment : BodyValid(artifact.segment[i].body)

\* the export belongs to the pinned root (steps 5 and 6)
Pinned(artifact, trusted) == trusted # None /\ trusted.root = artifact.root

\* step 7: an export that nothing links is accepted only before anything is retained
Consistent(artifact, outcome, retained) ==
  /\ ~Divergent(artifact, retained)
  /\ outcome.linkage = "self" => retained = {}

\* verify_artifact: the verdict is Verified.  Validity at an instant only adds refusals.
Verified(artifact, trusted, retained) ==
  LET outcome == VerifySegment(artifact, trusted, retained)
  IN  /\ BodiesValid(artifact)
      /\ LinksHold(artifact.segment)
      /\ ContainerLinks(artifact)
      /\ Pinned(artifact, trusted)
      /\ outcome.linkage # "failed"
      /\ CarriedMatches(artifact, outcome)
      /\ artifact.kind = "evidence" => ApprovalMatches(artifact)
      /\ Consistent(artifact, outcome, retained)

(***************************************************************************)
(* The approval service (external).                                        *)
(***************************************************************************)
Bodies(receipts) == [i \in DOMAIN receipts |-> receipts[i].body]
ServedLines == archived \cup {live}

Proof(by, prev, body) ==
  [by |-> by, kind |-> ChallengeKind(body.purpose), artifact |-> Append(prev, body),
   flags |-> {"UP", "UV"}, timely |-> TRUE]

BodyUnder(a) ==
  LET last == IF live.receipts = <<>> THEN [version |-> 0, state |-> None]
              ELSE Last(live.receipts).body
      body(purpose, action, version, state, new, old) ==
        [purpose |-> purpose, action |-> action, version |-> version, state |-> state,
         authority |-> a, replacement |-> new, replaced |-> old]
      free == {c \in Credentials : a.from[c] = 0}
  IN  {body("policy", "activate", last.version + 1, s, None, None) : s \in EffectiveStates}
      \cup IF last.version = 0 THEN {} ELSE
        {body("pipeline", "activate", last.version, s, None, None) : s \in EffectiveStates}
        \cup {body("signer", "add", last.version, last.state, c, None) : c \in free}
        \cup {body("signer", "replace", last.version, last.state, c, d) :
                 c \in free, d \in {d \in Credentials : Current(a, d)}}

\* a ceremony completes under the authority after the first n receipts
Approve(n) ==
  LET bodies == Bodies(live.receipts)
      a == AuthorityAfter(Genesis, SubSeq(bodies, 1, n))
      stale == a # AuthorityAfter(Genesis, bodies)
  IN  /\ n <= Len(bodies) /\ Len(bodies) < MaxSeq
      /\ stale => faults < MaxFaults
      /\ \E b \in BodyUnder(a), by \in {c \in Credentials : Current(a, c)} :
            live' = [live EXCEPT !.receipts =
                       Append(@, [prev    |-> bodies,
                                  body    |-> b,
                                  proof   |-> Proof(by, bodies, b),
                                  counter |-> IF b.replacement = None THEN None
                                              ELSE Proof(b.replacement, bodies, b)])]
      /\ faults' = IF stale THEN faults + 1 ELSE faults
      /\ UNCHANGED <<archived, pin, checkpoints, retired>>

Restore(n) ==
  /\ faults < MaxFaults
  /\ n < Len(live.receipts)
  /\ archived' = archived \cup {live}
  /\ live' = [live EXCEPT !.receipts = SubSeq(@, 1, n)]
  /\ faults' = faults + 1
  /\ UNCHANGED <<pin, checkpoints, retired>>

Reset(root) ==
  /\ faults < MaxFaults
  /\ root # live.root
  /\ archived' = archived \cup {live}
  /\ live' = [root |-> root, receipts |-> <<>>]
  /\ faults' = faults + 1
  /\ UNCHANGED <<pin, checkpoints, retired>>

(***************************************************************************)
(* The exports: a run of one line up to n, its head possibly taken from    *)
(* another line, with the checkpoints the service has on record (the       *)
(* authority after m receipts; m = n is the right one).                    *)
(***************************************************************************)
Damaged(proof, damage) ==
  CASE damage = "artifact" -> [proof EXCEPT !.artifact = <<>>]
    [] damage = "flags"    -> [proof EXCEPT !.flags = {"UP"}]
    [] damage = "late"     -> [proof EXCEPT !.timely = FALSE]
    [] OTHER               -> proof

CheckpointAt(line, n, m) ==
  [root |-> line.root, receipt |-> SubSeq(Bodies(line.receipts), 1, n),
   authority |-> AuthorityAfter(Genesis, SubSeq(Bodies(line.receipts), 1, m))]

CarriedSeqs(kind, carry, first, n, top) ==
  IF kind = "evidence" THEN {n}
  ELSE CASE carry = "head"     -> {n}
         [] carry = "all"      -> first..n
         [] carry = "none"     -> {}
         [] carry = "interior" -> first..n - 1
         [] carry = "beyond"   -> n..top

Export(kind, carry, line, other, first, n, m, damage) ==
  LET head == [other.receipts[n] EXCEPT !.proof = Damaged(@, damage)]
  IN  [kind     |-> kind,
       root     |-> line.root,
       segment  |-> Append(SubSeq(line.receipts, first, n - 1), head),
       carried  |-> {CheckpointAt(other, k, IF m < n /\ m < k THEN m ELSE k) :
                       k \in CarriedSeqs(kind, carry, first, n, Len(other.receipts))},
       approval |-> other.receipts[n].proof]

\* some export of a line the service served
WithExport(Use(_)) ==
  \E line, other \in ServedLines, kind \in Kinds, damage \in Damages, carry \in Carries :
     /\ other.root = line.root
     /\ kind = "evidence" => carry = "head"
     /\ \E n \in 1..Len(other.receipts) :
        \E first \in 1..n, m \in 0..n :
           /\ n - first <= MaxTail
           /\ Len(line.receipts) >= n - 1
           /\ m = n \/ CheckpointAt(other, n, m) # CheckpointAt(other, n, n)
           /\ \/ line = other
              \/ SubSeq(line.receipts, first, n - 1) # SubSeq(other.receipts, first, n - 1)
           /\ Use(Export(kind, carry, line, other, first, n, m, damage))

(***************************************************************************)
(* The trust store's commands.                                             *)
(***************************************************************************)
Retained == {checkpoints[n] : n \in DOMAIN checkpoints} \ {None}
RetainedOf(root) == {c \in Retained : c.root = root}

\* retain_checkpoint over the carried checkpoints, up to the first refusal
Retain(carried, kept) ==
  LET refused == {c \in carried : kept[CheckpointSeq(c)] \notin {None, c}}
      new == {c \in carried : \A d \in refused : CheckpointSeq(c) < CheckpointSeq(d)}
  IN  [n \in DOMAIN kept |-> IF \E c \in new : CheckpointSeq(c) = n
                             THEN CHOOSE c \in new : CheckpointSeq(c) = n
                             ELSE kept[n]]

EmptyStore == [n \in 1..MaxSeq |-> None]

\* write_pin: what the pin, the checkpoints and the archives become
WritePin(candidate, force, carried) ==
  \/ /\ pin # None /\ pin.root = candidate.root
     /\ checkpoints' = Retain(carried, checkpoints)
     /\ UNCHANGED <<pin, retired>>
  \/ /\ pin = None
     /\ pin' = candidate
     /\ checkpoints' = Retain(carried, checkpoints)
     /\ UNCHANGED retired
  \/ /\ pin # None /\ pin.root # candidate.root /\ force
     /\ Retained # {} => pin.root \notin retired   \* the archive directory must be new
     /\ retired' = IF Retained = {} THEN retired ELSE retired \cup {pin.root}
     /\ pin' = candidate
     /\ checkpoints' = Retain(carried, EmptyStore)

ImportedSnapshot(artifact) ==
  IF artifact.carried = {} THEN None ELSE Highest(artifact.carried).authority

TrustImport(e, force) ==
  LET candidate == [root |-> e.root, bundle |-> ImportedSnapshot(e)]
  IN  /\ Verified(e, IF pin # None /\ ~force THEN pin ELSE candidate, RetainedOf(e.root))
      /\ WritePin(candidate, force, e.carried)
      /\ UNCHANGED <<live, archived, faults>>

TrustAdd(root, bundle, force) ==
  /\ WritePin([root |-> root, bundle |-> bundle], force, {})
  /\ UNCHANGED <<live, archived, faults>>

TrustFetch ==
  /\ pin # None
  /\ pin' = [pin EXCEPT !.bundle = Genesis]
  /\ UNCHANGED <<live, archived, faults, checkpoints, retired>>

PolicyVerify(e) ==
  /\ pin # None
  /\ Verified(e, pin, RetainedOf(pin.root))
  /\ checkpoints' = Retain(e.carried, checkpoints)
  /\ UNCHANGED <<live, archived, faults, pin, retired>>

PolicyInit ==
  /\ \E root \in Roots : live = [root |-> root, receipts |-> <<>>]
  /\ archived = {}
  /\ faults = 0
  /\ pin = None
  /\ checkpoints = EmptyStore
  /\ retired = {}

PolicyNext ==
  \/ \E n \in 0..MaxSeq : Approve(n) \/ Restore(n)
  \/ \E root \in Roots : Reset(root)
  \/ \E root \in Roots, bundle \in {None, Genesis}, force \in BOOLEAN : TrustAdd(root, bundle, force)
  \/ TrustFetch
  \/ WithExport(LAMBDA e : PolicyVerify(e) \/ \E force \in BOOLEAN : TrustImport(e, force))

(***************************************************************************)
(* Properties.                                                             *)
(***************************************************************************)
\* While a root stays pinned, the highest retained checkpoint only moves along one
\* history: the new head extends the old one, every receipt between them was approved
\* under the authority that the receipts before it lead to, and the authority kept with
\* the head is the one they lead to (verify_artifact, retain_checkpoint).  Exports of
\* restored, stale or spliced histories, verified in any order, never move it elsewhere.
HeadStep ==
  (checkpoints' # checkpoints /\ pin # None /\ pin'.root = pin.root /\ Retained # {}) =>
     LET old == Highest(Retained)
         new == Highest(Retained')
         since(n) == SubSeq(new.receipt, CheckpointSeq(old) + 1, n)
     IN  /\ IsPrefix(old.receipt, new.receipt)
         /\ new.authority = AuthorityAfter(old.authority, since(CheckpointSeq(new)))
         /\ \A n \in CheckpointSeq(old) + 1..CheckpointSeq(new) :
               /\ new.receipt[n].authority = AuthorityAfter(old.authority, since(n - 1))
               /\ EffectiveStateValid(new.receipt[n].state)

HeadExtends == [][HeadStep]_policyVars

\* docs/policy-verification.md: an export whose head is below the retained head and
\* matches no retained record contradicts the retained history and is refused.  So every
\* retained checkpoint lies on the history of the retained head.
RetainedOneHistory ==
  \A c, d \in Retained : CheckpointSeq(c) < CheckpointSeq(d) => IsPrefix(c.receipt, d.receipt)

=============================================================================
