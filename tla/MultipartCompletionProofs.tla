--------------------- MODULE MultipartCompletionProofs ----------------------
(***************************************************************************)
(* CompleteMultipartUpload, with its crashes, stale requests and recovery, *)
(* implements the contract of an upload, for any number of requests and    *)
(* lists of parts, any destination and any number of faults.               *)
(*                                                                         *)
(* The argument: a sink is opened for the upload at most once, because the *)
(* journal row it leaves is retired only with the upload; so one request   *)
(* at most may still publish, and none once the object is published.       *)
(* Whatever the code takes for evidence of a publication (the visible      *)
(* object, a commit proof, a committed row, the repository's record) was   *)
(* left by one.                                                            *)
(***************************************************************************)
EXTENDS MultipartCompletion, TLAPS

\* The steps of a request with an open sink, which may still publish, and of
\* one that acts on a publication.
Ready == {"staging", "begin", "validate", "prepare", "revalidate", "publish", "put"}
Past == {"proof", "answer", "recovered", "record", "journal", "finish", "reply"}

\* Shapes of the records.
Lives == {"Open", "Completing", "Publishing", "Completed", "Aborted", "Expired", "gone"}
Rows == {"none", "Intent", "Open", "Completing", "Unknown", "Committed", "Aborted"}
Steps == {"idle", "acquired", "stage", "staging", "begin", "validate", "prepare", "revalidate", "publish",
          "put", "proof", "answer", "recovered", "record", "journal", "finish", "reply"}
Rounds == {"idle", "look", "absent", "release", "record", "journal", "finish", "retire", "clear"}
UploadType == [life : Lives, fp : Fingerprints \cup {NoFp}, token : Nat, lease : {"none", "live", "lapsed"},
               permit : Nat, commit : BOOLEAN, expired : BOOLEAN]
JournalType == [st : Rows, absent : BOOLEAN, evidence : BOOLEAN]
DestType == [backend : Backends, pointer : {"none", "mine", "other"},
             proof : {"none", "prepared", "committed"}, fence : Nat]
RequestType == [pc : Steps, fp : Fingerprints \cup {NoFp}, token : Nat]
RecoveryType == [pc : Rounds, token : Nat]
GhostType == [published : Nat, told : SUBSET Fingerprints, faults : Nat, unpermitted : BOOLEAN]
Types ==
    /\ up \in UploadType /\ journal \in JournalType /\ dest \in DestType
    /\ req \in [Requests -> RequestType] /\ rec \in RecoveryType /\ ghost \in GhostType

\* What the code takes for evidence that the object was published.
Evidence ==
    \/ dest.pointer = "mine" \/ dest.proof = "committed" \/ journal.st = "Committed" \/ up.commit
    \/ rec.pc \in {"record", "journal", "finish"}
    \/ \E r \in Requests : req[r].pc \in Past

\* A request belongs to the claim of the upload.
Claimed ==
    \A r \in Requests : req[r].pc # "idle" =>
        /\ req[r].fp = up.fp /\ up.fp \in Fingerprints
        /\ \/ up.life \in {"Completing", "Publishing"}
           \/ up.life \in {"Completed", "gone"} /\ ghost.published = 1
        /\ req[r].pc = "reply" => up.life \in {"Completed", "gone"}

\* One sink is opened for the upload, and leaves a journal row.
OneSink ==
    /\ \A r, q \in Requests : req[r].pc \in Ready /\ req[q].pc \in Ready => r = q
    /\ ghost.published > 0 \/ (\E r \in Requests : req[r].pc \in Ready) =>
          journal.st # "none" \/ up.life \in {"Completed", "gone"}

\* The object is published once, by the claim, and evidence of it is true.
PublishedOnce ==
    /\ ghost.published \in {0, 1}
    /\ ghost.published = 1 =>
          /\ up.life \in {"Completing", "Publishing", "Completed", "gone"} /\ up.fp \in Fingerprints
          /\ \A r \in Requests : req[r].pc \notin Ready
    /\ Evidence \/ up.life = "Completed" => ghost.published = 1

\* Only a terminal upload is retired.
Retiring == rec.pc \in {"retire", "clear"} => up.life \in Terminal

\* The inductive invariant.
CompletionInv == Types /\ Claimed /\ OneSink /\ PublishedOnce /\ Retiring

-----------------------------------------------------------------------------
(* What a step does                                                        *)

Only(r) == \A q \in Requests : q # r => req'[q] = req[q]

\* The upload's row.
Keeps == up'.life = up.life /\ up'.fp = up.fp
Claims == up.life = "Open" /\ up'.life = "Completing" /\ up'.fp \in Fingerprints
Shifts == {up.life, up'.life} \subseteq {"Completing", "Publishing"} /\ up'.fp = up.fp
Finishes == up.life = "Publishing" /\ up'.life = "Completed" /\ up'.fp = up.fp /\ up.commit
Closes == up.life = "Open" /\ up'.life \in {"Aborted", "Expired"} /\ up'.fp = up.fp
Forgets == rec.pc = "clear" /\ rec'.pc = "idle" /\ up'.life = "gone" /\ up'.fp = up.fp

\* What clients and other readers see.
Silent == ghost'.published = ghost.published /\ ghost'.told = ghost.told
Publishes ==
    /\ ghost'.published = ghost.published + 1 /\ ghost'.told = ghost.told
    /\ \E r \in Requests : /\ req[r].pc \in {"publish", "put"} /\ req'[r].pc \in {"proof", "answer"}
                           /\ Only(r)
Answers ==
    /\ ghost'.published = ghost.published
    /\ \/ up.life = "Completed" /\ ghost'.told = ghost.told \cup {up.fp}
       \/ \E r \in Requests : req[r].pc = "reply" /\ ghost'.told = ghost.told \cup {req[r].fp}

Visible ==
    \/ Silent /\ (Keeps \/ Claims \/ Shifts \/ Finishes \/ Closes \/ Forgets)
    \/ Keeps /\ (Publishes \/ Answers)

\* A request.
Stepped(r) ==
    \/ req'[r] = req[r]
    \/ req'[r].pc = "idle"
    \/ req'[r].pc = "acquired" /\ req'[r].fp = up'.fp /\ up'.fp \in Fingerprints /\ up'.life = "Completing"
    \/ /\ req[r].pc # "idle" /\ req'[r].fp = req[r].fp
       /\ req'[r].pc \in Ready => \/ req[r].pc \in Ready
                                  \/ /\ journal.st = "none" /\ journal'.st # "none"
                                     /\ up.life = "Completing" /\ Only(r) /\ Silent
       /\ req'[r].pc = "reply" => up'.life = "Completed"

Effect ==
    /\ Types' /\ Visible
    /\ Evidence' => Evidence \/ Publishes
    /\ journal'.st = "none" => journal.st = "none" \/ rec.pc = "retire"
    /\ rec'.pc \in {"retire", "clear"} => rec.pc \in {"retire", "clear"} \/ (up.life \in Terminal /\ Keeps)
    /\ \A r \in Requests : Stepped(r)

\* An effect preserves the invariant.
LEMMA EffectKeeps ==
    ASSUME CompletionInv, Effect
    PROVE  CompletionInv'
<1>0. Types /\ Types' /\ ghost.published \in Nat
  BY DEF CompletionInv, Effect, Types, GhostType
<1>1. Retiring'
  <2>1. CASE Forgets
    BY <2>1 DEF Forgets, Retiring
  <2>2. CASE ~Forgets
    BY <2>2 DEF CompletionInv, Retiring, Effect, Visible, Keeps, Claims, Shifts, Finishes, Closes, Terminal
  <2> QED BY <2>1, <2>2
<1>2. /\ up.life \in {"Completing", "Publishing"} =>
            up'.life \in {"Completing", "Publishing", "Completed"} /\ up'.fp = up.fp
      /\ up.life \in {"Completed", "gone"} => up'.life \in {"Completed", "gone"} /\ up'.fp = up.fp
      /\ up'.life = "Completed" => up.life = "Completed" \/ up.commit
  BY DEF CompletionInv, Retiring, Terminal, Effect, Visible, Keeps, Claims, Shifts, Finishes, Closes, Forgets
<1>3. ASSUME Publishes
      PROVE  /\ ghost.published = 0 /\ ghost'.published = 1
             /\ up.life \in {"Completing", "Publishing"} /\ up.fp \in Fingerprints /\ Keeps
             /\ \A r \in Requests : req'[r].pc \notin Ready
  <2>1. PICK r \in Requests : /\ req[r].pc \in {"publish", "put"} /\ req'[r].pc \in {"proof", "answer"}
                              /\ Only(r)
    BY <1>3 DEF Publishes
  <2>2. req[r].pc \in Ready /\ req[r].pc # "idle"
    BY <2>1 DEF Ready
  <2>3. ghost.published = 0
    BY <2>2 DEF CompletionInv, PublishedOnce
  <2>4. up.life \in {"Completing", "Publishing"} /\ up.fp \in Fingerprints
    BY <2>2, <2>3 DEF CompletionInv, Claimed
  <2>5. \A q \in Requests : req'[q].pc \notin Ready
    BY <2>1, <2>2 DEF CompletionInv, OneSink, Only, Ready
  <2>6. Keeps
    BY <1>0, <1>3, <2>3 DEF Effect, Visible, Publishes, Silent, Answers
  <2> QED BY <1>3, <2>3, <2>4, <2>5, <2>6 DEF Publishes
<1>4. ghost'.published = ghost.published \/ Publishes
  BY DEF Effect, Visible, Silent, Answers
<1>5. up.commit => ghost.published = 1
  BY DEF CompletionInv, PublishedOnce, Evidence
<1>6. Claimed'
  <2> SUFFICES ASSUME NEW r \in Requests, req'[r].pc # "idle"
               PROVE  /\ req'[r].fp = up'.fp /\ up'.fp \in Fingerprints
                      /\ \/ up'.life \in {"Completing", "Publishing"}
                         \/ up'.life \in {"Completed", "gone"} /\ ghost'.published = 1
                      /\ req'[r].pc = "reply" => up'.life \in {"Completed", "gone"}
    BY DEF Claimed
  <2>1. CASE req'[r].pc = "acquired" /\ req'[r].fp = up'.fp /\ up'.fp \in Fingerprints /\ up'.life = "Completing"
    BY <2>1
  <2>2. CASE /\ req[r].pc # "idle" /\ req'[r].fp = req[r].fp
             /\ req'[r].pc = "reply" => req[r].pc = "reply" \/ up'.life = "Completed"
    <3>1. /\ req[r].fp = up.fp /\ up.fp \in Fingerprints
          /\ \/ up.life \in {"Completing", "Publishing"}
             \/ up.life \in {"Completed", "gone"} /\ ghost.published = 1
          /\ req[r].pc = "reply" => up.life \in {"Completed", "gone"}
      BY <2>2 DEF CompletionInv, Claimed
    <3>2. up'.fp = up.fp
      BY <1>2, <3>1
    <3>3. ghost.published = 1 => ghost'.published = 1
      BY <1>3, <1>4
    <3> QED BY <1>2, <1>5, <2>2, <3>1, <3>2, <3>3
  <2> QED BY <2>1, <2>2 DEF Effect, Stepped
<1>7. ASSUME NEW r \in Requests, req'[r].pc \in Ready, ~Publishes
      PROVE  \/ req[r].pc \in Ready
             \/ /\ journal.st = "none" /\ journal'.st # "none" /\ Only(r) /\ ghost.published = 0
                /\ \A q \in Requests : req[q].pc \notin Ready
  <2>1. CASE journal.st = "none" /\ journal'.st # "none" /\ up.life = "Completing" /\ Only(r)
    BY <1>0, <2>1 DEF CompletionInv, OneSink, PublishedOnce
  <2> QED BY <1>7, <2>1 DEF Effect, Stepped, Ready
<1>8. OneSink'
  <2>1. \A r, q \in Requests : req'[r].pc \in Ready /\ req'[q].pc \in Ready => r = q
    BY <1>3, <1>7 DEF CompletionInv, OneSink, Only
  <2>2. ASSUME ghost'.published > 0 \/ \E r \in Requests : req'[r].pc \in Ready
        PROVE  journal'.st # "none" \/ up'.life \in {"Completed", "gone"}
    <3>1. \/ \E r \in Requests : req[r].pc \in Ready
          \/ ghost.published > 0
          \/ journal'.st # "none"
      <4>1. Publishes => \E r \in Requests : req[r].pc \in Ready
        BY DEF Publishes, Ready
      <4> QED BY <1>4, <1>7, <2>2, <4>1
    <3>2. ASSUME ghost.published > 0 \/ \E r \in Requests : req[r].pc \in Ready
          PROVE  /\ journal.st # "none" \/ up.life \in {"Completed", "gone"}
                 /\ up.life \in {"Completing", "Publishing", "Completed", "gone"}
      <4>1. journal.st # "none" \/ up.life \in {"Completed", "gone"}
        BY <3>2 DEF CompletionInv, OneSink
      <4>2. up.life \in {"Completing", "Publishing", "Completed", "gone"}
        BY <3>2 DEF CompletionInv, PublishedOnce, Claimed, Ready
      <4> QED BY <4>1, <4>2
    <3>3. rec.pc = "retire" => up.life \in Terminal
      BY DEF CompletionInv, Retiring
    <3> QED BY <1>2, <3>1, <3>2, <3>3 DEF Effect, Terminal
  <2> QED BY <2>1, <2>2 DEF OneSink
<1>9. PublishedOnce'
  <2>1. ghost'.published \in {0, 1}
    BY <1>3, <1>4 DEF CompletionInv, PublishedOnce
  <2>2. ASSUME ghost'.published = 1
        PROVE  /\ up'.life \in {"Completing", "Publishing", "Completed", "gone"} /\ up'.fp \in Fingerprints
               /\ \A r \in Requests : req'[r].pc \notin Ready
    <3>1. CASE Publishes
      BY <1>3, <3>1 DEF Keeps
    <3>2. CASE ~Publishes
      <4>1. ghost.published = 1
        BY <1>4, <2>2, <3>2
      <4>2. \A r \in Requests : req'[r].pc \notin Ready
        BY <1>7, <3>2, <4>1 DEF CompletionInv, PublishedOnce
      <4> QED BY <1>2, <4>1, <4>2 DEF CompletionInv, PublishedOnce
    <3> QED BY <3>1, <3>2
  <2>3. Evidence' \/ up'.life = "Completed" => ghost'.published = 1
    <3>1. Evidence \/ up.life = "Completed" => ghost'.published = 1
      BY <1>3, <1>4 DEF CompletionInv, PublishedOnce
    <3>2. Publishes => ghost'.published = 1
      BY <1>3
    <3>3. up'.life = "Completed" => ghost'.published = 1
      BY <1>2, <1>5, <3>1 DEF Evidence
    <3> QED BY <3>1, <3>2, <3>3 DEF Effect
  <2> QED BY <2>1, <2>2, <2>3 DEF PublishedOnce
<1> QED BY <1>0, <1>1, <1>6, <1>8, <1>9 DEF CompletionInv

\* The phase of each state of the upload.
LEMMA Phases ==
    /\ up.life = "Open" => Phase = "open"
    /\ up.life \in {"Completing", "Publishing"} => Phase = "claimed"
    /\ up.life = "Completed" => Phase = "completed"
    /\ up.life \in {"Aborted", "Expired"} => Phase = "closed"
    /\ up.life \notin {"Open", "Completing", "Publishing", "Completed", "Aborted", "Expired"} => Phase = "gone"
BY DEF Phase

\* The phase after a step, by the lifecycle of the row.
LEMMA NextPhases ==
    /\ up'.life = "Open" => Phase' = "open"
    /\ up'.life \in {"Completing", "Publishing"} => Phase' = "claimed"
    /\ up'.life = "Completed" => Phase' = "completed"
    /\ up'.life \in {"Aborted", "Expired"} => Phase' = "closed"
    /\ up'.life \notin {"Open", "Completing", "Publishing", "Completed", "Aborted", "Expired"} => Phase' = "gone"
BY DEF Phase

\* An effect is a step of the contract or none.
LEMMA EffectImplements ==
    ASSUME CompletionInv, Effect
    PROVE  Contract!ContractNext \/ UNCHANGED Contract!contractVars
<1>0. ghost.published \in {0, 1} /\ CompletionInv'
  BY EffectKeeps DEF CompletionInv, PublishedOnce
<1>a. Keeps => Phase' = Phase
  BY DEF Keeps, Phase
<1>1. CASE Silent /\ (Keeps \/ Shifts)
  <2>1. Phase' = Phase
    BY <1>1, <1>a, Phases, NextPhases DEF Shifts
  <2> QED BY <1>1, <2>1 DEF Silent, Keeps, Shifts, Contract!contractVars
<1>2. CASE Silent /\ Claims
  <2>1. Phase = "open" /\ Phase' = "claimed"
    BY <1>2, Phases, NextPhases DEF Claims
  <2>2. Contract!Claim(up'.fp)
    BY <1>2, <2>1 DEF Silent, Contract!Claim
  <2> QED BY <1>2, <2>2 DEF Claims, Contract!ContractNext
<1>3. CASE Silent /\ Finishes
  <2>1. Phase = "claimed" /\ Phase' = "completed" /\ ghost.published = 1
    BY <1>3, Phases, NextPhases DEF Finishes, CompletionInv, PublishedOnce, Evidence
  <2>2. Contract!Complete
    BY <1>3, <2>1 DEF Silent, Finishes, Contract!Complete
  <2> QED BY <2>2 DEF Contract!ContractNext
<1>4. CASE Silent /\ Closes
  <2>1. Phase = "open" /\ Phase' = "closed"
    BY <1>4, Phases, NextPhases DEF Closes
  <2>2. Contract!Close
    BY <1>4, <2>1 DEF Silent, Closes, Contract!Close
  <2> QED BY <2>2 DEF Contract!ContractNext
<1>5. CASE Silent /\ Forgets
  <2>1. up.life \in Terminal
    BY <1>5 DEF Forgets, CompletionInv, Retiring
  <2>2. Phase \in {"completed", "closed"} /\ Phase' = "gone"
    BY <1>5, <2>1, Phases, NextPhases DEF Forgets, Terminal
  <2>3. Contract!Forget
    BY <1>5, <2>2 DEF Silent, Forgets, Contract!Forget
  <2> QED BY <2>3 DEF Contract!ContractNext
<1>6. CASE Keeps /\ Publishes
  <2>1. PICK r \in Requests : req[r].pc \in {"publish", "put"}
    BY <1>6 DEF Publishes
  <2>2. ghost.published = 0
    BY <2>1 DEF CompletionInv, PublishedOnce, Ready
  <2>3. Phase = "claimed"
    BY <2>1, <2>2, Phases DEF CompletionInv, Claimed
  <2>4. Contract!Publish
    BY <1>6, <1>a, <2>2, <2>3 DEF Keeps, Publishes, Contract!Publish
  <2> QED BY <2>4 DEF Contract!ContractNext
<1>7. CASE Keeps /\ Answers
  <2>1. ghost'.told = ghost.told \cup {up.fp} /\ up.life \in {"Completed", "gone"}
    BY <1>7 DEF Answers, CompletionInv, Claimed
  <2>2. ghost.published = 1
    BY <1>7, <2>1 DEF Answers, CompletionInv, PublishedOnce, Evidence, Past
  <2>3. Phase \in {"completed", "gone"}
    BY <2>1, Phases
  <2>4. Contract!Answer
    BY <1>7, <1>a, <2>1, <2>2, <2>3 DEF Keeps, Answers, Contract!Answer
  <2> QED BY <2>4 DEF Contract!ContractNext
<1> QED BY <1>1, <1>2, <1>3, <1>4, <1>5, <1>6, <1>7 DEF Effect, Visible

-----------------------------------------------------------------------------
(* Requests                                                                *)

\* A request moves on, or ends.
LEMMA RequestMoves ==
    ASSUME Types, NEW r \in Requests, NEW pc \in Steps, Goto(r, pc)
    PROVE  /\ req' \in [Requests -> RequestType] /\ Only(r)
           /\ req'[r].pc = pc /\ req'[r].fp = req[r].fp /\ req'[r].token = req[r].token
<1>1. req \in [Requests -> RequestType] /\ req[r] \in RequestType
  BY DEF Types
<1>2. req'[r] = [req[r] EXCEPT !.pc = pc]
  BY <1>1 DEF Goto
<1>3. req'[r] \in RequestType /\ req'[r].pc = pc /\ req'[r].fp = req[r].fp /\ req'[r].token = req[r].token
  BY <1>1, <1>2 DEF RequestType
<1> QED BY <1>1, <1>3 DEF Goto, Only

\* A request that returns is idle and leaves the others alone.
LEMMA RequestLeaves ==
    ASSUME Types, NEW r \in Requests, Leave(r)
    PROVE  req' \in [Requests -> RequestType] /\ Only(r) /\ req'[r].pc = "idle"
<1>1. Waiting \in RequestType
  BY DEF Waiting, RequestType, Steps
<1>2. Waiting.pc = "idle"
  BY DEF Waiting
<1> QED BY <1>1, <1>2 DEF Types, Leave, Only

\* What a step of a request may leave as evidence.
Shown(r) ==
    \/ req'[r].pc \in Past \/ up'.commit \/ journal'.st = "Committed"
    \/ dest'.pointer = "mine" \/ dest'.proof = "committed"

\* A step of a request that leaves the worker alone.
LEMMA RequestEffect ==
    ASSUME CompletionInv, NEW r \in Requests, Types', Only(r), UNCHANGED rec, Visible, Stepped(r),
           journal'.st = "none" => journal.st = "none",
           Shown(r) => Evidence \/ Publishes
    PROVE  Effect
<1>1. \A q \in Requests : q # r => Stepped(q) /\ req'[q].pc = req[q].pc
  BY DEF Only, Stepped
<1>2. Evidence' => Evidence \/ Publishes
  BY <1>1 DEF Evidence, Shown
<1> QED BY <1>1, <1>2 DEF Effect

\* A step of a request that only moves it.
LEMMA RequestAdvances ==
    ASSUME CompletionInv, NEW r \in Requests, UNCHANGED <<up, journal, dest, rec, ghost>>,
           \/ Leave(r)
           \/ \E pc \in Steps : /\ Goto(r, pc) /\ req[r].pc # "idle"
                                /\ pc \in Ready => req[r].pc \in Ready
                                /\ pc \in Past => pc # "reply" /\ Evidence
    PROVE  Effect
<1>0. Types
  BY DEF CompletionInv
<1>1. req' \in [Requests -> RequestType] /\ Only(r) /\ Stepped(r) /\ (req'[r].pc \in Past => Evidence)
  <2>1. CASE Leave(r)
    BY <1>0, <2>1, RequestLeaves DEF Stepped, Past
  <2>2. CASE ~Leave(r)
    <3>0. PICK pc \in Steps : /\ Goto(r, pc) /\ req[r].pc # "idle"
                              /\ pc \in Ready => req[r].pc \in Ready
                              /\ pc \in Past => pc # "reply" /\ Evidence
      BY <2>2
    <3>1. /\ req' \in [Requests -> RequestType] /\ Only(r)
          /\ req'[r].pc = pc /\ req'[r].fp = req[r].fp
      BY <1>0, <3>0, RequestMoves
    <3> QED BY <3>0, <3>1 DEF Stepped, Past
  <2> QED BY <2>1, <2>2
<1>2. Types'
  BY <1>0, <1>1 DEF Types
<1>3. Visible
  BY DEF Visible, Silent, Keeps
<1> QED BY <1>1, <1>2, <1>3, RequestEffect DEF Shown, Evidence

\* Acquisition, replay, and what an earlier attempt left.
LEMMA AcquireEffect ==
    ASSUME CompletionInv, NEW r \in Requests,
           Acquire(r) \/ Replay(r) \/ FirstAttempt(r) \/ CheckExisting(r)
    PROVE  Effect
<1>0. /\ Types /\ up \in UploadType /\ up.life \in Lives /\ journal \in JournalType /\ ghost \in GhostType
      /\ req \in [Requests -> RequestType] /\ up.token \in Nat
  BY DEF CompletionInv, Types, UploadType
<1>1. CASE Acquire(r)
  <2>1. PICK fp \in Fingerprints :
          /\ ~Replayed(fp) /\ ~Busy(fp) /\ ~Refused(fp) /\ up' = Acquired(fp)
          /\ req' = [req EXCEPT ![r] = [pc |-> "acquired", fp |-> fp, token |-> up.token + 1]]
          /\ UNCHANGED <<journal, dest, rec, ghost>>
    BY <1>1 DEF Acquire, KeepDest
  <2>2. /\ up' \in UploadType /\ up'.life = "Completing" /\ up'.fp = fp /\ up'.commit = up.commit
    <3>1. fp \in Fingerprints \cup {NoFp} /\ up.token + 1 \in Nat
      BY <1>0
    <3>2. up' = [up EXCEPT !.life = "Completing", !.fp = fp, !.token = up.token + 1, !.lease = "live"]
      BY <2>1 DEF Acquired
    <3> QED BY <1>0, <3>1, <3>2 DEF UploadType, Lives
  <2>3. up.life = "Open" \/ (up.life = "Completing" /\ up.fp = fp)
    BY <1>0, <2>1 DEF Lives, Replayed, Busy, Refused
  <2>4. Visible
    BY <2>1, <2>2, <2>3 DEF Visible, Silent, Keeps, Claims
  <2>5. /\ req' \in [Requests -> RequestType] /\ Only(r)
        /\ req'[r].pc = "acquired" /\ req'[r].fp = fp
    BY <1>0, <2>1 DEF RequestType, Only, Steps
  <2>6. Types' /\ Stepped(r)
    BY <1>0, <2>1, <2>2, <2>5 DEF Types, Stepped
  <2> QED BY <2>1, <2>2, <2>4, <2>5, <2>6, RequestEffect DEF Shown, Evidence, Past
<1>2. CASE Replay(r)
  <2>1. PICK fp \in Fingerprints :
          Replayed(fp) /\ ghost' = [ghost EXCEPT !.told = @ \cup {fp}] /\ UNCHANGED <<up, journal, dest, req, rec>>
    BY <1>2 DEF Replay
  <2>2. ghost' \in GhostType /\ ghost'.published = ghost.published /\ ghost'.told = ghost.told \cup {fp}
    BY <1>0, <2>1 DEF GhostType
  <2>3. Visible
    BY <2>1, <2>2 DEF Replayed, Visible, Answers, Keeps
  <2>4. Types' /\ Only(r) /\ Stepped(r)
    BY <1>0, <2>1, <2>2 DEF Types, Only, Stepped
  <2> QED BY <2>1, <2>3, <2>4, RequestEffect DEF Shown, Evidence
<1>3. CASE FirstAttempt(r)
  BY <1>3, RequestAdvances DEF Steps, FirstAttempt, KeepDest, Ready, Past
<1>4. CASE CheckExisting(r)
  <2>0. UNCHANGED <<up, dest, rec, ghost>> /\ req[r].pc = "acquired" /\ journal.st # "none"
    BY <1>4 DEF CheckExisting, KeepDest
  <2>1. CASE Leave(r) /\ UNCHANGED journal
    BY <2>0, <2>1, RequestAdvances DEF Steps
  <2>2. CASE journal.st = "Committed" /\ Goto(r, "recovered") /\ UNCHANGED journal
    BY <2>0, <2>2, RequestAdvances DEF Steps, Evidence, Ready
  <2>3. CASE /\ journal' = [journal EXCEPT !.st = IF dest.pointer = "mine" THEN "Committed" ELSE "Aborted"]
             /\ UNCHANGED req
    <3>1. /\ journal' \in JournalType /\ journal'.st # "none"
          /\ journal'.st = "Committed" => dest.pointer = "mine"
      BY <1>0, <2>3 DEF JournalType, Rows
    <3>2. Types' /\ Only(r) /\ Stepped(r) /\ Visible
      BY <1>0, <2>0, <2>3, <3>1 DEF Types, Only, Stepped, Visible, Silent, Keeps
    <3> QED BY <2>0, <2>3, <3>1, <3>2, RequestEffect DEF Shown, Evidence
  <2> QED BY <1>4, <2>1, <2>2, <2>3 DEF CheckExisting
<1> QED BY <1>1, <1>2, <1>3, <1>4

\* The sink is opened, filled and verified.
LEMMA StageEffect ==
    ASSUME CompletionInv, NEW r \in Requests, OpenSink(r) \/ Renew(r) \/ AppendEvidence(r)
    PROVE  Effect
<1>0. /\ Types /\ up \in UploadType /\ journal \in JournalType /\ UNCHANGED <<dest, rec, ghost>>
  BY DEF CompletionInv, Types, OpenSink, Renew, AppendEvidence, KeepDest
<1>1. CASE OpenSink(r)
  <2>1. /\ req[r].pc = "stage" /\ up.life = "Completing" /\ journal.st = "none"
        /\ up' = [up EXCEPT !.lease = "live"]
    BY <1>1 DEF OpenSink, HoldsToken
  <2>2. up' \in UploadType /\ up'.life = up.life /\ up'.fp = up.fp /\ up'.commit = up.commit
    BY <1>0, <2>1 DEF UploadType
  <2>3. journal' \in JournalType /\ journal'.st \in {"Open", "Intent"}
    BY <1>1 DEF OpenSink, NoRow, JournalType, Rows
  <2>4. Visible /\ Silent
    BY <1>0, <2>2 DEF Visible, Silent, Keeps
  <2>5. req' \in [Requests -> RequestType] /\ Only(r) /\ Stepped(r) /\ req'[r].pc \in {"staging", "idle"}
    <3>1. CASE Goto(r, "staging")
      BY <1>0, <2>1, <2>3, <2>4, <3>1, RequestMoves DEF Steps, Stepped
    <3>2. CASE Leave(r)
      BY <1>0, <3>2, RequestLeaves DEF Stepped
    <3> QED BY <1>1, <3>1, <3>2 DEF OpenSink
  <2>6. Types'
    BY <1>0, <2>2, <2>3, <2>5 DEF Types
  <2> QED BY <1>0, <2>2, <2>3, <2>4, <2>5, <2>6, RequestEffect DEF Shown, Evidence, Past
<1>2. CASE Renew(r)
  <2>1. up' \in UploadType /\ up'.life = up.life /\ up'.fp = up.fp /\ up'.commit = up.commit
    BY <1>0, <1>2 DEF Renew, UploadType
  <2>2. Types' /\ Only(r) /\ Stepped(r) /\ Visible
    BY <1>0, <1>2, <2>1 DEF Renew, Types, Only, Stepped, Visible, Silent, Keeps
  <2> QED BY <1>0, <1>2, <2>1, <2>2, RequestEffect DEF Renew, Shown, Evidence
<1>3. CASE AppendEvidence(r)
  <2>1. /\ req[r].pc = "staging" /\ Goto(r, "begin") /\ UNCHANGED up
        /\ journal' \in JournalType /\ journal'.st = journal.st
    BY <1>0, <1>3 DEF AppendEvidence, JournalType, Rows
  <2>2. req' \in [Requests -> RequestType] /\ Only(r) /\ Stepped(r) /\ req'[r].pc = "begin"
    BY <1>0, <2>1, RequestMoves DEF Steps, Stepped, Ready
  <2>3. Types' /\ Visible
    BY <1>0, <2>1, <2>2 DEF Types, Visible, Silent, Keeps
  <2> QED BY <1>0, <2>1, <2>2, <2>3, RequestEffect DEF Shown, Evidence, Past
<1> QED BY <1>1, <1>2, <1>3

\* The permit is taken and checked, and the transaction prepared.
LEMMA PermitEffect ==
    ASSUME CompletionInv, NEW r \in Requests,
           \/ Recover(r) \/ BeginDestinationCommit(r) \/ ValidatePermit(r)
           \/ PrepareTransaction(r) \/ Revalidate(r)
    PROVE  Effect
<1>0. /\ Types /\ up \in UploadType /\ journal \in JournalType /\ dest \in DestType
      /\ req[r].token \in Nat /\ UNCHANGED <<rec, ghost>>
  BY DEF CompletionInv, Types, RequestType, KeepDest,
         Recover, BeginDestinationCommit, ValidatePermit, PrepareTransaction, Revalidate
<1>1. CASE Recover(r) \/ BeginDestinationCommit(r)
  <2>1. /\ up.life = "Completing" /\ up' = Permitted(req[r].token) /\ UNCHANGED <<journal, dest>>
        /\ \/ req[r].pc = "recovered" /\ Goto(r, "record")
           \/ req[r].pc = "begin" /\ Goto(r, "validate")
    BY <1>1 DEF Recover, BeginDestinationCommit, HoldsLease, HoldsToken, KeepDest
  <2>2. up' \in UploadType /\ up'.life = "Publishing" /\ up'.fp = up.fp /\ ~up'.commit
    BY <1>0, <2>1 DEF Permitted, UploadType, Lives
  <2>3. /\ req' \in [Requests -> RequestType] /\ Only(r) /\ Stepped(r)
        /\ req'[r].pc \in Past => req[r].pc \in Past
    BY <1>0, <2>1, RequestMoves DEF Steps, Stepped, Ready, Past
  <2>4. Types' /\ Visible
    BY <1>0, <2>1, <2>2, <2>3 DEF Types, Visible, Silent, Shifts
  <2> QED BY <1>0, <2>1, <2>2, <2>3, <2>4, RequestEffect DEF Shown, Evidence
<1>2. CASE ValidatePermit(r)
  <2>1. /\ req[r].pc = "validate" /\ UNCHANGED <<up, dest>>
        /\ \/ Goto(r, "prepare") /\ UNCHANGED journal
           \/ Goto(r, "put") /\ journal' = [journal EXCEPT !.st = "Completing"]
    BY <1>2 DEF ValidatePermit, KeepDest
  <2>2. /\ journal' \in JournalType /\ (journal'.st = "none" => journal.st = "none")
        /\ journal'.st = "Committed" => journal.st = "Committed"
    BY <1>0, <2>1 DEF JournalType, Rows
  <2>3. /\ req' \in [Requests -> RequestType] /\ Only(r) /\ Stepped(r) /\ req'[r].pc \in {"prepare", "put"}
    BY <1>0, <2>1, RequestMoves DEF Steps, Stepped, Ready
  <2>4. Types' /\ Visible
    BY <1>0, <2>1, <2>2, <2>3 DEF Types, Visible, Silent, Keeps
  <2> QED BY <1>0, <2>1, <2>2, <2>3, <2>4, RequestEffect DEF Shown, Evidence, Past
<1>3. CASE PrepareTransaction(r)
  <2>1. /\ req[r].pc = "prepare" /\ Goto(r, "revalidate") /\ UNCHANGED <<up, journal>>
        /\ dest' = [dest EXCEPT !.proof = IF @ = "none" THEN "prepared" ELSE @, !.fence = req[r].token]
    BY <1>3 DEF PrepareTransaction
  <2>2. /\ dest' \in DestType /\ dest'.pointer = dest.pointer
        /\ dest'.proof = "committed" => dest.proof = "committed"
    BY <1>0, <2>1 DEF DestType
  <2>3. req' \in [Requests -> RequestType] /\ Only(r) /\ Stepped(r) /\ req'[r].pc = "revalidate"
    BY <1>0, <2>1, RequestMoves DEF Steps, Stepped, Ready
  <2>4. Types' /\ Visible
    BY <1>0, <2>1, <2>2, <2>3 DEF Types, Visible, Silent, Keeps
  <2> QED BY <1>0, <2>1, <2>2, <2>3, <2>4, RequestEffect DEF Shown, Evidence, Past
<1>4. CASE Revalidate(r)
  BY <1>4, RequestAdvances DEF Steps, Revalidate, KeepDest, Ready, Past
<1> QED BY <1>1, <1>2, <1>3, <1>4

\* The object is published, and the publication proved or its answer lost.
LEMMA PublishEffect ==
    ASSUME CompletionInv, NEW r \in Requests,
           \/ PublishTransaction(r) \/ PutObject(r) \/ WriteProof(r)
           \/ PutAnswered(r) \/ PutUnknown(r)
    PROVE  Effect
<1>0. /\ Types /\ up \in UploadType /\ journal \in JournalType /\ dest \in DestType
      /\ ghost \in GhostType /\ UNCHANGED <<up, rec>>
  BY DEF CompletionInv, Types, KeepDest, PublishTransaction, PutObject, WriteProof, PutAnswered, PutUnknown
<1>1. CASE PublishTransaction(r) \/ PutObject(r)
  <2>1. /\ dest' = [dest EXCEPT !.pointer = "mine"] /\ ghost' = Count /\ UNCHANGED journal
        /\ req[r].pc \in {"publish", "put"}
        /\ Goto(r, "proof") \/ Goto(r, "answer")
    BY <1>1 DEF PublishTransaction, PutObject
  <2>2. dest' \in DestType
    BY <1>0, <2>1 DEF DestType
  <2>3. ghost' \in GhostType /\ ghost'.published = ghost.published + 1 /\ ghost'.told = ghost.told
    <3>1. /\ ghost.published + 1 \in Nat /\ (ghost.unpermitted \/ up.life # "Publishing") \in BOOLEAN
      BY <1>0 DEF GhostType
    <3>2. ghost' = [ghost EXCEPT !.published = ghost.published + 1,
                                 !.unpermitted = ghost.unpermitted \/ up.life # "Publishing"]
      BY <2>1 DEF Count
    <3> QED BY <1>0, <3>1, <3>2 DEF GhostType
  <2>4. req' \in [Requests -> RequestType] /\ Only(r) /\ req'[r].pc \in {"proof", "answer"} /\ req'[r].fp = req[r].fp
    BY <1>0, <2>1, RequestMoves DEF Steps
  <2>5. Publishes
    BY <2>1, <2>3, <2>4 DEF Publishes
  <2>6. Types' /\ Visible /\ Stepped(r)
    BY <1>0, <2>1, <2>2, <2>3, <2>4, <2>5 DEF Types, Visible, Keeps, Stepped, Ready
  <2> QED BY <1>0, <2>1, <2>4, <2>5, <2>6, RequestEffect
<1>2. CASE WriteProof(r)
  <2>1. /\ req[r].pc = "proof" /\ Goto(r, "record") /\ UNCHANGED <<journal, ghost>>
        /\ dest' = [dest EXCEPT !.proof = "committed"] /\ Evidence
    BY <1>2 DEF WriteProof, Evidence, Past
  <2>2. dest' \in DestType
    BY <1>0, <2>1 DEF DestType
  <2>3. req' \in [Requests -> RequestType] /\ Only(r) /\ Stepped(r)
    BY <1>0, <2>1, RequestMoves DEF Steps, Stepped, Ready
  <2>4. Types' /\ Visible
    BY <1>0, <2>1, <2>2, <2>3 DEF Types, Visible, Silent, Keeps
  <2> QED BY <1>0, <2>1, <2>3, <2>4, RequestEffect
<1>3. CASE PutAnswered(r)
  <2>1. /\ req[r].pc = "answer" /\ Goto(r, "record") /\ UNCHANGED <<dest, ghost>>
        /\ journal' = [journal EXCEPT !.st = "Committed"] /\ Evidence
    BY <1>3 DEF PutAnswered, KeepDest, Evidence, Past
  <2>2. journal' \in JournalType /\ journal'.st = "Committed"
    BY <1>0, <2>1 DEF JournalType, Rows
  <2>3. req' \in [Requests -> RequestType] /\ Only(r) /\ Stepped(r)
    BY <1>0, <2>1, RequestMoves DEF Steps, Stepped, Ready
  <2>4. Types' /\ Visible
    BY <1>0, <2>1, <2>2, <2>3 DEF Types, Visible, Silent, Keeps
  <2> QED BY <1>0, <2>1, <2>2, <2>3, <2>4, RequestEffect
<1>4. CASE PutUnknown(r)
  <2>1. /\ Leave(r) /\ UNCHANGED dest /\ journal' = [journal EXCEPT !.st = "Unknown"]
        /\ ghost' = [ghost EXCEPT !.faults = @ + 1]
    BY <1>4 DEF PutUnknown
  <2>2. journal' \in JournalType /\ journal'.st = "Unknown"
    BY <1>0, <2>1 DEF JournalType, Rows
  <2>3. ghost' \in GhostType /\ Silent
    BY <1>0, <2>1 DEF GhostType, Silent
  <2>4. req' \in [Requests -> RequestType] /\ Only(r) /\ Stepped(r) /\ req'[r].pc = "idle"
    BY <1>0, <2>1, RequestLeaves DEF Stepped
  <2>5. Types' /\ Visible
    BY <1>0, <2>1, <2>2, <2>3, <2>4 DEF Types, Visible, Keeps
  <2> QED BY <1>0, <2>1, <2>2, <2>4, <2>5, RequestEffect DEF Shown, Evidence, Past
<1> QED BY <1>1, <1>2, <1>3, <1>4

\* The result is recorded and answered, or the request ends.
LEMMA FinishEffect ==
    ASSUME CompletionInv, NEW r \in Requests,
           RecordCommit(r) \/ CommitJournal(r) \/ CompleteCompletion(r) \/ Reply(r) \/ Fail(r) \/ Fenced(r)
    PROVE  Effect
<1>0. /\ Types /\ up \in UploadType /\ journal \in JournalType /\ dest \in DestType
      /\ ghost \in GhostType /\ UNCHANGED <<dest, rec>> /\ req[r] \in RequestType
  BY DEF CompletionInv, Types, KeepDest, RecordCommit, CommitJournal, CompleteCompletion, Reply, Fail, Fenced
<1>1. CASE RecordCommit(r)
  <2>1. /\ req[r].pc = "record" /\ Goto(r, "journal") /\ UNCHANGED <<journal, ghost>>
        /\ up' = Recorded /\ Evidence
    BY <1>1 DEF RecordCommit, KeepDest, Evidence, Past
  <2>2. up' \in UploadType /\ up'.life = up.life /\ up'.fp = up.fp
    BY <1>0, <2>1 DEF Recorded, UploadType
  <2>3. req' \in [Requests -> RequestType] /\ Only(r) /\ Stepped(r)
    BY <1>0, <2>1, RequestMoves DEF Steps, Stepped, Ready
  <2>4. Types' /\ Visible
    BY <1>0, <2>1, <2>2, <2>3 DEF Types, Visible, Silent, Keeps
  <2> QED BY <1>0, <2>1, <2>3, <2>4, RequestEffect
<1>2. CASE CommitJournal(r)
  <2>1. /\ req[r].pc = "journal" /\ Goto(r, "finish") /\ UNCHANGED <<up, ghost>>
        /\ journal' = [journal EXCEPT !.st = "Committed"] /\ Evidence
    BY <1>2 DEF CommitJournal, KeepDest, Evidence, Past
  <2>2. journal' \in JournalType /\ journal'.st = "Committed"
    BY <1>0, <2>1 DEF JournalType, Rows
  <2>3. req' \in [Requests -> RequestType] /\ Only(r) /\ Stepped(r)
    BY <1>0, <2>1, RequestMoves DEF Steps, Stepped, Ready
  <2>4. Types' /\ Visible
    BY <1>0, <2>1, <2>2, <2>3 DEF Types, Visible, Silent, Keeps
  <2> QED BY <1>0, <2>1, <2>2, <2>3, <2>4, RequestEffect
<1>3. CASE CompleteCompletion(r)
  <2>1. /\ req[r].pc = "finish" /\ Goto(r, "reply") /\ UNCHANGED <<journal, ghost>>
        /\ up' = CompletedUpload /\ up.life = "Publishing" /\ up.commit /\ Evidence
    BY <1>3 DEF CompleteCompletion, PermitMatches, KeepDest, Evidence, Past
  <2>2. up' \in UploadType /\ up'.life = "Completed" /\ up'.fp = up.fp
    BY <1>0, <2>1 DEF CompletedUpload, UploadType, Lives
  <2>3. req' \in [Requests -> RequestType] /\ Only(r) /\ Stepped(r)
    BY <1>0, <2>1, <2>2, RequestMoves DEF Steps, Stepped, Ready
  <2>4. Types' /\ Visible
    BY <1>0, <2>1, <2>2, <2>3 DEF Types, Visible, Silent, Finishes
  <2> QED BY <1>0, <2>1, <2>3, <2>4, RequestEffect
<1>4. CASE Reply(r)
  <2>1. /\ req[r].pc = "reply" /\ Leave(r) /\ UNCHANGED <<up, journal>> /\ Evidence
        /\ ghost' = [ghost EXCEPT !.told = @ \cup {req[r].fp}]
    BY <1>4 DEF Reply, Evidence, Past
  <2>2. req[r].fp \in Fingerprints
    BY <2>1 DEF CompletionInv, Claimed
  <2>3. ghost' \in GhostType /\ ghost'.published = ghost.published /\ ghost'.told = ghost.told \cup {req[r].fp}
    BY <1>0, <2>1, <2>2 DEF GhostType
  <2>4. req' \in [Requests -> RequestType] /\ Only(r) /\ Stepped(r)
    BY <1>0, <2>1, RequestLeaves DEF Stepped
  <2>5. Types' /\ Visible
    BY <1>0, <2>1, <2>3, <2>4 DEF Types, Visible, Answers, Keeps
  <2> QED BY <1>0, <2>1, <2>4, <2>5, RequestEffect
<1>5. CASE Fail(r)
  <2>1. /\ Leave(r) /\ ghost' = [ghost EXCEPT !.faults = @ + 1]
        /\ journal' \in {journal, [journal EXCEPT !.st = "Aborted"]}
        /\ up' \in {up, [up EXCEPT !.lease = "live"]}
    BY <1>5 DEF Fail
  <2>2. /\ up' \in UploadType /\ up'.life = up.life /\ up'.fp = up.fp /\ up'.commit = up.commit
    BY <1>0, <2>1 DEF UploadType
  <2>3. journal' \in JournalType /\ journal'.st \in {journal.st, "Aborted"}
    BY <1>0, <2>1 DEF JournalType, Rows
  <2>4. ghost' \in GhostType /\ Silent
    BY <1>0, <2>1 DEF GhostType, Silent
  <2>5. req' \in [Requests -> RequestType] /\ Only(r) /\ Stepped(r) /\ req'[r].pc = "idle"
    BY <1>0, <2>1, RequestLeaves DEF Stepped
  <2>6. Types' /\ Visible
    BY <1>0, <2>2, <2>3, <2>4, <2>5 DEF Types, Visible, Keeps
  <2> QED BY <1>0, <2>2, <2>3, <2>5, <2>6, RequestEffect DEF Shown, Evidence, Past
<1>6. CASE Fenced(r)
  BY <1>6, RequestAdvances DEF Steps, Fenced, KeepDest
<1> QED BY <1>1, <1>2, <1>3, <1>4, <1>5, <1>6

-----------------------------------------------------------------------------
(* The worker and the environment                                          *)

\* A step that leaves the requests alone and publishes nothing.
LEMMA WorkerEffect ==
    ASSUME CompletionInv, Types', UNCHANGED <<req, ghost>>,
           Keeps \/ Shifts \/ Finishes \/ Closes \/ Forgets,
           \/ dest'.pointer = "mine" \/ dest'.proof = "committed" \/ journal'.st = "Committed" \/ up'.commit
              \/ rec'.pc \in {"record", "journal", "finish"}
           => Evidence,
           journal'.st = "none" => journal.st = "none" \/ rec.pc = "retire",
           rec'.pc \in {"retire", "clear"} => rec.pc \in {"retire", "clear"} \/ (up.life \in Terminal /\ Keeps)
    PROVE  Effect
<1>1. Visible
  BY DEF Visible, Silent
<1>2. Evidence' => Evidence
  BY DEF Evidence
<1>3. \A r \in Requests : Stepped(r)
  BY DEF Stepped
<1> QED BY <1>1, <1>2, <1>3 DEF Effect

\* The worker moves on.
LEMMA WorkerMoves ==
    ASSUME Types, NEW pc \in Rounds, RecGoto(pc)
    PROVE  rec' \in RecoveryType /\ rec'.pc = pc
BY DEF Types, RecGoto, RecoveryType

\* Completing the proof of a visible object invents no evidence.
LEMMA BackfillKeeps ==
    ASSUME Types
    PROVE  /\ BackfillProof(dest) \in DestType /\ BackfillProof(dest).pointer = dest.pointer
           /\ BackfillProof(dest).proof = "committed" => dest.pointer = "mine" \/ dest.proof = "committed"
BY DEF Types, BackfillProof, DestType

\* Looking for a commit, and for its absence.
LEMMA LookEffect ==
    ASSUME CompletionInv, RecoverPublishing \/ ProbeCommit \/ ConfirmAbsence \/ ReleasePermit
    PROVE  Effect
<1>0. /\ Types /\ up \in UploadType /\ journal \in JournalType /\ dest \in DestType /\ up.permit \in Nat
      /\ rec \in RecoveryType /\ UNCHANGED <<req, ghost>>
  BY DEF CompletionInv, Types, UploadType, RecoverPublishing, ProbeCommit, ConfirmAbsence, ReleasePermit
<1>1. CASE RecoverPublishing
  <2>1. /\ UNCHANGED <<up, journal, dest>>
        /\ rec' = [pc |-> IF up.commit THEN "journal" ELSE "look", token |-> up.permit]
    BY <1>1 DEF RecoverPublishing
  <2>2. rec' \in RecoveryType /\ rec'.pc \in {"journal", "look"} /\ (rec'.pc = "journal" => up.commit)
    BY <1>0, <2>1 DEF RecoveryType, Rounds
  <2>3. Types' /\ Keeps
    BY <1>0, <2>1, <2>2 DEF Types, Keeps
  <2> QED BY <1>0, <2>1, <2>2, <2>3, WorkerEffect DEF Evidence
<1>2. CASE ProbeCommit
  <2>1. /\ UNCHANGED <<up, journal>> /\ rec.pc = "look"
        /\ \/ journal.st = "Committed" /\ RecGoto("record") /\ UNCHANGED dest
           \/ RecGoto("idle") /\ UNCHANGED dest
           \/ dest' = BackfillProof(dest) /\ RecGoto("record") /\ dest'.proof = "committed"
           \/ dest' = BackfillProof(dest) /\ RecGoto("absent")
    BY <1>2 DEF ProbeCommit
  <2>2. /\ dest' \in DestType /\ (dest'.pointer = "mine" \/ dest'.proof = "committed" => Evidence)
    BY <1>0, <2>1, BackfillKeeps DEF Evidence
  <2>3. rec' \in RecoveryType /\ rec'.pc \in {"record", "idle", "absent"} /\ (rec'.pc = "record" => Evidence)
    BY <1>0, <2>1, <2>2, WorkerMoves DEF Evidence, Rounds
  <2>4. Types' /\ Keeps
    BY <1>0, <2>1, <2>2, <2>3 DEF Types, Keeps
  <2> QED BY <1>0, <2>1, <2>2, <2>3, <2>4, WorkerEffect DEF Evidence
<1>3. CASE ConfirmAbsence
  <2>1. /\ UNCHANGED <<up, dest>> /\ journal' = [journal EXCEPT !.absent = TRUE]
        /\ RecGoto("release") \/ RecGoto("idle")
    BY <1>3 DEF ConfirmAbsence
  <2>2. journal' \in JournalType /\ journal'.st = journal.st
    BY <1>0, <2>1 DEF JournalType
  <2>3. rec' \in RecoveryType /\ rec'.pc \in {"release", "idle"}
    BY <1>0, <2>1, WorkerMoves DEF Rounds
  <2>4. Types' /\ Keeps
    BY <1>0, <2>1, <2>2, <2>3 DEF Types, Keeps
  <2> QED BY <1>0, <2>1, <2>2, <2>3, <2>4, WorkerEffect DEF Evidence
<1>4. CASE ReleasePermit
  <2>1. /\ UNCHANGED <<journal, dest>> /\ RecGoto("idle")
        /\ up' = up \/ (up.life = "Publishing" /\ up' = Released)
    BY <1>4 DEF ReleasePermit, PermitMatches
  <2>2. /\ up' \in UploadType /\ (Keeps \/ Shifts)
        /\ up'.commit = up.commit
    <3>1. CASE up' = up
      BY <1>0, <3>1 DEF Keeps
    <3>2. CASE up.life = "Publishing" /\ up' = Released
      <4>1. /\ up' \in UploadType /\ up'.life = "Completing" /\ up'.fp = up.fp
            /\ up'.commit = up.commit
        BY <1>0, <3>2 DEF UploadType, Lives, Released
      <4> QED BY <3>2, <4>1 DEF Shifts
    <3> QED BY <2>1, <3>1, <3>2
  <2>3. rec' \in RecoveryType /\ rec'.pc = "idle"
    BY <1>0, <2>1, WorkerMoves DEF Rounds
  <2>4. Types'
    BY <1>0, <2>1, <2>2, <2>3 DEF Types
  <2> QED BY <1>0, <2>1, <2>2, <2>3, <2>4, WorkerEffect DEF Evidence
<1> QED BY <1>1, <1>2, <1>3, <1>4

\* The worker finishes a commit, and retires the upload.
LEMMA SettleEffect ==
    ASSUME CompletionInv,
           RecRecord \/ RecJournal \/ RecComplete \/ RetireProof \/ RetireJournal \/ RetireUpload
    PROVE  Effect
<1>0. /\ Types /\ up \in UploadType /\ journal \in JournalType /\ dest \in DestType
      /\ rec \in RecoveryType /\ UNCHANGED <<req, ghost>>
  BY DEF CompletionInv, Types, RecRecord, RecJournal, RecComplete, RetireProof, RetireJournal, RetireUpload
<1>1. CASE RecRecord
  <2>1. /\ UNCHANGED <<journal, dest>> /\ Evidence
        /\ \/ up' = Recorded /\ RecGoto("journal")
           \/ UNCHANGED up /\ RecGoto("idle")
    BY <1>1 DEF RecRecord, Evidence
  <2>2. up' \in UploadType /\ Keeps
    BY <1>0, <2>1 DEF UploadType, Recorded, Keeps
  <2>3. rec' \in RecoveryType /\ rec'.pc \in {"journal", "idle"}
    BY <1>0, <2>1, WorkerMoves DEF Rounds
  <2>4. Types'
    BY <1>0, <2>1, <2>2, <2>3 DEF Types
  <2> QED BY <1>0, <2>1, <2>2, <2>3, <2>4, WorkerEffect
<1>2. CASE RecJournal
  <2>1. /\ UNCHANGED <<up, dest>> /\ Evidence
        /\ \/ journal' = [journal EXCEPT !.st = "Committed"] /\ RecGoto("finish")
           \/ UNCHANGED journal /\ RecGoto("idle")
    BY <1>2 DEF RecJournal, Evidence
  <2>2. journal' \in JournalType /\ journal'.st \in {journal.st, "Committed"}
    BY <1>0, <2>1 DEF JournalType, Rows
  <2>3. rec' \in RecoveryType /\ rec'.pc \in {"finish", "idle"}
    BY <1>0, <2>1, WorkerMoves DEF Rounds
  <2>4. Types' /\ Keeps
    BY <1>0, <2>1, <2>2, <2>3 DEF Types, Keeps
  <2> QED BY <1>0, <2>1, <2>2, <2>3, <2>4, WorkerEffect
<1>3. CASE RecComplete
  <2>1. /\ UNCHANGED <<journal, dest>> /\ RecGoto("idle") /\ Evidence
        /\ up' = up \/ (up.life = "Publishing" /\ up.commit /\ up' = CompletedUpload)
    BY <1>3 DEF RecComplete, PermitMatches, Evidence
  <2>2. up' \in UploadType /\ (Keeps \/ Finishes)
    BY <1>0, <2>1 DEF UploadType, Lives, CompletedUpload, Keeps, Finishes
  <2>3. rec' \in RecoveryType /\ rec'.pc = "idle"
    BY <1>0, <2>1, WorkerMoves DEF Rounds
  <2>4. Types'
    BY <1>0, <2>1, <2>2, <2>3 DEF Types
  <2> QED BY <1>0, <2>1, <2>2, <2>3, <2>4, WorkerEffect
<1>4. CASE RetireProof
  <2>1. /\ UNCHANGED <<up, journal>> /\ RecGoto("retire") /\ up.life \in Terminal
        /\ dest' \in {dest, [dest EXCEPT !.proof = "none"]}
    BY <1>4 DEF RetireProof
  <2>2. dest' \in DestType /\ dest'.pointer = dest.pointer /\ dest'.proof \in {dest.proof, "none"}
    BY <1>0, <2>1 DEF DestType
  <2>3. rec' \in RecoveryType /\ rec'.pc = "retire"
    BY <1>0, <2>1, WorkerMoves DEF Rounds
  <2>4. Types' /\ Keeps
    BY <1>0, <2>1, <2>2, <2>3 DEF Types, Keeps
  <2> QED BY <1>0, <2>1, <2>2, <2>3, <2>4, WorkerEffect DEF Evidence
<1>5. CASE RetireJournal
  <2>1. /\ UNCHANGED <<up, dest>> /\ rec.pc = "retire" /\ RecGoto("clear") /\ journal' \in {journal, NoRow}
    BY <1>5 DEF RetireJournal
  <2>2. journal' \in JournalType /\ journal'.st \in {journal.st, "none"}
    <3>1. NoRow \in JournalType /\ NoRow.st = "none"
      BY DEF JournalType, Rows, NoRow
    <3> QED BY <1>0, <2>1, <3>1
  <2>3. rec' \in RecoveryType /\ rec'.pc = "clear"
    BY <1>0, <2>1, WorkerMoves DEF Rounds
  <2>4. Types' /\ Keeps
    BY <1>0, <2>1, <2>2, <2>3 DEF Types, Keeps
  <2> QED BY <1>0, <2>1, <2>2, <2>3, <2>4, WorkerEffect DEF Evidence
<1>6. CASE RetireUpload
  <2>1. /\ UNCHANGED <<journal, dest>> /\ rec.pc = "clear" /\ RecGoto("idle")
        /\ up' = [ReferenceCleared EXCEPT !.life = "gone"]
    BY <1>6 DEF RetireUpload
  <2>2. up' \in UploadType /\ up'.life = "gone" /\ up'.fp = up.fp /\ ~up'.commit
    BY <1>0, <2>1 DEF UploadType, Lives, ReferenceCleared
  <2>3. rec' \in RecoveryType /\ rec'.pc = "idle"
    BY <1>0, <2>1, WorkerMoves DEF Rounds
  <2>4. Types' /\ Forgets
    BY <1>0, <2>1, <2>2, <2>3 DEF Types, Forgets
  <2> QED BY <1>0, <2>1, <2>2, <2>3, <2>4, WorkerEffect DEF Evidence
<1> QED BY <1>1, <1>2, <1>3, <1>4, <1>5, <1>6

\* Time, aborts, other writers and crashes.
LEMMA EnvironmentEffect ==
    ASSUME CompletionInv, EnvironmentStep
    PROVE  Effect
<1>0. /\ Types /\ up \in UploadType /\ journal \in JournalType /\ dest \in DestType /\ ghost \in GhostType
  BY DEF CompletionInv, Types
<1>1. CASE LeaseLapses \/ DeadlinePasses \/ Abort \/ ReapExpired
  <2>1. /\ UNCHANGED <<journal, dest, req, rec, ghost>>
        /\ \/ up' = [up EXCEPT !.lease = "lapsed"] \/ up' = [up EXCEPT !.expired = TRUE]
           \/ up.life = "Open" /\ up' = [up EXCEPT !.life = "Aborted"]
           \/ up.life = "Open" /\ up' = [up EXCEPT !.life = "Expired"]
    BY <1>1 DEF LeaseLapses, DeadlinePasses, Abort, ReapExpired
  <2>2. up' \in UploadType /\ (Keeps \/ Closes) /\ up'.commit = up.commit /\ (up.life # "Open" => Keeps)
    BY <1>0, <2>1 DEF UploadType, Lives, Keeps, Closes
  <2>3. Types'
    BY <1>0, <2>1, <2>2 DEF Types
  <2> QED BY <2>1, <2>2, <2>3, WorkerEffect DEF Evidence, Terminal
<1>2. CASE OtherWriter
  <2>1. PICK p \in {"other", "none"} :
          dest' = [BackfillProof(dest) EXCEPT !.pointer = p] /\ UNCHANGED <<up, journal, req, rec, ghost>>
    BY <1>2 DEF OtherWriter
  <2>2. /\ dest' \in DestType /\ dest'.pointer # "mine"
        /\ dest'.proof = "committed" => Evidence
    BY <1>0, <2>1, BackfillKeeps DEF DestType, Evidence
  <2>3. Types' /\ Keeps
    BY <1>0, <2>1, <2>2 DEF Types, Keeps
  <2> QED BY <2>1, <2>2, <2>3, WorkerEffect DEF Evidence
<1>3. CASE BackfillCurrent
  <2>1. dest' = BackfillProof(dest) /\ UNCHANGED <<up, journal, req, rec, ghost>>
    BY <1>3 DEF BackfillCurrent
  <2>2. dest' \in DestType /\ (dest'.pointer = "mine" \/ dest'.proof = "committed" => Evidence)
    BY <1>0, <2>1, BackfillKeeps DEF Evidence
  <2>3. Types' /\ Keeps
    BY <1>0, <2>1, <2>2 DEF Types, Keeps
  <2> QED BY <2>1, <2>2, <2>3, WorkerEffect DEF Evidence
<1>4. CASE Crash
  <2>1. /\ UNCHANGED <<up, journal, dest>> /\ ghost' = [ghost EXCEPT !.faults = @ + 1]
        /\ req' = [r \in Requests |-> Waiting] /\ rec' = [pc |-> "idle", token |-> 0]
    BY <1>4 DEF Crash
  <2>2. rec' \in RecoveryType /\ rec'.pc = "idle"
    BY <2>1 DEF RecoveryType, Rounds
  <2>3. Waiting \in RequestType /\ Waiting.pc = "idle"
    BY DEF Waiting, RequestType, Steps
  <2>4. req' \in [Requests -> RequestType] /\ \A r \in Requests : req'[r].pc = "idle"
    BY <2>1, <2>3
  <2>5. ghost' \in GhostType /\ Silent
    BY <1>0, <2>1 DEF GhostType, Silent
  <2>6. Types' /\ Visible /\ \A r \in Requests : Stepped(r)
    BY <1>0, <2>1, <2>2, <2>4, <2>5 DEF Types, Visible, Keeps, Stepped
  <2>7. Evidence' => Evidence
    BY <2>1, <2>2, <2>4 DEF Evidence, Past
  <2> QED BY <2>1, <2>2, <2>6, <2>7 DEF Effect
<1> QED BY <1>1, <1>2, <1>3, <1>4 DEF EnvironmentStep

-----------------------------------------------------------------------------
(* The theorems                                                            *)

\* The initial states satisfy the invariant and map to the contract's.
LEMMA CompletionStarts == CompletionInit => CompletionInv /\ Contract!ContractInit
<1> SUFFICES ASSUME CompletionInit
             PROVE  CompletionInv /\ Contract!ContractInit
  OBVIOUS
<1>1. up \in UploadType /\ up.life = "Open" /\ up.fp = NoFp /\ ~up.commit
  BY DEF CompletionInit, UploadType, Lives
<1>2. journal \in JournalType /\ journal.st = "none"
  BY DEF CompletionInit, NoRow, JournalType, Rows
<1>3. dest \in DestType /\ dest.pointer = "none" /\ dest.proof = "none"
  BY DEF CompletionInit, DestType
<1>4. req \in [Requests -> RequestType] /\ \A r \in Requests : req[r].pc = "idle"
  <2>1. Waiting \in RequestType /\ Waiting.pc = "idle"
    BY DEF Waiting, RequestType, Steps
  <2> QED BY <2>1 DEF CompletionInit
<1>5. rec \in RecoveryType /\ rec.pc = "idle"
  BY DEF CompletionInit, RecoveryType, Rounds
<1>6. ghost \in GhostType /\ ghost.published = 0 /\ ghost.told = {}
  BY DEF CompletionInit, GhostType
<1>7. Contract!ContractInit
  BY <1>1, <1>6, Phases DEF Contract!ContractInit
<1>8. ~Evidence
  BY <1>1, <1>2, <1>3, <1>4, <1>5 DEF Evidence, Past
<1> QED BY <1>1, <1>2, <1>3, <1>4, <1>5, <1>6, <1>7, <1>8
        DEF CompletionInv, Types, Claimed, OneSink, PublishedOnce, Retiring, Ready

\* Every step of the completion protocol has one of the effects above.
LEMMA StepEffect ==
    ASSUME CompletionInv, CompletionNext
    PROVE  Effect
<1>1. ASSUME NEW r \in Requests, RequestStep(r)
      PROVE  Effect
  BY <1>1, AcquireEffect, StageEffect, PermitEffect, PublishEffect, FinishEffect DEF RequestStep
<1>2. CASE RecoveryStep
  BY <1>2, LookEffect, SettleEffect DEF RecoveryStep
<1>3. CASE EnvironmentStep
  BY <1>3, EnvironmentEffect
<1> QED BY <1>1, <1>2, <1>3 DEF CompletionNext

\* A step that changes nothing is a stutter of the contract.
LEMMA Stutters ==
    ASSUME CompletionInv, UNCHANGED completionVars
    PROVE  CompletionInv' /\ UNCHANGED Contract!contractVars
<1>1. UNCHANGED <<up, journal, dest, req, rec, ghost>>
  BY DEF completionVars
<1>2. CompletionInv'
  BY <1>1 DEF CompletionInv, Types, Claimed, OneSink, PublishedOnce, Evidence, Retiring
<1>3. UNCHANGED Contract!contractVars
  BY <1>1 DEF Contract!contractVars, Phase
<1> QED BY <1>2, <1>3

\* At every moment of a completion, whatever crashes, goes stale or is retried, one
\* request at most may still publish, the object is published at most once, and what
\* the code reads as evidence of a commit (object, proof, journal row, repository
\* record) was left by that publication.
THEOREM PublishedAtMostOnce == CompletionSpec => []CompletionInv
<1>1. CompletionInit => CompletionInv
  BY CompletionStarts
<1>2. CompletionInv /\ [CompletionNext]_completionVars => CompletionInv'
  BY StepEffect, EffectKeeps, Stutters
<1> QED BY <1>1, <1>2, PTL DEF CompletionSpec

\* CompleteMultipartUpload implements the contract of an upload (one claim, one
\* publication by it, success told only afterwards and only to the claim) for every
\* number of requests, lists of parts and faults.
THEOREM CompletionImplements == CompletionSpec => ImplementsContract
<1>1. CompletionInit => Contract!ContractInit
  BY CompletionStarts
<1>2. CompletionInv /\ [CompletionNext]_completionVars => [Contract!ContractNext]_(Contract!contractVars)
  BY StepEffect, EffectImplements, Stutters
<1> QED BY <1>1, <1>2, PublishedAtMostOnce, PTL DEF CompletionSpec, ImplementsContract, Contract!ContractSpec
=============================================================================
