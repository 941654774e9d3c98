----------------------------- MODULE MCUploads ------------------------------
(***************************************************************************)
(* Client multipart uploads and the files behind them, for TLC.  The        *)
(* components share no state, so one run checks them side by side: the      *)
(* value of part names the component that moves in a behaviour.  The        *)
(* extended modules have their own variables; x1 to x9 hold the state of    *)
(* an instantiated one, and a slot it does not use stays 0.                 *)
(***************************************************************************)
EXTENDS MultipartCompletion, MultipartActivity, FileStore, FileJournal, TLC

CONSTANTS c1, c2, f1, p1

VARIABLES part, x1, x2, x3, x4, x5, x6, x7, x8, x9

slots == <<x1, x2, x3, x4, x5, x6, x7, x8, x9>>
extended == <<completionVars, activityVars, storeVars, journalVars>>
allVars == <<part, extended, slots>>

\* Two clients upload the same part again and again, under a quota of one
\* reservation and a half, in the PostgreSQL repository and in the file repository.
PostgresParts == INSTANCE MultipartParts WITH
    upload <- x1, attempts <- x2, store <- x3, client <- x4, clean <- x5, worker <- x6, ghost <- x7,
    Repo <- "postgres", Clients <- {c1, c2}, Parts <- {1}, Reserve <- 2, QuotaBytes <- 3, MaxFaults <- 1

FileParts == INSTANCE MultipartParts WITH
    upload <- x1, attempts <- x2, store <- x3, client <- x4, clean <- x5, worker <- x6, ghost <- x7,
    Repo <- "file", Clients <- {c1, c2}, Parts <- {1}, Reserve <- 2, QuotaBytes <- 3, MaxFaults <- 1

\* The same calls to the three repositories of uploads.
Repositories == INSTANCE UploadRepositories WITH
    now <- x1, others <- x2, pg <- x3, mem <- x4, file <- x5, handles <- x6, doomed <- x7,
    answers <- x8, late <- x9,
    Parts <- {p1}, Fingerprints <- {f1}, NoFp <- NoFp, Reserve <- 2, QuotaBytes <- 4, MaxActive <- 1,
    MaxBegun <- 2, MaxToken <- 2, MaxTime <- 3, Reissue <- FALSE, MaxSkew <- 0

-----------------------------------------------------------------------------
\* The slots a component with n variables does not use.
Blank7 == x8 = 0 /\ x9 = 0
Blank0 == x1 = 0 /\ x2 = 0 /\ x3 = 0 /\ x4 = 0 /\ x5 = 0 /\ x6 = 0 /\ x7 = 0 /\ Blank7

rest9 == <<part, extended>>
rest7 == <<x8, x9, rest9>>

UploadsInit ==
    /\ \/ part \in {"completion", "activity", "store", "journal"} /\ Blank0
       \/ part = "postgres parts" /\ PostgresParts!PartsInit /\ Blank7
       \/ part = "file parts" /\ FileParts!PartsInit /\ Blank7
       \/ part = "repositories" /\ Repositories!RepoInit
    /\ CompletionInit /\ (part = "completion" \/ dest.backend = "file")
    /\ ActivityInit /\ (part = "activity" \/ ledger = "postgres")
    /\ StoreInit /\ JournalInit

UploadsNext ==
    \/ part = "completion" /\ CompletionNext /\ UNCHANGED <<part, activityVars, storeVars, journalVars, slots>>
    \/ part = "activity" /\ ActivityNext /\ UNCHANGED <<part, completionVars, storeVars, journalVars, slots>>
    \/ part = "store" /\ StoreNext /\ UNCHANGED <<part, completionVars, activityVars, journalVars, slots>>
    \/ part = "journal" /\ JournalNext /\ UNCHANGED <<part, completionVars, activityVars, storeVars, slots>>
    \/ part = "postgres parts" /\ PostgresParts!PartsNext /\ UNCHANGED rest7
    \/ part = "file parts" /\ FileParts!PartsNext /\ UNCHANGED rest7
    \/ part = "repositories" /\ Repositories!RepoNext /\ UNCHANGED rest9

UploadsSpec == UploadsInit /\ [][UploadsNext]_allVars

\* Uploads and clients are interchangeable.
Symmetry == Permutations(Uploads) \cup Permutations({c1, c2})

-----------------------------------------------------------------------------
(* Properties of the instantiated components                               *)

\* The staging quota of an upload counts exactly its reservations and committed parts, and a
\* completed object consists of the bodies its parts were committed with, even when a slow
\* request wrote over the artifact of a later attempt (upload_part, server/multipart.rs).
PartsExact ==
    /\ part = "postgres parts" => PostgresParts!PartQuotaExact /\ PostgresParts!CompletedFaithful
    /\ part = "file parts" => FileParts!PartQuotaExact /\ FileParts!CompletedFaithful

\* The PostgreSQL, the in-memory and the file repository give the same answers to the same calls
\* and keep the same upload (MultipartRepository, multipart_staging/repository.rs).
RepositoriesAgree == part = "repositories" => Repositories!RepositoriesAgree
=============================================================================
