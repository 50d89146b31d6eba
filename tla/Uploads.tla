------------------------------- MODULE Uploads -------------------------------
(***************************************************************************)
(* Uploaded files: the row, the object in the store, the slot that shows   *)
(* one (an avatar; a banner or an icon is the same flow), the portfolio    *)
(* rows that keep one, and the hourly job that reclaims what nobody wants. *)
(***************************************************************************)
EXTENDS Naturals, FiniteSets

CONSTANTS
  Files,          \* uploads of one user, each with its own key
  Avatars,        \* those presigned for an avatar; the others are for the portfolio
  Misdeclared,    \* those whose bytes are not what their purpose allows
  FirstAvatar,    \* the avatar the user starts with
  NoFile,
  Uploaders,      \* concurrent requests
  BatchSize,      \* CLEANUP_BATCH_SIZE
  Uploads,        \* a bound: the sets of files a behaviour may presign
  UploadCrashes   \* bound on crashes

ASSUME UploadsAssumption ==
  /\ FirstAvatar \in Avatars \ Misdeclared
  /\ Avatars \cup Misdeclared \subseteq Files /\ NoFile \notin Files
  /\ Uploads \subseteq SUBSET Files
  /\ BatchSize \in Nat \ {0} /\ UploadCrashes \in Nat

VARIABLES
  file,           \* rows of files, with their object
  avatar,         \* avatarFileId of the profile, SET NULL when its file goes
  portfolio,      \* files portfolio_images refer to, which RESTRICT their deletion
  upload,         \* what each request is doing
  cleanup,        \* the job
  uploadCrashes

uploadsVars == <<file, avatar, portfolio, upload, cleanup, uploadCrashes>>

File == [ row : {"none", "pending", "confirmed", "removed"}, deleted : BOOLEAN,
          aged : BOOLEAN,            \* unconfirmed for UNCONFIRMED_TTL_HOURS
          object : BOOLEAN ]
Fresh == [ row |-> "none", deleted |-> FALSE, aged |-> FALSE, object |-> FALSE ]
Upload == [ step : {"idle", "head", "accept", "refuse", "drop", "current", "attach", "retire", "pin"},
            of : Files \cup {NoFile}, previous : Files \cup {NoFile} ]
NoUpload == [ step |-> "idle", of |-> NoFile, previous |-> NoFile ]
Cleanup == [ step : {"idle", "remove"}, left : SUBSET Files, batch : SUBSET Files ]
NoCleanup == [ step |-> "idle", left |-> {}, batch |-> {} ]

Exists(f) == file[f].row \in {"pending", "confirmed"}
Usable(f) == file[f].row = "confirmed" /\ ~file[f].deleted
Expired(f) == file[f].row = "pending" /\ ~file[f].deleted /\ file[f].aged

InitUploads ==
  /\ \E presigned \in Uploads :
       file = [f \in Files |->
         CASE f = FirstAvatar -> [ Fresh EXCEPT !.row = "confirmed", !.object = TRUE ]
           [] f \in presigned \ {FirstAvatar} -> Fresh
           [] OTHER -> [ Fresh EXCEPT !.row = "removed" ]]
  /\ avatar = FirstAvatar
  /\ portfolio = {}
  /\ upload = [u \in Uploaders |-> NoUpload]
  /\ cleanup = NoCleanup
  /\ uploadCrashes = 0

BeginsUpload(u, step, f, previous) ==
  /\ upload[u].step = "idle"
  /\ upload' = [upload EXCEPT ![u] = [ step |-> step, of |-> f, previous |-> previous ]]
  /\ UNCHANGED <<file, avatar, portfolio, cleanup, uploadCrashes>>
At(u, step)  == upload[u].step = step
Then(u, step) == upload' = [upload EXCEPT ![u].step = step]
Done(u)      == upload' = [upload EXCEPT ![u] = NoUpload]

Presign(f) ==
  /\ file[f].row = "none"
  /\ file' = [file EXCEPT ![f].row = "pending"]
  /\ UNCHANGED <<avatar, portfolio, upload, cleanup, uploadCrashes>>

\* The store: the URL's type and length are signed, and it dies long before the row ages.
Put(f) ==
  /\ Exists(f) /\ ~file[f].aged
  /\ file' = [file EXCEPT ![f].object = TRUE]
  /\ UNCHANGED <<avatar, portfolio, upload, cleanup, uploadCrashes>>

\* Only the age of an unconfirmed row is ever asked for.
Age(f) ==
  /\ file[f].row = "pending"
  /\ file' = [file EXCEPT ![f].aged = TRUE]
  /\ UNCHANGED <<avatar, portfolio, upload, cleanup, uploadCrashes>>

-----------------------------------------------------------------------------
(* confirm() *)

BeginConfirm(u, f) == file[f].row = "pending" /\ ~file[f].deleted /\ BeginsUpload(u, "head", f, NoFile)

HeadObject(u) ==
  /\ At(u, "head")
  /\ LET f == upload[u].of
     IN  IF ~file[f].object THEN Done(u)
         ELSE IF f \in Misdeclared THEN Then(u, "refuse") ELSE Then(u, "accept")
  /\ UNCHANGED <<file, avatar, portfolio, cleanup, uploadCrashes>>

\* storage.remove() swallows a failure: the object may stay.
RemoveRefused(u) ==
  /\ At(u, "refuse")
  /\ \E gone \in BOOLEAN :
       file' = [file EXCEPT ![upload[u].of].object = @ /\ ~gone]
  /\ Then(u, "drop")
  /\ UNCHANGED <<avatar, portfolio, cleanup, uploadCrashes>>

Without(f) == [ Fresh EXCEPT !.row = "removed", !.object = file[f].object ]

DropRefused(u) ==
  /\ At(u, "drop")
  /\ LET f == upload[u].of
     IN  file' = IF Exists(f) THEN [file EXCEPT ![f] = Without(f)] ELSE file
  /\ Done(u)
  /\ UNCHANGED <<avatar, portfolio, cleanup, uploadCrashes>>

\* The update fails when the row is gone.
Accept(u) ==
  /\ At(u, "accept")
  /\ LET f == upload[u].of
     IN  file' = IF Exists(f) THEN [file EXCEPT ![f].row = "confirmed"] ELSE file
  /\ Done(u)
  /\ UNCHANGED <<avatar, portfolio, cleanup, uploadCrashes>>

-----------------------------------------------------------------------------
(* setAvatar() and addPortfolioImage() *)

BeginSetAvatar(u, f) == f \in Avatars /\ BeginsUpload(u, "current", f, avatar)

GetAttachable(u) ==
  /\ At(u, "current")
  /\ IF Usable(upload[u].of) THEN Then(u, "attach") ELSE Done(u)
  /\ UNCHANGED <<file, avatar, portfolio, cleanup, uploadCrashes>>

\* The foreign key refuses a file whose row is gone.
AttachAvatar(u) ==
  /\ At(u, "attach")
  /\ LET f == upload[u].of
     IN  IF ~Exists(f) THEN UNCHANGED avatar /\ Done(u)
         ELSE /\ avatar' = f
              /\ IF upload[u].previous \in {NoFile, f} THEN Done(u) ELSE Then(u, "retire")
  /\ UNCHANGED <<file, portfolio, cleanup, uploadCrashes>>

\* softDelete(previous)
Retire(u) ==
  /\ At(u, "retire")
  /\ LET f == upload[u].previous
     IN  file' = IF Exists(f) THEN [file EXCEPT ![f].deleted = TRUE] ELSE file
  /\ Done(u)
  /\ UNCHANGED <<avatar, portfolio, cleanup, uploadCrashes>>

BeginAddImage(u, f) == f \notin Avatars /\ Usable(f) /\ BeginsUpload(u, "pin", f, NoFile)

AddImage(u) ==
  /\ At(u, "pin")
  /\ portfolio' = IF Exists(upload[u].of) THEN portfolio \cup {upload[u].of} ELSE portfolio
  /\ Done(u)
  /\ UNCHANGED <<file, avatar, cleanup, uploadCrashes>>

-----------------------------------------------------------------------------
(* CleanupUnconfirmedFilesJob *)

EveryPending(f) == file[f].row = "pending" \/ (Exists(f) /\ file[f].deleted)   \* mutant: no cutoff
Stale(f) == Expired(f) \/ (Exists(f) /\ file[f].deleted)

SelectStale ==
  /\ cleanup.step = "idle"
  /\ \E batch \in SUBSET { f \in Files : Stale(f) } :
       /\ batch # {} /\ Cardinality(batch) <= BatchSize
       /\ \/ Cardinality(batch) = BatchSize
          \/ \A f \in Files \ batch : ~Stale(f)
       /\ cleanup' = [ step |-> "remove", left |-> batch, batch |-> batch ]
  /\ UNCHANGED <<file, avatar, portfolio, upload, uploadCrashes>>

RemoveObject(f) ==
  /\ f \in cleanup.left
  /\ cleanup' = [ cleanup EXCEPT !.left = @ \ {f} ]
  /\ \E gone \in BOOLEAN : file' = [file EXCEPT ![f].object = @ /\ ~gone]
  /\ UNCHANGED <<avatar, portfolio, upload, uploadCrashes>>

DeleteByState ==                     \* mutant: the rows still unconfirmed only
  { f \in cleanup.batch : file[f].row = "pending" }
\* deleteMany takes the ids of the batch, whatever became of the rows.
Reclaimed == { f \in cleanup.batch : Exists(f) }

\* One portfolio row in the batch fails the whole statement.
DeleteRows ==
  /\ cleanup.step = "remove" /\ cleanup.left = {}
  /\ cleanup' = NoCleanup
  /\ IF Reclaimed \cap portfolio # {} THEN UNCHANGED <<file, avatar>>
     ELSE /\ file' = [f \in Files |-> IF f \in Reclaimed THEN Without(f) ELSE file[f]]
          /\ avatar' = IF avatar \in Reclaimed THEN NoFile ELSE avatar
  /\ UNCHANGED <<portfolio, upload, uploadCrashes>>

CleanupJob == SelectStale \/ (\E f \in Files : RemoveObject(f)) \/ DeleteRows

UploadCrash ==
  /\ uploadCrashes < UploadCrashes
  /\ upload' = [u \in Uploaders |-> NoUpload]
  /\ cleanup' = NoCleanup
  /\ uploadCrashes' = uploadCrashes + 1
  /\ UNCHANGED <<file, avatar, portfolio>>

UploadStep(u) == HeadObject(u) \/ RemoveRefused(u) \/ DropRefused(u) \/ Accept(u)
                 \/ GetAttachable(u) \/ AttachAvatar(u) \/ Retire(u) \/ AddImage(u)

NextUploads ==
  \/ \E f \in Files : Presign(f) \/ Put(f) \/ Age(f)
  \/ \E u \in Uploaders, f \in Files : BeginConfirm(u, f) \/ BeginSetAvatar(u, f) \/ BeginAddImage(u, f)
  \/ \E u \in Uploaders : UploadStep(u)
  \/ CleanupJob
  \/ UploadCrash

\* The cron runs every hour and Postgres answers.
FairUploads == WF_uploadsVars(CleanupJob)
UploadsSpec == InitUploads /\ [][NextUploads]_uploadsVars /\ FairUploads
-----------------------------------------------------------------------------
UploadsTypeOK ==
  /\ file \in [Files -> File]
  /\ avatar \in Files \cup {NoFile}
  /\ portfolio \subseteq Files \ Avatars
  /\ upload \in [Uploaders -> Upload]
  /\ cleanup \in Cleanup
  /\ uploadCrashes \in 0 .. UploadCrashes

\* CleanupUnconfirmedFilesJob deletes the object first.  A confirmed file can be left
\* without its own only if its owner was late to confirm it.
YoungFileKeepsObject ==
  \A f \in Files :
    file[f].row = "confirmed" /\ ~file[f].deleted /\ ~file[f].object => file[f].aged

\* "The previous avatar object is scheduled for deletion": its row goes in the end, however
\* often the job fails, as no portfolio row, which would stop its deletion, refers to it.
DeletedReclaimed == \A f \in Avatars : (Exists(f) /\ file[f].deleted) ~> ~Exists(f)
=============================================================================
