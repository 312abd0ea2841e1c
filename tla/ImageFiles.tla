------------------------------ MODULE ImageFiles ------------------------------
(***************************************************************************)
(* The files of src/storage: an upload parks an image in staging and queues *)
(* a job; the worker re-encodes what it finds there, puts the result under *)
(* the public key and drops the staged original.  A key accepts any number *)
(* of uploads until its token expires, jobs are tried three times, and a   *)
(* worker may die between two of its steps, after which the queue runs the *)
(* job once more.                                                          *)
(*                                                                         *)
(* A file is the number of the upload it comes from, 0 for none.  Jobs of  *)
(* one key may run at once, as with two instances of the application.  A   *)
(* write or a rename is one step: the half-written PDF a reader could meet *)
(* is left out, and so is the write that replaces a rename that fails.     *)
(***************************************************************************)
EXTENDS Naturals

CONSTANTS Keys,     \* storage keys of images
          PdfKeys,  \* storage keys of PDFs, stored as they come
          Uploads,  \* PUT requests, in order
          Attempts  \* of a job

ASSUME UploadsAssumption == Uploads \subseteq Nat \ {0}
ASSUME AttemptsAssumption == Attempts \in Nat \ {0}
ASSUME KeysAssumption == Keys \cap PdfKeys = {}

VARIABLES staged,     \* the file in staging, by key
          public,     \* the file that is served, by key
          upload,     \* each upload and its job
          keyExpired  \* keys whose token has expired

fileVars == <<staged, public, upload, keyExpired>>

\* Where an upload is: parked, its job waiting, running or ended, or lost with
\* its process before it was queued.  A job remembers the file it read.
Phases == {"NONE", "PARKED", "LOST", "WAITING", "READ", "PROMOTED", "DONE", "FAILED"}
NoKey == "NONE"
UploadRow == [phase : Phases, key : Keys \cup PdfKeys \cup {NoKey}, read : Uploads \cup {0},
              tries : 0..Attempts, stalled : BOOLEAN]
NoUpload == [phase |-> "NONE", key |-> NoKey, read |-> 0, tries |-> 0, stalled |-> FALSE]

FilesTypeOK == /\ staged \in [Keys -> Uploads \cup {0}]
               /\ public \in [Keys \cup PdfKeys -> Uploads \cup {0}]
               /\ upload \in [Uploads -> UploadRow]
               /\ keyExpired \subseteq Keys \cup PdfKeys

FilesInit == /\ staged = [k \in Keys |-> 0]
             /\ public = [k \in Keys \cup PdfKeys |-> 0]
             /\ upload = [u \in Uploads |-> NoUpload]
             /\ keyExpired = {}

------------------------------------------------------------------------------
(* UploadsController                                                       *)

IsNextUpload(u) == /\ upload[u].phase = "NONE"
                   /\ \A v \in Uploads : v < u => upload[v].phase # "NONE"

ExpireToken(k) == keyExpired' = keyExpired \cup {k} /\ UNCHANGED <<staged, public, upload>>

Park(u, k) ==
  /\ IsNextUpload(u)
  /\ k \notin keyExpired
  /\ staged' = [staged EXCEPT ![k] = u]
  /\ upload' = [upload EXCEPT ![u] = [NoUpload EXCEPT !.phase = "PARKED", !.key = k]]
  /\ UNCHANGED <<public, keyExpired>>

Enqueue(u) ==
  /\ upload[u].phase = "PARKED"
  /\ upload' = [upload EXCEPT ![u].phase = "WAITING"]
  /\ UNCHANGED <<staged, public, keyExpired>>

LoseUpload(u) ==
  /\ upload[u].phase = "PARKED"
  /\ upload' = [upload EXCEPT ![u].phase = "LOST"]
  /\ UNCHANGED <<staged, public, keyExpired>>

StorePdf(u, k) ==
  /\ IsNextUpload(u)
  /\ k \notin keyExpired
  /\ public' = [public EXCEPT ![k] = u]
  /\ upload' = [upload EXCEPT ![u] = [NoUpload EXCEPT !.phase = "DONE", !.key = k]]
  /\ UNCHANGED <<staged, keyExpired>>

------------------------------------------------------------------------------
(* ImageProcessingProcessor                                                *)

\* A job that finds nothing in staging is over; the variant takes the file away.
TakeStaging(u) ==
  LET found == staged[upload[u].key] IN
  /\ upload[u].phase = "WAITING"
  /\ upload' = [upload EXCEPT ![u].phase = IF found = 0 THEN "DONE" ELSE "READ", ![u].read = found]
  /\ staged' = [staged EXCEPT ![upload[u].key] = 0]
  /\ UNCHANGED <<public, keyExpired>>
ReadStaging(u) ==
  LET found == staged[upload[u].key] IN
  /\ upload[u].phase = "WAITING"
  /\ upload' = [upload EXCEPT ![u].phase = IF found = 0 THEN "DONE" ELSE "READ", ![u].read = found]
  /\ UNCHANGED <<staged, public, keyExpired>>

\* The bytes do not decode, or a write fails.
ProcessingFails(u) ==
  LET tries == upload[u].tries + 1 IN
  /\ upload[u].phase = "READ"
  /\ upload' = [upload EXCEPT ![u].tries = tries, ![u].read = 0,
                              ![u].phase = IF tries < Attempts THEN "WAITING" ELSE "FAILED"]
  /\ UNCHANGED <<staged, public, keyExpired>>

\* promoteStagingToFinal: the public key first, then staging.
Promote(u) ==
  /\ upload[u].phase = "READ"
  /\ public' = [public EXCEPT ![upload[u].key] = upload[u].read]
  /\ upload' = [upload EXCEPT ![u].phase = "PROMOTED"]
  /\ UNCHANGED <<staged, keyExpired>>

Unlink(u) ==
  /\ upload[u].phase = "PROMOTED"
  /\ staged' = [staged EXCEPT ![upload[u].key] = 0]
  /\ upload' = [upload EXCEPT ![u].phase = "DONE", ![u].read = 0, ![u].tries = @ + 1]
  /\ UNCHANGED <<public, keyExpired>>

\* The queue runs the job of a worker that died once more, a second time it fails.
WorkerDies(u) ==
  /\ upload[u].phase \in {"READ", "PROMOTED"}
  /\ upload' = [upload EXCEPT ![u].phase = IF upload[u].stalled THEN "FAILED" ELSE "WAITING",
                              ![u].stalled = TRUE, ![u].read = 0]
  /\ UNCHANGED <<staged, public, keyExpired>>

------------------------------------------------------------------------------
Put(u) ==
  \/ \E k \in Keys : Park(u, k)
  \/ \E k \in PdfKeys : StorePdf(u, k)
  \/ Enqueue(u)
  \/ LoseUpload(u)

Work(u) == ReadStaging(u) \/ ProcessingFails(u) \/ Promote(u) \/ Unlink(u) \/ WorkerDies(u)

FilesNext == \/ \E u \in Uploads : Put(u) \/ Work(u)
             \/ \E k \in Keys \cup PdfKeys : ExpireToken(k)

FilesSpec == FilesInit /\ [][FilesNext]_fileVars

------------------------------------------------------------------------------
(* Property                                                                *)

Queued(u) == upload[u].phase \notin {"NONE", "PARKED", "LOST"}
Ended(u) == upload[u].phase \in {"DONE", "FAILED"}

\* An image whose upload was answered is served when no job of its key is left,
\* unless a job used up its attempts, although jobs crash, repeat each other's
\* work and remove the file the others are to read.
EndedJobsServe ==
  \A k \in Keys :
    LET jobs == {u \in Uploads : upload[u].key = k /\ Queued(u)} IN
    jobs # {} /\ (\A u \in jobs : Ended(u)) =>
      public[k] # 0 \/ \E u \in jobs : upload[u].phase = "FAILED"
=============================================================================
