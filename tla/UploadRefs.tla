------------------------------ MODULE UploadRefs ------------------------------
(***************************************************************************)
(* The upload references of one user: each reserves a file, and is spent   *)
(* by the document that attaches it.  Quotes, messages of a negotiation    *)
(* and messages of a conversation share the table of src/media-uploads,    *)
(* one use each; service requests and profile photos have tables of their  *)
(* own, which are spent less carefully.                                    *)
(*                                                                         *)
(* An attaching handler finds its references usable, then writes document  *)
(* and references in one transaction.  A reference may expire at any time  *)
(* after it was issued.  The files themselves are in ImageFiles.           *)
(***************************************************************************)
EXTENDS Naturals, FiniteSets

CONSTANTS Refs,       \* ids of the references
          Documents,  \* ids of the attaching documents, in creation order
          Attachers   \* handlers that can be in flight at once

ASSUME DocumentsAssumption == Documents \subseteq Nat \ {0}

VARIABLES ref,         \* the rows of the three tables
          refExpired,  \* the references past their expiresAt
          document,    \* what was written with attachments: a message, a photo, ...
          attaching    \* the handlers in flight

refVars == <<ref, refExpired, document, attaching>>

\* MediaUploadRefIntendedUse; of these only a quote takes several files at once.
MediaUses == {"QUOTE_ATTACHMENT", "QUOTE_NEGOTIATION_MESSAGE_IMAGE", "ENGAGEMENT_CHAT_MESSAGE_IMAGE"}
Uses == MediaUses \cup {"SERVICE_REQUEST_ATTACHMENT", "PROFILE_PHOTO"}
Several == {"QUOTE_ATTACHMENT", "SERVICE_REQUEST_ATTACHMENT"}

RefRow == [status : {"NONE", "PENDING", "CONSUMED"}, use : Uses \cup {"NONE"}]
NoRefRow == [status |-> "NONE", use |-> "NONE"]
DocumentRow == [use : Uses \cup {"NONE"}, refs : SUBSET Refs]
NoDocument == [use |-> "NONE", refs |-> {}]
AttachRequest == [pc : {"idle", "attach"}, use : Uses \cup {"NONE"}, refs : SUBSET Refs]
NotAttaching == [pc |-> "idle", use |-> "NONE", refs |-> {}]

\* The types of the rows and of what handlers carry; a document has attachments.
RefsTypeOK ==
  /\ ref \in [Refs -> RefRow]
  /\ refExpired \subseteq Refs
  /\ document \in [Documents -> DocumentRow]
  /\ attaching \in [Attachers -> AttachRequest]

------------------------------------------------------------------------------
FinishAttach(r) == attaching' = [attaching EXCEPT ![r] = NotAttaching]

IsNextDocument(d) == /\ document[d] = NoDocument
                     /\ \A c \in Documents : c < d => document[c] # NoDocument

\* findUsablePendingRefs and its siblings: for the use it was issued for.
Usable(f, use) == ref[f] = [status |-> "PENDING", use |-> use] /\ f \notin refExpired

\* markConsumed: the references still PENDING; the handlers of MediaUploadRef roll
\* back unless that is all of them, the variant does not look.
CountIgnored(fs) == \E f \in Refs : f \in fs
StillPending(fs) == \A f \in fs : ref[f].status = "PENDING"
MarkConsumed(fs) == ref' = [f \in Refs |-> IF f \in fs /\ ref[f].status = "PENDING"
                                           THEN [ref[f] EXCEPT !.status = "CONSUMED"] ELSE ref[f]]

RefsInit == /\ ref = [f \in Refs |-> NoRefRow]
            /\ refExpired = {}
            /\ document = [d \in Documents |-> NoDocument]
            /\ attaching = [r \in Attachers |-> NotAttaching]

------------------------------------------------------------------------------
\* requestMediaUploadUrl, requestServiceRequestAttachmentUploadUrl,
\* requestProfilePhotoUploadUrl.
CreateRef(f, use) ==
  /\ ref[f].status = "NONE"
  /\ ref' = [ref EXCEPT ![f] = [status |-> "PENDING", use |-> use]]
  /\ UNCHANGED <<refExpired, document, attaching>>

Expire(f) ==
  /\ ref[f].status # "NONE"
  /\ refExpired' = refExpired \cup {f}
  /\ UNCHANGED <<ref, document, attaching>>

FindUsableRefs(r, use, fs) ==
  /\ attaching[r].pc = "idle"
  /\ fs # {}
  /\ use \notin Several => Cardinality(fs) = 1
  /\ \A f \in fs : Usable(f, use)
  /\ attaching' = [attaching EXCEPT ![r] = [pc |-> "attach", use |-> use, refs |-> fs]]
  /\ UNCHANGED <<ref, refExpired, document>>

Write(r, d) ==
  /\ attaching[r].pc = "attach"
  /\ IsNextDocument(d)
  /\ document' = [document EXCEPT ![d] = [use |-> attaching[r].use, refs |-> attaching[r].refs]]
  /\ FinishAttach(r)
  /\ UNCHANGED refExpired

\* addQuoteAttachments, postQuoteNegotiationMessage, sendEngagementMessage.
AttachMedia(r, d) ==
  /\ attaching[r].use \in MediaUses
  /\ Write(r, d)
  /\ StillPending(attaching[r].refs)
  /\ MarkConsumed(attaching[r].refs)

\* publish consumes its references whatever their status is.
Publish(r, d) ==
  /\ attaching[r].use = "SERVICE_REQUEST_ATTACHMENT"
  /\ Write(r, d)
  /\ ref' = [f \in Refs |-> IF f \in attaching[r].refs
                            THEN [ref[f] EXCEPT !.status = "CONSUMED"] ELSE ref[f]]

\* upsertCustomerProfile and upsertProfessionalProfile set the photo even if the
\* reference was spent since.
UpsertPhoto(r, d) ==
  /\ attaching[r].use = "PROFILE_PHOTO"
  /\ Write(r, d)
  /\ MarkConsumed(attaching[r].refs)

\* A reference was spent meanwhile, an exception, the death of the process.
GiveUpAttach(r) ==
  /\ attaching[r].pc # "idle"
  /\ FinishAttach(r)
  /\ UNCHANGED <<ref, refExpired, document>>

Handle(r) ==
  \/ \E use \in Uses, fs \in SUBSET Refs : FindUsableRefs(r, use, fs)
  \/ \E d \in Documents : AttachMedia(r, d) \/ Publish(r, d) \/ UpsertPhoto(r, d)
  \/ GiveUpAttach(r)

Issue(f) == Expire(f) \/ \E use \in Uses : CreateRef(f, use)

RefsNext == (\E r \in Attachers : Handle(r)) \/ (\E f \in Refs : Issue(f))

RefsSpec == RefsInit /\ [][RefsNext]_refVars

------------------------------------------------------------------------------
(* Property                                                                *)

Attached(f) == {d \in Documents : f \in document[d].refs}

\* A reference is spent exactly when a document shows it, and what shows it is of
\* the use it was issued for, although the handlers look at it outside of their
\* transactions; a reference of MediaUploadRef is never spent twice.
RefsAreAccountedFor ==
  \A f \in Refs :
    /\ ref[f].status = "CONSUMED" <=> Attached(f) # {}
    /\ \A d \in Attached(f) : document[d].use = ref[f].use
    /\ ref[f].use \in MediaUses => \A c, d \in Attached(f) : c = d
=============================================================================
