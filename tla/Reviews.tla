------------------------------- MODULE Reviews -------------------------------
(***************************************************************************)
(* The reviews the two parties of a completed Engagement write of each     *)
(* other, unseen by the other until he has written his own or the window   *)
(* after completedAt is over, and the moderation of their comments         *)
(* (src/reviews, src/platform-admin/reviews), on top of the Engagement     *)
(* they are about.                                                         *)
(*                                                                         *)
(* The settings that allow reviews and comments may have any value when    *)
(* they are read; ratings are left out.                                    *)
(***************************************************************************)
EXTENDS EngagementChat

VARIABLES review,    \* the Review rows, by Engagement and author
          elapsed,   \* Engagements completed a window ago
          seen,      \* who was shown what the other party wrote of him, and by what
          reviewReq  \* the handlers in flight

reviewVars == <<review, elapsed, seen, reviewReq>>

Comments == {"NONE", "PENDING", "APPROVED", "REJECTED"}
ReviewRow == [exists : BOOLEAN, comment : Comments]
NoReview == [exists |-> FALSE, comment |-> "NONE"]
ReviewRequest == [pc : {"idle", "submit", "moderate"}, e : Engagements \cup {NoEngagement},
                  party : Parties \cup {"NONE"}, comment : Comments]
IdleReview == [pc |-> "idle", e |-> NoEngagement, party |-> "NONE", comment |-> "NONE"]

\* A review is shown in myReceivedReviews and counts in the averageRating and the
\* reviewCount of the profile.
Channels == {"list", "summary"}

\* The types of the chat, of the reviews and of what their handlers carry.
RecordTypeOK ==
  /\ ChatTypeOK
  /\ review \in [Engagements -> [Parties -> ReviewRow]]
  /\ elapsed \subseteq Engagements
  /\ seen \subseteq Engagements \X Parties \X Channels
  /\ reviewReq \in [Requests -> ReviewRequest]

ReviewsInit == /\ ChatInit
               /\ review = [e \in Engagements |-> [p \in Parties |-> NoReview]]
               /\ elapsed = {}
               /\ seen = {}
               /\ reviewReq = [r \in Requests |-> IdleReview]

Other(p) == IF p = "CUSTOMER" THEN "PROFESSIONAL" ELSE "CUSTOMER"

------------------------------------------------------------------------------
\* submitEngagementReview: the status and the setting are read, the insert
\* then meets the unique key of Engagement and author.
ReadForSubmit(r, e, p) ==
  /\ reviewReq[r].pc = "idle"
  /\ status[e] = "COMPLETED"
  /\ \E comment \in {"NONE", "PENDING"} :
       reviewReq' = [reviewReq EXCEPT ![r] = [pc |-> "submit", e |-> e, party |-> p, comment |-> comment]]
  /\ UNCHANGED <<review, elapsed, seen>>

CreateReview(r) ==
  LET q == reviewReq[r] IN
  /\ q.pc = "submit"
  /\ ~ review[q.e][q.party].exists
  /\ review' = [review EXCEPT ![q.e][q.party] = [exists |-> TRUE, comment |-> q.comment]]
  /\ reviewReq' = [reviewReq EXCEPT ![r] = IdleReview]
  /\ UNCHANGED <<elapsed, seen>>

\* moderateEngagementReviewComment: the update repeats nothing of what was read.
ReadForModerate(r, e, p) ==
  /\ reviewReq[r].pc = "idle"
  /\ review[e][p].comment = "PENDING"
  /\ \E decision \in {"APPROVED", "REJECTED"} :
       reviewReq' = [reviewReq EXCEPT ![r] = [pc |-> "moderate", e |-> e, party |-> p, comment |-> decision]]
  /\ UNCHANGED <<review, elapsed, seen>>

UpdateModeration(r) ==
  LET q == reviewReq[r] IN
  /\ q.pc = "moderate"
  /\ review' = [review EXCEPT ![q.e][q.party].comment = q.comment]
  /\ reviewReq' = [reviewReq EXCEPT ![r] = IdleReview]
  /\ UNCHANGED <<elapsed, seen>>

\* A duplicate review, an exception, the death of the process.
GiveUpReview(r) ==
  /\ reviewReq[r].pc # "idle"
  /\ reviewReq' = [reviewReq EXCEPT ![r] = IdleReview]
  /\ UNCHANGED <<review, elapsed, seen>>

\* What myReceivedReviews shows the party of the review he received; the
\* variant resolves the double blind for both when one of them has written.
VisibleOnceWritten(e, p) == review[e][Other(p)].exists
Visible(e, p) == /\ review[e][Other(p)].exists
                 /\ review[e][p].exists \/ e \in elapsed

ListReceived(e, p) ==
  /\ Visible(e, p)
  /\ seen' = seen \cup {<<e, p, "list">>}
  /\ UNCHANGED <<review, elapsed, reviewReq>>

\* averageRating and reviewCount of the profile of the party count a review from
\* its insertion: who looks before and after it learns the rating.
ReadRatingSummary(e, p) ==
  /\ review[e][Other(p)].exists
  /\ seen' = seen \cup {<<e, p, "summary">>}
  /\ UNCHANGED <<review, elapsed, reviewReq>>

WindowElapses(e) ==
  /\ "completedAt" \in stamped[e]
  /\ elapsed' = elapsed \cup {e}
  /\ UNCHANGED <<review, seen, reviewReq>>

ReviewsNext ==
  \/ \E r \in Requests :
       \/ \E e \in Engagements, p \in Parties : ReadForSubmit(r, e, p) \/ ReadForModerate(r, e, p)
       \/ CreateReview(r) \/ UpdateModeration(r) \/ GiveUpReview(r)
  \/ \E e \in Engagements :
       \/ WindowElapses(e)
       \/ \E p \in Parties : ListReceived(e, p) \/ ReadRatingSummary(e, p)

RecordNext == \/ ChatNext /\ UNCHANGED reviewVars
              \/ ReviewsNext /\ UNCHANGED <<vars, chatVars>>

RecordSpec == ReviewsInit /\ [][RecordNext]_<<vars, chatVars, reviewVars>>

------------------------------------------------------------------------------
(* Properties                                                              *)

\* Nobody writes his review having been shown the other's in the list of those he
\* received, unless the window is over, in whatever order submissions and listings
\* come; and only completed work is reviewed, however the Engagement raced with
\* its cancellation.
Blind ==
  \A e \in Engagements, p \in Parties :
    ~ review[e][p].exists /\ review'[e][p].exists =>
      /\ <<e, p, "list">> \in seen => e \in elapsed
      /\ status[e] = "COMPLETED"
ListIsBlind == [][Blind]_<<vars, chatVars, reviewVars>>

\* Claim of the listing (neither side sees anything about the other's rating until
\* both have rated or the window lapses): nobody writes his review having been
\* shown something of the other's, by whatever the API shows it.
WrittenBlind ==
  [][\A e \in Engagements, p \in Parties, via \in Channels :
       ~ review[e][p].exists /\ review'[e][p].exists /\ <<e, p, via>> \in seen
         => e \in elapsed]_<<vars, chatVars, reviewVars>>
=============================================================================
