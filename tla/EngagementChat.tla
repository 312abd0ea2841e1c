---------------------------- MODULE EngagementChat ----------------------------
(***************************************************************************)
(* The conversation of an Engagement (src/engagement-chat) composed with   *)
(* the lifecycle of the Engagement, whose transitions it reports: each of  *)
(* the five handlers writes its system message in its own transaction,     *)
(* after its guarded update and only if there is a conversation.           *)
(*                                                                         *)
(* Of the messages of the parties only the one that opens the conversation *)
(* shows; their contents are left out and their images are in Uploads.     *)
(***************************************************************************)
EXTENDS EngagementLifecycle

VARIABLES conversation,  \* whether the EngagementChatConversation row exists
          told           \* the contents of its SYSTEM messages, in order

chatVars == <<conversation, told>>

Contents == {"WORK_STARTED", "WORK_FINISHED", "COMPLETION_CONFIRMED",
             "CANCELLED_BY_CUSTOMER", "CANCELLED_BY_PROFESSIONAL"}

ChatTypeOK == /\ conversation \in [Engagements -> BOOLEAN]
              /\ told \in [Engagements -> Seq(Contents)]

ChatInit == /\ Init
            /\ conversation = [e \in Engagements |-> FALSE]
            /\ told = [e \in Engagements |-> <<>>]

------------------------------------------------------------------------------
\* sendEngagementMessage, by a party and whatever the status is: the upsert of
\* the conversation and the message are one transaction.
SendMessage(e) ==
  /\ conversation' = [conversation EXCEPT ![e] = TRUE]
  /\ UNCHANGED <<vars, told>>

\* EmitEngagementLifecycleSystemMessageService; the variant tells the status.
EmitStatus(e, content) ==
  /\ told' = IF conversation[e] THEN [told EXCEPT ![e] = Append(@, status'[e])] ELSE told
  /\ UNCHANGED conversation
Emit(e, content) ==
  /\ told' = IF conversation[e] THEN [told EXCEPT ![e] = Append(@, content)] ELSE told
  /\ UNCHANGED conversation

StartWork(r) == StartWorkIfAccepted(r) /\ Emit(req[r].e, "WORK_STARTED")
FinishWork(e) == FinishWorkIfInProgress(e) /\ Emit(e, "WORK_FINISHED")
ConfirmCompletion(e) ==
  CompleteIfPendingCustomerConfirmation(e) /\ Emit(e, "COMPLETION_CONFIRMED")
\* Variant: the message is written before the guarded update is looked at.
CustomerCancelsToldFirst(r) ==
  \/ CancelByCustomer(r) /\ Emit(req[r].e, "CANCELLED_BY_CUSTOMER")
  \/ /\ req[r].pc = "cancel" /\ ~ Cancellable(req[r].e)
     /\ Emit(req[r].e, "CANCELLED_BY_CUSTOMER")
     /\ Finish(r)
     /\ UNCHANGED <<engVars, appointment, noShows>>
CustomerCancels(r) == CancelByCustomer(r) /\ Emit(req[r].e, "CANCELLED_BY_CUSTOMER")
ProfessionalCancels(e) == CancelByProfessional(e) /\ Emit(e, "CANCELLED_BY_PROFESSIONAL")

ChatNext ==
  \/ \E r \in Requests :
       \/ StartWork(r) \/ CustomerCancels(r)
       \/ (Begin(r) \/ IncrementNoShow(r) \/ GiveUp(r)) /\ UNCHANGED chatVars
  \/ \E e \in Engagements :
       SendMessage(e) \/ FinishWork(e) \/ ConfirmCompletion(e) \/ ProfessionalCancels(e)
  \/ \E k \in Appointments : Schedule(k) /\ UNCHANGED chatVars

------------------------------------------------------------------------------
(* Property                                                                *)

\* What the Engagement went through, from its timestamps and its ledger: only
\* the professional's cancellation refunds.
Story(e) ==
  LET Told(content, happened) == IF happened THEN <<content>> ELSE <<>>
      refunded == ledger[e] = <<"REFUND">>
      cancelled == "cancelledAt" \in stamped[e]
  IN Told("WORK_STARTED", "startedAt" \in stamped[e])
     \o Told("WORK_FINISHED", "finishedAt" \in stamped[e])
     \o Told("COMPLETION_CONFIRMED", "completedAt" \in stamped[e])
     \o Told("CANCELLED_BY_CUSTOMER", cancelled /\ ~ refunded)
     \o Told("CANCELLED_BY_PROFESSIONAL", cancelled /\ refunded)

\* From its first message on a conversation tells everything that happens to its
\* Engagement, once and in order, and nothing that a race prevented.
ConversationTellsTheStory ==
  \A e \in Engagements :
    \E n \in 0..Len(Story(e)) : told[e] = SubSeq(Story(e), n + 1, Len(Story(e)))
=============================================================================
