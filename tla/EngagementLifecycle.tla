------------------------- MODULE EngagementLifecycle -------------------------
(***************************************************************************)
(* The Engagements of one professional from acceptance to completion or    *)
(* cancellation, their appointments, the ledger events of cancellations    *)
(* and the no-show counters (src/engagements, src/appointments,            *)
(* src/ledger).                                                            *)
(*                                                                         *)
(* A handler whose first reads its write does not repeat is two steps; a   *)
(* handler whose guarded update repeats all it read is one.  The slot of   *)
(* an appointment is a pair <<startsAt, endsAt>>.  Amounts and reasons are *)
(* left out, and chat messages are in EngagementChat; a commission setting *)
(* that does not parse rolls the cancellation back, which is GiveUp.       *)
(***************************************************************************)
EXTENDS Integers, Sequences

CONSTANTS Engagements,   \* Engagement ids of the professional
          Appointments,  \* Appointment ids, in creation order
          Requests,      \* handlers that can be in flight at once
          Slots,         \* the time ranges that can be proposed
          MaxReports,    \* bound on no-show reports against each party
          NoEngagement

ASSUME AppointmentsAssumption == Appointments \subseteq Nat \ {0}
ASSUME SlotsAssumption == \A s \in Slots : s \in Int \X Int /\ s[1] < s[2]
ASSUME ReportsAssumption == MaxReports \in Nat
ASSUME NoEngagementAssumption == NoEngagement \notin Engagements

VARIABLES status,       \* Engagement.status
          stamped,      \* the timestamps of the Engagement that are set
          ledger,       \* the cancellation events of the Engagement, in order
          appointment,  \* the Appointment rows
          noShows,      \* noShowReportedCount of each party's profile
          req           \* the handlers in flight

engVars == <<status, stamped, ledger>>
vars == <<status, stamped, ledger, appointment, noShows, req>>

Statuses == {"ACCEPTED", "IN_PROGRESS", "PENDING_CUSTOMER_CONFIRMATION", "COMPLETED", "CANCELLED"}
Stamps == {"startedAt", "finishedAt", "completedAt", "cancelledAt"}
Parties == {"CUSTOMER", "PROFESSIONAL"}
Active == {"ACCEPTED", "IN_PROGRESS"}

\* A row not inserted yet has status NONE.
AppointmentRow == [status : {"NONE", "PENDING", "CONFIRMED", "CANCELLED"},
                   eng : Engagements \cup {NoEngagement},
                   slot : Slots \cup {<<>>}, confirmedAt : BOOLEAN]
NoAppointmentRow == [status |-> "NONE", eng |-> NoEngagement, slot |-> <<>>, confirmedAt |-> FALSE]

\* What a handler carries: its Engagement, the status it read (preCancelStatus)
\* and the party it reports.
Request == [pc : {"idle", "start", "cancel", "report"}, e : Engagements \cup {NoEngagement},
            pre : Active \cup {"NONE"}, party : Parties \cup {"NONE"}]
Idle == [pc |-> "idle", e |-> NoEngagement, pre |-> "NONE", party |-> "NONE"]

\* The types of the rows and of what handlers carry.
TypeOK ==
  /\ status \in [Engagements -> Statuses]
  /\ stamped \in [Engagements -> SUBSET Stamps]
  /\ ledger \in [Engagements -> Seq({"CHARGE", "REFUND"})]
  /\ appointment \in [Appointments -> AppointmentRow]
  /\ noShows \in [Parties -> Nat]
  /\ req \in [Requests -> Request]

------------------------------------------------------------------------------
(* Helpers                                                                 *)

Finish(r) == req' = [req EXCEPT ![r] = Idle]

Move(e, to, stamp) == /\ status' = [status EXCEPT ![e] = to]
                      /\ stamped' = [stamped EXCEPT ![e] = @ \cup {stamp}]

\* countConfirmedByEngagementId, and a count that forgets whose they are.
ConfirmedOfAnyone(e) == {k \in Appointments : appointment[k].status = "CONFIRMED"}
ConfirmedOf(e) == {k \in Appointments : /\ appointment[k].status = "CONFIRMED"
                                        /\ appointment[k].eng = e}

\* Half-open ranges that overlap, and what the constraint compares: the confirmed
\* appointments of the professional; the variant forgets those of other Engagements.
Overlap(s, t) == s[1] < t[2] /\ t[1] < s[2]
FreeInEngagement(k) ==
  \A j \in Appointments \ {k} :
    appointment[j].status = "CONFIRMED" /\ appointment[j].eng = appointment[k].eng =>
      ~ Overlap(appointment[j].slot, appointment[k].slot)
Free(k) ==
  \A j \in Appointments \ {k} :
    appointment[j].status = "CONFIRMED" => ~ Overlap(appointment[j].slot, appointment[k].slot)

\* The next row to insert.
IsNextAppointment(k) == /\ appointment[k].status = "NONE"
                        /\ \A j \in Appointments : j < k => appointment[j].status # "NONE"

\* The conditions of the guarded updates, and a variant that lost some of its.
Startable(e) == status[e] = "ACCEPTED"
CancellableUnlessCompleted(e) == status[e] # "COMPLETED"
Cancellable(e) == status[e] \in Active

\* Whether a customer's cancellation is charged, from the status read first.
Charged(pre) == pre = "IN_PROGRESS"

Init == /\ status = [e \in Engagements |-> "ACCEPTED"]
        /\ stamped = [e \in Engagements |-> {}]
        /\ ledger = [e \in Engagements |-> <<>>]
        /\ appointment = [k \in Appointments |-> NoAppointmentRow]
        /\ noShows = [p \in Parties |-> 0]
        /\ req = [r \in Requests |-> Idle]

------------------------------------------------------------------------------
(* Work                                                                    *)

\* startEngagementWork counts the confirmed appointments before its
\* transaction; the update looks at the status only.
ReadForStart(r, e) ==
  /\ req[r].pc = "idle"
  /\ status[e] = "ACCEPTED"
  /\ ConfirmedOf(e) # {}
  /\ req' = [req EXCEPT ![r] = [Idle EXCEPT !.pc = "start", !.e = e]]
  /\ UNCHANGED <<engVars, appointment, noShows>>

StartWorkIfAccepted(r) ==
  /\ req[r].pc = "start"
  /\ Startable(req[r].e)
  /\ Move(req[r].e, "IN_PROGRESS", "startedAt")
  /\ Finish(r)
  /\ UNCHANGED <<ledger, appointment, noShows>>

FinishWorkIfInProgress(e) ==
  /\ status[e] = "IN_PROGRESS"
  /\ Move(e, "PENDING_CUSTOMER_CONFIRMATION", "finishedAt")
  /\ UNCHANGED <<ledger, appointment, noShows, req>>

CompleteIfPendingCustomerConfirmation(e) ==
  /\ status[e] = "PENDING_CUSTOMER_CONFIRMATION"
  /\ Move(e, "COMPLETED", "completedAt")
  /\ UNCHANGED <<ledger, appointment, noShows, req>>

------------------------------------------------------------------------------
(* Cancellation                                                            *)

\* cancelEngagementByCustomer remembers the status it read; its transaction
\* cancels any active Engagement and charges by the status remembered.
ReadForCancel(r, e) ==
  /\ req[r].pc = "idle"
  /\ status[e] \in Active
  /\ req' = [req EXCEPT ![r] = [Idle EXCEPT !.pc = "cancel", !.e = e, !.pre = status[e]]]
  /\ UNCHANGED <<engVars, appointment, noShows>>

CancelByCustomer(r) ==
  LET e == req[r].e IN
  /\ req[r].pc = "cancel"
  /\ Cancellable(e)
  /\ Move(e, "CANCELLED", "cancelledAt")
  /\ ledger' = IF Charged(req[r].pre) THEN [ledger EXCEPT ![e] = Append(@, "CHARGE")] ELSE ledger
  /\ Finish(r)
  /\ UNCHANGED <<appointment, noShows>>

\* The professional's cancellation refunds whatever the status was.
CancelByProfessional(e) ==
  /\ Cancellable(e)
  /\ Move(e, "CANCELLED", "cancelledAt")
  /\ ledger' = [ledger EXCEPT ![e] = Append(@, "REFUND")]
  /\ UNCHANGED <<appointment, noShows, req>>

------------------------------------------------------------------------------
(* No-show reports                                                         *)

\* The party reported is the other one than the caller; the counter grows
\* without another look at the Engagement.
ReadForNoShow(r, e, party) ==
  /\ req[r].pc = "idle"
  /\ status[e] \in Active
  /\ noShows[party] < MaxReports
  /\ req' = [req EXCEPT ![r] = [Idle EXCEPT !.pc = "report", !.e = e, !.party = party]]
  /\ UNCHANGED <<engVars, appointment, noShows>>

IncrementNoShow(r) ==
  /\ req[r].pc = "report"
  /\ noShows' = [noShows EXCEPT ![req[r].party] = @ + 1]
  /\ Finish(r)
  /\ UNCHANGED <<engVars, appointment>>

------------------------------------------------------------------------------
(* Appointments                                                            *)

\* Either party proposes, whatever the status of the Engagement is.
ProposeAppointment(k, e, slot) ==
  /\ IsNextAppointment(k)
  /\ appointment' = [appointment EXCEPT ![k] =
       [status |-> "PENDING", eng |-> e, slot |-> slot, confirmedAt |-> FALSE]]
  /\ UNCHANGED <<engVars, noShows, req>>

\* The other party accepts; the exclusion constraint refuses an overlap.
ConfirmIfPending(k) ==
  /\ appointment[k].status = "PENDING"
  /\ Free(k)
  /\ appointment' = [appointment EXCEPT ![k] =
                       [@ EXCEPT !.status = "CONFIRMED", !.confirmedAt = TRUE]]
  /\ UNCHANGED <<engVars, noShows, req>>

CancelAppointment(k) ==
  /\ appointment[k].status \in {"PENDING", "CONFIRMED"}
  /\ appointment' = [appointment EXCEPT ![k].status = "CANCELLED"]
  /\ UNCHANGED <<engVars, noShows, req>>

------------------------------------------------------------------------------
\* The handler's guarded update touched no row, its transaction rolled back, or
\* its process died.
GiveUp(r) ==
  /\ req[r].pc # "idle"
  /\ Finish(r)
  /\ UNCHANGED <<engVars, appointment, noShows>>

Begin(r) ==
  \E e \in Engagements :
    \/ ReadForStart(r, e)
    \/ ReadForCancel(r, e)
    \/ \E party \in Parties : ReadForNoShow(r, e, party)

Continue(r) ==
  StartWorkIfAccepted(r) \/ CancelByCustomer(r) \/ IncrementNoShow(r) \/ GiveUp(r)

Progress(e) ==
  \/ FinishWorkIfInProgress(e)
  \/ CompleteIfPendingCustomerConfirmation(e)
  \/ CancelByProfessional(e)

Schedule(k) ==
  \/ \E e \in Engagements, slot \in Slots : ProposeAppointment(k, e, slot)
  \/ ConfirmIfPending(k)
  \/ CancelAppointment(k)

Next == \/ \E r \in Requests : Begin(r) \/ Continue(r)
        \/ \E e \in Engagements : Progress(e)
        \/ \E k \in Appointments : Schedule(k)

Spec == Init /\ [][Next]_vars

------------------------------------------------------------------------------
(* Properties                                                              *)

\* Whoever cancels, and however often cancellations race with each other and
\* with the work, an Engagement has at most one cancellation event, and only
\* once it is cancelled (cancelIfActive in the transaction of the event).
SettledOnce ==
  \A e \in Engagements : ledger[e] # <<>> => status[e] = "CANCELLED" /\ Len(ledger[e]) = 1

\* A customer is never charged for cancelling work that had not started
\* (recordIfApplicable on a status read before the transaction).
ChargedOnlyIfStarted ==
  \A e \in Engagements : ledger[e] = <<"CHARGE">> => "startedAt" \in stamped[e]

\* Work that started had been scheduled: both parties had agreed to an
\* appointment of this very Engagement (startEngagementWork).
StartedWorkWasScheduled ==
  \A e \in Engagements : "startedAt" \in stamped[e] =>
    \E k \in Appointments : appointment[k].eng = e /\ appointment[k].confirmedAt

\* The timestamps tell how the Engagement came to its status, whatever raced
\* with it; reviews measure their window from completedAt.
StampsTellTheStory ==
  \A e \in Engagements :
    /\ status[e] = "ACCEPTED" => stamped[e] = {}
    /\ status[e] = "IN_PROGRESS" => stamped[e] = {"startedAt"}
    /\ status[e] = "PENDING_CUSTOMER_CONFIRMATION" => stamped[e] = {"startedAt", "finishedAt"}
    /\ status[e] = "COMPLETED" => stamped[e] = {"startedAt", "finishedAt", "completedAt"}
    /\ status[e] = "CANCELLED" => stamped[e] \in {{"cancelledAt"}, {"startedAt", "cancelledAt"}}

\* The professional is never expected at two places at once, even when the
\* appointments of two Engagements are accepted at the same time.
NoDoubleBooking ==
  \A j, k \in Appointments :
    j # k /\ appointment[j].status = "CONFIRMED" /\ appointment[k].status = "CONFIRMED" =>
      ~ Overlap(appointment[j].slot, appointment[k].slot)

\* A handler that read an earlier status never brings an Engagement back.
Forward ==
  \A e \in Engagements : status'[e] # status[e] =>
    <<status[e], status'[e]>> \in
      {<<"ACCEPTED", "IN_PROGRESS">>, <<"ACCEPTED", "CANCELLED">>,
       <<"IN_PROGRESS", "PENDING_CUSTOMER_CONFIRMATION">>, <<"IN_PROGRESS", "CANCELLED">>,
       <<"PENDING_CUSTOMER_CONFIRMATION", "COMPLETED">>}
StatusMovesForward == [][Forward]_vars

\* "Cancelling while IN_PROGRESS -> a charge applies"
\* (record-customer-cancellation-charge.service.ts); the professional's
\* cancellation refunds instead.
InProgressSettled ==
  \A e \in Engagements :
    status[e] = "IN_PROGRESS" /\ status'[e] = "CANCELLED" => ledger'[e] # <<>>
InProgressCancellationIsSettled == [][InProgressSettled]_vars
=============================================================================
