---------------------- MODULE EngagementLifecycleProofs ----------------------
(***************************************************************************)
(* Theorems about EngagementLifecycle, about the conversation and the      *)
(* reviews on top of it (EngagementChat, Reviews), and about the uploads   *)
(* that messages, evidence and profiles show (UploadRefs, ImageFiles), for *)
(* every set of Engagements, appointments, handlers and slots, of keys,    *)
(* uploads and references.                                                 *)
(***************************************************************************)
EXTENDS Reviews, UploadRefs, ImageFiles, SequenceTheorems, TLAPS

\* Both parties had agreed to an appointment of the Engagement.
Scheduled(e) == \E k \in Appointments : appointment[k].eng = e /\ appointment[k].confirmedAt

\* What a handler may still rely on when it writes: the start of a scheduled
\* Engagement, a cancellation whose remembered status is in the past.
CarriedBy(r) ==
  /\ req[r].pc # "idle" => req[r].e \in Engagements
  /\ req[r].pc = "start" => Scheduled(req[r].e)
  /\ req[r].pc = "cancel" => /\ req[r].pre \in Active
                             /\ req[r].pre = "IN_PROGRESS" => "startedAt" \in stamped[req[r].e]
  /\ req[r].pc = "report" => req[r].party \in Parties
CarriedOK == \A r \in Requests : CarriedBy(r)

\* A confirmed appointment carries its timestamp, and a row that is not inserted
\* does not.
AppointmentsOK ==
  \A k \in Appointments : /\ appointment[k].status = "CONFIRMED" => appointment[k].confirmedAt
                          /\ appointment[k].status = "NONE" => ~ appointment[k].confirmedAt

\* A cancellation in flight remembers IN_PROGRESS only of started work because
\* the timestamps tell the story, so that invariant belongs to the typing one.
Typing == TypeOK /\ AppointmentsOK /\ StampsTellTheStory /\ CarriedOK

\* A step forgets neither a timestamp nor that an Engagement was scheduled.
NothingForgotten ==
  /\ \A e \in Engagements : stamped[e] \subseteq stamped'[e]
  /\ \A k \in Appointments : appointment[k].confirmedAt =>
       appointment'[k].confirmedAt /\ appointment'[k].eng = appointment[k].eng

-----------------------------------------------------------------------------
(* What handlers carry                                                     *)

\* A handler that waits is one.
LEMMA IdleTyped == Idle \in Request
  BY DEF Idle, Request

\* A job that had a confirmed appointment goes on having had it.
LEMMA ScheduledKept ==
  ASSUME NothingForgotten, NEW e, Scheduled(e)
  PROVE  Scheduled(e)'
  BY DEF NothingForgotten, Scheduled

\* A handler that does not move goes on carrying good values.
LEMMA CarriedByKept ==
  ASSUME Typing, NothingForgotten, NEW r \in Requests, req'[r] = req[r]
  PROVE  CarriedBy(r)'
<1>1. CarriedBy(r)
  BY DEF Typing, CarriedOK
<1>2. ASSUME req[r].pc = "start" PROVE Scheduled(req[r].e)'
  <2>1. Scheduled(req[r].e)
    BY <1>1, <1>2 DEF CarriedBy
  <2>2. \E k \in Appointments : appointment'[k].eng = req[r].e /\ appointment'[k].confirmedAt
    BY <2>1 DEF Scheduled, NothingForgotten
  <2> QED
    BY <2>2 DEF Scheduled
<1> QED
  BY <1>1, <1>2 DEF CarriedBy, NothingForgotten, Scheduled

\* What a handler that does not move has read still means something.
LEMMA CarriedKept ==
  ASSUME Typing, NothingForgotten,
         \A r \in Requests : req'[r] = req[r] \/ req'[r] = Idle
  PROVE  CarriedOK'
<1> SUFFICES ASSUME NEW r \in Requests PROVE CarriedBy(r)'
  BY DEF CarriedOK
<1>1. CASE req'[r] = req[r]
  BY <1>1, CarriedByKept
<1>2. CASE req'[r] = Idle
  BY <1>2 DEF CarriedBy, Idle
<1> QED
  BY <1>1, <1>2

\* A handler that ends leaves the others alone.
LEMMA Finished ==
  ASSUME Typing, NEW r \in Requests, Finish(r)
  PROVE  /\ req' \in [Requests -> Request]
         /\ \A s \in Requests : req'[s] = req[s] \/ req'[s] = Idle
  BY IdleTyped DEF Typing, TypeOK, Finish

\* The first step of a handler only fills its record.
LEMMA BeginTyping ==
  ASSUME Typing, NEW r \in Requests, Begin(r)
  PROVE  Typing' /\ UNCHANGED <<engVars, appointment, noShows>>
<1>1. ASSUME NEW new \in Request, req' = [req EXCEPT ![r] = new],
             UNCHANGED <<engVars, appointment, noShows>>,
             new.e \in Engagements, new.pc \in {"start", "cancel", "report"},
             new.pc = "start" => Scheduled(new.e),
             new.pc = "cancel" => /\ new.pre \in Active
                                  /\ new.pre = "IN_PROGRESS" => "startedAt" \in stamped[new.e],
             new.pc = "report" => new.party \in Parties
      PROVE  Typing'
  <2>1. req' \in [Requests -> Request]
    BY <1>1 DEF Typing, TypeOK
  <2>2. NothingForgotten
    BY <1>1 DEF NothingForgotten, engVars
  <2>3. ASSUME NEW s \in Requests PROVE CarriedBy(s)'
    <3>1. CASE s = r
      <4>1. req'[s] = new
        BY <1>1, <3>1 DEF Typing, TypeOK
      <4>2. new.pc = "start" =>
              \E k \in Appointments : appointment'[k].eng = new.e /\ appointment'[k].confirmedAt
        BY <1>1 DEF Scheduled
      <4> QED
        BY <1>1, <4>1, <4>2 DEF CarriedBy, Scheduled, engVars
    <3>2. CASE s # r
      <4>1. req'[s] = req[s]
        BY <1>1, <3>2 DEF Typing, TypeOK
      <4> QED
        BY <4>1, <2>2, CarriedByKept
    <3> QED
      BY <3>1, <3>2
  <2> QED
    BY <1>1, <2>1, <2>3 DEF Typing, TypeOK, AppointmentsOK, StampsTellTheStory, CarriedOK, engVars
<1>2. ASSUME NEW e \in Engagements, ReadForStart(r, e)
      PROVE  Typing' /\ UNCHANGED <<engVars, appointment, noShows>>
  <2> DEFINE new == [Idle EXCEPT !.pc = "start", !.e = e]
  <2>1. new \in Request /\ new.pc = "start" /\ new.e = e
    BY DEF Idle, Request
  <2>2. Scheduled(e)
    BY <1>2 DEF ReadForStart, ConfirmedOf, Scheduled, Typing, AppointmentsOK
  <2> HIDE DEF new
  <2>3. req' = [req EXCEPT ![r] = new] /\ UNCHANGED <<engVars, appointment, noShows>>
    BY <1>2 DEF ReadForStart, new
  <2> QED
    BY <2>1, <2>2, <2>3, <1>1
<1>3. ASSUME NEW e \in Engagements, ReadForCancel(r, e)
      PROVE  Typing' /\ UNCHANGED <<engVars, appointment, noShows>>
  <2> DEFINE new == [Idle EXCEPT !.pc = "cancel", !.e = e, !.pre = status[e]]
  <2>1. status[e] \in Active
    BY <1>3 DEF ReadForCancel
  <2>2. new \in Request /\ new.pc = "cancel" /\ new.e = e /\ new.pre = status[e]
    BY <2>1 DEF Idle, Request
  <2>3. status[e] = "IN_PROGRESS" => "startedAt" \in stamped[e]
    BY DEF Typing, StampsTellTheStory
  <2> HIDE DEF new
  <2>4. req' = [req EXCEPT ![r] = new] /\ UNCHANGED <<engVars, appointment, noShows>>
    BY <1>3 DEF ReadForCancel, new
  <2> QED
    BY <2>1, <2>2, <2>3, <2>4, <1>1
<1>4. ASSUME NEW e \in Engagements, NEW party \in Parties, ReadForNoShow(r, e, party)
      PROVE  Typing' /\ UNCHANGED <<engVars, appointment, noShows>>
  <2> DEFINE new == [Idle EXCEPT !.pc = "report", !.e = e, !.party = party]
  <2>1. new \in Request /\ new.pc = "report" /\ new.e = e /\ new.party = party
    BY DEF Idle, Request
  <2> HIDE DEF new
  <2>2. req' = [req EXCEPT ![r] = new] /\ UNCHANGED <<engVars, appointment, noShows>>
    BY <1>4 DEF ReadForNoShow, new
  <2> QED
    BY <2>1, <2>2, <1>1
<1> QED
  BY <1>2, <1>3, <1>4 DEF Begin

-----------------------------------------------------------------------------
(* The steps that write                                                    *)

\* A row of the lifecycle: from one status to the next with its timestamp.
MoveOf(e, from, to, stamp) == status[e] \in from /\ Move(e, to, stamp)

\* The five moves of an Engagement.
ValidMove(e) ==
  \/ MoveOf(e, {"ACCEPTED"}, "IN_PROGRESS", "startedAt")
  \/ MoveOf(e, {"IN_PROGRESS"}, "PENDING_CUSTOMER_CONFIRMATION", "finishedAt")
  \/ MoveOf(e, {"PENDING_CUSTOMER_CONFIRMATION"}, "COMPLETED", "completedAt")
  \/ MoveOf(e, Active, "CANCELLED", "cancelledAt")

\* A transition sets the stamp of its status, and of one Engagement only.
LEMMA MoveKeepsStory ==
  ASSUME Typing, NEW e \in Engagements, ValidMove(e)
  PROVE  /\ status' \in [Engagements -> Statuses]
         /\ stamped' \in [Engagements -> SUBSET Stamps]
         /\ \A f \in Engagements : stamped[f] \subseteq stamped'[f]
         /\ \A f \in Engagements : f # e => status'[f] = status[f] /\ stamped'[f] = stamped[f]
         /\ StampsTellTheStory'
<1>1. ASSUME NEW from, NEW to \in Statuses, NEW stamp \in Stamps, MoveOf(e, from, to, stamp)
      PROVE  /\ status' \in [Engagements -> Statuses]
             /\ stamped' \in [Engagements -> SUBSET Stamps]
             /\ \A f \in Engagements : stamped[f] \subseteq stamped'[f]
             /\ \A f \in Engagements : f # e => status'[f] = status[f] /\ stamped'[f] = stamped[f]
             /\ status'[e] = to /\ stamped'[e] = stamped[e] \cup {stamp}
  BY <1>1 DEF MoveOf, Move, Typing, TypeOK
<1>2. ASSUME NEW f \in Engagements, f # e, status'[f] = status[f], stamped'[f] = stamped[f]
      PROVE  /\ status'[f] = "ACCEPTED" => stamped'[f] = {}
             /\ status'[f] = "IN_PROGRESS" => stamped'[f] = {"startedAt"}
             /\ status'[f] = "PENDING_CUSTOMER_CONFIRMATION" => stamped'[f] = {"startedAt", "finishedAt"}
             /\ status'[f] = "COMPLETED" => stamped'[f] = {"startedAt", "finishedAt", "completedAt"}
             /\ status'[f] = "CANCELLED" =>
                  stamped'[f] \in {{"cancelledAt"}, {"startedAt", "cancelledAt"}}
  BY <1>2 DEF Typing, StampsTellTheStory
<1>3. CASE MoveOf(e, {"ACCEPTED"}, "IN_PROGRESS", "startedAt")
  <2>1. stamped[e] = {}
    BY <1>3 DEF MoveOf, Typing, StampsTellTheStory
  <2>2. "IN_PROGRESS" \in Statuses /\ "startedAt" \in Stamps
    BY DEF Statuses, Stamps
  <2> QED
    BY <1>1, <1>2, <1>3, <2>1, <2>2 DEF StampsTellTheStory
<1>4. CASE MoveOf(e, {"IN_PROGRESS"}, "PENDING_CUSTOMER_CONFIRMATION", "finishedAt")
  <2>1. stamped[e] = {"startedAt"}
    BY <1>4 DEF MoveOf, Typing, StampsTellTheStory
  <2>2. "PENDING_CUSTOMER_CONFIRMATION" \in Statuses /\ "finishedAt" \in Stamps
    BY DEF Statuses, Stamps
  <2> QED
    BY <1>1, <1>2, <1>4, <2>1, <2>2 DEF StampsTellTheStory
<1>5. CASE MoveOf(e, {"PENDING_CUSTOMER_CONFIRMATION"}, "COMPLETED", "completedAt")
  <2>1. stamped[e] = {"startedAt", "finishedAt"}
    BY <1>5 DEF MoveOf, Typing, StampsTellTheStory
  <2>2. "COMPLETED" \in Statuses /\ "completedAt" \in Stamps
    BY DEF Statuses, Stamps
  <2>3. stamped'[e] = {"startedAt", "finishedAt", "completedAt"} /\ status'[e] = "COMPLETED"
    BY <1>1, <1>5, <2>1, <2>2
  <2>4. StampsTellTheStory'
    BY <1>1, <1>2, <1>5, <2>2, <2>3 DEF StampsTellTheStory
  <2> QED
    BY <1>1, <1>5, <2>2, <2>4
<1>6. CASE MoveOf(e, Active, "CANCELLED", "cancelledAt")
  <2>1. stamped[e] \in {{}, {"startedAt"}}
    BY <1>6 DEF MoveOf, Active, Typing, StampsTellTheStory
  <2>2. "CANCELLED" \in Statuses /\ "cancelledAt" \in Stamps
    BY DEF Statuses, Stamps
  <2> QED
    BY <1>1, <1>2, <1>6, <2>1, <2>2 DEF StampsTellTheStory
<1> QED
  BY <1>3, <1>4, <1>5, <1>6 DEF ValidMove

\* Every step of Next that touches an Engagement's status is one of the moves.
LEMMA MovesAreValid ==
  ASSUME Typing
  PROVE  /\ \A r \in Requests : StartWorkIfAccepted(r) \/ CancelByCustomer(r) =>
                req[r].e \in Engagements /\ ValidMove(req[r].e)
         /\ \A e \in Engagements : Progress(e) => ValidMove(e)
  BY DEF StartWorkIfAccepted, CancelByCustomer, Startable, Cancellable, Progress,
         FinishWorkIfInProgress, CompleteIfPendingCustomerConfirmation, CancelByProfessional,
         ValidMove, MoveOf, Typing, CarriedOK, CarriedBy

\* An event appended to the ledger of one Engagement.
LEMMA EventTyped ==
  ASSUME NEW S, NEW event \in S, NEW log \in [Engagements -> Seq(S)], NEW e \in Engagements
  PROVE  [log EXCEPT ![e] = Append(@, event)] \in [Engagements -> Seq(S)]
<1>1. Append(log[e], event) \in Seq(S)
  OBVIOUS
<1> QED
  BY <1>1

\* The ledger of an Engagement takes another event.
LEMMA CancellationEventTyped ==
  ASSUME Typing, NEW e \in Engagements, NEW event \in {"CHARGE", "REFUND"}
  PROVE  [ledger EXCEPT ![e] = Append(@, event)] \in [Engagements -> Seq({"CHARGE", "REFUND"})]
  BY EventTyped, Zenon DEF Typing, TypeOK

\* A move with its ledger event, if any, keeps the types.
LEMMA MoveTyping ==
  ASSUME Typing, NEW e \in Engagements, ValidMove(e), UNCHANGED <<appointment, noShows>>,
         ledger' \in [Engagements -> Seq({"CHARGE", "REFUND"})],
         req' \in [Requests -> Request], \A r \in Requests : req'[r] = req[r] \/ req'[r] = Idle
  PROVE  Typing'
<1>1. NothingForgotten
  BY MoveKeepsStory DEF NothingForgotten
<1> QED
  BY <1>1, MoveKeepsStory, CarriedKept DEF Typing, TypeOK, AppointmentsOK

\* The second step of a handler keeps the types.
LEMMA ContinueTyping ==
  ASSUME Typing, NEW r \in Requests, Continue(r)
  PROVE  Typing'
<1>1. CASE StartWorkIfAccepted(r)
  BY <1>1, MovesAreValid, MoveTyping, Finished DEF StartWorkIfAccepted, Typing, TypeOK
<1>2. CASE CancelByCustomer(r)
  <2>1. ledger' \in {ledger, [ledger EXCEPT ![req[r].e] = Append(@, "CHARGE")]}
    BY <1>2 DEF CancelByCustomer
  <2>2. ledger' \in [Engagements -> Seq({"CHARGE", "REFUND"})]
    <3>1. req[r].e \in Engagements
      BY <1>2, MovesAreValid
    <3>2. /\ ledger \in [Engagements -> Seq({"CHARGE", "REFUND"})]
          /\ [ledger EXCEPT ![req[r].e] = Append(@, "CHARGE")]
               \in [Engagements -> Seq({"CHARGE", "REFUND"})]
      BY <3>1, CancellationEventTyped DEF Typing, TypeOK
    <3> QED
      BY <2>1, <3>2, Zenon
  <2> QED
    BY <1>2, <2>2, MovesAreValid, MoveTyping, Finished DEF CancelByCustomer
<1>3. CASE IncrementNoShow(r)
  <2>1. NothingForgotten
    BY <1>3 DEF IncrementNoShow, NothingForgotten, engVars
  <2>2. noShows' \in [Parties -> Nat]
    BY <1>3 DEF IncrementNoShow, Typing, TypeOK, CarriedOK, CarriedBy
  <2>3. Finish(r) /\ UNCHANGED <<engVars, appointment>>
    BY <1>3 DEF IncrementNoShow
  <2> QED
    BY <2>1, <2>2, <2>3, Finished, CarriedKept
       DEF Typing, TypeOK, AppointmentsOK, StampsTellTheStory, engVars
<1>4. CASE GiveUp(r)
  <2>1. NothingForgotten
    BY <1>4 DEF GiveUp, NothingForgotten, engVars
  <2>2. Finish(r) /\ UNCHANGED <<engVars, appointment, noShows>>
    BY <1>4 DEF GiveUp
  <2> QED
    BY <2>1, <2>2, Finished, CarriedKept
       DEF Typing, TypeOK, AppointmentsOK, StampsTellTheStory, engVars
<1> QED
  BY <1>1, <1>2, <1>3, <1>4 DEF Continue

\* Work that finishes, is confirmed or cancelled keeps the types.
LEMMA ProgressTyping ==
  ASSUME Typing, NEW e \in Engagements, Progress(e)
  PROVE  Typing'
<1>1. ledger' \in [Engagements -> Seq({"CHARGE", "REFUND"})]
  <2>1. ledger' \in {ledger, [ledger EXCEPT ![e] = Append(@, "REFUND")]}
    BY DEF Progress, FinishWorkIfInProgress, CompleteIfPendingCustomerConfirmation,
           CancelByProfessional
  <2> QED
    BY <2>1, CancellationEventTyped DEF Typing, TypeOK
<1>2. UNCHANGED <<appointment, noShows, req>>
  BY DEF Progress, FinishWorkIfInProgress, CompleteIfPendingCustomerConfirmation,
         CancelByProfessional
<1>3. req' \in [Requests -> Request] /\ \A r \in Requests : req'[r] = req[r]
  BY <1>2 DEF Typing, TypeOK
<1> QED
  BY <1>1, <1>2, <1>3, MovesAreValid, MoveTyping

\* What a step on appointment k does to the rows.
LEMMA ScheduleRows ==
  ASSUME Typing, NEW k \in Appointments, Schedule(k)
  PROVE  /\ appointment' \in [Appointments -> AppointmentRow]
         /\ AppointmentsOK' /\ NothingForgotten
         /\ UNCHANGED <<engVars, noShows, req>>
<1>1. appointment[k] \in AppointmentRow
  BY DEF Typing, TypeOK
<1>2. ASSUME NEW row \in AppointmentRow, appointment' = [appointment EXCEPT ![k] = row],
             row.status = "CONFIRMED" => row.confirmedAt, row.status # "NONE",
             appointment[k].confirmedAt => row.confirmedAt /\ row.eng = appointment[k].eng,
             UNCHANGED <<engVars, noShows, req>>
      PROVE  /\ appointment' \in [Appointments -> AppointmentRow]
             /\ AppointmentsOK' /\ NothingForgotten
             /\ UNCHANGED <<engVars, noShows, req>>
  <2>1. \A j \in Appointments : appointment'[j] = IF j = k THEN row ELSE appointment[j]
    BY <1>2 DEF Typing, TypeOK
  <2>2. appointment' \in [Appointments -> AppointmentRow]
    BY <1>2 DEF Typing, TypeOK
  <2>3. AppointmentsOK' /\ NothingForgotten
    BY <1>2, <2>1 DEF Typing, AppointmentsOK, NothingForgotten, engVars
  <2> QED
    BY <1>2, <2>2, <2>3
<1>3. ASSUME NEW e \in Engagements, NEW slot \in Slots, ProposeAppointment(k, e, slot)
      PROVE  /\ appointment' \in [Appointments -> AppointmentRow]
             /\ AppointmentsOK' /\ NothingForgotten
             /\ UNCHANGED <<engVars, noShows, req>>
  <2> DEFINE row == [status |-> "PENDING", eng |-> e, slot |-> slot, confirmedAt |-> FALSE]
  <2>1. row \in AppointmentRow /\ row.status = "PENDING"
    BY DEF AppointmentRow
  <2>2. ~ appointment[k].confirmedAt
    BY <1>3 DEF ProposeAppointment, IsNextAppointment, Typing, AppointmentsOK
  <2>3. appointment' = [appointment EXCEPT ![k] = row] /\ UNCHANGED <<engVars, noShows, req>>
    BY <1>3 DEF ProposeAppointment
  <2> HIDE DEF row
  <2> QED
    BY <2>1, <2>2, <2>3, <1>2
<1>4. CASE ConfirmIfPending(k)
  <2> DEFINE row == [appointment[k] EXCEPT !.status = "CONFIRMED", !.confirmedAt = TRUE]
  <2>1. /\ row \in AppointmentRow /\ row.status = "CONFIRMED" /\ row.confirmedAt
        /\ row.eng = appointment[k].eng
    BY <1>1 DEF AppointmentRow
  <2>2. appointment' = [appointment EXCEPT ![k] = row] /\ UNCHANGED <<engVars, noShows, req>>
    BY <1>4 DEF ConfirmIfPending
  <2> HIDE DEF row
  <2> QED
    BY <2>1, <2>2, <1>2
<1>5. CASE CancelAppointment(k)
  <2> DEFINE row == [appointment[k] EXCEPT !.status = "CANCELLED"]
  <2>1. /\ row \in AppointmentRow /\ row.status = "CANCELLED"
        /\ row.confirmedAt = appointment[k].confirmedAt
        /\ row.eng = appointment[k].eng
    BY <1>1 DEF AppointmentRow
  <2>2. appointment' = [appointment EXCEPT ![k] = row] /\ UNCHANGED <<engVars, noShows, req>>
    BY <1>5 DEF CancelAppointment
  <2> HIDE DEF row
  <2> QED
    BY <2>1, <2>2, <1>2
<1> QED
  BY <1>3, <1>4, <1>5 DEF Schedule

\* Appointments that are proposed, answered or cancelled keep the types.
LEMMA ScheduleTyping ==
  ASSUME Typing, NEW k \in Appointments, Schedule(k)
  PROVE  Typing'
<1>1. \A r \in Requests : req'[r] = req[r]
  BY ScheduleRows
<1> QED
  BY <1>1, ScheduleRows, CarriedKept DEF Typing, TypeOK, StampsTellTheStory, engVars

\* Engagements begin without a stamp.
LEMMA InitTyping == Init => Typing
<1> SUFFICES ASSUME Init PROVE Typing
  OBVIOUS
<1>1. NoAppointmentRow \in AppointmentRow
  BY DEF NoAppointmentRow, AppointmentRow
<1>2. TypeOK
  BY <1>1, IdleTyped DEF Init, TypeOK, Statuses
<1>3. AppointmentsOK /\ StampsTellTheStory /\ CarriedOK
  BY DEF Init, AppointmentsOK, NoAppointmentRow, StampsTellTheStory, CarriedOK, CarriedBy, Idle
<1> QED
  BY <1>2, <1>3 DEF Typing

\* Each step keeps the types and the stamps that tell the story.
LEMMA NextTyping == Typing /\ [Next]_vars => Typing'
<1> SUFFICES ASSUME Typing, [Next]_vars PROVE Typing'
  OBVIOUS
<1>1. CASE UNCHANGED vars
  BY <1>1 DEF vars, Typing, TypeOK, AppointmentsOK, StampsTellTheStory, CarriedOK, CarriedBy,
              Scheduled
<1> QED
  BY <1>1, BeginTyping, ContinueTyping, ProgressTyping, ScheduleTyping DEF Next

\* Engagements, appointments and handlers keep their types in every behaviour.
LEMMA TypingHolds == Spec => []Typing
  BY InitTyping, NextTyping, PTL DEF Spec

\* The rows and what the handlers carry keep their types.
THEOREM TypeCorrect == Spec => []TypeOK
<1>1. Typing => TypeOK
  BY DEF Typing
<1> QED
  BY <1>1, TypingHolds, PTL

\* The timestamps tell how the Engagement came to its status.
THEOREM StampsTellTheStoryHolds == Spec => []StampsTellTheStory
<1>1. Typing => StampsTellTheStory
  BY DEF Typing
<1> QED
  BY <1>1, TypingHolds, PTL

-----------------------------------------------------------------------------
(* Safety                                                                  *)

\* Which steps move an Engagement, and what they do to its ledger.
LEMMA MoveOrStay ==
  ASSUME Typing, [Next]_vars
  PROVE  \/ UNCHANGED engVars
         \/ \E e \in Engagements :
              /\ ValidMove(e)
              /\ \/ ledger' = ledger
                 \/ /\ status[e] \in Active /\ status' = [status EXCEPT ![e] = "CANCELLED"]
                    /\ ledger' = [ledger EXCEPT ![e] = Append(@, "REFUND")]
                 \/ \E r \in Requests :
                      /\ req[r].pc = "cancel" /\ req[r].e = e /\ req[r].pre = "IN_PROGRESS"
                      /\ status[e] \in Active /\ status' = [status EXCEPT ![e] = "CANCELLED"]
                      /\ ledger' = [ledger EXCEPT ![e] = Append(@, "CHARGE")]
<1>1. ASSUME NEW r \in Requests, Begin(r) PROVE UNCHANGED engVars
  BY <1>1, BeginTyping
<1>2. ASSUME NEW r \in Requests, IncrementNoShow(r) \/ GiveUp(r) PROVE UNCHANGED engVars
  BY <1>2 DEF IncrementNoShow, GiveUp
<1>3. ASSUME NEW k \in Appointments, Schedule(k) PROVE UNCHANGED engVars
  BY <1>3, ScheduleRows
<1>4. ASSUME NEW r \in Requests, StartWorkIfAccepted(r)
      PROVE  req[r].e \in Engagements /\ ValidMove(req[r].e) /\ ledger' = ledger
  BY <1>4, MovesAreValid DEF StartWorkIfAccepted
<1>5. ASSUME NEW r \in Requests, CancelByCustomer(r)
      PROVE  /\ req[r].e \in Engagements /\ ValidMove(req[r].e)
             /\ \/ ledger' = ledger
                \/ /\ req[r].pc = "cancel" /\ req[r].pre = "IN_PROGRESS"
                   /\ status[req[r].e] \in Active
                   /\ status' = [status EXCEPT ![req[r].e] = "CANCELLED"]
                   /\ ledger' = [ledger EXCEPT ![req[r].e] = Append(@, "CHARGE")]
  BY <1>5, MovesAreValid DEF CancelByCustomer, Cancellable, Charged, Move
<1>6. ASSUME NEW e \in Engagements, Progress(e)
      PROVE  /\ ValidMove(e)
             /\ \/ ledger' = ledger
                \/ /\ status[e] \in Active /\ status' = [status EXCEPT ![e] = "CANCELLED"]
                   /\ ledger' = [ledger EXCEPT ![e] = Append(@, "REFUND")]
  BY <1>6, MovesAreValid DEF Progress, FinishWorkIfInProgress,
     CompleteIfPendingCustomerConfirmation, CancelByProfessional, Cancellable, Move
<1>7. CASE UNCHANGED vars
  BY <1>7 DEF vars, engVars
<1> QED
  BY <1>1, <1>2, <1>3, <1>4, <1>5, <1>6, <1>7 DEF Next, Continue

\* Only an Engagement that is still active gets a cancellation event, and it is
\* cancelled in the same step.
LEMMA NextSettledOnce == Typing /\ SettledOnce /\ [Next]_vars => SettledOnce'
<1> SUFFICES ASSUME Typing, SettledOnce, [Next]_vars, NEW f \in Engagements, ledger'[f] # <<>>
             PROVE  status'[f] = "CANCELLED" /\ Len(ledger'[f]) = 1
  BY DEF SettledOnce
<1>1. CASE UNCHANGED engVars
  BY <1>1 DEF engVars, SettledOnce
<1>2. ASSUME NEW e \in Engagements, ValidMove(e), ledger' = ledger
      PROVE  status'[f] = "CANCELLED" /\ Len(ledger'[f]) = 1
  <2>1. status[f] = "CANCELLED" /\ Len(ledger[f]) = 1
    BY <1>2 DEF SettledOnce
  <2>2. status[e] # "CANCELLED"
    BY <1>2 DEF ValidMove, MoveOf, Active
  <2> QED
    BY <1>2, <2>1, <2>2, MoveKeepsStory
<1>3. ASSUME NEW e \in Engagements, status[e] \in Active,
             status' = [status EXCEPT ![e] = "CANCELLED"], NEW event \in {"CHARGE", "REFUND"},
             ledger' = [ledger EXCEPT ![e] = Append(@, event)]
      PROVE  status'[f] = "CANCELLED" /\ Len(ledger'[f]) = 1
  <2>1. CASE f = e
    <3>1. ledger[e] = <<>>
      BY <1>3 DEF SettledOnce, Active
    <3>2. ledger'[f] = Append(<<>>, event) /\ status'[f] = "CANCELLED"
      BY <1>3, <2>1, <3>1 DEF Typing, TypeOK
    <3> QED
      BY <3>2
  <2>2. CASE f # e
    BY <1>3, <2>2 DEF SettledOnce, Typing, TypeOK
  <2> QED
    BY <2>1, <2>2
<1> QED
  BY <1>1, <1>2, <1>3, MoveOrStay

\* An Engagement has at most one cancellation event, and only once cancelled.
THEOREM SettledOnceHolds == Spec => []SettledOnce
<1>1. Init => SettledOnce
  BY DEF Init, SettledOnce
<1> QED
  BY <1>1, NextSettledOnce, TypingHolds, PTL DEF Spec

\* A cancellation is charged by a handler that saw the work under way.
LEMMA NextChargedOnlyIfStarted ==
  Typing /\ SettledOnce /\ ChargedOnlyIfStarted /\ [Next]_vars => ChargedOnlyIfStarted'
<1> SUFFICES ASSUME Typing, SettledOnce, ChargedOnlyIfStarted, [Next]_vars,
                    NEW f \in Engagements, ledger'[f] = <<"CHARGE">>
             PROVE  "startedAt" \in stamped'[f]
  BY DEF ChargedOnlyIfStarted
<1>1. CASE UNCHANGED engVars
  BY <1>1 DEF engVars, ChargedOnlyIfStarted
<1>2. ASSUME NEW e \in Engagements, ValidMove(e), ledger'[f] = ledger[f]
      PROVE  "startedAt" \in stamped'[f]
  BY <1>2, MoveKeepsStory DEF ChargedOnlyIfStarted
<1>3. ASSUME NEW e \in Engagements, ValidMove(e), status[e] \in Active,
             ledger' = [ledger EXCEPT ![e] = Append(@, "REFUND")]
      PROVE  "startedAt" \in stamped'[f]
  <2>1. CASE f = e
    <3>1. ledger[e] = <<>>
      BY <1>3 DEF SettledOnce, Active
    <3>2. ledger'[f] = Append(<<>>, "REFUND")
      BY <1>3, <2>1, <3>1 DEF Typing, TypeOK
    <3>3. Append(<<>>, "REFUND") # <<"CHARGE">>
      OBVIOUS
    <3> QED
      BY <3>2, <3>3
  <2>2. CASE f # e
    <3>1. ledger'[f] = ledger[f]
      BY <1>3, <2>2 DEF Typing, TypeOK
    <3> QED
      BY <1>2, <1>3, <3>1
  <2> QED
    BY <2>1, <2>2
<1>4. ASSUME NEW e \in Engagements, ValidMove(e), NEW r \in Requests, req[r].pc = "cancel",
             req[r].e = e, req[r].pre = "IN_PROGRESS",
             ledger' = [ledger EXCEPT ![e] = Append(@, "CHARGE")]
      PROVE  "startedAt" \in stamped'[f]
  <2>1. CASE f = e
    <3>1. "startedAt" \in stamped[e]
      BY <1>4 DEF Typing, CarriedOK, CarriedBy
    <3> QED
      BY <1>4, <2>1, <3>1, MoveKeepsStory
  <2>2. CASE f # e
    <3>1. ledger'[f] = ledger[f]
      BY <1>4, <2>2 DEF Typing, TypeOK
    <3> QED
      BY <1>2, <1>4, <3>1
  <2> QED
    BY <2>1, <2>2
<1> QED
  BY <1>1, <1>2, <1>3, <1>4, MoveOrStay

\* Nobody is charged for cancelling work that had not started, although the
\* status that decides it was read before the transaction.
THEOREM ChargedOnlyIfStartedHolds == Spec => []ChargedOnlyIfStarted
<1>1. Init => ChargedOnlyIfStarted
  BY DEF Init, ChargedOnlyIfStarted
<1> QED
  BY <1>1, NextChargedOnlyIfStarted, SettledOnceHolds, TypingHolds, PTL DEF Spec

\* Every step forgets nothing.
LEMMA NextForgetsNothing == Typing /\ [Next]_vars => NothingForgotten
<1> SUFFICES ASSUME Typing, [Next]_vars PROVE NothingForgotten
  OBVIOUS
<1>1. ASSUME UNCHANGED appointment PROVE NothingForgotten
  <2>1. CASE UNCHANGED engVars
    BY <1>1, <2>1 DEF NothingForgotten, engVars
  <2>2. ASSUME NEW e \in Engagements, ValidMove(e) PROVE NothingForgotten
    BY <1>1, <2>2, MoveKeepsStory DEF NothingForgotten
  <2> QED
    BY <2>1, <2>2, MoveOrStay
<1>2. ASSUME NEW k \in Appointments, Schedule(k) PROVE NothingForgotten
  BY <1>2, ScheduleRows
<1>3. ASSUME NEW r \in Requests, Begin(r) PROVE UNCHANGED appointment
  BY <1>3, BeginTyping
<1>4. ASSUME NEW r \in Requests, Continue(r) PROVE UNCHANGED appointment
  BY <1>4 DEF Continue, StartWorkIfAccepted, CancelByCustomer, IncrementNoShow, GiveUp
<1>5. ASSUME NEW e \in Engagements, Progress(e) PROVE UNCHANGED appointment
  BY <1>5 DEF Progress, FinishWorkIfInProgress, CompleteIfPendingCustomerConfirmation,
              CancelByProfessional
<1>6. CASE UNCHANGED vars
  BY <1>1, <1>6 DEF vars
<1> QED
  BY <1>1, <1>2, <1>3, <1>4, <1>5, <1>6 DEF Next

\* Work starts with a confirmed appointment that its handler counted.
LEMMA NextScheduled ==
  Typing /\ StartedWorkWasScheduled /\ [Next]_vars => StartedWorkWasScheduled'
<1> SUFFICES ASSUME Typing, StartedWorkWasScheduled, [Next]_vars, NEW f \in Engagements,
                    "startedAt" \in stamped'[f]
             PROVE  Scheduled(f)'
  BY DEF StartedWorkWasScheduled, Scheduled
<1>1. CASE "startedAt" \in stamped[f]
  <2>1. Scheduled(f)
    BY <1>1 DEF StartedWorkWasScheduled, Scheduled
  <2> QED
    BY <2>1, NextForgetsNothing, ScheduledKept
<1>2. CASE "startedAt" \notin stamped[f]
  <2>1. PICK r \in Requests : StartWorkIfAccepted(r) /\ req[r].e = f
    <3>1. ASSUME NEW r \in Requests, StartWorkIfAccepted(r) PROVE req[r].e = f
      BY <3>1, <1>2, MovesAreValid, MoveKeepsStory
    <3>2. ASSUME NEW r \in Requests, CancelByCustomer(r) PROVE FALSE
      <4>1. req[r].e \in Engagements /\ Move(req[r].e, "CANCELLED", "cancelledAt")
        BY <3>2, MovesAreValid DEF CancelByCustomer
      <4> QED
        BY <4>1, <1>2 DEF Move, Typing, TypeOK
    <3>3. ASSUME NEW e \in Engagements, Progress(e) PROVE FALSE
      <4>1. ASSUME NEW to, NEW stamp, stamp # "startedAt", Move(e, to, stamp) PROVE FALSE
        BY <4>1, <1>2 DEF Move, Typing, TypeOK
      <4>2. CASE FinishWorkIfInProgress(e)
        BY <4>1, <4>2 DEF FinishWorkIfInProgress
      <4>3. CASE CompleteIfPendingCustomerConfirmation(e)
        BY <4>1, <4>3 DEF CompleteIfPendingCustomerConfirmation
      <4>4. CASE CancelByProfessional(e)
        BY <4>1, <4>4 DEF CancelByProfessional
      <4> QED
        BY <3>3, <4>2, <4>3, <4>4 DEF Progress
    <3>4. ~ UNCHANGED engVars
      BY <1>2 DEF engVars
    <3>5. ASSUME NEW r \in Requests, Begin(r) PROVE FALSE
      BY <3>4, <3>5, BeginTyping
    <3>6. ASSUME NEW r \in Requests, IncrementNoShow(r) \/ GiveUp(r) PROVE FALSE
      BY <3>4, <3>6 DEF IncrementNoShow, GiveUp
    <3>7. ASSUME NEW k \in Appointments, Schedule(k) PROVE FALSE
      BY <3>4, <3>7, ScheduleRows
    <3>8. ~ UNCHANGED vars
      BY <3>4 DEF vars, engVars
    <3> QED
      BY <3>1, <3>2, <3>3, <3>5, <3>6, <3>7, <3>8 DEF Next, Continue
  <2>2. Scheduled(f)
    BY <2>1 DEF StartWorkIfAccepted, Typing, CarriedOK, CarriedBy
  <2> QED
    BY <2>2, NextForgetsNothing, ScheduledKept
<1> QED
  BY <1>1, <1>2

\* Work only starts on an appointment both parties had agreed to, even if the
\* appointment is cancelled while the start is in flight.
THEOREM StartedWorkWasScheduledHolds == Spec => []StartedWorkWasScheduled
<1>1. Init => StartedWorkWasScheduled
  BY DEF Init, StartedWorkWasScheduled
<1> QED
  BY <1>1, NextScheduled, TypingHolds, PTL DEF Spec

\* Overlapping is mutual.
LEMMA OverlapSymmetric == \A s, t : Overlap(s, t) <=> Overlap(t, s)
  BY DEF Overlap

\* An acceptance takes a slot that overlaps no confirmed one of the professional.
LEMMA NextNoDoubleBooking == Typing /\ NoDoubleBooking /\ [Next]_vars => NoDoubleBooking'
<1> SUFFICES ASSUME Typing, NoDoubleBooking, [Next]_vars PROVE NoDoubleBooking'
  OBVIOUS
<1>1. CASE UNCHANGED appointment
  BY <1>1 DEF NoDoubleBooking
<1>2. ASSUME NEW k \in Appointments, NEW row, appointment' = [appointment EXCEPT ![k] = row],
             row.status # "CONFIRMED"
      PROVE  NoDoubleBooking'
  <2>1. \A j \in Appointments : appointment'[j] = IF j = k THEN row ELSE appointment[j]
    BY <1>2 DEF Typing, TypeOK
  <2> QED
    BY <1>2, <2>1 DEF NoDoubleBooking
<1>3. ASSUME NEW k \in Appointments, NEW e \in Engagements, NEW slot \in Slots,
             ProposeAppointment(k, e, slot)
      PROVE  NoDoubleBooking'
  <2> DEFINE row == [status |-> "PENDING", eng |-> e, slot |-> slot, confirmedAt |-> FALSE]
  <2>1. row.status # "CONFIRMED" /\ appointment' = [appointment EXCEPT ![k] = row]
    BY <1>3 DEF ProposeAppointment
  <2> HIDE DEF row
  <2> QED
    BY <2>1, <1>2
<1>4. ASSUME NEW k \in Appointments, CancelAppointment(k) PROVE NoDoubleBooking'
  <2> DEFINE row == [appointment[k] EXCEPT !.status = "CANCELLED"]
  <2>1. row.status # "CONFIRMED" /\ appointment' = [appointment EXCEPT ![k] = row]
    BY <1>4 DEF CancelAppointment, Typing, TypeOK, AppointmentRow
  <2> HIDE DEF row
  <2> QED
    BY <2>1, <1>2
<1>5. ASSUME NEW k \in Appointments, ConfirmIfPending(k) PROVE NoDoubleBooking'
  <2>1. \A j \in Appointments : /\ appointment'[j].slot = appointment[j].slot
                                /\ j # k => appointment'[j] = appointment[j]
    <3>1. appointment' = [appointment EXCEPT ![k] =
                           [appointment[k] EXCEPT !.status = "CONFIRMED", !.confirmedAt = TRUE]]
      BY <1>5 DEF ConfirmIfPending
    <3>2. [appointment[k] EXCEPT !.status = "CONFIRMED", !.confirmedAt = TRUE].slot
            = appointment[k].slot
      BY DEF Typing, TypeOK, AppointmentRow
    <3> QED
      BY <3>1, <3>2 DEF Typing, TypeOK
  <2>2. Free(k)
    BY <1>5 DEF ConfirmIfPending
  <2> QED
    BY <2>1, <2>2, OverlapSymmetric DEF NoDoubleBooking, Free
<1>6. ASSUME NEW r \in Requests, Begin(r) PROVE UNCHANGED appointment
  BY <1>6, BeginTyping
<1>7. ASSUME NEW r \in Requests, Continue(r) PROVE UNCHANGED appointment
  BY <1>7 DEF Continue, StartWorkIfAccepted, CancelByCustomer, IncrementNoShow, GiveUp
<1>8. ASSUME NEW e \in Engagements, Progress(e) PROVE UNCHANGED appointment
  BY <1>8 DEF Progress, FinishWorkIfInProgress, CompleteIfPendingCustomerConfirmation,
              CancelByProfessional
<1>9. CASE UNCHANGED vars
  BY <1>1, <1>9 DEF vars
<1> QED
  BY <1>1, <1>3, <1>4, <1>5, <1>6, <1>7, <1>8, <1>9 DEF Next, Schedule

\* The professional is never expected at two places at once.
THEOREM NoDoubleBookingHolds == Spec => []NoDoubleBooking
<1>1. Init => NoDoubleBooking
  BY DEF Init, NoDoubleBooking, NoAppointmentRow
<1> QED
  BY <1>1, NextNoDoubleBooking, TypingHolds, PTL DEF Spec

\* A step moves a status on, or leaves it.
LEMMA ForwardStep == Typing /\ [Next]_vars => Forward
<1> SUFFICES ASSUME Typing, [Next]_vars, NEW f \in Engagements, status'[f] # status[f]
             PROVE  <<status[f], status'[f]>> \in
                      {<<"ACCEPTED", "IN_PROGRESS">>, <<"ACCEPTED", "CANCELLED">>,
                       <<"IN_PROGRESS", "PENDING_CUSTOMER_CONFIRMATION">>,
                       <<"IN_PROGRESS", "CANCELLED">>,
                       <<"PENDING_CUSTOMER_CONFIRMATION", "COMPLETED">>}
  BY DEF Forward
<1>1. PICK e \in Engagements : ValidMove(e)
  BY MoveOrStay DEF engVars
<1>2. f = e
  BY <1>1, MoveKeepsStory
<1> QED
  BY <1>1, <1>2 DEF ValidMove, MoveOf, Move, Active, Typing, TypeOK

\* A stale handler never brings an Engagement back to an earlier status.
THEOREM StatusMovesForwardHolds == Spec => StatusMovesForward
<1>1. Typing /\ [Next]_vars => [Forward]_vars
  BY ForwardStep
<1> QED
  BY <1>1, TypingHolds, PTL DEF Spec, StatusMovesForward

-----------------------------------------------------------------------------
(* The conversation and the reviews                                        *)

\* What is added to the lifecycle takes no step of its own in it.
LEMMA RecordIsWork ==
  ASSUME [RecordNext]_<<vars, chatVars, reviewVars>>
  PROVE  [Next]_vars
<1>1. ASSUME NEW r \in Requests, StartWork(r) \/ CustomerCancels(r) PROVE Next
  BY <1>1 DEF StartWork, CustomerCancels, Next, Continue
<1>2. ASSUME NEW r \in Requests, Begin(r) \/ IncrementNoShow(r) \/ GiveUp(r) PROVE Next
  BY <1>2 DEF Next, Continue
<1>3. ASSUME NEW e \in Engagements,
             FinishWork(e) \/ ConfirmCompletion(e) \/ ProfessionalCancels(e)
      PROVE  Next
  BY <1>3 DEF FinishWork, ConfirmCompletion, ProfessionalCancels, Next, Progress
<1>4. ASSUME NEW e \in Engagements, SendMessage(e) PROVE UNCHANGED vars
  BY <1>4 DEF SendMessage
<1>5. ASSUME NEW k \in Appointments, Schedule(k) PROVE Next
  BY <1>5 DEF Next
<1>6. CASE ChatNext
  BY <1>1, <1>2, <1>3, <1>4, <1>5, <1>6 DEF ChatNext
<1> QED
  BY <1>6 DEF RecordNext

\* With conversation and reviews, Engagements begin as without.
LEMMA RecordInit ==
  ASSUME ReviewsInit PROVE Typing /\ SettledOnce
  BY InitTyping DEF ReviewsInit, ChatInit, Init, SettledOnce

\* Conversation and reviews leave alone what the transitions keep.
LEMMA RecordWorks == RecordSpec => [](Typing /\ SettledOnce)
<1>1. Typing /\ SettledOnce /\ [RecordNext]_<<vars, chatVars, reviewVars>> => (Typing /\ SettledOnce)'
  BY RecordIsWork, NextTyping, NextSettledOnce
<1> QED
  BY <1>1, RecordInit, PTL DEF RecordSpec

\* The story of an Engagement, from its timestamps and its ledger alone.
Then(s, content, happened) == IF happened THEN Append(s, content) ELSE s
Tale(stamps, events) ==
  Then(Then(Then(Then(Then(<<>>, "WORK_STARTED", "startedAt" \in stamps),
                      "WORK_FINISHED", "finishedAt" \in stamps),
                 "COMPLETION_CONFIRMED", "completedAt" \in stamps),
            "CANCELLED_BY_CUSTOMER", "cancelledAt" \in stamps /\ events # <<"REFUND">>),
       "CANCELLED_BY_PROFESSIONAL", "cancelledAt" \in stamps /\ events = <<"REFUND">>)

\* To tell something more is to append it.
LEMMA ThenIsConcat ==
  ASSUME NEW s \in Seq(Contents), NEW content \in Contents, NEW happened \in BOOLEAN
  PROVE  /\ Then(s, content, happened) \in Seq(Contents)
         /\ s \o (IF happened THEN <<content>> ELSE <<>>) = Then(s, content, happened)
<1>1. s \o <<>> = s
  BY ConcatEmptySeq
<1>2. s \o <<content>> = Append(s, content)
  BY AppendIsConcat
<1>3. Append(s, content) \in Seq(Contents)
  BY AppendProperties
<1> QED
  BY <1>1, <1>2, <1>3 DEF Then

\* A tale is one word for each stamp and each cancellation, in their order.
LEMMA TaleIs ==
  ASSUME NEW stamps, NEW events
  PROVE  /\ Tale(stamps, events) \in Seq(Contents)
         /\ Tale(stamps, events) =
              (IF "startedAt" \in stamps THEN <<"WORK_STARTED">> ELSE <<>>)
              \o (IF "finishedAt" \in stamps THEN <<"WORK_FINISHED">> ELSE <<>>)
              \o (IF "completedAt" \in stamps THEN <<"COMPLETION_CONFIRMED">> ELSE <<>>)
              \o (IF "cancelledAt" \in stamps /\ events # <<"REFUND">>
                    THEN <<"CANCELLED_BY_CUSTOMER">> ELSE <<>>)
              \o (IF "cancelledAt" \in stamps /\ events = <<"REFUND">>
                    THEN <<"CANCELLED_BY_PROFESSIONAL">> ELSE <<>>)
<1> DEFINE A == Then(<<>>, "WORK_STARTED", "startedAt" \in stamps)
           B == Then(A, "WORK_FINISHED", "finishedAt" \in stamps)
           C == Then(B, "COMPLETION_CONFIRMED", "completedAt" \in stamps)
           D == Then(C, "CANCELLED_BY_CUSTOMER", "cancelledAt" \in stamps /\ events # <<"REFUND">>)
           E == Then(D, "CANCELLED_BY_PROFESSIONAL",
                     "cancelledAt" \in stamps /\ events = <<"REFUND">>)
           W(happened, content) == IF happened THEN <<content>> ELSE <<>>
<1> \A c \in {"WORK_STARTED", "WORK_FINISHED", "COMPLETION_CONFIRMED",
              "CANCELLED_BY_CUSTOMER", "CANCELLED_BY_PROFESSIONAL"} : c \in Contents
  BY DEF Contents
<1>1. /\ A = W("startedAt" \in stamps, "WORK_STARTED")
      /\ A \in Seq(Contents)
  <2>1. <<>> \in Seq(Contents) /\ Append(<<>>, "WORK_STARTED") = <<"WORK_STARTED">>
    OBVIOUS
  <2> QED
    BY <2>1, ThenIsConcat DEF Then
<1>2. B = A \o W("finishedAt" \in stamps, "WORK_FINISHED") /\ B \in Seq(Contents)
  <2> HIDE DEF A
  <2> DEFINE happened == "finishedAt" \in stamps
  <2>1. happened \in BOOLEAN
    OBVIOUS
  <2> HIDE DEF happened
  <2>2. /\ Then(A, "WORK_FINISHED", happened) = A \o W(happened, "WORK_FINISHED")
        /\ Then(A, "WORK_FINISHED", happened) \in Seq(Contents)
    BY <1>1, <2>1, ThenIsConcat
  <2> QED
    BY <2>2 DEF happened
<1>3. C = B \o W("completedAt" \in stamps, "COMPLETION_CONFIRMED") /\ C \in Seq(Contents)
  <2> HIDE DEF B
  <2> DEFINE happened == "completedAt" \in stamps
  <2>1. happened \in BOOLEAN
    OBVIOUS
  <2> HIDE DEF happened
  <2>2. /\ Then(B, "COMPLETION_CONFIRMED", happened) = B \o W(happened, "COMPLETION_CONFIRMED")
        /\ Then(B, "COMPLETION_CONFIRMED", happened) \in Seq(Contents)
    BY <1>2, <2>1, ThenIsConcat
  <2> QED
    BY <2>2 DEF happened
<1>4. /\ D = C \o W("cancelledAt" \in stamps /\ events # <<"REFUND">>, "CANCELLED_BY_CUSTOMER")
      /\ D \in Seq(Contents)
  <2> HIDE DEF C
  <2> DEFINE happened == "cancelledAt" \in stamps /\ events # <<"REFUND">>
  <2>1. happened \in BOOLEAN
    OBVIOUS
  <2> HIDE DEF happened
  <2>2. /\ Then(C, "CANCELLED_BY_CUSTOMER", happened) = C \o W(happened, "CANCELLED_BY_CUSTOMER")
        /\ Then(C, "CANCELLED_BY_CUSTOMER", happened) \in Seq(Contents)
    BY <1>3, <2>1, ThenIsConcat
  <2> QED
    BY <2>2 DEF happened
<1>5. /\ E = D \o W("cancelledAt" \in stamps /\ events = <<"REFUND">>, "CANCELLED_BY_PROFESSIONAL")
      /\ E \in Seq(Contents)
  <2> HIDE DEF D
  <2> DEFINE happened == "cancelledAt" \in stamps /\ events = <<"REFUND">>
  <2>1. happened \in BOOLEAN
    OBVIOUS
  <2> HIDE DEF happened
  <2>2. /\ Then(D, "CANCELLED_BY_PROFESSIONAL", happened)
             = D \o W(happened, "CANCELLED_BY_PROFESSIONAL")
        /\ Then(D, "CANCELLED_BY_PROFESSIONAL", happened) \in Seq(Contents)
    BY <1>4, <2>1, ThenIsConcat
  <2> QED
    BY <2>2 DEF happened
<1>6. Tale(stamps, events) = E
  BY DEF Tale
<1> HIDE DEF A, B, C, D, E
<1> QED
  BY <1>1, <1>2, <1>3, <1>4, <1>5, <1>6

\* The story of an Engagement is the tale of its stamps and its ledger.
LEMMA StoryIsTale ==
  ASSUME NEW e
  PROVE  /\ Story(e) = Tale(stamped[e], ledger[e])
         /\ Story(e)' = Tale(stamped'[e], ledger'[e])
         /\ Story(e) \in Seq(Contents)
  BY TaleIs DEF Story

\* A step tells Engagement f its next content, or nothing happens to f.
Happens(f, content) ==
  /\ Story(f)' = Append(Story(f), content)
  /\ told'[f] = IF conversation[f] THEN Append(told[f], content) ELSE told[f]
  /\ conversation'[f] = conversation[f]
Quiet(f) == /\ Story(f)' = Story(f)
            /\ told'[f] = told[f]
            /\ conversation[f] => conversation'[f]

\* What the proof assumes of the state before a step.
RecordInv == Typing /\ SettledOnce /\ ChatTypeOK

\* A transition extends the story by its own content.
LEMMA TransitionTold ==
  ASSUME RecordInv, NEW e \in Engagements, NEW content \in Contents,
         NEW stamp \in Stamps, stamped' = [stamped EXCEPT ![e] = @ \cup {stamp}],
         \A f \in Engagements \ {e} : ledger'[f] = ledger[f],
         Tale(stamped[e] \cup {stamp}, ledger'[e]) = Append(Tale(stamped[e], ledger[e]), content),
         Emit(e, content)
  PROVE  Happens(e, content) /\ \A f \in Engagements \ {e} : Quiet(f)
<1>1. stamped'[e] = stamped[e] \cup {stamp} /\ \A f \in Engagements \ {e} : stamped'[f] = stamped[f]
  BY DEF RecordInv, Typing, TypeOK
<1>2. told \in [Engagements -> Seq(Contents)] /\ conversation \in [Engagements -> BOOLEAN]
  BY DEF RecordInv, ChatTypeOK
<1>3. /\ told'[e] = IF conversation[e] THEN Append(told[e], content) ELSE told[e]
      /\ \A f \in Engagements \ {e} : told'[f] = told[f]
      /\ conversation' = conversation
  BY <1>2 DEF Emit
<1>4. Happens(e, content)
  BY <1>1, <1>3, StoryIsTale DEF Happens
<1>5. ASSUME NEW f \in Engagements \ {e} PROVE Quiet(f)
  BY <1>1, <1>3, StoryIsTale DEF Quiet
<1> QED
  BY <1>4, <1>5

\* An Engagement that is not cancelled has no event.
LEMMA NothingOwed ==
  ASSUME RecordInv, NEW e \in Engagements, status[e] # "CANCELLED"
  PROVE  ledger[e] = <<>>
  BY DEF RecordInv, SettledOnce

\* Work that starts is one more word in the story of its Engagement.
LEMMA StartTold ==
  ASSUME RecordInv, NEW r \in Requests, StartWork(r)
  PROVE  \E e \in Engagements :
           Happens(e, "WORK_STARTED") /\ \A f \in Engagements \ {e} : Quiet(f)
<1> DEFINE e == req[r].e
<1>1. /\ e \in Engagements /\ stamped[e] = {} /\ ledger' = ledger
      /\ stamped' = [stamped EXCEPT ![e] = @ \cup {"startedAt"}] /\ Emit(e, "WORK_STARTED")
  BY DEF StartWork, StartWorkIfAccepted, Startable, Move, RecordInv, Typing, CarriedOK, CarriedBy,
         StampsTellTheStory
<1>2. Tale({} \cup {"startedAt"}, ledger[e]) = Append(Tale({}, ledger[e]), "WORK_STARTED")
  BY DEF Tale, Then
<1> HIDE DEF e
<1>3. Happens(e, "WORK_STARTED") /\ \A f \in Engagements \ {e} : Quiet(f)
  BY <1>1, <1>2, TransitionTold DEF Contents, Stamps
<1> QED
  BY <1>1, <1>3

\* Work that finishes is one more word in the story of its Engagement.
LEMMA FinishTold ==
  ASSUME RecordInv, NEW e \in Engagements, FinishWork(e)
  PROVE  Happens(e, "WORK_FINISHED") /\ \A f \in Engagements \ {e} : Quiet(f)
<1>1. /\ stamped[e] = {"startedAt"} /\ ledger' = ledger
      /\ stamped' = [stamped EXCEPT ![e] = @ \cup {"finishedAt"}] /\ Emit(e, "WORK_FINISHED")
  BY DEF FinishWork, FinishWorkIfInProgress, Move, RecordInv, Typing, StampsTellTheStory
<1>2. Tale({"startedAt"} \cup {"finishedAt"}, ledger[e])
        = Append(Tale({"startedAt"}, ledger[e]), "WORK_FINISHED")
  BY DEF Tale, Then
<1> QED
  BY <1>1, <1>2, TransitionTold DEF Contents, Stamps

\* A confirmed completion is one more word in the story of its Engagement.
LEMMA CompletionTold ==
  ASSUME RecordInv, NEW e \in Engagements, ConfirmCompletion(e)
  PROVE  Happens(e, "COMPLETION_CONFIRMED") /\ \A f \in Engagements \ {e} : Quiet(f)
<1>1. /\ stamped[e] = {"startedAt", "finishedAt"} /\ ledger' = ledger
      /\ stamped' = [stamped EXCEPT ![e] = @ \cup {"completedAt"}] /\ Emit(e, "COMPLETION_CONFIRMED")
  BY DEF ConfirmCompletion, CompleteIfPendingCustomerConfirmation, Move, RecordInv, Typing,
         StampsTellTheStory
<1>2. Tale({"startedAt", "finishedAt"} \cup {"completedAt"}, ledger[e])
        = Append(Tale({"startedAt", "finishedAt"}, ledger[e]), "COMPLETION_CONFIRMED")
  BY DEF Tale, Then
<1> QED
  BY <1>1, <1>2, TransitionTold DEF Contents, Stamps

\* Of a cancellation the ledger tells whose it was.
LEMMA CancellationTale ==
  ASSUME NEW stamps \in {{}, {"startedAt"}}
  PROVE  /\ \A events : events # <<"REFUND">> =>
              Tale(stamps \cup {"cancelledAt"}, events)
                = Append(Tale(stamps, <<>>), "CANCELLED_BY_CUSTOMER")
         /\ Tale(stamps \cup {"cancelledAt"}, <<"REFUND">>)
              = Append(Tale(stamps, <<>>), "CANCELLED_BY_PROFESSIONAL")
  BY DEF Tale, Then

\* A cancellation by the customer is one more word in the story of its Engagement.
LEMMA CustomerTold ==
  ASSUME RecordInv, NEW r \in Requests, CustomerCancels(r)
  PROVE  \E e \in Engagements :
           Happens(e, "CANCELLED_BY_CUSTOMER") /\ \A f \in Engagements \ {e} : Quiet(f)
<1> DEFINE e == req[r].e
<1>1. /\ e \in Engagements /\ status[e] \in Active
      /\ stamped' = [stamped EXCEPT ![e] = @ \cup {"cancelledAt"}]
      /\ ledger' = IF Charged(req[r].pre) THEN [ledger EXCEPT ![e] = Append(@, "CHARGE")] ELSE ledger
      /\ Emit(e, "CANCELLED_BY_CUSTOMER")
  BY DEF CustomerCancels, CancelByCustomer, Cancellable, Move, RecordInv, Typing, CarriedOK, CarriedBy
<1> HIDE DEF e
<1>2. stamped[e] \in {{}, {"startedAt"}}
  BY <1>1 DEF Active, RecordInv, Typing, StampsTellTheStory
<1>3. ledger[e] = <<>>
  BY <1>1, NothingOwed DEF Active
<1>4. ledger'[e] \in {<<>>, <<"CHARGE">>} /\ \A f \in Engagements \ {e} : ledger'[f] = ledger[f]
  <2>1. Append(<<>>, "CHARGE") = <<"CHARGE">>
    OBVIOUS
  <2> QED
    BY <1>1, <1>3, <2>1 DEF RecordInv, Typing, TypeOK
<1>5. ledger'[e] # <<"REFUND">>
  BY <1>4
<1>6. Happens(e, "CANCELLED_BY_CUSTOMER") /\ \A f \in Engagements \ {e} : Quiet(f)
  BY <1>1, <1>2, <1>3, <1>4, <1>5, CancellationTale, TransitionTold DEF Contents, Stamps
<1> QED
  BY <1>1, <1>6

\* A cancellation by the professional is one more word in the story of its Engagement.
LEMMA ProfessionalTold ==
  ASSUME RecordInv, NEW e \in Engagements, ProfessionalCancels(e)
  PROVE  Happens(e, "CANCELLED_BY_PROFESSIONAL") /\ \A f \in Engagements \ {e} : Quiet(f)
<1>1. /\ status[e] \in Active /\ stamped' = [stamped EXCEPT ![e] = @ \cup {"cancelledAt"}]
      /\ ledger' = [ledger EXCEPT ![e] = Append(@, "REFUND")]
      /\ Emit(e, "CANCELLED_BY_PROFESSIONAL")
  BY DEF ProfessionalCancels, CancelByProfessional, Cancellable, Move
<1>2. stamped[e] \in {{}, {"startedAt"}}
  BY <1>1 DEF Active, RecordInv, Typing, StampsTellTheStory
<1>3. ledger[e] = <<>>
  BY <1>1, NothingOwed DEF Active
<1>4. ledger'[e] = <<"REFUND">> /\ \A f \in Engagements \ {e} : ledger'[f] = ledger[f]
  <2>1. Append(<<>>, "REFUND") = <<"REFUND">>
    OBVIOUS
  <2> QED
    BY <1>1, <1>3, <2>1 DEF RecordInv, Typing, TypeOK
<1> QED
  BY <1>1, <1>2, <1>3, <1>4, CancellationTale, TransitionTold DEF Contents, Stamps

\* A step tells at most one Engagement what happens to it.
LEMMA StepTold ==
  ASSUME RecordInv, [RecordNext]_<<vars, chatVars, reviewVars>>
  PROVE  \/ \A f \in Engagements : Quiet(f)
         \/ \E e \in Engagements, content \in Contents :
              Happens(e, content) /\ \A f \in Engagements \ {e} : Quiet(f)
<1>1. ASSUME UNCHANGED <<stamped, ledger, chatVars>> PROVE \A f \in Engagements : Quiet(f)
  BY <1>1, StoryIsTale DEF Quiet, chatVars
<1>2. ASSUME NEW r \in Requests, Begin(r) \/ IncrementNoShow(r) \/ GiveUp(r), UNCHANGED chatVars
      PROVE  \A f \in Engagements : Quiet(f)
  <2>1. UNCHANGED engVars
    BY <1>2, BeginTyping DEF IncrementNoShow, GiveUp, RecordInv
  <2> QED
    BY <1>1, <1>2, <2>1 DEF engVars
<1>3. ASSUME NEW k \in Appointments, Schedule(k), UNCHANGED chatVars
      PROVE  \A f \in Engagements : Quiet(f)
  <2>1. UNCHANGED engVars
    BY <1>3, ScheduleRows DEF RecordInv
  <2> QED
    BY <1>1, <1>3, <2>1 DEF engVars
<1>4. ASSUME NEW e \in Engagements, SendMessage(e) PROVE \A f \in Engagements : Quiet(f)
  BY <1>4, StoryIsTale DEF SendMessage, Quiet, vars, RecordInv, ChatTypeOK
<1>5. CASE ReviewsNext /\ UNCHANGED <<vars, chatVars>>
  BY <1>1, <1>5 DEF vars
<1>6. CASE UNCHANGED <<vars, chatVars, reviewVars>>
  BY <1>1, <1>6 DEF vars
<1>7. CASE ChatNext
  <2>1. /\ "WORK_STARTED" \in Contents /\ "WORK_FINISHED" \in Contents
        /\ "COMPLETION_CONFIRMED" \in Contents /\ "CANCELLED_BY_CUSTOMER" \in Contents
        /\ "CANCELLED_BY_PROFESSIONAL" \in Contents
    BY DEF Contents
  <2> QED
    BY <1>2, <1>3, <1>4, <1>7, <2>1, StartTold, CustomerTold, FinishTold, CompletionTold,
       ProfessionalTold DEF ChatNext
<1> QED
  BY <1>5, <1>6, <1>7 DEF RecordNext

IsSuffix(s, t) == \E n \in 0..Len(t) : s = SubSeq(t, n + 1, Len(t))

\* Nothing is a suffix of everything.
LEMMA EmptyIsSuffix ==
  ASSUME NEW S, NEW t \in Seq(S) PROVE IsSuffix(<<>>, t)
<1>1. Len(t) \in 0..Len(t) /\ Len(t) + 1 \in Int
  BY LenProperties
<1>2. SubSeq(t, Len(t) + 1, Len(t)) = <<>>
  BY <1>1, SubSeqEmpty
<1> QED
  BY <1>1, <1>2 DEF IsSuffix

\* What ends with a suffix does so when both get the same last member.
LEMMA AppendKeepsSuffix ==
  ASSUME NEW S, NEW s \in Seq(S), NEW t \in Seq(S), NEW c \in S, IsSuffix(s, t)
  PROVE  IsSuffix(Append(s, c), Append(t, c))
<1>1. PICK n \in 0..Len(t) : s = SubSeq(t, n + 1, Len(t))
  BY DEF IsSuffix
<1> DEFINE u == Append(t, c)
<1>2. /\ u \in Seq(S) /\ Len(u) = Len(t) + 1 /\ u[Len(t) + 1] = c /\ Len(t) \in Nat
      /\ \A i \in 1..Len(t) : u[i] = t[i]
  BY AppendProperties, LenProperties
<1> HIDE DEF u
<1>3. /\ Len(s) = Len(t) - n
      /\ \A i \in 1..(Len(t) - n) : s[i] = t[n + i]
  BY <1>1, <1>2
<1>4. SubSeq(u, n + 1, Len(u)) \in Seq(S) /\ Append(s, c) \in Seq(S)
  BY <1>2
<1>5. Len(SubSeq(u, n + 1, Len(u))) = Len(t) + 1 - n /\ Len(Append(s, c)) = Len(t) + 1 - n
  <2>1. Len(Append(s, c)) = Len(s) + 1
    BY AppendProperties
  <2>2. Len(SubSeq(u, n + 1, Len(u))) = Len(u) - n
    BY <1>2
  <2> QED
    BY <1>2, <1>3, <2>1, <2>2
<1>6. ASSUME NEW i \in 1..(Len(t) + 1 - n) PROVE SubSeq(u, n + 1, Len(u))[i] = Append(s, c)[i]
  <2>1. SubSeq(u, n + 1, Len(u))[i] = u[n + i]
    BY <1>2
  <2>2. CASE i = Len(t) + 1 - n
    BY <1>2, <1>3, <2>1, <2>2
  <2>3. CASE i # Len(t) + 1 - n
    <3>1. i \in 1..(Len(t) - n) /\ n + i \in 1..Len(t)
      BY <1>2, <2>3
    <3> QED
      BY <1>2, <1>3, <2>1, <3>1
  <2> QED
    BY <2>2, <2>3
<1>7. Append(s, c) = SubSeq(u, n + 1, Len(u))
  BY <1>4, <1>5, <1>6, SeqEqual
<1>8. n \in 0..Len(u)
  BY <1>2
<1> QED
  BY <1>7, <1>8 DEF IsSuffix, u

\* Nobody can tell an Engagement that has no conversation anything.
ChatInv == /\ ChatTypeOK
           /\ \A e \in Engagements : ~ conversation[e] => told[e] = <<>>
           /\ ConversationTellsTheStory

\* Conversations keep their types.
LEMMA ChatTypeKept ==
  ASSUME ChatTypeOK, [RecordNext]_<<vars, chatVars, reviewVars>>, Typing
  PROVE  ChatTypeOK'
<1>1. ASSUME NEW e \in Engagements, NEW content \in Contents, Emit(e, content) PROVE ChatTypeOK'
  <2>1. Append(told[e], content) \in Seq(Contents)
    BY <1>1 DEF ChatTypeOK
  <2> QED
    BY <1>1, <2>1 DEF Emit, ChatTypeOK
<1>2. ASSUME UNCHANGED chatVars PROVE ChatTypeOK'
  BY <1>2 DEF chatVars, ChatTypeOK
<1>3. ASSUME NEW e \in Engagements, SendMessage(e) PROVE ChatTypeOK'
  BY <1>3 DEF SendMessage, ChatTypeOK
<1>4. ASSUME NEW r \in Requests, StartWork(r) \/ CustomerCancels(r)
      PROVE  \E e \in Engagements, content \in Contents : Emit(e, content)
  BY <1>4 DEF StartWork, CustomerCancels, StartWorkIfAccepted, CancelByCustomer, Typing, CarriedOK,
     CarriedBy, Contents
<1>5. ASSUME NEW e \in Engagements, FinishWork(e) \/ ConfirmCompletion(e) \/ ProfessionalCancels(e)
      PROVE  \E content \in Contents : Emit(e, content)
  BY <1>5 DEF FinishWork, ConfirmCompletion, ProfessionalCancels, Contents
<1>6. CASE ChatNext
  BY <1>1, <1>2, <1>3, <1>4, <1>5, <1>6 DEF ChatNext
<1> QED
  BY <1>2, <1>6 DEF RecordNext

\* A transition tells the conversation, where there is one, what it adds to the story.
LEMMA NextChatInv ==
  ASSUME Typing, SettledOnce, ChatInv, [RecordNext]_<<vars, chatVars, reviewVars>>
  PROVE  ChatInv'
<1>1. ChatTypeOK'
  BY ChatTypeKept DEF ChatInv
<1>2. RecordInv
  BY DEF RecordInv, ChatInv
<1>3. ASSUME NEW f \in Engagements
      PROVE  (~ conversation'[f] => told'[f] = <<>>) /\ IsSuffix(told'[f], Story(f)')
  <2>1. /\ ~ conversation[f] => told[f] = <<>>
        /\ IsSuffix(told[f], Story(f))
        /\ told[f] \in Seq(Contents) /\ conversation[f] \in BOOLEAN
        /\ Story(f) \in Seq(Contents) /\ Story(f)' \in Seq(Contents)
    BY StoryIsTale, TaleIs DEF ChatInv, ChatTypeOK, ConversationTellsTheStory, IsSuffix
  <2>2. CASE Quiet(f)
    BY <2>1, <2>2 DEF Quiet
  <2>3. ASSUME NEW content \in Contents, Happens(f, content)
        PROVE  (~ conversation'[f] => told'[f] = <<>>) /\ IsSuffix(told'[f], Story(f)')
    <3>1. CASE conversation[f]
      BY <2>1, <2>3, <3>1, AppendKeepsSuffix DEF Happens
    <3>2. CASE ~ conversation[f]
      BY <2>1, <2>3, <3>2, EmptyIsSuffix DEF Happens
    <3> QED
      BY <3>1, <3>2
  <2> QED
    BY <1>2, <2>2, <2>3, StepTold
<1>4. ConversationTellsTheStory'
  BY <1>3 DEF ConversationTellsTheStory, IsSuffix
<1> QED
  BY <1>1, <1>3, <1>4 DEF ChatInv

\* From its first message on a conversation tells all that happens to its
\* Engagement, once and in order, whatever the handlers raced with.
THEOREM ConversationTellsTheStoryHolds == RecordSpec => []ConversationTellsTheStory
<1>1. ReviewsInit => ChatInv
  <2> SUFFICES ASSUME ReviewsInit PROVE ChatInv
    OBVIOUS
  <2>1. ChatTypeOK /\ \A e \in Engagements : told[e] = <<>>
    BY DEF ReviewsInit, ChatInit, ChatTypeOK
  <2>2. \A e \in Engagements : IsSuffix(told[e], Story(e))
    BY <2>1, EmptyIsSuffix, StoryIsTale
  <2> QED
    BY <2>1, <2>2 DEF ChatInv, ConversationTellsTheStory, IsSuffix
<1>2. ChatInv => ConversationTellsTheStory
  BY DEF ChatInv
<1> QED
  BY <1>1, <1>2, NextChatInv, RecordWorks, PTL DEF RecordSpec

-----------------------------------------------------------------------------
(* The reviews                                                             *)

\* What a review handler may still rely on when it writes, and what a party to whom
\* a review was listed had to have done.
ReviewCarries(r) ==
  /\ reviewReq[r].pc # "idle" => reviewReq[r].e \in Engagements /\ reviewReq[r].party \in Parties
  /\ reviewReq[r].pc = "submit" => status[reviewReq[r].e] = "COMPLETED"
SeenOK == \A e \in Engagements, p \in Parties : <<e, p, "list">> \in seen => Visible(e, p)
ReviewsInv == RecordTypeOK /\ (\A r \in Requests : ReviewCarries(r)) /\ SeenOK

\* Reviews, elapsed windows and completions only ever get more.
Grows == /\ \A e \in Engagements, p \in Parties : review[e][p].exists => review'[e][p].exists
         /\ elapsed \subseteq elapsed'
         /\ \A e \in Engagements : status[e] = "COMPLETED" => status'[e] = "COMPLETED"

\* The other party is one.
LEMMA OtherIsParty == \A p \in Parties : Other(p) \in Parties
  BY DEF Other, Parties

\* A review that may be seen stays so.
LEMMA VisibleKept ==
  ASSUME Grows, NEW e \in Engagements, NEW p \in Parties, Visible(e, p)
  PROVE  Visible(e, p)'
<1>1. Other(p) \in Parties
  BY OtherIsParty
<1> QED
  BY <1>1 DEF Grows, Visible

\* A handler that does not move goes on carrying good values.
LEMMA ReviewCarriesKept ==
  ASSUME Grows, NEW r \in Requests, ReviewCarries(r),
         reviewReq'[r] = reviewReq[r] \/ reviewReq'[r] = IdleReview
  PROVE  ReviewCarries(r)'
<1>1. CASE reviewReq'[r] = reviewReq[r]
  BY <1>1 DEF ReviewCarries, Grows
<1>2. CASE reviewReq'[r] = IdleReview
  BY <1>2 DEF ReviewCarries, IdleReview
<1> QED
  BY <1>1, <1>2

\* A handler of reviews that waits is one.
LEMMA IdleReviewTyped == IdleReview \in ReviewRequest
  BY DEF IdleReview, ReviewRequest, Comments

\* Work that is completed stays so.
LEMMA CompletedStays ==
  ASSUME Typing, [Next]_vars, NEW e \in Engagements, status[e] = "COMPLETED"
  PROVE  status'[e] = "COMPLETED"
<1>1. status'[e] # status[e] => <<status[e], status'[e]>> \in
        {<<"ACCEPTED", "IN_PROGRESS">>, <<"ACCEPTED", "CANCELLED">>,
         <<"IN_PROGRESS", "PENDING_CUSTOMER_CONFIRMATION">>, <<"IN_PROGRESS", "CANCELLED">>,
         <<"PENDING_CUSTOMER_CONFIRMATION", "COMPLETED">>}
  <2>1. [Forward]_vars
    BY ForwardStep
  <2>2. CASE Forward
    BY <2>2 DEF Forward
  <2>3. CASE UNCHANGED vars
    BY <2>3 DEF vars
  <2> QED
    BY <2>1, <2>2, <2>3
<1> QED
  BY <1>1

\* A step of the lifecycle or the chat leaves the reviews alone.
LEMMA WorkKeepsReviews ==
  ASSUME Typing, ReviewsInv, ChatTypeOK', [RecordNext]_<<vars, chatVars, reviewVars>>,
         UNCHANGED reviewVars
  PROVE  ReviewsInv' /\ Blind
<1>1. Grows
  BY RecordIsWork, CompletedStays DEF Grows, reviewVars
<1>2. RecordTypeOK'
  BY DEF ReviewsInv, RecordTypeOK, reviewVars
<1>3. \A r \in Requests : ReviewCarries(r)'
  BY <1>1, ReviewCarriesKept DEF ReviewsInv, reviewVars
<1>4. SeenOK'
  <2> SUFFICES ASSUME NEW e \in Engagements, NEW p \in Parties, <<e, p, "list">> \in seen'
               PROVE  Visible(e, p)'
    BY DEF SeenOK
  <2> QED
    BY <1>1, VisibleKept DEF ReviewsInv, SeenOK, reviewVars
<1>5. Blind
  BY DEF Blind, reviewVars
<1> QED
  BY <1>2, <1>3, <1>4, <1>5 DEF ReviewsInv

\* A first step fills the record of its handler.
LEMMA ReadForReview ==
  ASSUME ReviewsInv, UNCHANGED <<vars, chatVars>>, UNCHANGED <<review, elapsed, seen>>,
         NEW r \in Requests, NEW new \in ReviewRequest, reviewReq' = [reviewReq EXCEPT ![r] = new],
         new.e \in Engagements, new.party \in Parties,
         new.pc = "submit" => status[new.e] = "COMPLETED"
  PROVE  ReviewsInv' /\ Blind
<1>1. Grows
  BY DEF Grows, vars
<1>2. RecordTypeOK'
  BY DEF ReviewsInv, RecordTypeOK, ChatTypeOK, chatVars
<1>3. ASSUME NEW s \in Requests PROVE ReviewCarries(s)'
  <2>1. CASE s = r
    <3>1. reviewReq'[s] = new
      BY <2>1 DEF ReviewsInv, RecordTypeOK
    <3> QED
      BY <3>1 DEF ReviewCarries, vars
  <2>2. CASE s # r
    <3>1. reviewReq'[s] = reviewReq[s]
      BY <2>2 DEF ReviewsInv, RecordTypeOK
    <3> QED
      BY <1>1, <3>1, ReviewCarriesKept DEF ReviewsInv
  <2> QED
    BY <2>1, <2>2
<1>4. SeenOK'
  BY DEF ReviewsInv, SeenOK, Visible
<1>5. Blind
  BY DEF Blind
<1> QED
  BY <1>2, <1>3, <1>4, <1>5 DEF ReviewsInv

\* Whatever only ends a handler or adds to what was written, elapsed or seen.
LEMMA ReviewEnd ==
  ASSUME ReviewsInv, UNCHANGED <<vars, chatVars>>, Grows,
         \A r \in Requests : reviewReq'[r] = reviewReq[r] \/ reviewReq'[r] = IdleReview,
         reviewReq' \in [Requests -> ReviewRequest], elapsed' \subseteq Engagements,
         review' \in [Engagements -> [Parties -> ReviewRow]], seen' \subseteq Engagements \X Parties \X Channels,
         \A e \in Engagements, p \in Parties :
           <<e, p, "list">> \in seen' => <<e, p, "list">> \in seen \/ Visible(e, p)
  PROVE  ReviewsInv'
<1>1. RecordTypeOK'
  BY DEF ReviewsInv, RecordTypeOK, ChatTypeOK, chatVars
<1>2. \A r \in Requests : ReviewCarries(r)'
  BY ReviewCarriesKept DEF ReviewsInv
<1>3. SeenOK'
  <2> SUFFICES ASSUME NEW e \in Engagements, NEW p \in Parties, <<e, p, "list">> \in seen'
               PROVE  Visible(e, p)'
    BY DEF SeenOK
  <2> QED
    BY VisibleKept DEF ReviewsInv, SeenOK
<1> QED
  BY <1>1, <1>2, <1>3 DEF ReviewsInv

\* The row of one review is replaced by one that exists if it did.
LEMMA ReviewWritten ==
  ASSUME ReviewsInv, UNCHANGED <<vars, chatVars>>, UNCHANGED <<elapsed, seen>>,
         NEW r \in Requests, reviewReq[r].pc # "idle", NEW row \in ReviewRow,
         reviewReq' = [reviewReq EXCEPT ![r] = IdleReview],
         review' = [review EXCEPT ![reviewReq[r].e] =
                      [@ EXCEPT ![reviewReq[r].party] = row]],
         review[reviewReq[r].e][reviewReq[r].party].exists => row.exists
  PROVE  /\ ReviewsInv'
         /\ \A e \in Engagements, p \in Parties :
              e # reviewReq[r].e \/ p # reviewReq[r].party => review'[e][p] = review[e][p]
         /\ review'[reviewReq[r].e][reviewReq[r].party] = row
<1> DEFINE c == reviewReq[r].e
           w == reviewReq[r].party
<1>1. c \in Engagements /\ w \in Parties
  BY DEF ReviewsInv, ReviewCarries
<1>2. review \in [Engagements -> [Parties -> ReviewRow]]
  BY DEF ReviewsInv, RecordTypeOK
<1>3. review' = [review EXCEPT ![c] = [@ EXCEPT ![w] = row]]
  OBVIOUS
<1>4. review[c][w].exists => row.exists
  OBVIOUS
<1> HIDE DEF c, w
<1>5. /\ review' \in [Engagements -> [Parties -> ReviewRow]]
      /\ \A e \in Engagements, p \in Parties : e # c \/ p # w => review'[e][p] = review[e][p]
      /\ review'[c][w] = row
  <2> DEFINE rows == [review[c] EXCEPT ![w] = row]
  <2>1. /\ rows \in [Parties -> ReviewRow] /\ rows[w] = row
        /\ \A p \in Parties : p # w => rows[p] = review[c][p]
    BY <1>1, <1>2
  <2>2. review' = [review EXCEPT ![c] = rows]
    BY <1>3
  <2> HIDE DEF rows
  <2> QED
    BY <1>1, <1>2, <2>1, <2>2
<1>6. Grows
  BY <1>4, <1>5 DEF Grows, vars
<1>7. /\ reviewReq' \in [Requests -> ReviewRequest]
      /\ \A s \in Requests : reviewReq'[s] = reviewReq[s] \/ reviewReq'[s] = IdleReview
  BY IdleReviewTyped DEF ReviewsInv, RecordTypeOK
<1>8. elapsed' \subseteq Engagements /\ seen' \subseteq Engagements \X Parties \X Channels /\ seen' = seen
  BY DEF ReviewsInv, RecordTypeOK
<1>9. ReviewsInv'
  BY <1>5, <1>6, <1>7, <1>8, ReviewEnd
<1> QED
  BY <1>5, <1>9 DEF c, w

\* Each step of the reviews, with the double blind.
LEMMA ReviewStep ==
  ASSUME ReviewsInv, ReviewsNext, UNCHANGED <<vars, chatVars>>
  PROVE  ReviewsInv' /\ Blind
<1>1. ASSUME NEW r \in Requests, NEW e \in Engagements, NEW p \in Parties, ReadForSubmit(r, e, p)
      PROVE  ReviewsInv' /\ Blind
  <2>1. PICK comment \in {"NONE", "PENDING"} :
          reviewReq' = [reviewReq EXCEPT ![r] = [pc |-> "submit", e |-> e, party |-> p, comment |-> comment]]
    BY <1>1 DEF ReadForSubmit
  <2>2. PICK new : new = [pc |-> "submit", e |-> e, party |-> p, comment |-> comment]
    OBVIOUS
  <2>3. new \in ReviewRequest
    BY <2>2 DEF ReviewRequest, Comments
  <2> QED
    BY <1>1, <2>1, <2>2, <2>3, ReadForReview DEF ReadForSubmit
<1>2. ASSUME NEW r \in Requests, NEW e \in Engagements, NEW p \in Parties, ReadForModerate(r, e, p)
      PROVE  ReviewsInv' /\ Blind
  <2>1. PICK decision \in {"APPROVED", "REJECTED"} :
          reviewReq' = [reviewReq EXCEPT ![r] = [pc |-> "moderate", e |-> e, party |-> p, comment |-> decision]]
    BY <1>2 DEF ReadForModerate
  <2>2. PICK new : new = [pc |-> "moderate", e |-> e, party |-> p, comment |-> decision]
    OBVIOUS
  <2>3. new \in ReviewRequest
    BY <2>2 DEF ReviewRequest, Comments
  <2> QED
    BY <1>2, <2>1, <2>2, <2>3, ReadForReview DEF ReadForModerate
<1>3. ASSUME NEW r \in Requests, CreateReview(r) PROVE ReviewsInv' /\ Blind
  <2>1. /\ reviewReq[r].pc = "submit" /\ ~ review[reviewReq[r].e][reviewReq[r].party].exists
        /\ reviewReq' = [reviewReq EXCEPT ![r] = IdleReview] /\ UNCHANGED <<elapsed, seen>>
        /\ review' = [review EXCEPT ![reviewReq[r].e][reviewReq[r].party]
                                      = [exists |-> TRUE, comment |-> reviewReq[r].comment]]
    BY <1>3 DEF CreateReview
  <2>2. PICK row : row = [exists |-> TRUE, comment |-> reviewReq[r].comment]
    OBVIOUS
  <2>3. row \in ReviewRow
    BY <2>2 DEF ReviewsInv, RecordTypeOK, ReviewRequest, ReviewRow
  <2>4. review' = [review EXCEPT ![reviewReq[r].e] = [@ EXCEPT ![reviewReq[r].party] = row]]
    BY <2>1, <2>2
  <2>5. /\ ReviewsInv'
        /\ \A e \in Engagements, p \in Parties :
             e # reviewReq[r].e \/ p # reviewReq[r].party => review'[e][p] = review[e][p]
    BY <2>1, <2>2, <2>3, <2>4, ReviewWritten
  <2>6. Blind
    <3> SUFFICES ASSUME NEW e \in Engagements, NEW p \in Parties,
                        ~ review[e][p].exists, review'[e][p].exists
                 PROVE  (<<e, p, "list">> \in seen => e \in elapsed) /\ status[e] = "COMPLETED"
      BY DEF Blind
    <3>1. e = reviewReq[r].e
      BY <2>5
    <3>2. status[e] = "COMPLETED"
      BY <2>1, <3>1 DEF ReviewsInv, ReviewCarries
    <3>3. <<e, p, "list">> \in seen => e \in elapsed
      BY DEF ReviewsInv, SeenOK, Visible
    <3> QED
      BY <3>2, <3>3
  <2> QED
    BY <2>5, <2>6
<1>4. ASSUME NEW r \in Requests, UpdateModeration(r) PROVE ReviewsInv' /\ Blind
  <2>1. /\ reviewReq[r].pc = "moderate"
        /\ reviewReq' = [reviewReq EXCEPT ![r] = IdleReview] /\ UNCHANGED <<elapsed, seen>>
        /\ review' = [review EXCEPT ![reviewReq[r].e][reviewReq[r].party].comment = reviewReq[r].comment]
    BY <1>4 DEF UpdateModeration
  <2>2. reviewReq[r].e \in Engagements /\ reviewReq[r].party \in Parties
    BY <2>1 DEF ReviewsInv, ReviewCarries
  <2>3. PICK row : row = [review[reviewReq[r].e][reviewReq[r].party] EXCEPT !.comment = reviewReq[r].comment]
    OBVIOUS
  <2>4. /\ row \in ReviewRow
        /\ row.exists = review[reviewReq[r].e][reviewReq[r].party].exists
    BY <2>2, <2>3 DEF ReviewsInv, RecordTypeOK, ReviewRequest, ReviewRow
  <2>5. review' = [review EXCEPT ![reviewReq[r].e] = [@ EXCEPT ![reviewReq[r].party] = row]]
    BY <2>1, <2>2, <2>3 DEF ReviewsInv, RecordTypeOK
  <2>6. /\ ReviewsInv'
        /\ \A e \in Engagements, p \in Parties :
             e # reviewReq[r].e \/ p # reviewReq[r].party => review'[e][p] = review[e][p]
        /\ review'[reviewReq[r].e][reviewReq[r].party] = row
    BY <2>1, <2>4, <2>5, ReviewWritten
  <2>7. \A e \in Engagements, p \in Parties : review'[e][p].exists = review[e][p].exists
    BY <2>4, <2>6
  <2> QED
    BY <2>6, <2>7 DEF Blind
<1>5. ASSUME NEW r \in Requests, GiveUpReview(r) PROVE ReviewsInv' /\ Blind
  <2>1. /\ reviewReq' \in [Requests -> ReviewRequest]
        /\ \A s \in Requests : reviewReq'[s] = reviewReq[s] \/ reviewReq'[s] = IdleReview
    BY <1>5, IdleReviewTyped DEF GiveUpReview, ReviewsInv, RecordTypeOK
  <2>2. Grows
    BY <1>5 DEF GiveUpReview, Grows, vars
  <2>3. ReviewsInv'
    BY <1>5, <2>1, <2>2, ReviewEnd DEF GiveUpReview, ReviewsInv, RecordTypeOK
  <2> QED
    BY <1>5, <2>3 DEF GiveUpReview, Blind
<1>6. ASSUME NEW e \in Engagements, WindowElapses(e) PROVE ReviewsInv' /\ Blind
  <2>1. Grows
    BY <1>6 DEF WindowElapses, Grows, vars
  <2>2. ReviewsInv'
    BY <1>6, <2>1, ReviewEnd DEF WindowElapses, ReviewsInv, RecordTypeOK
  <2> QED
    BY <1>6, <2>2 DEF WindowElapses, Blind
<1>7. ASSUME NEW e \in Engagements, NEW p \in Parties, ListReceived(e, p) PROVE ReviewsInv' /\ Blind
  <2>1. Grows
    BY <1>7 DEF ListReceived, Grows, vars
  <2>2. ReviewsInv'
    BY <1>7, <2>1, ReviewEnd DEF ListReceived, ReviewsInv, RecordTypeOK, Channels
  <2> QED
    BY <1>7, <2>2 DEF ListReceived, Blind
<1>8. ASSUME NEW e \in Engagements, NEW p \in Parties, ReadRatingSummary(e, p)
      PROVE  ReviewsInv' /\ Blind
  <2>1. Grows
    BY <1>8 DEF ReadRatingSummary, Grows, vars
  <2>2. ReviewsInv'
    BY <1>8, <2>1, ReviewEnd DEF ReadRatingSummary, ReviewsInv, RecordTypeOK, Channels
  <2> QED
    BY <1>8, <2>2 DEF ReadRatingSummary, Blind
<1> QED
  BY <1>1, <1>2, <1>3, <1>4, <1>5, <1>6, <1>7, <1>8 DEF ReviewsNext

\* Each step keeps the invariant of the reviews, and shows none too early.
LEMMA RecordStep ==
  ASSUME Typing, ReviewsInv, [RecordNext]_<<vars, chatVars, reviewVars>>
  PROVE  ReviewsInv' /\ [Blind]_<<vars, chatVars, reviewVars>>
<1>1. ChatTypeOK'
  BY ChatTypeKept DEF ReviewsInv, RecordTypeOK
<1> QED
  BY <1>1, WorkKeepsReviews, ReviewStep DEF RecordNext

\* Reviews keep their invariant in every behaviour.
LEMMA ReviewsInvHolds == RecordSpec => [](Typing /\ ReviewsInv)
<1>1. ReviewsInit => ReviewsInv
  <2> SUFFICES ASSUME ReviewsInit PROVE ReviewsInv
    OBVIOUS
  <2>1. ChatTypeOK /\ seen = {} /\ elapsed = {}
    BY DEF ReviewsInit, ChatInit, ChatTypeOK
  <2>2. review \in [Engagements -> [Parties -> ReviewRow]]
    BY DEF ReviewsInit, NoReview, ReviewRow, Comments
  <2>3. reviewReq \in [Requests -> ReviewRequest] /\ \A r \in Requests : reviewReq[r].pc = "idle"
    BY IdleReviewTyped DEF ReviewsInit, IdleReview
  <2> QED
    BY <2>1, <2>2, <2>3 DEF ReviewsInv, RecordTypeOK, ReviewCarries, SeenOK
<1>2. Typing /\ ReviewsInv /\ [RecordNext]_<<vars, chatVars, reviewVars>> => ReviewsInv'
  BY RecordStep
<1> QED
  BY <1>1, <1>2, RecordWorks, PTL DEF RecordSpec

\* Reviews, windows, listings and what review handlers carry keep their types.
THEOREM RecordTypeCorrect == RecordSpec => []RecordTypeOK
<1>1. ReviewsInv => RecordTypeOK
  BY DEF ReviewsInv
<1> QED
  BY <1>1, ReviewsInvHolds, PTL

\* Nobody writes his review having been shown the other's in his list before the
\* window is over, and only completed work is reviewed.
THEOREM ListIsBlindHolds == RecordSpec => ListIsBlind
<1>1. Typing /\ ReviewsInv /\ [RecordNext]_<<vars, chatVars, reviewVars>>
        => [Blind]_<<vars, chatVars, reviewVars>>
  BY RecordStep
<1> QED
  BY <1>1, ReviewsInvHolds, PTL DEF RecordSpec, ListIsBlind

-----------------------------------------------------------------------------
(* ImageFiles                                                              *)

\* What is known of an upload by its phase: it has an image's key and a try left
\* while its job can run, an image that was answered is in staging or served, and
\* one whose staged file may go is served.
UploadOK(u) ==
  LET k == upload[u].key
      ph == upload[u].phase IN
  /\ ph \in {"PARKED", "LOST", "WAITING", "READ", "PROMOTED", "FAILED"} => k \in Keys
  /\ ph \in {"PARKED", "WAITING", "READ", "PROMOTED"} => upload[u].tries < Attempts
  /\ ph # "NONE" /\ k \in Keys => staged[k] # 0 \/ public[k] # 0
  /\ ph = "READ" => upload[u].read # 0
  /\ ph \in {"PROMOTED", "DONE"} /\ k \in Keys => public[k] # 0

\* EndedJobsServe says nothing while a job runs; what its end will find is here.
FilesInv == FilesTypeOK /\ \A u \in Uploads : UploadOK(u)

\* What a step of upload u may do to the files and to the other uploads: a public
\* file is only replaced by another, and staging is emptied under a public one.
FileStep(u) ==
  /\ FilesTypeOK' /\ UploadOK(u)'
  /\ \A v \in Uploads \ {u} : upload'[v] = upload[v]
  /\ \A k \in Keys : public[k] # 0 => public'[k] # 0
  /\ \A k \in Keys : staged[k] # 0 => staged'[k] # 0 \/ public'[k] # 0

\* A request stores its bytes before it queues the job.
LEMMA PutStep ==
  ASSUME FilesInv, NEW u \in Uploads, Put(u)
  PROVE  FileStep(u)
<1> USE DEF FilesInv, FilesTypeOK
<1>1. u # 0 /\ upload[u] \in UploadRow
  BY UploadsAssumption
<1>2. ASSUME NEW k \in Keys \cup PdfKeys, NEW ph \in Phases
      PROVE  [NoUpload EXCEPT !.phase = ph, !.key = k] \in UploadRow
  <2>1. 0 \in 0..Attempts
    BY AttemptsAssumption
  <2> QED
    BY <2>1, Zenon DEF UploadRow, NoUpload
<1>3. ASSUME NEW k \in Keys, Park(u, k) PROVE FileStep(u)
  <2>1. [NoUpload EXCEPT !.phase = "PARKED", !.key = k] \in UploadRow
    BY <1>2 DEF Phases
  <2>2. FilesTypeOK'
    BY <1>3, <2>1 DEF Park
  <2>3. upload'[u].phase = "PARKED" /\ upload'[u].key = k /\ upload'[u].tries = 0
    BY <1>3 DEF Park, NoUpload
  <2> QED
    BY <1>1, <1>3, <2>2, <2>3, AttemptsAssumption DEF Park, FileStep, UploadOK
<1>4. ASSUME NEW k \in PdfKeys, StorePdf(u, k) PROVE FileStep(u)
  <2>1. [NoUpload EXCEPT !.phase = "DONE", !.key = k] \in UploadRow
    BY <1>2 DEF Phases
  <2>2. FilesTypeOK'
    BY <1>4, <2>1 DEF StorePdf
  <2>3. upload'[u].phase = "DONE" /\ upload'[u].key = k /\ public'[k] # 0
    BY <1>1, <1>4 DEF StorePdf, NoUpload
  <2> QED
    BY <1>1, <1>4, <2>2, <2>3 DEF StorePdf, FileStep, UploadOK
<1>5. CASE Enqueue(u) \/ LoseUpload(u)
  <2>1. /\ staged' = staged /\ public' = public /\ keyExpired' = keyExpired
        /\ upload[u].phase = "PARKED"
        /\ \E ph \in {"WAITING", "LOST"} : upload' = [upload EXCEPT ![u].phase = ph]
    BY <1>5 DEF Enqueue, LoseUpload
  <2> QED
    BY <1>1, <2>1 DEF FileStep, UploadOK, UploadRow, Phases
<1> QED
  BY <1>3, <1>4, <1>5 DEF Put

\* A worker reads, decodes, promotes and unlinks, or dies.
LEMMA WorkStep ==
  ASSUME FilesInv, NEW u \in Uploads, Work(u)
  PROVE  FileStep(u)
<1> USE DEF FilesInv, FilesTypeOK
<1>1. /\ upload[u] \in UploadRow /\ UploadOK(u)
      /\ upload[u].phase \in {"WAITING", "READ", "PROMOTED"} =>
           /\ upload[u].key \in Keys
           /\ upload[u].tries \in 0..Attempts /\ upload[u].tries + 1 \in 0..Attempts
  BY AttemptsAssumption DEF UploadOK, UploadRow
<1>2. CASE ReadStaging(u)
  BY <1>1, <1>2 DEF ReadStaging, FileStep, UploadOK, UploadRow, Phases
<1>3. CASE ProcessingFails(u)
  BY <1>1, <1>3 DEF ProcessingFails, FileStep, UploadOK, UploadRow, Phases
<1>4. CASE Promote(u)
  BY <1>1, <1>4 DEF Promote, FileStep, UploadOK, UploadRow, Phases
<1>5. CASE Unlink(u)
  BY <1>1, <1>5 DEF Unlink, FileStep, UploadOK, UploadRow, Phases
<1>6. CASE WorkerDies(u)
  BY <1>1, <1>6 DEF WorkerDies, FileStep, UploadOK, UploadRow, Phases
<1> QED
  BY <1>2, <1>3, <1>4, <1>5, <1>6 DEF Work

\* FilesInv is inductive.
LEMMA FilesStep == FilesInv /\ [FilesNext]_fileVars => FilesInv'
<1> SUFFICES ASSUME FilesInv, [FilesNext]_fileVars
             PROVE  FilesInv'
  OBVIOUS
<1>1. CASE UNCHANGED fileVars
  BY <1>1 DEF fileVars, FilesInv, FilesTypeOK, UploadOK
<1>2. ASSUME NEW k \in Keys \cup PdfKeys, ExpireToken(k) PROVE FilesInv'
  BY <1>2 DEF ExpireToken, FilesInv, FilesTypeOK, UploadOK
<1>3. ASSUME NEW u \in Uploads, Put(u) \/ Work(u) PROVE FilesInv'
  <2>1. FileStep(u)
    BY <1>3, PutStep, WorkStep
  <2>2. ASSUME NEW v \in Uploads \ {u} PROVE UploadOK(v)'
    BY <2>1 DEF FileStep, FilesInv, UploadOK
  <2> QED
    BY <2>1, <2>2 DEF FileStep, FilesInv
<1> QED
  BY <1>1, <1>2, <1>3 DEF FilesNext

\* Whatever uploads of one key cross, and however often their workers die, an image
\* whose jobs have ended is served, or a job has failed for good.
THEOREM EndedJobsServeHolds == FilesSpec => []EndedJobsServe
<1>1. FilesInit => FilesInv
  BY AttemptsAssumption
     DEF FilesInit, FilesInv, FilesTypeOK, UploadOK, UploadRow, NoUpload, Phases
<1>2. FilesInv /\ [FilesNext]_fileVars => FilesInv'
  BY FilesStep
<1>3. FilesInv => EndedJobsServe
  BY DEF FilesInv, UploadOK, EndedJobsServe, Queued, Ended
<1> QED
  BY <1>1, <1>2, <1>3, PTL DEF FilesSpec

-----------------------------------------------------------------------------
(* UploadRefs                                                              *)

\* A reference that was issued has a use; a document, and a handler about to write
\* one, names issued references of its own use.
OfItsUse(use, fs) ==
  use \in Uses /\ fs # {} /\ \A f \in fs : ref[f].status # "NONE" /\ ref[f].use = use

\* RefsAreAccountedFor says what documents show; a handler in flight read its
\* references before, and relies on this.
RefsInv ==
  /\ RefsTypeOK
  /\ RefsAreAccountedFor
  /\ \A r \in Attachers : attaching[r].pc = "attach" => OfItsUse(attaching[r].use, attaching[r].refs)
  /\ \A d \in Documents : document[d].refs # {} => OfItsUse(document[d].use, document[d].refs)

\* A reference keeps its use once it is issued.
UsesKept ==
  \A f \in Refs : ref[f].status # "NONE" => ref'[f].status # "NONE" /\ ref'[f].use = ref[f].use

\* What is issued stays issued, so nothing in flight or written loses its footing.
LEMMA FootingKept ==
  ASSUME RefsInv, UsesKept, NEW use, NEW fs \in SUBSET Refs, OfItsUse(use, fs)
  PROVE  OfItsUse(use, fs)'
  BY DEF UsesKept, OfItsUse

\* Steps that write no document and spend nothing.
LEMMA UnspentStep ==
  ASSUME RefsInv, NEW f \in Refs, Issue(f)
  PROVE  RefsInv'
<1> USE DEF RefsInv, RefsTypeOK
<1>1. CASE Expire(f)
  BY <1>1 DEF Expire, RefsAreAccountedFor, Attached, OfItsUse
<1>2. ASSUME NEW use \in Uses, CreateRef(f, use) PROVE RefsInv'
  <2>1. RefsTypeOK'
    BY <1>2 DEF CreateRef, RefRow
  <2>2. UsesKept /\ document' = document /\ attaching' = attaching
    BY <1>2 DEF CreateRef, UsesKept
  <2>3. ref[f].status = "NONE" /\ \A d \in Documents : f \notin document[d].refs
    BY <1>2 DEF CreateRef, OfItsUse
  <2>4. RefsAreAccountedFor'
    BY <1>2, <2>3 DEF CreateRef, RefsAreAccountedFor, Attached
  <2>5. /\ \A r \in Attachers : attaching[r].refs \in SUBSET Refs
        /\ \A d \in Documents : document[d].refs \in SUBSET Refs
    BY DEF AttachRequest, DocumentRow
  <2>6. \A r \in Attachers : attaching'[r].pc = "attach" => OfItsUse(attaching[r].use, attaching[r].refs)'
    BY <2>2, <2>5 DEF UsesKept, OfItsUse
  <2>7. \A d \in Documents :
          document'[d].refs # {} => OfItsUse(document[d].use, document[d].refs)'
    BY <2>2, <2>5 DEF UsesKept, OfItsUse
  <2> QED
    BY <2>1, <2>2, <2>4, <2>6, <2>7
<1> QED
  BY <1>1, <1>2 DEF Issue

\* Finding references usable, and giving up.
LEMMA ReadStep ==
  ASSUME RefsInv, NEW r \in Attachers,
         \/ \E use \in Uses, fs \in SUBSET Refs : FindUsableRefs(r, use, fs)
         \/ GiveUpAttach(r)
  PROVE  RefsInv'
<1> USE DEF RefsInv, RefsTypeOK
<1>1. ASSUME NEW use \in Uses, NEW fs \in SUBSET Refs, FindUsableRefs(r, use, fs)
      PROVE  RefsInv'
  <2>1. [pc |-> "attach", use |-> use, refs |-> fs] \in AttachRequest
    BY DEF AttachRequest
  <2>2. OfItsUse(use, fs)
    BY <1>1 DEF FindUsableRefs, Usable, OfItsUse
  <2> QED
    BY <1>1, <2>1, <2>2 DEF FindUsableRefs, RefsAreAccountedFor, Attached, OfItsUse
<1>2. CASE GiveUpAttach(r)
  BY <1>2 DEF GiveUpAttach, FinishAttach, NotAttaching, AttachRequest, RefsAreAccountedFor, Attached, OfItsUse
<1> QED
  BY <1>1, <1>2

\* A document is written and its references are spent: those of MediaUploadRef if
\* they all were unspent.
LEMMA WriteStep ==
  ASSUME RefsInv, NEW r \in Attachers, NEW d \in Documents, Write(r, d),
         ref' \in [Refs -> RefRow],
         \A f \in Refs : ref'[f] = IF f \in attaching[r].refs
                                   THEN [ref[f] EXCEPT !.status = "CONSUMED"] ELSE ref[f],
         attaching[r].use \in MediaUses => \A f \in attaching[r].refs : ref[f].status = "PENDING"
  PROVE  RefsInv'
<1> USE DEF RefsInv, RefsTypeOK
<1>1. PICK use, fs : use = attaching[r].use /\ fs = attaching[r].refs
  OBVIOUS
<1>2. fs \in SUBSET Refs /\ use \in Uses \cup {"NONE"} /\ OfItsUse(use, fs)
  BY <1>1 DEF Write, AttachRequest
<1>3. /\ document' = [document EXCEPT ![d] = [use |-> use, refs |-> fs]]
      /\ [use |-> use, refs |-> fs] \in DocumentRow
      /\ attaching' = [attaching EXCEPT ![r] = NotAttaching] /\ NotAttaching \in AttachRequest
      /\ document[d].refs = {}
  BY <1>1, <1>2 DEF Write, FinishAttach, DocumentRow, AttachRequest, NotAttaching, IsNextDocument,
                    NoDocument
<1>4. RefsTypeOK'
  BY <1>3 DEF Write
<1>5. \A f \in Refs : /\ ref'[f].use = ref[f].use
                      /\ ref'[f].status = IF f \in fs THEN "CONSUMED" ELSE ref[f].status
  BY <1>1 DEF RefRow
<1>6. UsesKept
  BY <1>5 DEF UsesKept
<1>7. \A c \in Documents \ {d} : document'[c] = document[c] /\ document[c].refs \in SUBSET Refs
  BY <1>3 DEF DocumentRow
<1>8. document'[d].refs = fs /\ document'[d].use = use
  BY <1>3
<1>9. RefsAreAccountedFor'
  <2> SUFFICES ASSUME NEW f \in Refs
               PROVE  /\ ref'[f].status = "CONSUMED" <=> Attached(f)' # {}
                      /\ \A c \in Attached(f)' : document'[c].use = ref'[f].use
                      /\ ref'[f].use \in MediaUses =>
                           \A b, c \in Attached(f)' : b = c
    BY DEF RefsAreAccountedFor
  <2>1. Attached(f)' = IF f \in fs THEN Attached(f) \cup {d} ELSE Attached(f)
    BY <1>3, <1>7, <1>8 DEF Attached
  <2>2. /\ ref[f].status = "CONSUMED" <=> Attached(f) # {}
        /\ \A c \in Attached(f) : document[c].use = ref[f].use
        /\ ref[f].use \in MediaUses => \A b, c \in Attached(f) : b = c
    BY DEF RefsAreAccountedFor
  <2>3. d \notin Attached(f)
    BY <1>3 DEF Attached
  <2>4. CASE f \notin fs
    BY <1>5, <1>7, <2>1, <2>2, <2>3, <2>4 DEF Attached
  <2>5. CASE f \in fs
    <3>1. ref[f].use = use /\ (use \in MediaUses => ref[f].status = "PENDING")
      BY <1>1, <1>2, <2>5 DEF OfItsUse
    <3>2. use \in MediaUses => Attached(f) = {}
      BY <2>2, <3>1
    <3>3. \A c \in Attached(f)' : document'[c].use = use
      BY <1>7, <1>8, <2>1, <2>2, <2>5, <3>1 DEF Attached
    <3> QED
      BY <1>5, <2>1, <2>5, <3>1, <3>2, <3>3
  <2> QED
    BY <2>4, <2>5
<1>10. \A q \in Attachers : attaching'[q].pc = "attach" => OfItsUse(attaching[q].use, attaching[q].refs)'
  <2>1. \A q \in Attachers \ {r} : attaching'[q] = attaching[q] /\ attaching[q].refs \in SUBSET Refs
    BY <1>3 DEF AttachRequest
  <2>2. attaching'[r].pc = "idle"
    BY <1>3 DEF NotAttaching
  <2> QED
    BY <1>6, <2>1, <2>2 DEF UsesKept, OfItsUse
<1>11. \A c \in Documents : document'[c].refs # {} =>
         OfItsUse(document[c].use, document[c].refs)'
  BY <1>2, <1>6, <1>7, <1>8 DEF UsesKept, OfItsUse
<1> QED
  BY <1>4, <1>9, <1>10, <1>11

\* The three ways to spend references are such writes.
LEMMA SpendStep ==
  ASSUME RefsInv, NEW r \in Attachers, NEW d \in Documents,
         AttachMedia(r, d) \/ Publish(r, d) \/ UpsertPhoto(r, d)
  PROVE  RefsInv'
<1>1. Write(r, d) /\ OfItsUse(attaching[r].use, attaching[r].refs) /\ attaching[r].refs \in SUBSET Refs
  BY DEF AttachMedia, Publish, UpsertPhoto, Write, RefsInv, RefsTypeOK, AttachRequest
<1>2. \A f \in Refs : ref[f] \in RefRow
  BY DEF RefsInv, RefsTypeOK
<1>3. \A f \in attaching[r].refs : ref[f].status # "NONE"
  BY <1>1 DEF OfItsUse
<1>4. \A f \in Refs : ref[f].status = "CONSUMED" => ref[f] = [ref[f] EXCEPT !.status = "CONSUMED"]
  BY <1>2 DEF RefRow
<1>5. \A f \in attaching[r].refs : ref[f].status \in {"PENDING", "CONSUMED"}
  BY <1>1, <1>2, <1>3 DEF RefRow
<1>6. \A f \in Refs : [ref[f] EXCEPT !.status = "CONSUMED"] \in RefRow
  BY <1>2 DEF RefRow
<1>7. /\ ref' \in [Refs -> RefRow]
      /\ \A f \in Refs : ref'[f] = IF f \in attaching[r].refs
                                   THEN [ref[f] EXCEPT !.status = "CONSUMED"] ELSE ref[f]
  <2>1. CASE Publish(r, d)
    BY <1>2, <1>6, <2>1 DEF Publish
  <2>2. CASE AttachMedia(r, d) \/ UpsertPhoto(r, d)
    <3>1. ref' = [f \in Refs |-> IF f \in attaching[r].refs /\ ref[f].status = "PENDING"
                                 THEN [ref[f] EXCEPT !.status = "CONSUMED"] ELSE ref[f]]
      BY <2>2 DEF AttachMedia, UpsertPhoto, MarkConsumed
    <3> QED
      BY <1>2, <1>4, <1>5, <1>6, <3>1
  <2> QED
    BY <2>1, <2>2
<1>8. attaching[r].use \in MediaUses => \A f \in attaching[r].refs : ref[f].status = "PENDING"
  BY DEF AttachMedia, Publish, UpsertPhoto, StillPending, MediaUses
<1> QED
  BY <1>1, <1>7, <1>8, WriteStep

\* RefsInv is inductive.
LEMMA RefsStep == RefsInv /\ [RefsNext]_refVars => RefsInv'
<1> SUFFICES ASSUME RefsInv, [RefsNext]_refVars PROVE RefsInv'
  OBVIOUS
<1>1. CASE UNCHANGED refVars
  BY <1>1 DEF refVars, RefsInv, RefsTypeOK, RefsAreAccountedFor, Attached, OfItsUse
<1>2. ASSUME NEW r \in Attachers, Handle(r) PROVE RefsInv'
  BY <1>2, ReadStep, SpendStep DEF Handle
<1> QED
  BY <1>1, <1>2, UnspentStep DEF RefsNext

\* However handlers cross, expire and give up, a reference is spent exactly when a
\* document shows it, shown as what it was issued for, and one of MediaUploadRef is
\* shown once.
THEOREM RefsAreAccountedForHolds == RefsSpec => []RefsAreAccountedFor
<1>1. RefsInit => RefsInv
  BY DEF RefsInit, RefsInv, RefsTypeOK, RefsAreAccountedFor, Attached, OfItsUse, NoRefRow,
         RefRow, NoDocument, DocumentRow, NotAttaching, AttachRequest
<1>2. RefsInv => RefsAreAccountedFor
  BY DEF RefsInv
<1> QED
  BY <1>1, <1>2, RefsStep, PTL DEF RefsSpec
===============================================================================
