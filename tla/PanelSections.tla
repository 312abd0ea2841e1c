---------------------------- MODULE PanelSections ----------------------------
(***************************************************************************)
(* One section of the administration panel in a browser, or one tab of the *)
(* dialog of a quote: what it shows of the server's data, the handlers     *)
(* that change the data and load it again, and the session they are sent   *)
(* under.  Sections share nothing but the session, so a behaviour follows  *)
(* one of them.                                                            *)
(*                                                                         *)
(* A handler awaits its requests; whatever arrives last is what is shown.  *)
(* The answers of one Promise.all arrive together.  What a section lists   *)
(* is two rows (or two fields of one row) with values.                     *)
(***************************************************************************)
EXTENDS FiniteSets

CONSTANTS Sections,  \* the sections explored
          Rows,      \* what a section shows: rows, or fields of a row
          Values,    \* their values: a state, a position, or that it is gone
          Handlers,  \* handlers that can be running at once
          Nothing    \* nothing loaded yet; no row

ASSUME PanelAssumption ==
  /\ Nothing \notin Rows \cup Values \cup [Rows -> Values]
  /\ \E a, b \in Rows : a # b /\ Rows = {a, b}

VARIABLES section, view,
          session,    \* the stored token: one the server accepts, or not, or none
          stored,     \* the server's data
          shown, filter, shownFor, error,
          handler,    \* the handlers awaiting answers
          suspect     \* (history) the data may have changed behind the panel

sectionVars == <<section, view, session, stored, shown, filter, shownFor, error, handler, suspect>>
sessionVars == <<view, session>>
shownVars == <<shown, shownFor, error>>

Put == UNION {[R -> Values] : R \in SUBSET Rows}
Write == [put : Put, want : SUBSET Rows]
IdleHandler == [pc |-> "idle"]
Tokens == {"accepted", "rejected", "none"}
Verdicts == {"refused", "signedout"}
SavingHandler ==
  [pc : {"saving"}, kind : {"form", "row", "moderate", "control", "swap", "drag"},
   token : Tokens, open : SUBSET Write, verdict : SUBSET Verdicts,
   row : Rows \cup {Nothing}, old : Values \cup {Nothing}, new : Values \cup {Nothing}]
LoadingHandler ==
  [pc : {"loading"}, token : Tokens, filter : {"all", "pending"},
   data : [Rows -> Values] \cup {Nothing}, verdict : SUBSET Verdicts, alone : BOOLEAN]
Handler == {IdleHandler} \cup [pc : {"uploading"}, value : Values]
           \cup SavingHandler \cup LoadingHandler

\* The types of what the panel holds and of what its handlers carry.
SectionsTypeOK ==
  /\ section \in Sections
  /\ view \in {"login", "here", "elsewhere"}
  /\ session \in Tokens
  /\ stored \in [Rows -> Values]
  /\ shown \in [Rows -> Values] \cup {Nothing}
  /\ {filter, shownFor} \subseteq {"all", "pending"}
  /\ \A o \in Handlers : handler[o] \in Handler
  /\ {error, suspect} \subseteq BOOLEAN

SectionsInit ==
  /\ section \in Sections
  /\ view = "login" /\ session = "none"
  /\ stored \in [Rows -> Values] /\ shown = Nothing
  /\ filter = "all" /\ shownFor = "all" /\ error = FALSE
  /\ handler = [o \in Handlers |-> IdleHandler]
  /\ suspect = TRUE

------------------------------------------------------------------------------
(* Handlers                                                                *)

Awaiting == {o \in Handlers : handler[o].pc \in {"saving", "loading"}}
Others(o) == Awaiting \ {o}

Alone(o) == Others(o) = {}

\* A load that meets another request cannot tell what it will find.
Crowd(h, S) == [p \in Handlers |-> IF p \in S /\ h[p].pc = "loading"
                                    THEN [h[p] EXCEPT !.alone = FALSE] ELSE h[p]]
Await(o, h) == handler' = Crowd([handler EXCEPT ![o] = h], Others(o))

\* graphqlRequest attaches the token it finds when it is called.
Send(o, kind, writes, row, old, new) ==
  /\ Await(o, [pc |-> "saving", kind |-> kind, token |-> session, open |-> writes,
               verdict |-> {}, row |-> row, old |-> old, new |-> new])
  /\ suspect' = (suspect \/ ~ Alone(o))
  /\ UNCHANGED <<section, sessionVars, stored, filter>>

LoadFor(o, f) ==
  Await(o, [pc |-> "loading", token |-> session', filter |-> f, data |-> Nothing,
            verdict |-> {}, alone |-> Alone(o)])

\* The load that ends most handlers.  It begins by clearing the error.
Reload(o) == LoadFor(o, filter) /\ error' = FALSE

Free(o) == handler[o].pc = "idle"
CanAct(o) == Free(o) /\ view = "here" /\ shown # Nothing

\* A handler that begins by clearing the error, and one of a form, which has an
\* error of its own.  (A control that is disabled while its handler runs is
\* enabled again when the section is rendered again: no guard says so.)
Clears(o, kind, writes) ==
  /\ Send(o, kind, writes, Nothing, Nothing, Nothing)
  /\ error' = FALSE /\ UNCHANGED <<shown, shownFor>>
Keeps(o, kind, writes) ==
  Send(o, kind, writes, Nothing, Nothing, Nothing) /\ UNCHANGED shownVars

\* A handler of one control.  The browser shows what was entered at once.
Edits(o, write, r, v) ==
  /\ v # shown[r]
  /\ Send(o, "control", {write}, r, shown[r], v)
  /\ shown' = [shown EXCEPT ![r] = v]
  /\ error' = FALSE /\ UNCHANGED shownFor

One(r, v) == [put |-> [x \in {r} |-> v], want |-> {r}]
\* A request that names both fields, of which the administrator edited one.
Both(r, v) == [put |-> [shown EXCEPT ![r] = v], want |-> {r}]

------------------------------------------------------------------------------
(* What the administrator starts                                           *)

At(o, name) == CanAct(o) /\ section = name

\* Of the menu of a row, once the administrator confirms.
OfARow(o, name) ==
  /\ At(o, name)
  /\ \E r \in Rows, v \in Values : Clears(o, "row", {One(r, v)})

DeleteUserAccount(o) == OfARow(o, "user-accounts")
DeleteAdminUser(o)   == OfARow(o, "admin-users")
RevokeAdminUser(o)   == OfARow(o, "admin-users")
DeleteAdminRole(o)   == OfARow(o, "admin-roles")
DeleteCategory(o)    == OfARow(o, "categories")

\* A request that changes nothing the section shows; nothing is loaded again.
NoWrite == [put |-> [x \in {} |-> 0], want |-> {}]
Asks(o, name) ==
  /\ At(o, name)
  /\ Send(o, "control", {NoWrite}, Nothing, Nothing, Nothing)
  /\ error' = FALSE /\ UNCHANGED <<shown, shownFor>>

HandleForcePasswordReset(o) == Asks(o, "user-accounts")
HandleResendInvite(o)       == Asks(o, "admin-users")
HandleSendTest(o)           == Asks(o, "email-templates")
HandleSaveCredential(o)     == Asks(o, "settings")

\* Several accounts are deleted by one request.
SubmitBulkDelete(o) ==
  /\ At(o, "user-accounts")
  /\ \E v \in Values, R \in SUBSET Rows \ {{}} :
       Clears(o, "row", {[put |-> [r \in R |-> v], want |-> R]})

\* A cell of the grid is edited in place.
OfACell(o, name) ==
  /\ At(o, name)
  /\ \E r \in Rows, v \in Values : Edits(o, One(r, v), r, v)

EditUserAccount(o)  == OfACell(o, "user-accounts")
EditAdminUserRow(o) == OfACell(o, "admin-users")

OfAReview(o, name) ==
  /\ At(o, name)
  /\ \E r \in Rows, v \in Values : Clears(o, "moderate", {One(r, v)})

HandleModerate(o)            == OfAReview(o, "reviews")
HandleModerateReviewInTab(o) == OfAReview(o, "engagement-reviews")

\* A flag and its publicity, fields of one row, are saved together.
HandleToggle(o) ==
  /\ At(o, "settings")
  /\ \E r \in Rows, v \in Values : Edits(o, Both(r, v), r, v)

\* A setting with a button of its own; what is typed is not yet shown data.
HandleSaveSetting(o) ==
  /\ At(o, "settings")
  /\ \E r \in Rows, v \in Values : Send(o, "control", {Both(r, v)}, r, shown[r], v)
  /\ error' = FALSE /\ UNCHANGED <<shown, shownFor>>

\* Of a form, in a dialog.
OfAForm(o, name) ==
  /\ At(o, name)
  /\ \E r \in Rows, v \in Values : Keeps(o, "form", {One(r, v)})

SubmitServiceRequest(o) == OfAForm(o, "service-requests")
InviteAdminUser(o)      == OfAForm(o, "admin-users")
EditAdminUser(o)        == OfAForm(o, "admin-users")
SubmitRole(o)           == OfAForm(o, "admin-roles")
SubmitCategory(o)       == OfAForm(o, "categories")
SubmitTemplate(o)       == OfAForm(o, "email-templates")

\* The arrows: two siblings exchange their positions by two requests.
MoveSibling(o) ==
  /\ At(o, "categories")
  /\ \E a, b \in Rows :
       a # b /\ Clears(o, "swap", {One(a, shown[b]), One(b, shown[a])})

\* Dragging renumbers the siblings, those whose position changes.
HandleSortableEnd(o) ==
  /\ At(o, "categories")
  /\ \E place \in [Rows -> Values] :
       /\ \A r, s \in Rows : place[r] = place[s] => r = s
       /\ Clears(o, "drag", {One(r, place[r]) : r \in {x \in Rows : place[x] # shown[x]}})

\* The layout of the e-mails is one row: its texts and its logo.  The form
\* sends the logo that is known when it is submitted ...
Logo == CHOOSE r \in Rows : TRUE
Texts == CHOOSE r \in Rows : r # Logo

SubmitLayout(o) ==
  /\ At(o, "email-layout")
  /\ \E v \in Values : Keeps(o, "form", {Both(Texts, v)})

\* ... and the logo is sent, when the file is up, with the texts known then.
UploadLogo(o) ==
  /\ At(o, "email-layout")
  /\ \A p \in Handlers : handler[p].pc # "uploading"
  /\ \E v \in Values : handler' = [handler EXCEPT ![o] = [pc |-> "uploading", value |-> v]]
  /\ error' = FALSE
  /\ UNCHANGED <<section, sessionVars, stored, shown, shownFor, filter, suspect>>

SendLogo(o) ==
  /\ handler[o].pc = "uploading"
  /\ Keeps(o, "row", {Both(Logo, handler[o].value)})

\* The address of the upload is refused, or the file is.
UploadFails(o) ==
  /\ handler[o].pc = "uploading"
  /\ handler' = [handler EXCEPT ![o] = IdleHandler]
  /\ error' = TRUE
  /\ UNCHANGED <<section, sessionVars, stored, shown, shownFor, filter, suspect>>

------------------------------------------------------------------------------
(* The server                                                              *)

With(put) == [r \in Rows |-> IF r \in DOMAIN put THEN put[r] ELSE stored[r]]

\* A request is served, refused (permissions, checks, a row that is gone), or
\* answered ADMIN_UNAUTHENTICATED.
Answers(token) == IF token = "accepted" THEN {{}, {"refused"}} ELSE {{"signedout"}}

Serve(o) ==
  /\ handler[o].pc = "saving"
  /\ \E w \in handler[o].open :
     \E v \in Answers(handler[o].token) :
       /\ handler' = [handler EXCEPT ![o].open = @ \ {w}, ![o].verdict = @ \cup v]
       /\ stored' = IF v = {} THEN With(w.put) ELSE stored
  /\ UNCHANGED <<section, sessionVars, shownVars, filter, suspect>>

ServeLoad(o) ==
  /\ handler[o].pc = "loading" /\ handler[o].verdict = {} /\ handler[o].data = Nothing
  /\ \E v \in Answers(handler[o].token) :
       handler' = [handler EXCEPT ![o].verdict = v,
                                  ![o].data = IF v = {} THEN stored ELSE Nothing]
  /\ UNCHANGED <<section, sessionVars, stored, shownVars, filter, suspect>>

\* The data changes behind the panel: by another administrator, by the users,
\* or by a request whose answer was given up.
OthersChange ==
  /\ \E r \in Rows, v \in Values : stored' = [stored EXCEPT ![r] = v]
  /\ suspect' = TRUE /\ handler' = Crowd(handler, Awaiting)
  /\ UNCHANGED <<section, sessionVars, shownVars, filter>>

------------------------------------------------------------------------------
(* The answers                                                             *)

Answered(o) == handler[o].pc = "saving" /\ handler[o].open = {}
End(o) == handler' = [handler EXCEPT ![o] = IdleHandler]

ShowRow(o, v) == IF shown = Nothing \/ handler[o].row = Nothing THEN UNCHANGED shown
                 ELSE shown' = [shown EXCEPT ![handler[o].row] = v]
\* (variant) The old value was not kept.
RestoreNothing(o) == ShowRow(o, Nothing)

\* cell.restoreOldValue, and the revert of a flag.
Restore(o) == ShowRow(o, handler[o].old)

\* A handler loads its section again.
LoadsAgain(o) == Reload(o) /\ suspect' = (suspect \/ ~ Alone(o))
\* It ends with a message, a form with one of its own.
EndsSilently(o) == End(o) /\ UNCHANGED error  \* (variant) without a message
EndsRefused(o) ==
  End(o) /\ (IF handler[o].kind = "form" THEN UNCHANGED error ELSE error' = TRUE)

\* graphqlRequest drops the session at any ADMIN_UNAUTHENTICATED.
ClearSession == session' = "none"
DropsSession(o) == IF "signedout" \in handler[o].verdict THEN ClearSession ELSE UNCHANGED session

\* (variant) The section is not loaded again.
SavedAndNotLoaded(o) ==
  /\ Answered(o) /\ handler[o].verdict = {} /\ ShowRow(o, handler[o].new) /\ End(o)
  /\ UNCHANGED <<section, sessionVars, stored, shownFor, error, filter, suspect>>

Saved(o) ==
  /\ Answered(o) /\ handler[o].verdict = {}
  /\ UNCHANGED <<section, sessionVars, stored, shownFor, filter>>
  /\ ShowRow(o, handler[o].new)
  /\ IF handler[o].kind = "control" THEN End(o) /\ UNCHANGED <<error, suspect>> ELSE LoadsAgain(o)

\* A review that was moderated meanwhile is loaded again, and so is what was
\* dragged, whatever happened; the message is lost in it.
TurnedDown(o) ==
  /\ Answered(o) /\ "refused" \in handler[o].verdict
  /\ DropsSession(o) /\ Restore(o)
  /\ IF handler[o].kind \in {"moderate", "drag"} THEN LoadsAgain(o)
                                                 ELSE EndsRefused(o) /\ UNCHANGED suspect
  /\ UNCHANGED <<section, view, stored, shownFor, filter>>

\* handleAdminUnauthenticated.
SignedOut(o) ==
  /\ Answered(o) /\ "signedout" \in handler[o].verdict
  /\ ClearSession /\ view' = "login"
  /\ IF section = "admin-users" THEN Restore(o) ELSE UNCHANGED shown
  /\ IF handler[o].kind = "drag" THEN LoadsAgain(o) ELSE End(o) /\ UNCHANGED <<error, suspect>>
  /\ UNCHANGED <<section, stored, shownFor, filter>>

\* GraphQLNetworkError: Promise.all gives up at the first, the other requests
\* are still on their way, and the one that failed may be served as well: this
\* is left to OthersChange.
Lost(o) ==
  /\ handler[o].pc = "saving" /\ handler[o].open # {}
  /\ DropsSession(o)
  /\ suspect' = TRUE
  /\ Restore(o)
  /\ IF handler[o].kind = "drag" THEN Reload(o) ELSE EndsRefused(o)
  /\ UNCHANGED <<section, view, stored, shownFor, filter>>

\* What a load brings replaces what is shown.
Loaded(o) ==
  /\ handler[o].pc = "loading" /\ handler[o].data # Nothing
  /\ shown' = handler[o].data /\ shownFor' = handler[o].filter
  /\ suspect' = (suspect /\ ~ handler[o].alone)
  /\ End(o)
  /\ UNCHANGED <<section, sessionVars, stored, filter, error>>

LoadFails(o) ==
  /\ handler[o].pc = "loading" /\ handler[o].data = Nothing
  /\ End(o)
  /\ IF handler[o].verdict = {"signedout"}
     THEN ClearSession /\ view' = "login" /\ UNCHANGED error
     ELSE error' = TRUE /\ UNCHANGED sessionVars
  /\ suspect' = TRUE
  /\ UNCHANGED <<section, stored, shown, shownFor, filter>>

------------------------------------------------------------------------------
(* The session and the navigation                                          *)

Loads(o) == Free(o) /\ Reload(o) /\ suspect' = (suspect \/ ~ Alone(o))

\* The dashboard opens on the settings.
Login(o) ==
  /\ view = "login"
  /\ session' = "accepted"
  /\ IF section = "settings" THEN view' = "here" /\ Loads(o)
                             ELSE view' = "elsewhere" /\ UNCHANGED <<handler, error, suspect>>
  /\ UNCHANGED <<section, stored, shown, shownFor, filter>>

\* The server accepts no token that was sent.
Rejecting == [o \in Handlers |-> IF o \in Awaiting /\ handler[o].token = "accepted"
                                THEN [handler[o] EXCEPT !.token = "rejected"] ELSE handler[o]]

\* The request may fail; the session is dropped in any case.
Logout ==
  /\ view # "login"
  /\ session' = "none" /\ view' = "login"
  /\ handler' \in {handler, Rejecting}
  /\ UNCHANGED <<section, stored, shownVars, filter, suspect>>

\* A session expires, or the administrator is revoked.
SessionEnds ==
  /\ session = "accepted" /\ session' = "rejected"
  /\ handler' = Rejecting
  /\ UNCHANGED <<section, view, stored, shownVars, filter, suspect>>

\* showSection loads the section each time it is shown.
Shows(o, name) ==
  /\ section = name
  /\ view \in {"here", "elsewhere"} /\ view' = "here" /\ UNCHANGED session
  /\ Loads(o)
  /\ UNCHANGED <<section, stored, shown, shownFor, filter>>

ShowSettings(o)        == Shows(o, "settings")
ShowUserAccounts(o)    == Shows(o, "user-accounts")
ShowServiceRequests(o) == Shows(o, "service-requests")
ShowQuotes(o)          == Shows(o, "quotes")
ShowReviews(o)         == Shows(o, "reviews")
ShowPayments(o)        == Shows(o, "payments")
ShowCategories(o)      == Shows(o, "categories")
ShowEmailTemplates(o)  == Shows(o, "email-templates")
ShowEmailLayout(o)     == Shows(o, "email-layout")
ShowAdminRoles(o)      == Shows(o, "admin-roles")
ShowAdminUsers(o)      == Shows(o, "admin-users")

\* A tab of the dialog of a quote loads once, into an element that is new with
\* each opening: what an earlier opening still awaits is not seen any more.
OpensTab(o, name) ==
  /\ section = name
  /\ view \in {"here", "elsewhere"} /\ view' = "here" /\ UNCHANGED session
  /\ shown' = Nothing /\ error' = FALSE
  /\ handler' = [p \in Handlers |->
       IF p # o THEN IdleHandler
       ELSE [pc |-> "loading", token |-> session, filter |-> filter, data |-> Nothing,
             verdict |-> {}, alone |-> TRUE]]
  /\ suspect' = (suspect \/ Awaiting # {})
  /\ UNCHANGED <<section, stored, shownFor, filter>>

LoadNegotiationThread(o)    == OpensTab(o, "negotiation-thread")
LoadEngagementChatThread(o) == OpensTab(o, "engagement-chat")
LoadAppointments(o)         == OpensTab(o, "appointments")
LoadEngagementReviews(o)    == OpensTab(o, "engagement-reviews")

ShowSection(o) ==
  \/ ShowSettings(o) \/ ShowUserAccounts(o) \/ ShowServiceRequests(o) \/ ShowQuotes(o)
  \/ ShowReviews(o) \/ ShowPayments(o) \/ ShowCategories(o) \/ ShowEmailTemplates(o)
  \/ ShowEmailLayout(o) \/ ShowAdminRoles(o) \/ ShowAdminUsers(o)
  \/ LoadNegotiationThread(o) \/ LoadEngagementChatThread(o) \/ LoadAppointments(o)
  \/ LoadEngagementReviews(o)

Leave ==
  /\ view = "here" /\ view' = "elsewhere"
  /\ UNCHANGED <<section, session, stored, shownVars, filter, handler, suspect>>

\* The moderation status of the reviews, the pending payment attempts.
ChangeFilter(o) ==
  /\ view = "here" /\ section \in {"reviews", "payments"}
  /\ UNCHANGED sessionVars
  /\ \E f \in {"all", "pending"} \ {filter} : filter' = f /\ Free(o) /\ LoadFor(o, f)
  /\ error' = FALSE /\ suspect' = (suspect \/ ~ Alone(o))
  /\ UNCHANGED <<section, stored, shown, shownFor>>

SectionsNext ==
  \/ \E o \in Handlers :
       \/ DeleteUserAccount(o) \/ DeleteAdminUser(o) \/ RevokeAdminUser(o) \/ DeleteAdminRole(o)
       \/ DeleteCategory(o) \/ SubmitBulkDelete(o)
       \/ EditUserAccount(o) \/ EditAdminUserRow(o)
       \/ HandleModerate(o) \/ HandleModerateReviewInTab(o)
       \/ HandleForcePasswordReset(o) \/ HandleResendInvite(o) \/ HandleSendTest(o)
       \/ HandleSaveCredential(o)
       \/ HandleToggle(o) \/ HandleSaveSetting(o)
       \/ SubmitServiceRequest(o) \/ InviteAdminUser(o) \/ EditAdminUser(o)
       \/ SubmitRole(o) \/ SubmitCategory(o) \/ SubmitTemplate(o)
       \/ MoveSibling(o) \/ HandleSortableEnd(o)
       \/ SubmitLayout(o) \/ UploadLogo(o) \/ SendLogo(o) \/ UploadFails(o)
       \/ Serve(o) \/ ServeLoad(o)
       \/ Saved(o) \/ TurnedDown(o) \/ SignedOut(o) \/ Lost(o) \/ Loaded(o) \/ LoadFails(o)
       \/ Login(o) \/ ShowSection(o) \/ ChangeFilter(o)
  \/ Logout \/ SessionEnds \/ Leave \/ OthersChange

SectionsSpec == SectionsInit /\ [][SectionsNext]_sectionVars

------------------------------------------------------------------------------
(* Properties                                                              *)

Quiet == \A o \in Handlers : handler[o].pc \in {"idle", "uploading"}

\* A section that shows no error shows the server's data, under the filter that
\* is set, once its handlers have their answers; unless the data changed behind
\* the panel, requests crossed, or an answer or a load was lost.  A refused
\* half of an exchange, a revert and a load that is skipped are where it could
\* go wrong.
NoErrorMeansCurrent ==
  (view = "here" /\ Quiet /\ ~ error /\ ~ suspect) => (shown = stored /\ shownFor = filter)

\* A handler changes what the administrator edited.  A row that is sent whole
\* (a flag with its publicity, the layout with its logo) takes its other fields
\* from the last load: they undo a change only if it is suspect.
OnlyTheEditedChanges ==
  [][\A r \in Rows : stored'[r] # stored[r] =>
       \/ suspect'
       \/ \E o \in Handlers : handler[o].pc = "saving" /\ \E w \in handler[o].open :
            r \in w.want /\ stored'[r] = w.put[r]]_sectionVars
=============================================================================
