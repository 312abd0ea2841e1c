----------------------------- MODULE PanelDialogs -----------------------------
(***************************************************************************)
(* Dialogs of the administration panel that are filled by requests.  A     *)
(* dialog is one element that is opened again and again; an answer that    *)
(* was asked for by an earlier opening lands in the one that is open now.  *)
(* A dialog is modal: while it is open nothing behind it can be reached.   *)
(* The dialogs share nothing: a behaviour is of one of them.               *)
(*                                                                         *)
(* Every row has a role of its own, which stands for it; what a search     *)
(* finds first stands for the search.                                      *)
(***************************************************************************)
CONSTANTS Choices,  \* rows a dialog can be opened for; roles; customers
          Flights,  \* requests of the dialogs that can be on their way
          Unset

ASSUME DialogsAssumption == Unset \notin Choices

VARIABLES dialog,     \* which one
          target,     \* the row it is opened for, or the last one
          open,
          value,      \* the value of its select
          cached,     \* the roles are loaded
          selected,   \* the rows selected in the grid
          listed,     \* the rows a confirmation lists
          details,    \* the rows whose details it shows
          flight,     \* what is on its way, for which row
          sent,       \* (history) the last request: its rows, and what was meant
          picked,     \* (history) what the administrator picked since it opened
          crossed     \* (history) an answer of another opening was on its way

dialogVars == <<dialog, target, open, value, cached, selected, listed, details, flight, sent, picked,
                crossed>>
selectVars == <<value, cached>>
gridVars == <<selected, listed>>

Details == {"user-detail", "request-detail", "quote-detail"}
Dialogs == {"edit-admin", "create-request", "bulk-delete"} \cup Details

NoFlight == [kind |-> "none", row |-> Unset]
Nobody == [rows |-> {}, meant |-> {}, late |-> FALSE]

\* The types of the dialogs.
DialogsTypeOK ==
  /\ dialog \in Dialogs
  /\ {target, value, picked} \subseteq Choices \cup {Unset}
  /\ {open, cached, crossed} \subseteq BOOLEAN
  /\ selected \subseteq Choices /\ listed \subseteq Choices /\ details \subseteq Choices
  /\ flight \in [Flights -> [kind : {"none", "fill", "grid", "photo"}, row : Choices \cup {Unset}]]
  /\ sent \in [rows : SUBSET (Choices \cup {Unset}), meant : SUBSET Choices, late : BOOLEAN]

DialogsInit ==
  /\ dialog \in Dialogs
  /\ target = Unset /\ open = FALSE /\ value = Unset /\ cached \in BOOLEAN
  /\ selected = {} /\ listed = {} /\ details = {}
  /\ flight = [f \in Flights |-> NoFlight]
  /\ sent = Nobody /\ picked = Unset /\ crossed = FALSE

------------------------------------------------------------------------------
InFlight(kind) == {f \in Flights : flight[f].kind = kind}
Lands(f) == flight' = [flight EXCEPT ![f] = NoFlight]
Starts(f, kind, row) ==
  flight[f] = NoFlight /\ flight' = [flight EXCEPT ![f] = [kind |-> kind, row |-> row]]

Close ==
  /\ open /\ open' = FALSE
  /\ UNCHANGED <<dialog, target, selectVars, gridVars, details, flight, sent, picked, crossed>>

Pick(v) ==
  /\ dialog \in {"edit-admin", "create-request"} /\ open
  /\ value # Unset              \* there are options
  /\ value' = v /\ picked' = v
  /\ UNCHANGED <<dialog, target, open, cached, gridVars, details, flight, sent, crossed>>

------------------------------------------------------------------------------
(* The form of an administrator: name, status, and the role, whose options *)
(* are the roles that the section of the roles has loaded, or loads now.   *)

OpenEditDialog(r) ==
  /\ dialog = "edit-admin" /\ ~ open
  /\ open' = TRUE /\ target' = r /\ picked' = Unset
  /\ crossed' = (InFlight("fill") # {})
  /\ IF cached THEN value' = r /\ UNCHANGED flight
               ELSE value' = Unset /\ \E f \in Flights : Starts(f, "fill", r)
  /\ UNCHANGED <<dialog, cached, gridVars, details, sent>>

\* (variant) No role is selected: the first option is.
RolesLandUnselected(f) ==
  /\ dialog = "edit-admin" /\ flight[f].kind = "fill"
  /\ cached' \in {cached, TRUE}
  /\ value' = IF cached' THEN CHOOSE r \in Choices : TRUE ELSE value
  /\ Lands(f)
  /\ UNCHANGED <<dialog, target, open, gridVars, details, sent, picked, crossed>>

\* populateRoleSelect goes on: it selects the role of its own row.
RolesLand(f) ==
  /\ dialog = "edit-admin" /\ flight[f].kind = "fill"
  /\ cached' \in {cached, TRUE}
  /\ value' = IF cached' THEN flight[f].row ELSE value
  /\ Lands(f)
  /\ UNCHANGED <<dialog, target, open, gridVars, details, sent, picked, crossed>>

SubmitEditForm ==
  /\ dialog = "edit-admin" /\ open
  /\ sent' = [rows |-> {value}, meant |-> {IF picked = Unset THEN target ELSE picked},
              late |-> crossed \/ InFlight("fill") # {} \/ ~ cached]
  /\ open' \in {FALSE, TRUE}  \* it closes if the change is accepted
  /\ UNCHANGED <<dialog, target, selectVars, gridVars, details, flight, picked, crossed>>

------------------------------------------------------------------------------
(* The form of a service request: a search for its customer, and a select  *)
(* of what it found.                                                       *)

OpenCreateDialog(r) ==
  /\ dialog = "create-request" /\ ~ open
  /\ open' = TRUE /\ value' = Unset /\ picked' = Unset /\ crossed' = FALSE
  /\ \E f \in Flights : Starts(f, "fill", r)
  /\ UNCHANGED <<dialog, target, cached, gridVars, details, sent>>

SearchCustomers(f, r) ==
  /\ dialog = "create-request" /\ open
  /\ Starts(f, "fill", r)
  /\ UNCHANGED <<dialog, target, open, selectVars, gridVars, details, sent, picked, crossed>>

\* The options are replaced, and the browser selects the first of them.
CustomersLand(f) ==
  /\ dialog = "create-request" /\ flight[f].kind = "fill"
  /\ \/ value' = flight[f].row /\ crossed' = (crossed \/ picked # Unset)
     \/ UNCHANGED <<value, crossed>>  \* the search fails
  /\ Lands(f)
  /\ UNCHANGED <<dialog, target, open, cached, gridVars, details, sent, picked>>

SubmitCreateServiceRequest ==
  /\ dialog = "create-request" /\ open
  /\ value # Unset
  /\ sent' = [rows |-> {value}, meant |-> {IF picked = Unset THEN value ELSE picked}, late |-> crossed]
  /\ open' \in {FALSE, TRUE}
  /\ UNCHANGED <<dialog, target, selectVars, gridVars, details, flight, picked, crossed>>

------------------------------------------------------------------------------
(* Deleting the selected accounts: a confirmation lists them; what is sent *)
(* is the selection when it is confirmed.                                  *)

SelectRows ==
  /\ dialog = "bulk-delete" /\ ~ open
  /\ selected' \in SUBSET Choices
  /\ UNCHANGED <<dialog, target, open, selectVars, listed, details, flight, sent, picked, crossed>>

OpenBulkDialog ==
  /\ dialog = "bulk-delete" /\ ~ open /\ selected # {}
  /\ open' = TRUE /\ listed' = selected
  /\ UNCHANGED <<dialog, target, selectVars, selected, details, flight, sent, picked, crossed>>

\* The grid is loaded by other handlers; setData drops the selection.
LoadGrid(f) ==
  /\ dialog = "bulk-delete" /\ ~ open /\ Starts(f, "grid", Unset)
  /\ UNCHANGED <<dialog, target, open, selectVars, gridVars, details, sent, picked, crossed>>

GridLands(f) ==
  /\ dialog = "bulk-delete" /\ flight[f].kind = "grid"
  /\ selected' \in {{}, selected}
  /\ Lands(f)
  /\ UNCHANGED <<dialog, target, open, selectVars, listed, details, sent, picked, crossed>>

ConfirmBulkDelete ==
  /\ dialog = "bulk-delete" /\ open
  /\ sent' = [rows |-> selected, meant |-> listed, late |-> FALSE]
  /\ open' = FALSE
  /\ \/ selected' = {}      \* deselectRow, once they are deleted
     \/ UNCHANGED selected  \* refused
  /\ UNCHANGED <<dialog, target, selectVars, listed, details, flight, picked, crossed>>

------------------------------------------------------------------------------
(* Details: cleared when the dialog opens, added when they land.           *)

Opens(r, f) ==
  /\ Starts(f, "fill", r)
  /\ open' = TRUE /\ target' = r /\ details' = {}
  /\ crossed' = (InFlight("fill") # {})
  /\ UNCHANGED <<dialog, selectVars, gridVars, sent, picked>>

OpensDetail(r, name) == dialog = name /\ ~ open /\ \E f \in Flights : Opens(r, f)

OpenUserDetailModal(r)           == OpensDetail(r, "user-detail")
OpenServiceRequestDetailModal(r) == OpensDetail(r, "request-detail")
OpenQuoteDetailModal(r)          == OpensDetail(r, "quote-detail")

DetailsLand(f) ==
  /\ dialog \in Details /\ flight[f].kind = "fill"
  /\ details' \in {details, details \cup {flight[f].row}}
  /\ Lands(f)
  /\ UNCHANGED <<dialog, target, open, selectVars, gridVars, sent, picked, crossed>>

\* A photo of an account that is shown is replaced: an upload, the wait for the
\* processed image, and a request for that account.
UploadPhoto(f) ==
  /\ dialog = "user-detail" /\ open /\ InFlight("photo") = {}
  /\ \E r \in details : Starts(f, "photo", r)
  /\ UNCHANGED <<dialog, target, open, selectVars, gridVars, details, sent, picked, crossed>>

\* onChanged opens the dialog again for that account, wherever it is now.
PhotoChanged(f) ==
  /\ dialog = "user-detail" /\ flight[f].kind = "photo"
  /\ flight' = [flight EXCEPT ![f] = [kind |-> "fill", row |-> flight[f].row]]
  /\ open' = TRUE /\ target' = flight[f].row /\ details' = {}
  /\ crossed' = (InFlight("fill") # {})
  /\ UNCHANGED <<dialog, selectVars, gridVars, sent, picked>>

PhotoFails(f) ==
  /\ dialog = "user-detail" /\ flight[f].kind = "photo"
  /\ Lands(f)
  /\ UNCHANGED <<dialog, target, open, selectVars, gridVars, details, sent, picked, crossed>>

DialogsNext ==
  \/ Close \/ SubmitEditForm \/ SubmitCreateServiceRequest
  \/ SelectRows \/ OpenBulkDialog \/ ConfirmBulkDelete
  \/ \E r \in Choices :
       \/ Pick(r) \/ OpenEditDialog(r) \/ OpenCreateDialog(r)
       \/ OpenUserDetailModal(r) \/ OpenServiceRequestDetailModal(r) \/ OpenQuoteDetailModal(r)
  \/ \E f \in Flights :
       \/ RolesLand(f) \/ CustomersLand(f) \/ LoadGrid(f) \/ GridLands(f)
       \/ DetailsLand(f) \/ UploadPhoto(f) \/ PhotoChanged(f) \/ PhotoFails(f)
       \/ \E r \in Choices : SearchCustomers(f, r)

DialogsSpec == DialogsInit /\ [][DialogsNext]_dialogVars

------------------------------------------------------------------------------
(* Properties                                                              *)

\* The administrator keeps the role the form was opened with, or gets the one
\* that was picked; the request is for the customer who was picked; no account
\* is deleted that the confirmation did not list; unless an answer of another
\* opening or search crossed this one.  The details of two rows are shown
\* together for the same reason only.
ChosenIsSent ==
  /\ ~ sent.late => sent.rows \subseteq sent.meant
  /\ (dialog \in Details /\ ~ crossed) => details \subseteq {target}
=============================================================================
