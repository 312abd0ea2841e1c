----------------------------- MODULE PanelProofs -----------------------------
(***************************************************************************)
(* Theorems about the administration panel, for every number of handlers,  *)
(* of requests on their way and of rows a dialog can be opened for.        *)
(***************************************************************************)
EXTENDS PanelSections, PanelDialogs, TLAPS

-----------------------------------------------------------------------------
(* The dialogs                                                             *)

Fills == InFlight("fill")

\* The form of an administrator that no answer crossed: either it still awaits
\* its roles, and nothing can be picked, or it shows what will be sent.
EditFormOK ==
  /\ dialog = "edit-admin" /\ open => target \in Choices
  /\ dialog = "edit-admin" /\ ~ crossed =>
       /\ \A f \in Fills : /\ flight[f].row = target /\ Fills = {f}
                            /\ value = Unset /\ picked = Unset
       /\ open /\ cached /\ Fills = {} => value = IF picked = Unset THEN target ELSE picked

\* Every list of customers that replaced a pick has left its mark.
CreateFormOK == dialog = "create-request" /\ ~ crossed /\ picked # Unset => value = picked

\* Behind an open confirmation the selection only shrinks.
ConfirmationOK == dialog = "bulk-delete" /\ open => selected \subseteq listed

\* What is shown, or on its way to be, is of the row the dialog is open for.
DetailsOK ==
  dialog \in Details /\ ~ crossed =>
    details \subseteq {target} /\ \A f \in Fills : flight[f].row = target
FlightsOK ==
  dialog \in Details => \A f \in Flights : flight[f] # NoFlight => flight[f].row \in Choices

DialogsInv == DialogsTypeOK /\ EditFormOK /\ CreateFormOK /\ ConfirmationOK /\ DetailsOK
              /\ FlightsOK /\ ChosenIsSent

\* The dialogs and the requests that fill them have different names.
LEMMA DialogsNames ==
  /\ "edit-admin" \notin Details /\ "create-request" \notin Details /\ "bulk-delete" \notin Details
  /\ "edit-admin" # "create-request" /\ "edit-admin" # "bulk-delete"
  /\ "create-request" # "bulk-delete"
  /\ "fill" # "none" /\ "fill" # "grid" /\ "fill" # "photo" /\ "photo" # "none" /\ "grid" # "none"
  BY DEF Details

\* What starting and landing a request do to what is on its way.
LEMMA StartsFlight ==
  ASSUME DialogsTypeOK, NEW f \in Flights, NEW kind \in {"fill", "grid", "photo"},
         NEW row \in Choices \cup {Unset}, Starts(f, kind, row)
  PROVE  /\ flight' \in [Flights -> [kind : {"none", "fill", "grid", "photo"}, row : Choices \cup {Unset}]]
         /\ \A g \in Flights : g # f => flight'[g] = flight[g]
         /\ flight'[f] = [kind |-> kind, row |-> row] /\ flight[f] = NoFlight
         /\ Fills' = IF kind = "fill" THEN Fills \cup {f} ELSE Fills
  BY DEF DialogsTypeOK, Starts, Fills, InFlight, NoFlight

\* An answer that arrives is no longer on its way, and the others still are.
LEMMA LandsFlight ==
  ASSUME DialogsTypeOK, NEW f \in Flights, Lands(f)
  PROVE  /\ flight' \in [Flights -> [kind : {"none", "fill", "grid", "photo"}, row : Choices \cup {Unset}]]
         /\ \A g \in Flights : g # f => flight'[g] = flight[g]
         /\ flight'[f] = NoFlight /\ Fills' = Fills \ {f}
  BY DEF DialogsTypeOK, Lands, Fills, InFlight, NoFlight

\* At first no dialog is open and no request on its way.
LEMMA InitDialogs == DialogsInit => DialogsInv
<1> SUFFICES ASSUME DialogsInit PROVE DialogsInv
  OBVIOUS
<1>1. DialogsTypeOK
  BY DEF DialogsInit, DialogsTypeOK, NoFlight, Nobody
<1>2. Fills = {}
  BY DEF DialogsInit, Fills, InFlight, NoFlight
<1>3. EditFormOK /\ CreateFormOK /\ ConfirmationOK /\ DetailsOK /\ FlightsOK
  BY <1>2 DEF DialogsInit, EditFormOK, CreateFormOK, ConfirmationOK, DetailsOK, FlightsOK
<1>4. ChosenIsSent
  BY DEF DialogsInit, ChosenIsSent, Nobody
<1> QED
  BY <1>1, <1>3, <1>4 DEF DialogsInv

\* The parts of the invariant that a step in another dialog cannot disturb.
LEMMA OfAnotherDialog ==
  ASSUME DialogsInv, UNCHANGED <<dialog, sent>>
  PROVE  /\ dialog # "edit-admin" => EditFormOK'
         /\ dialog # "create-request" => CreateFormOK'
         /\ dialog # "bulk-delete" => ConfirmationOK'
         /\ dialog \notin Details => DetailsOK' /\ FlightsOK' /\ ChosenIsSent'
         /\ (dialog \in Details /\ ~ crossed' => details' \subseteq {target'}) => ChosenIsSent'
  BY DEF DialogsInv, EditFormOK, CreateFormOK, ConfirmationOK, DetailsOK, FlightsOK, ChosenIsSent

\* The dialog of an administrator is opened for a row, and filled.
LEMMA EditFormStep ==
  ASSUME DialogsInv,
         \/ \E r \in Choices : OpenEditDialog(r)
         \/ \E f \in Flights : RolesLand(f)
  PROVE  DialogsInv'
<1>1. ASSUME NEW r \in Choices, OpenEditDialog(r), cached PROVE DialogsInv'
  <2>1. DialogsTypeOK'
    BY <1>1 DEF OpenEditDialog, DialogsInv, DialogsTypeOK, gridVars
  <2>2. EditFormOK'
    BY <1>1 DEF OpenEditDialog, EditFormOK, Fills, InFlight
  <2> QED
    BY <1>1, <2>1, <2>2, OfAnotherDialog, DialogsNames DEF OpenEditDialog, DialogsInv
<1>2. ASSUME NEW r \in Choices, OpenEditDialog(r), ~ cached PROVE DialogsInv'
  <2>1. PICK f \in Flights : Starts(f, "fill", r)
    BY <1>2 DEF OpenEditDialog
  <2>2. /\ Fills' = Fills \cup {f} /\ flight'[f] = [kind |-> "fill", row |-> r]
        /\ flight' \in [Flights -> [kind : {"none", "fill", "grid", "photo"}, row : Choices \cup {Unset}]]
    BY <2>1, StartsFlight DEF DialogsInv
  <2>3. DialogsTypeOK'
    BY <1>2, <2>2 DEF OpenEditDialog, DialogsInv, DialogsTypeOK, gridVars
  <2>4. EditFormOK'
    <3>1. /\ ~ crossed' => Fills = {}
          /\ target' = r /\ value' = Unset /\ picked' = Unset
          /\ dialog' = dialog /\ cached' = cached
      BY <1>2 DEF OpenEditDialog, Fills
    <3>2. ASSUME ~ crossed' PROVE Fills' = {f} /\ flight'[f].row = target'
      BY <2>2, <3>1, <3>2
    <3> QED
      BY <3>1, <3>2 DEF EditFormOK
  <2> QED
    BY <1>2, <2>3, <2>4, OfAnotherDialog, DialogsNames DEF OpenEditDialog, DialogsInv
<1>3. ASSUME NEW f \in Flights, RolesLand(f) PROVE DialogsInv'
  <2>1. /\ flight' \in [Flights -> [kind : {"none", "fill", "grid", "photo"}, row : Choices \cup {Unset}]]
        /\ Fills' = Fills \ {f} /\ \A g \in Flights : g # f => flight'[g] = flight[g]
    BY <1>3, LandsFlight DEF RolesLand, DialogsInv
  <2>2. f \in Fills /\ flight[f].row \in Choices \cup {Unset}
    BY <1>3 DEF RolesLand, Fills, InFlight, DialogsInv, DialogsTypeOK
  <2>3. DialogsTypeOK'
    BY <1>3, <2>1, <2>2 DEF RolesLand, DialogsInv, DialogsTypeOK, gridVars
  <2>4. EditFormOK'
    BY <1>3, <2>1, <2>2 DEF RolesLand, DialogsInv, EditFormOK, Fills, InFlight
  <2> QED
    BY <1>3, <2>3, <2>4, OfAnotherDialog, DialogsNames DEF RolesLand, DialogsInv
<1> QED
  BY <1>1, <1>2, <1>3

\* The dialog of a new request is opened, searched in, and filled.
LEMMA CreateFormStep ==
  ASSUME DialogsInv,
         \/ \E r \in Choices : OpenCreateDialog(r)
         \/ \E f \in Flights : CustomersLand(f) \/ \E r \in Choices : SearchCustomers(f, r)
  PROVE  DialogsInv'
<1>1. ASSUME NEW r \in Choices, OpenCreateDialog(r) PROVE DialogsInv'
  <2>1. PICK f \in Flights : Starts(f, "fill", r)
    BY <1>1 DEF OpenCreateDialog
  <2>2. flight' \in [Flights -> [kind : {"none", "fill", "grid", "photo"}, row : Choices \cup {Unset}]]
    BY <2>1, StartsFlight DEF DialogsInv
  <2>3. DialogsTypeOK' /\ CreateFormOK'
    BY <1>1, <2>2 DEF OpenCreateDialog, DialogsInv, DialogsTypeOK, gridVars, CreateFormOK
  <2> QED
    BY <1>1, <2>3, OfAnotherDialog, DialogsNames DEF OpenCreateDialog, DialogsInv
<1>2. ASSUME NEW f \in Flights, NEW r \in Choices, SearchCustomers(f, r) PROVE DialogsInv'
  <2>1. flight' \in [Flights -> [kind : {"none", "fill", "grid", "photo"}, row : Choices \cup {Unset}]]
    BY <1>2, StartsFlight DEF SearchCustomers, DialogsInv
  <2>2. DialogsTypeOK' /\ CreateFormOK'
    BY <1>2, <2>1 DEF SearchCustomers, DialogsInv, DialogsTypeOK, gridVars, selectVars, CreateFormOK
  <2> QED
    BY <1>2, <2>2, OfAnotherDialog, DialogsNames DEF SearchCustomers, DialogsInv
<1>3. ASSUME NEW f \in Flights, CustomersLand(f) PROVE DialogsInv'
  <2>1. flight' \in [Flights -> [kind : {"none", "fill", "grid", "photo"}, row : Choices \cup {Unset}]]
    BY <1>3, LandsFlight DEF CustomersLand, DialogsInv
  <2>2. flight[f].row \in Choices \cup {Unset}
    BY DEF DialogsInv, DialogsTypeOK
  <2>3. value' \in Choices \cup {Unset} /\ crossed' \in BOOLEAN
    <3>1. crossed \in BOOLEAN /\ value \in Choices \cup {Unset}
      BY DEF DialogsInv, DialogsTypeOK
    <3>2. CASE value' = flight[f].row /\ crossed' = (crossed \/ picked # Unset)
      <4>1. (crossed \/ picked # Unset) \in BOOLEAN
        OBVIOUS
      <4>2. crossed' \in BOOLEAN
        BY <3>2, <4>1, Zenon
      <4> QED
        BY <2>2, <3>2, <4>2
    <3>3. CASE UNCHANGED <<value, crossed>>
      BY <3>1, <3>3
    <3>4. \/ value' = flight[f].row /\ crossed' = (crossed \/ picked # Unset)
          \/ UNCHANGED <<value, crossed>>
      BY <1>3, Zenon DEF CustomersLand
    <3> QED
      BY <3>2, <3>3, <3>4, Zenon
  <2>4. DialogsTypeOK'
    BY <1>3, <2>1, <2>3 DEF CustomersLand, DialogsInv, DialogsTypeOK, gridVars
  <2>5. CreateFormOK'
    <3>1. ASSUME crossed' = (crossed \/ picked # Unset), ~ crossed', picked # Unset PROVE FALSE
      BY <3>1, Zenon
    <3>2. CASE UNCHANGED <<value, crossed>>
      BY <1>3, <3>2 DEF CustomersLand, DialogsInv, CreateFormOK
    <3>3. CASE crossed' = (crossed \/ picked # Unset)
      BY <1>3, <3>1, <3>3, Zenon DEF CustomersLand, CreateFormOK
    <3> QED
      BY <1>3, <3>2, <3>3, Zenon DEF CustomersLand
  <2> QED
    BY <1>3, <2>4, <2>5, OfAnotherDialog, DialogsNames DEF CustomersLand, DialogsInv
<1> QED
  BY <1>1, <1>2, <1>3

\* Rows are selected, loaded again, or picked; a dialog is closed.
LEMMA SelectionStep ==
  ASSUME DialogsInv,
         \/ SelectRows \/ OpenBulkDialog \/ Close
         \/ \E v \in Choices : Pick(v)
         \/ \E f \in Flights : LoadGrid(f) \/ GridLands(f)
  PROVE  DialogsInv'
<1>1. CASE SelectRows \/ OpenBulkDialog
  <2>1. selected' \subseteq Choices /\ listed' \subseteq Choices
    BY <1>1 DEF SelectRows, OpenBulkDialog, DialogsInv, DialogsTypeOK
  <2>2. DialogsTypeOK'
    BY <1>1, <2>1 DEF SelectRows, OpenBulkDialog, DialogsInv, DialogsTypeOK, selectVars
  <2>3. ConfirmationOK'
    BY <1>1 DEF SelectRows, OpenBulkDialog, ConfirmationOK
  <2> QED
    BY <1>1, <2>2, <2>3, OfAnotherDialog, DialogsNames DEF SelectRows, OpenBulkDialog, DialogsInv
<1>2. CASE Close
  <2>1. DialogsTypeOK'
    BY <1>2 DEF Close, DialogsInv, DialogsTypeOK, selectVars, gridVars
  <2> QED
    BY <1>2, <2>1 DEF Close, DialogsInv, selectVars, gridVars, EditFormOK, CreateFormOK, ConfirmationOK,
       DetailsOK, FlightsOK, ChosenIsSent, Fills, InFlight
<1>3. ASSUME NEW v \in Choices, Pick(v) PROVE DialogsInv'
  <2>1. DialogsTypeOK' /\ v # Unset
    BY <1>3, DialogsAssumption DEF Pick, DialogsInv, DialogsTypeOK, gridVars
  <2>2. EditFormOK' /\ CreateFormOK'
    BY <1>3, <2>1 DEF Pick, DialogsInv, EditFormOK, CreateFormOK, Fills, InFlight
  <2> QED
    BY <1>3, <2>1, <2>2, OfAnotherDialog, DialogsNames DEF Pick, DialogsInv
<1>4. ASSUME NEW f \in Flights, LoadGrid(f) \/ GridLands(f) PROVE DialogsInv'
  <2>1. flight' \in [Flights -> [kind : {"none", "fill", "grid", "photo"}, row : Choices \cup {Unset}]]
    BY <1>4, StartsFlight, LandsFlight DEF LoadGrid, GridLands, DialogsInv
  <2>2. selected' \subseteq selected
    BY <1>4 DEF LoadGrid, GridLands, gridVars
  <2>3. DialogsTypeOK' /\ ConfirmationOK'
    BY <1>4, <2>1, <2>2 DEF LoadGrid, GridLands, DialogsInv, DialogsTypeOK, selectVars, gridVars, ConfirmationOK
  <2> QED
    BY <1>4, <2>3, OfAnotherDialog, DialogsNames DEF LoadGrid, GridLands, DialogsInv
<1> QED
  BY <1>1, <1>2, <1>3, <1>4

\* What is sent are choices, and whether an answer came late.
LEMMA SentTyped ==
  ASSUME NEW rows \in SUBSET (Choices \cup {Unset}), NEW meant \in SUBSET Choices, NEW late \in BOOLEAN
  PROVE  [rows |-> rows, meant |-> meant, late |-> late]
           \in [rows : SUBSET (Choices \cup {Unset}), meant : SUBSET Choices, late : BOOLEAN]
  OBVIOUS

\* A form that is sent may stay open; nothing else of its dialog moves.
LEMMA SubmitKeeps ==
  ASSUME DialogsInv, dialog \notin Details, dialog # "bulk-delete", DialogsTypeOK',
         UNCHANGED <<dialog, target, selectVars, gridVars, details, flight, picked, crossed>>,
         open' => open, ~ sent'.late => sent'.rows \subseteq sent'.meant
  PROVE  DialogsInv'
<1>1. EditFormOK' /\ CreateFormOK'
  BY DEF DialogsInv, EditFormOK, CreateFormOK, Fills, InFlight, selectVars
<1>2. ConfirmationOK' /\ DetailsOK' /\ FlightsOK' /\ ChosenIsSent'
  BY DEF ConfirmationOK, DetailsOK, FlightsOK, ChosenIsSent
<1> QED
  BY <1>1, <1>2 DEF DialogsInv

\* What is sent is what was meant, unless it is late.
LEMMA SubmitStep ==
  ASSUME DialogsInv, SubmitEditForm \/ SubmitCreateServiceRequest \/ ConfirmBulkDelete
  PROVE  DialogsInv'
<1>1. CASE SubmitEditForm
  <2>1. sent' = [rows |-> {value}, meant |-> {IF picked = Unset THEN target ELSE picked},
                 late |-> crossed \/ Fills # {} \/ ~ cached]
    BY <1>1 DEF SubmitEditForm, Fills
  <2>2. ~ sent'.late => sent'.rows \subseteq sent'.meant
    <3>1. ASSUME ~ crossed, Fills = {}, cached
          PROVE  {value} \subseteq {IF picked = Unset THEN target ELSE picked}
      BY <1>1, <3>1 DEF SubmitEditForm, DialogsInv, EditFormOK
    <3> QED
      BY <2>1, <3>1
  <2>3. /\ {value} \subseteq Choices \cup {Unset}
        /\ {IF picked = Unset THEN target ELSE picked} \subseteq Choices
    BY <1>1 DEF SubmitEditForm, DialogsInv, DialogsTypeOK, EditFormOK
  <2>4. (crossed \/ Fills # {} \/ ~ cached) \in BOOLEAN
    OBVIOUS
  <2>5. sent' \in [rows : SUBSET (Choices \cup {Unset}), meant : SUBSET Choices, late : BOOLEAN]
    BY <2>1, <2>3, <2>4, SentTyped
  <2> QED
    BY <1>1, <2>2, <2>5, SubmitKeeps, DialogsNames
       DEF SubmitEditForm, DialogsInv, DialogsTypeOK, EditFormOK, selectVars, gridVars
<1>2. CASE SubmitCreateServiceRequest
  <2>1. sent' = [rows |-> {value}, meant |-> {IF picked = Unset THEN value ELSE picked},
                 late |-> crossed]
    BY <1>2 DEF SubmitCreateServiceRequest
  <2>2. ~ sent'.late => sent'.rows \subseteq sent'.meant
    BY <1>2, <2>1 DEF SubmitCreateServiceRequest, DialogsInv, CreateFormOK
  <2>3. /\ {value} \subseteq Choices \cup {Unset}
        /\ {IF picked = Unset THEN value ELSE picked} \subseteq Choices
        /\ crossed \in BOOLEAN
    BY <1>2 DEF SubmitCreateServiceRequest, DialogsInv, DialogsTypeOK
  <2>4. sent' \in [rows : SUBSET (Choices \cup {Unset}), meant : SUBSET Choices, late : BOOLEAN]
    BY <2>1, <2>3, SentTyped
  <2> QED
    BY <1>2, <2>2, <2>4, SubmitKeeps, DialogsNames
       DEF SubmitCreateServiceRequest, DialogsInv, DialogsTypeOK, EditFormOK, selectVars, gridVars
<1>3. CASE ConfirmBulkDelete
  <2>1. sent' = [rows |-> selected, meant |-> listed, late |-> FALSE]
    BY <1>3 DEF ConfirmBulkDelete
  <2>2. selected \subseteq listed
    BY <1>3 DEF ConfirmBulkDelete, DialogsInv, ConfirmationOK
  <2>3. selected \subseteq Choices \cup {Unset} /\ listed \subseteq Choices /\ FALSE \in BOOLEAN
    BY DEF DialogsInv, DialogsTypeOK
  <2>4. sent' \in [rows : SUBSET (Choices \cup {Unset}), meant : SUBSET Choices, late : BOOLEAN]
    BY <2>1, <2>3, SentTyped
  <2>5. selected' \subseteq Choices
    BY <1>3 DEF ConfirmBulkDelete, DialogsInv, DialogsTypeOK
  <2>6. DialogsTypeOK'
    BY <1>3, <2>4, <2>5 DEF ConfirmBulkDelete, DialogsInv, DialogsTypeOK, selectVars
  <2> QED
    BY <1>3, <2>1, <2>2, <2>6, DialogsNames
       DEF ConfirmBulkDelete, DialogsInv, EditFormOK, CreateFormOK, ConfirmationOK, DetailsOK, FlightsOK, ChosenIsSent
<1> QED
  BY <1>1, <1>2, <1>3

\* A dialog of details opens for row r, with its request on its way.
LEMMA DetailsOpen ==
  ASSUME DialogsInv, dialog \in Details, NEW f \in Flights, NEW r \in Choices,
         flight' \in [Flights -> [kind : {"none", "fill", "grid", "photo"}, row : Choices \cup {Unset}]],
         Fills' = Fills \cup {f}, flight'[f].row = r, \A g \in Flights : g # f => flight'[g] = flight[g],
         target' = r, details' = {}, open' \in BOOLEAN, crossed' = (Fills # {}),
         UNCHANGED <<dialog, selectVars, gridVars, sent, picked>>
  PROVE  DialogsInv'
<1>1. (Fills # {}) \in BOOLEAN
  OBVIOUS
<1>2. crossed' \in BOOLEAN
  BY <1>1, Zenon
<1>3. DialogsTypeOK'
  BY <1>2 DEF DialogsInv, DialogsTypeOK, selectVars, gridVars
<1>4. ~ crossed' => Fills' = {f}
  <2>1. ~ crossed' => Fills = {}
    BY Zenon
  <2> QED
    BY <2>1
<1>5. DetailsOK'
  BY <1>4 DEF DetailsOK
<1>6. ChosenIsSent' /\ FlightsOK'
  BY DEF DialogsInv, ChosenIsSent, FlightsOK
<1> QED
  BY <1>3, <1>5, <1>6, OfAnotherDialog, DialogsNames DEF DialogsInv

\* Details are opened for a row, filled, and their photo changed.
LEMMA DetailsStep ==
  ASSUME DialogsInv,
         \/ \E r \in Choices : \/ OpenUserDetailModal(r) \/ OpenServiceRequestDetailModal(r)
                               \/ OpenQuoteDetailModal(r)
         \/ \E f \in Flights : DetailsLand(f) \/ UploadPhoto(f) \/ PhotoChanged(f) \/ PhotoFails(f)
  PROVE  DialogsInv'
<1>1. ASSUME NEW r \in Choices, NEW name \in Details, OpensDetail(r, name) PROVE DialogsInv'
  <2>1. PICK f \in Flights : Opens(r, f)
    BY <1>1 DEF OpensDetail
  <2>2. Starts(f, "fill", r)
    BY <2>1 DEF Opens
  <2>3. /\ flight' \in [Flights -> [kind : {"none", "fill", "grid", "photo"}, row : Choices \cup {Unset}]]
        /\ flight'[f] = [kind |-> "fill", row |-> r] /\ Fills' = Fills \cup {f}
        /\ \A g \in Flights : g # f => flight'[g] = flight[g]
    BY <2>2, StartsFlight DEF DialogsInv
  <2>4. dialog \in Details
    BY <1>1 DEF OpensDetail
  <2> QED
    BY <2>1, <2>3, <2>4, DetailsOpen DEF Opens, Fills
<1>2. ASSUME NEW f \in Flights, DetailsLand(f) PROVE DialogsInv'
  <2>1. /\ flight' \in [Flights -> [kind : {"none", "fill", "grid", "photo"}, row : Choices \cup {Unset}]]
        /\ Fills' = Fills \ {f} /\ \A g \in Flights : g # f => flight'[g] = flight[g]
        /\ flight'[f] = NoFlight
    BY <1>2, LandsFlight DEF DetailsLand, DialogsInv
  <2>2. f \in Fills /\ Fills \subseteq Flights
    BY <1>2 DEF DetailsLand, Fills, InFlight
  <2>3. details' \subseteq Choices
    <3>1. details \subseteq Choices /\ flight[f].row \in Choices \cup {Unset}
      BY DEF DialogsInv, DialogsTypeOK
    <3>2. flight[f].row \in Choices
      BY <1>2 DEF DetailsLand, DialogsInv, FlightsOK, NoFlight
    <3> QED
      BY <1>2, <3>1, <3>2 DEF DetailsLand
  <2>4. DialogsTypeOK'
    BY <1>2, <2>1, <2>3 DEF DetailsLand, DialogsInv, DialogsTypeOK, selectVars, gridVars
  <2>5. DetailsOK' /\ FlightsOK' /\ ChosenIsSent'
    BY <1>2, <2>1, <2>2 DEF DetailsLand, DialogsInv, DetailsOK, FlightsOK, ChosenIsSent
  <2> QED
    BY <1>2, <2>4, <2>5, OfAnotherDialog, DialogsNames DEF DetailsLand, DialogsInv
<1>3. ASSUME NEW f \in Flights, UploadPhoto(f) PROVE DialogsInv'
  <2>1. PICK r \in details : Starts(f, "photo", r)
    BY <1>3 DEF UploadPhoto
  <2>2. r \in Choices \cup {Unset}
    BY DEF DialogsInv, DialogsTypeOK
  <2>3. /\ flight' \in [Flights -> [kind : {"none", "fill", "grid", "photo"}, row : Choices \cup {Unset}]]
        /\ Fills' = Fills /\ \A g \in Flights : g # f => flight'[g] = flight[g]
        /\ flight'[f] = [kind |-> "photo", row |-> r] /\ flight[f] = NoFlight
    BY <2>1, <2>2, StartsFlight DEF DialogsInv
  <2>4. DialogsTypeOK' /\ r \in Choices
    BY <1>3, <2>1, <2>3 DEF UploadPhoto, DialogsInv, DialogsTypeOK, selectVars, gridVars
  <2>5. \A g \in Fills : flight'[g] = flight[g]
    <3>1. f \notin Fills
      BY <2>3 DEF Fills, InFlight, NoFlight
    <3> QED
      BY <2>3, <3>1 DEF Fills, InFlight
  <2>6. DetailsOK' /\ FlightsOK' /\ ChosenIsSent'
    BY <1>3, <2>3, <2>4, <2>5 DEF UploadPhoto, DialogsInv, DetailsOK, FlightsOK, ChosenIsSent
  <2> QED
    BY <1>3, <2>4, <2>6, OfAnotherDialog, DialogsNames DEF UploadPhoto, DialogsInv, Details
<1>4. ASSUME NEW f \in Flights, PhotoChanged(f) PROVE DialogsInv'
  <2>1. PICK r : r = flight[f].row
    OBVIOUS
  <2>2. flight' = [flight EXCEPT ![f] = [kind |-> "fill", row |-> r]]
    BY <1>4, <2>1 DEF PhotoChanged
  <2>3. r \in Choices
    <3>1. flight[f] # NoFlight /\ dialog \in Details
      BY <1>4, DialogsNames DEF PhotoChanged, NoFlight, Details
    <3> QED
      BY <2>1, <3>1 DEF DialogsInv, FlightsOK
  <2>4. /\ flight' \in [Flights -> [kind : {"none", "fill", "grid", "photo"}, row : Choices \cup {Unset}]]
        /\ flight'[f].row = r /\ Fills' = Fills \cup {f}
        /\ \A g \in Flights : g # f => flight'[g] = flight[g]
    BY <2>2, <2>3 DEF DialogsInv, DialogsTypeOK, Fills, InFlight
  <2>5. dialog \in Details
    BY <1>4 DEF PhotoChanged, Details
  <2> QED
    BY <1>4, <2>1, <2>3, <2>4, <2>5, DetailsOpen DEF PhotoChanged, Fills
<1>5. ASSUME NEW f \in Flights, PhotoFails(f) PROVE DialogsInv'
  <2>1. /\ flight' \in [Flights -> [kind : {"none", "fill", "grid", "photo"}, row : Choices \cup {Unset}]]
        /\ Fills' = Fills \ {f} /\ \A g \in Flights : g # f => flight'[g] = flight[g]
        /\ flight'[f] = NoFlight
    BY <1>5, LandsFlight DEF PhotoFails, DialogsInv
  <2>2. DialogsTypeOK'
    BY <1>5, <2>1 DEF PhotoFails, DialogsInv, DialogsTypeOK, selectVars, gridVars
  <2>3. DetailsOK' /\ FlightsOK' /\ ChosenIsSent'
    BY <1>5, <2>1 DEF PhotoFails, DialogsInv, DetailsOK, FlightsOK, ChosenIsSent, Fills, InFlight
  <2> QED
    BY <1>5, <2>2, <2>3, OfAnotherDialog, DialogsNames DEF PhotoFails, DialogsInv, Details
<1>6. \A r \in Choices : OpenUserDetailModal(r) \/ OpenServiceRequestDetailModal(r) \/ OpenQuoteDetailModal(r)
        => \E name \in Details : OpensDetail(r, name)
  BY DEF OpenUserDetailModal, OpenServiceRequestDetailModal, OpenQuoteDetailModal, Details
<1> QED
  BY <1>1, <1>2, <1>3, <1>4, <1>5, <1>6

\* Each step of the dialogs keeps their invariant.
LEMMA NextDialogs == DialogsInv /\ [DialogsNext]_dialogVars => DialogsInv'
<1> SUFFICES ASSUME DialogsInv, [DialogsNext]_dialogVars PROVE DialogsInv'
  OBVIOUS
<1>1. CASE DialogsNext
  BY <1>1, EditFormStep, CreateFormStep, SelectionStep, SubmitStep, DetailsStep DEF DialogsNext
<1>2. CASE UNCHANGED dialogVars
  BY <1>2 DEF dialogVars, DialogsInv, DialogsTypeOK, EditFormOK, CreateFormOK, ConfirmationOK, DetailsOK,
     FlightsOK, ChosenIsSent, Fills, InFlight
<1> QED
  BY <1>1, <1>2

\* A dialog sends what was chosen in it and shows one row at a time, unless an
\* answer to another opening crossed this one.
THEOREM ChosenIsSentHolds == DialogsSpec => []ChosenIsSent
<1>1. DialogsInv => ChosenIsSent
  BY DEF DialogsInv
<1> QED
  BY <1>1, InitDialogs, NextDialogs, PTL DEF DialogsSpec

\* The dialogs and what is on its way keep their types.
THEOREM DialogsTypeCorrect == DialogsSpec => []DialogsTypeOK
<1>1. DialogsInv => DialogsTypeOK
  BY DEF DialogsInv
<1> QED
  BY <1>1, InitDialogs, NextDialogs, PTL DEF DialogsSpec

-----------------------------------------------------------------------------
(* The sections                                                            *)

Fresh == shown = stored /\ shownFor = filter

\* Where what is shown has to be right: the section that is looked at, and the
\* layout of the e-mails wherever one looks, since its upload sends what it shows.
Looking == view = "here" \/ section = "email-layout"

\* Half of an exchange of categories can be refused: what is shown then is only
\* as good as its message.
Excused == section = "categories" /\ error
Obliged(h) == section = "categories" => h.kind = "form" /\ ~ error

\* What is shown, with the row of a handler at v.
Over(r, v) == IF r = Nothing THEN shown ELSE [shown EXCEPT ![r] = v]

\* What kinds of handler there are where, and what they send.
KindOK(h) ==
  /\ h.kind \in {"swap", "drag"} => section = "categories" /\ \A w \in h.open : DOMAIN w.put \subseteq w.want
  /\ h.kind \notin {"swap", "drag"} => h.open = {} \/ (h.verdict = {} /\ \E w \in h.open : h.open = {w})
  /\ h.kind = "control" => section \notin {"categories", "email-layout"}
  /\ h.row # Nothing => h.kind = "control" /\ h.old \in Values /\ h.new \in Values /\ shown # Nothing

\* What a save that nothing crossed still has to make of what is shown.
Served(h) == h.open = {} /\ h.verdict = {}
Pending(h) ==
  /\ \A w \in h.open : \A x \in DOMAIN w.put \ w.want : w.put[x] = stored[x]
  /\ Looking /\ Obliged(h) =>
       /\ Served(h) /\ h.kind = "control" => stored = Over(h.row, h.new) /\ shownFor = filter
       /\ ~ Served(h) => /\ stored = Over(h.row, h.old) /\ shownFor = filter
                         /\ h.kind = "control" => \A w \in h.open : With(w.put) = Over(h.row, h.new)

\* What a load that nothing crossed brings.
Brings(o) == /\ Awaiting = {o} /\ handler[o].filter = filter
             /\ handler[o].data # Nothing => handler[o].data = stored

HandlerOK(o) ==
  /\ handler[o].pc = "uploading" => section = "email-layout" /\ shown # Nothing
  /\ handler[o].pc = "saving" => KindOK(handler[o]) /\ (~ suspect => Pending(handler[o]))
  /\ handler[o].pc = "loading" => /\ handler[o].alone => Brings(o)
                                  /\ ~ suspect => handler[o].alone

SectionsInv ==
  /\ SectionsTypeOK /\ handler \in [Handlers -> Handler]
  /\ ~ suspect => \A o, p \in Awaiting : o = p
  /\ \A o \in Handlers : HandlerOK(o)
  /\ ~ suspect /\ Awaiting = {} /\ Looking /\ ~ Excused => Fresh



\* The types, without the handlers'.
SharedTypeOK ==
  /\ section \in Sections
  /\ view \in {"login", "here", "elsewhere"}
  /\ session \in Tokens
  /\ stored \in [Rows -> Values]
  /\ shown \in [Rows -> Values] \cup {Nothing}
  /\ {filter, shownFor} \subseteq {"all", "pending"}
  /\ {error, suspect} \subseteq BOOLEAN

\* The records of handlers.
LEMMA HandlerShapes ==
  ASSUME NEW h \in Handler
  PROVE  /\ h.pc \in {"idle", "uploading", "saving", "loading"}
         /\ h.pc = "uploading" => h \in [pc : {"uploading"}, value : Values]
         /\ h.pc = "saving" => h \in SavingHandler
         /\ h.pc = "loading" => h \in LoadingHandler
BY DEF Handler, IdleHandler, SavingHandler, LoadingHandler

\* A handler that saves is one.
LEMMA SavingIs ==
  ASSUME NEW k \in {"form", "row", "moderate", "control", "swap", "drag"}, NEW t \in Tokens,
         NEW W \in SUBSET Write, NEW v \in SUBSET Verdicts, NEW r \in Rows \cup {Nothing},
         NEW a \in Values \cup {Nothing}, NEW b \in Values \cup {Nothing}
  PROVE  [pc |-> "saving", kind |-> k, token |-> t, open |-> W, verdict |-> v,
          row |-> r, old |-> a, new |-> b] \in Handler
BY DEF Handler, SavingHandler

\* A handler that loads is one.
LEMMA LoadingIs ==
  ASSUME NEW t \in Tokens, NEW f \in {"all", "pending"},
         NEW d \in [Rows -> Values] \cup {Nothing}, NEW v \in SUBSET Verdicts, NEW a \in BOOLEAN
  PROVE  [pc |-> "loading", token |-> t, filter |-> f, data |-> d, verdict |-> v,
          alone |-> a] \in Handler
BY DEF Handler, LoadingHandler

\* A load that is crossed is still a load, that is not alone any more.
LEMMA Crossed ==
  ASSUME NEW h \in LoadingHandler
  PROVE  [h EXCEPT !.alone = FALSE] \in LoadingHandler /\ ~ [h EXCEPT !.alone = FALSE].alone
BY DEF LoadingHandler

\* What Await makes of the handlers.
LEMMA AwaitIs ==
  ASSUME handler \in [Handlers -> Handler], NEW o \in Handlers, NEW h \in Handler, Await(o, h)
  PROVE  /\ handler' \in [Handlers -> Handler]
         /\ handler'[o] = h
         /\ \A p \in Handlers \ {o} :
              /\ handler[p].pc # "loading" => handler'[p] = handler[p]
              /\ handler[p].pc = "loading" => handler'[p].pc = "loading" /\ ~ handler'[p].alone
<1> DEFINE g == [handler EXCEPT ![o] = h]
<1>1. /\ handler' = Crowd(g, Others(o)) /\ g \in [Handlers -> Handler] /\ g[o] = h
      /\ \A p \in Handlers \ {o} : g[p] = handler[p]
      /\ o \notin Others(o) /\ \A p \in Handlers \ {o} : handler[p].pc = "loading" => p \in Others(o)
  BY DEF Await, Others, Awaiting
<1> HIDE DEF g
<1>2. /\ handler' = [p \in Handlers |-> IF p \in Others(o) /\ g[p].pc = "loading"
                                        THEN [g[p] EXCEPT !.alone = FALSE] ELSE g[p]]
  BY <1>1 DEF Crowd
<1>3. handler'[o] = h
  BY <1>1, <1>2
<1>4. ASSUME NEW p \in Handlers, p # o
      PROVE  /\ handler'[p] \in Handler
             /\ handler[p].pc # "loading" => handler'[p] = handler[p]
             /\ handler[p].pc = "loading" => handler'[p].pc = "loading" /\ ~ handler'[p].alone
  <2>1. CASE handler[p].pc # "loading"
    BY <1>1, <1>2, <1>4, <2>1
  <2>2. CASE handler[p].pc = "loading"
    <3>1. handler[p] \in LoadingHandler
      BY <2>2, HandlerShapes
    <3>2. handler'[p] = [handler[p] EXCEPT !.alone = FALSE]
      BY <1>1, <1>2, <1>4, <2>2
    <3>3. handler'[p] \in LoadingHandler /\ ~ handler'[p].alone
      BY <3>1, <3>2, Crossed
    <3> QED BY <2>2, <3>3 DEF LoadingHandler, Handler
  <2> QED BY <2>1, <2>2
<1>5. \A p \in Handlers : handler'[p] \in Handler
  BY <1>3, <1>4
<1> QED BY <1>2, <1>3, <1>4, <1>5

\* The handlers but the one that steps keep what is said of them, and are none
\* where nothing crossed.
LEMMA OthersStay ==
  ASSUME SectionsInv, NEW o \in Handlers, handler' \in [Handlers -> Handler],
         section' = section, shown # Nothing => shown' # Nothing, Others(o) # {} => suspect',
         \A p \in Handlers \ {o} :
           /\ handler[p].pc # "loading" => handler'[p] = handler[p]
           /\ handler[p].pc = "loading" => handler'[p].pc = "loading" /\ ~ handler'[p].alone
  PROVE  /\ \A p \in Handlers \ {o} : HandlerOK(p)'
         /\ ~ suspect' => Awaiting' \subseteq {o}
<1>1. ASSUME NEW p \in Handlers \ {o}
      PROVE  HandlerOK(p)'
  <2>1. HandlerOK(p) /\ handler[p].pc \in {"idle", "uploading", "saving", "loading"}
    BY HandlerShapes DEF SectionsInv
  <2>2. CASE handler[p].pc \in {"idle", "uploading"}
    BY <2>1, <2>2 DEF HandlerOK
  <2>3. CASE handler[p].pc = "saving"
    <3>1. suspect' /\ handler'[p] = handler[p]
      BY <2>3 DEF Others, Awaiting
    <3>2. KindOK(handler[p])'
      BY <2>1, <2>3, <3>1 DEF HandlerOK, KindOK
    <3> QED BY <2>3, <3>1, <3>2 DEF HandlerOK
  <2>4. CASE handler[p].pc = "loading"
    <3>1. suspect' /\ handler'[p].pc = "loading" /\ ~ handler'[p].alone
      BY <2>4 DEF Others, Awaiting
    <3> QED BY <3>1 DEF HandlerOK
  <2> QED BY <2>1, <2>2, <2>3, <2>4
<1>2. ASSUME NEW p \in Awaiting', p # o, ~ suspect'
      PROVE  FALSE
  <2>1. p \in Handlers \ {o} /\ p \notin Awaiting
    BY <1>2 DEF Others, Awaiting
  <2>2. handler[p].pc \in {"idle", "uploading", "saving", "loading"}
    BY <2>1, HandlerShapes DEF SectionsInv
  <2> QED BY <1>2, <2>1, <2>2 DEF Awaiting
<1> QED BY <1>1, <1>2

\* A load begins: it is alone, or something is suspect.
LEMMA LoadStep ==
  ASSUME SectionsInv, NEW o \in Handlers, NEW f \in {"all", "pending"}, LoadFor(o, f),
         session' \in Tokens, filter' = f,
         SharedTypeOK', section' = section, shown # Nothing => shown' # Nothing,
         ~ Alone(o) => suspect'
  PROVE  SectionsInv'
<1> DEFINE h == [pc |-> "loading", token |-> session', filter |-> f, data |-> Nothing,
                 verdict |-> {}, alone |-> Alone(o)]
<1>1. h \in Handler
  BY LoadingIs DEF Alone
<1>2. h.pc = "loading" /\ h.filter = f /\ h.data = Nothing /\ h.alone = Alone(o)
  OBVIOUS
<1>3. Await(o, h)
  BY DEF LoadFor
<1> HIDE DEF h
<1>4. /\ handler' \in [Handlers -> Handler] /\ handler'[o] = h
      /\ \A p \in Handlers \ {o} :
           /\ handler[p].pc # "loading" => handler'[p] = handler[p]
           /\ handler[p].pc = "loading" => handler'[p].pc = "loading" /\ ~ handler'[p].alone
  BY <1>1, <1>3, AwaitIs DEF SectionsInv
<1>5. /\ \A p \in Handlers \ {o} : HandlerOK(p)'
      /\ ~ suspect' => Awaiting' \subseteq {o}
  BY <1>4, OthersStay DEF Alone
<1>6. o \in Awaiting'
  BY <1>2, <1>4 DEF Awaiting
<1>7. HandlerOK(o)'
  <2>1. handler'[o].alone => Awaiting' = {o}
    <3>1. SUFFICES ASSUME Others(o) = {}, NEW p \in Handlers, p # o, p \in Awaiting'
                   PROVE  FALSE
      BY <1>2, <1>4, <1>6 DEF Alone, Awaiting
    <3>2. p \notin Awaiting /\ handler[p].pc \in {"idle", "uploading", "saving", "loading"}
      BY <3>1, HandlerShapes DEF Others, Awaiting, SectionsInv
    <3>3. handler'[p] = handler[p]
      BY <1>4, <3>1, <3>2 DEF Awaiting
    <3> QED BY <3>1, <3>2, <3>3 DEF Awaiting
  <2>2. ~ suspect' => handler'[o].alone
    BY <1>2, <1>4
  <2>3. handler'[o].pc = "loading" /\ handler'[o].filter = filter' /\ handler'[o].data = Nothing
    BY <1>2, <1>4
  <2> QED BY <2>1, <2>2, <2>3 DEF HandlerOK, Brings
<1> QED BY <1>4, <1>5, <1>6, <1>7 DEF SectionsInv, SectionsTypeOK, SharedTypeOK

\* A handler ends.
LEMMA EndStep ==
  ASSUME SectionsInv, NEW o \in Awaiting, End(o),
         SharedTypeOK', section' = section, shown # Nothing => shown' # Nothing,
         Others(o) # {} => suspect',
         ~ suspect' /\ Looking' /\ ~ Excused' => Fresh'
  PROVE  SectionsInv'
<1>0. o \in Handlers
  BY DEF Awaiting
<1>1. /\ handler' \in [Handlers -> Handler] /\ handler'[o] = IdleHandler
      /\ \A p \in Handlers \ {o} : handler'[p] = handler[p]
  BY <1>0 DEF End, SectionsInv, Handler
<1>2. ASSUME NEW p \in Handlers \ {o}, handler[p].pc = "loading"
      PROVE  ~ handler'[p].alone
  BY <1>1, <1>2 DEF SectionsInv, HandlerOK, Brings
<1>3. /\ \A p \in Handlers \ {o} : HandlerOK(p)'
      /\ ~ suspect' => Awaiting' \subseteq {o}
  BY <1>0, <1>1, <1>2, OthersStay
<1>4. HandlerOK(o)'
  BY <1>1 DEF HandlerOK, IdleHandler
<1> QED BY <1>0, <1>1, <1>3, <1>4 DEF SectionsInv, SectionsTypeOK, SharedTypeOK

\* Without a suspicion, and with no request on its way, what is shown is right.
LEMMA CalmIsFresh ==
  ASSUME SectionsInv, Looking, ~ Excused, Awaiting = {}, ~ suspect
  PROVE  Fresh
BY DEF SectionsInv

\* What the handlers of a section send: what KindOK says of it at the start, and
\* that a field that is sent along is as it is shown.
Fits(k, W, r, a, b) ==
  /\ k \in {"swap", "drag"} => section = "categories" /\ \A w \in W : DOMAIN w.put \subseteq w.want
  /\ k \notin {"swap", "drag"} => \E w \in W : W = {w}
  /\ k = "control" => section \notin {"categories", "email-layout"}
  /\ r # Nothing => k = "control" /\ a \in Values /\ b \in Values
  /\ \A w \in W : \A x \in DOMAIN w.put \ w.want :
       w.put[x] = shown[x] /\ x \in Rows /\ section # "categories"
Yields(W, data) == \A w \in W : With(w.put) = data

\* A save is sent, of what is shown at that moment.
LEMMA SendStep ==
  ASSUME SectionsInv, NEW o \in Handlers, handler[o].pc \in {"idle", "uploading"}, Looking,
         NEW k \in {"form", "row", "moderate", "control", "swap", "drag"},
         NEW W \in SUBSET Write, NEW r \in Rows \cup {Nothing},
         NEW a \in Values \cup {Nothing}, NEW b \in Values \cup {Nothing},
         Send(o, k, W, r, a, b), SharedTypeOK', shownFor' = shownFor,
         shown # Nothing, shown' # Nothing,
         Fits(k, W, r, a, b), k = "form" => error' = error, Over(r, a)' = shown,
         k = "control" /\ Fresh => Yields(W, Over(r, b)')
  PROVE  SectionsInv'
<1>0. PICK h : h = [pc |-> "saving", kind |-> k, token |-> session, open |-> W,
                    verdict |-> {}, row |-> r, old |-> a, new |-> b]
  OBVIOUS
<1>1. h \in Handler
  BY <1>0, SavingIs, ZenonT(60) DEF SectionsInv, SectionsTypeOK
<1>2. /\ h.pc = "saving" /\ h.kind = k /\ h.open = W /\ h.verdict = {} /\ h.row = r
      /\ h.old = a /\ h.new = b
  BY <1>0
<1>3. Await(o, h) /\ UNCHANGED <<section, view, session, stored, filter>>
  BY <1>0 DEF Send, sessionVars
<1>4. /\ handler' \in [Handlers -> Handler] /\ handler'[o] = h
      /\ \A p \in Handlers \ {o} :
           /\ handler[p].pc # "loading" => handler'[p] = handler[p]
           /\ handler[p].pc = "loading" => handler'[p].pc = "loading" /\ ~ handler'[p].alone
  BY <1>1, <1>3, AwaitIs DEF SectionsInv
<1>5. /\ suspect \/ Others(o) # {} => suspect'
      /\ Awaiting \subseteq Others(o)
  BY DEF Send, Alone, Others, Awaiting, SectionsInv, SectionsTypeOK
<1>6. /\ \A p \in Handlers \ {o} : HandlerOK(p)'
      /\ ~ suspect' => Awaiting' \subseteq {o}
  BY <1>3, <1>4, <1>5, OthersStay
<1>7. o \in Awaiting'
  BY <1>2, <1>4 DEF Awaiting
<1>8. KindOK(h)'
  BY <1>2, <1>3 DEF KindOK, Fits
<1>9. ASSUME ~ suspect'
      PROVE  Pending(h)'
  <2>1. ~ Excused => Fresh
    BY <1>5, <1>9, CalmIsFresh
  <2>2. \A w \in W : \A x \in DOMAIN w.put \ w.want : w.put[x] = stored'[x]
    BY <1>3, <2>1 DEF Excused, Fresh, Fits
  <2>3. ASSUME Looking', Obliged(h)'
        PROVE  Fresh
    BY <1>2, <1>3, <2>1, <2>3 DEF Excused, Obliged
  <2>4. ASSUME Looking', Obliged(h)'
        PROVE  W # {}
    BY <1>2, <1>3, <2>4 DEF Obliged, Fits
  <2>5. ASSUME Looking', Obliged(h)'
        PROVE  /\ stored' = Over(r, a)' /\ shownFor' = filter'
               /\ k = "control" => \A w \in W : With(w.put)' = Over(r, b)'
    <3>1. stored' = stored /\ stored = shown /\ shownFor' = filter'
      BY <1>3, <2>3, <2>5 DEF Fresh
    <3>2. \A w \in W : With(w.put)' = With(w.put)
      BY <3>1 DEF With
    <3> QED BY <2>3, <2>5, <3>1, <3>2 DEF Yields
  <2> QED BY <1>2, <2>2, <2>4, <2>5 DEF Pending, Served
<1>10. HandlerOK(o)'
  BY <1>2, <1>4, <1>8, <1>9 DEF HandlerOK
<1> QED BY <1>4, <1>6, <1>7, <1>10 DEF SectionsInv, SectionsTypeOK, SharedTypeOK

\* What the requests name.
LEMMA WritesAre ==
  ASSUME PanelAssumption, NEW r \in Rows, NEW v \in Values
  PROVE  /\ One(r, v) \in Write /\ One(r, v).want = {r} /\ DOMAIN One(r, v).put = {r}
         /\ One(r, v).put[r] = v
         /\ NoWrite \in Write /\ DOMAIN NoWrite.put = {}
         /\ shown \in [Rows -> Values] =>
              /\ Both(r, v) \in Write /\ Both(r, v).want = {r} /\ DOMAIN Both(r, v).put = Rows
              /\ Both(r, v).put[r] = v /\ \A x \in Rows \ {r} : Both(r, v).put[x] = shown[x]
<1>1. One(r, v) \in Write /\ One(r, v).want = {r} /\ DOMAIN One(r, v).put = {r}
      /\ One(r, v).put[r] = v
  <2>1. [x \in {r} |-> v] \in [{r} -> Values] /\ {r} \in SUBSET Rows
    OBVIOUS
  <2> QED BY <2>1 DEF One, Write, Put
<1>2. NoWrite \in Write /\ DOMAIN NoWrite.put = {}
  <2>1. [x \in {} |-> 0] \in [{} -> Values] /\ {} \in SUBSET Rows
    OBVIOUS
  <2> QED BY <2>1 DEF NoWrite, Write, Put
<1>3. ASSUME shown \in [Rows -> Values]
      PROVE  /\ Both(r, v) \in Write /\ Both(r, v).want = {r} /\ DOMAIN Both(r, v).put = Rows
             /\ Both(r, v).put[r] = v /\ \A x \in Rows \ {r} : Both(r, v).put[x] = shown[x]
  <2>1. [shown EXCEPT ![r] = v] \in [Rows -> Values] /\ Rows \in SUBSET Rows
    BY <1>3
  <2> QED BY <1>3, <2>1 DEF Both, Write, Put
<1> QED BY <1>1, <1>2, <1>3

\* What the server makes of them.
LEMMA WithIs ==
  ASSUME PanelAssumption, NEW r \in Rows, NEW v \in Values, stored \in [Rows -> Values]
  PROVE  /\ With(One(r, v).put) = [stored EXCEPT ![r] = v]
         /\ With(NoWrite.put) = stored
         /\ stored = shown => With(Both(r, v).put) = [stored EXCEPT ![r] = v]
         /\ \A w \in Write : With(w.put) \in [Rows -> Values]
<1>1. With(One(r, v).put) = [stored EXCEPT ![r] = v]
  BY DEF One, With
<1>2. With(NoWrite.put) = stored
  BY DEF NoWrite, With
<1>3. stored = shown => With(Both(r, v).put) = [stored EXCEPT ![r] = v]
  BY DEF Both, With
<1>4. ASSUME NEW w \in Write
      PROVE  With(w.put) \in [Rows -> Values]
  <2>1. PICK R \in SUBSET Rows : w.put \in [R -> Values]
    BY DEF Write, Put
  <2> QED BY <2>1 DEF With
<1> QED BY <1>1, <1>2, <1>3, <1>4

\* The types of a step that leaves the section, the session and the filter.
LEMMA SendTypes ==
  ASSUME SectionsInv, NEW o \in Handlers, NEW k, NEW W, NEW r, NEW a, NEW b, Send(o, k, W, r, a, b),
         shownFor' = shownFor, shown' \in [Rows -> Values], error' \in BOOLEAN
  PROVE  SharedTypeOK'
<1>1. SharedTypeOK /\ UNCHANGED <<section, view, session, stored, filter>>
  BY DEF SectionsInv, SectionsTypeOK, SharedTypeOK, Send, sessionVars
<1>2. suspect' \in BOOLEAN
  BY DEF Send
<1> QED BY <1>1, <1>2 DEF SharedTypeOK

\* What a handler that is ready starts from.
LEMMA ReadyIs ==
  ASSUME SectionsInv, NEW o \in Handlers, CanAct(o)
  PROVE  /\ handler[o].pc \in {"idle", "uploading"} /\ Looking
         /\ shown \in [Rows -> Values] /\ shown # Nothing
         /\ error \in BOOLEAN
BY DEF CanAct, Free, Looking, SectionsInv, SectionsTypeOK

\* A handler that clears the error before it asks keeps the invariant.
LEMMA ClearsStep ==
  ASSUME SectionsInv, NEW o \in Handlers, CanAct(o),
         NEW k \in {"row", "moderate", "swap", "drag"}, NEW W \in SUBSET Write, Clears(o, k, W),
         \A w \in W : DOMAIN w.put \subseteq w.want,
         k \in {"swap", "drag"} => section = "categories",
         k \notin {"swap", "drag"} => \E w \in W : W = {w}
  PROVE  SectionsInv'
<1>1. /\ handler[o].pc \in {"idle", "uploading"} /\ Looking
      /\ shown \in [Rows -> Values] /\ shown # Nothing
  BY ReadyIs
<1>2. /\ Send(o, k, W, Nothing, Nothing, Nothing)
      /\ error' \in BOOLEAN /\ shown' = shown /\ shownFor' = shownFor
  BY DEF Clears
<1>3. SharedTypeOK'
  BY <1>1, <1>2, SendTypes
<1>4. Fits(k, W, Nothing, Nothing, Nothing) /\ Over(Nothing, Nothing)' = shown
  BY <1>2 DEF Fits, Over
<1> QED BY <1>1, <1>2, <1>3, <1>4, SendStep

\* A handler that leaves the error as it is and sends what is shown keeps it.
LEMMA KeepsStep ==
  ASSUME SectionsInv, NEW o \in Handlers, handler[o].pc \in {"idle", "uploading"}, Looking,
         shown \in [Rows -> Values], shown # Nothing,
         NEW k \in {"row", "form"}, NEW w \in Write, Keeps(o, k, {w}),
         \A x \in DOMAIN w.put \ w.want :
            w.put[x] = shown[x] /\ x \in Rows /\ section # "categories"
  PROVE  SectionsInv'
<1>1. /\ Send(o, k, {w}, Nothing, Nothing, Nothing)
      /\ error' = error /\ shown' = shown /\ shownFor' = shownFor
  BY DEF Keeps, shownVars
<1>2. SharedTypeOK'
  BY <1>1, SendTypes DEF SectionsInv, SectionsTypeOK
<1>3. Fits(k, {w}, Nothing, Nothing, Nothing) /\ Over(Nothing, Nothing)' = shown
  BY <1>1 DEF Fits, Over
<1> QED BY <1>1, <1>2, <1>3, SendStep

\* Handlers of a control, that leave what is shown or put the new value there.
LEMMA ControlStep ==
  ASSUME PanelAssumption, SectionsInv, NEW o \in Handlers, CanAct(o),
         section \notin {"categories", "email-layout"},
         NEW r \in Rows, NEW v \in Values, NEW w \in {One(r, v), Both(r, v)},
         Send(o, "control", {w}, r, shown[r], v),
         shown' \in {shown, [shown EXCEPT ![r] = v]}, error' = FALSE, shownFor' = shownFor
  PROVE  SectionsInv'
<1>1. /\ handler[o].pc \in {"idle", "uploading"} /\ Looking
      /\ shown \in [Rows -> Values] /\ shown # Nothing
  BY ReadyIs
<1>2. shown' \in [Rows -> Values] /\ shown' # Nothing
  BY <1>1 DEF PanelAssumption
<1>3. SharedTypeOK'
  BY <1>2, SendTypes
<1>4. w \in Write /\ \A x \in DOMAIN w.put \ w.want : w.put[x] = shown[x] /\ x \in Rows
  BY <1>1, WritesAre
<1>5. Fresh => With(w.put) = [shown' EXCEPT ![r] = v]
  <2>1. ASSUME Fresh
        PROVE  With(w.put) = [shown EXCEPT ![r] = v]
    BY <1>1, <2>1, WithIs DEF Fresh
  <2> QED BY <1>1, <2>1
<1>6. shown = [shown' EXCEPT ![r] = shown[r]]
  BY <1>1
<1>7. shown[r] \in Values /\ r # Nothing
  BY <1>1 DEF PanelAssumption
<1>8. PICK a : a = shown[r]
  OBVIOUS
<1>9. Send(o, "control", {w}, r, a, v) /\ a \in Values /\ shown = [shown' EXCEPT ![r] = a]
  BY <1>6, <1>7, <1>8
<1>10. PICK W \in SUBSET Write : W = {w}
  BY <1>4
<1>11. Fits("control", W, r, a, v)
  BY <1>4, <1>9, <1>10 DEF Fits
<1>12. Over(r, a)' = shown /\ (Fresh => Yields(W, Over(r, v)'))
  BY <1>5, <1>7, <1>9, <1>10 DEF Over, Yields
<1>13. Send(o, "control", W, r, a, v)
  BY <1>9, <1>10
<1> QED BY <1>1, <1>2, <1>3, <1>9, <1>11, <1>12, <1>13, SendStep

\* A handler that only asks the server for something keeps it.
LEMMA AsksStep ==
  ASSUME SectionsInv, NEW o \in Handlers, NEW name, name \notin {"categories", "email-layout"},
         Asks(o, name)
  PROVE  SectionsInv'
<1>1. /\ handler[o].pc \in {"idle", "uploading"} /\ Looking
      /\ shown \in [Rows -> Values] /\ shown # Nothing
  BY ReadyIs DEF Asks, At
<1>2. PICK W : W = {NoWrite}
  OBVIOUS
<1>3. /\ Send(o, "control", W, Nothing, Nothing, Nothing)
      /\ error' = FALSE /\ shown' = shown /\ shownFor' = shownFor
      /\ section \notin {"categories", "email-layout"}
  BY <1>2 DEF Asks, At
<1>4. SharedTypeOK'
  BY <1>1, <1>3, SendTypes
<1>5. DOMAIN NoWrite.put = {} /\ NoWrite \in Write /\ With(NoWrite.put) = stored
  <2>1. [x \in {} |-> 0] \in [{} -> Values] /\ {} \in SUBSET Rows
    OBVIOUS
  <2>2. stored \in [Rows -> Values]
    BY DEF SectionsInv, SectionsTypeOK
  <2> QED BY <2>1, <2>2 DEF NoWrite, Write, Put, With
<1>6. W \in SUBSET Write /\ Fits("control", W, Nothing, Nothing, Nothing)
  BY <1>2, <1>3, <1>5 DEF Fits
<1>7. Over(Nothing, Nothing)' = shown /\ (Fresh => Yields(W, Over(Nothing, Nothing)'))
  BY <1>2, <1>3, <1>5 DEF Over, Yields, Fresh
<1> QED BY <1>1, <1>3, <1>4, <1>6, <1>7, SendStep

\* What a handler of the menu of a row, of a review or of a form sends.
LEMMA RowStep ==
  ASSUME PanelAssumption, SectionsInv, NEW o \in Handlers, NEW name
  PROVE  OfARow(o, name) \/ OfAReview(o, name) \/ OfAForm(o, name) => SectionsInv'
<1>1. ASSUME NEW r \in Rows, NEW v \in Values, NEW k \in {"row", "moderate"}, CanAct(o),
             Clears(o, k, {One(r, v)})
      PROVE  SectionsInv'
  <2>1. One(r, v) \in Write /\ DOMAIN One(r, v).put \subseteq One(r, v).want
    BY WritesAre
  <2>2. PICK W \in SUBSET Write : W = {One(r, v)}
    BY <2>1
  <2> QED BY <1>1, <2>1, <2>2, ClearsStep
<1>2. ASSUME NEW r \in Rows, NEW v \in Values, CanAct(o), Keeps(o, "form", {One(r, v)})
      PROVE  SectionsInv'
  <2>1. One(r, v) \in Write /\ DOMAIN One(r, v).put \subseteq One(r, v).want
    BY WritesAre
  <2>2. PICK w \in Write : w = One(r, v)
    BY <2>1
  <2> QED BY <1>2, <2>1, <2>2, ReadyIs, KeepsStep
<1> QED BY <1>1, <1>2 DEF OfARow, OfAReview, OfAForm, At

\* An edited cell keeps it.
LEMMA CellStep ==
  ASSUME PanelAssumption, SectionsInv, NEW o \in Handlers,
         NEW name, name \notin {"categories", "email-layout"}, OfACell(o, name)
  PROVE  SectionsInv'
<1>1. PICK r \in Rows, v \in Values : Edits(o, One(r, v), r, v)
  BY DEF OfACell
<1>2. PICK w \in {One(r, v), Both(r, v)} : w = One(r, v)
  OBVIOUS
<1>3. /\ Send(o, "control", {w}, r, shown[r], v) /\ shown' = [shown EXCEPT ![r] = v]
      /\ error' = FALSE /\ shownFor' = shownFor
  BY <1>1, <1>2 DEF Edits
<1>4. CanAct(o) /\ section \notin {"categories", "email-layout"}
  BY DEF OfACell, At
<1> QED BY <1>3, <1>4, ControlStep

\* The controls of the settings keep it.
LEMMA SettingsStep ==
  ASSUME PanelAssumption, SectionsInv, NEW o \in Handlers
  PROVE  HandleToggle(o) \/ HandleSaveSetting(o) => SectionsInv'
<1>1. ASSUME HandleToggle(o) \/ HandleSaveSetting(o)
      PROVE  CanAct(o) /\ section \notin {"categories", "email-layout"}
  BY <1>1 DEF HandleToggle, HandleSaveSetting, At
<1>2. CASE HandleToggle(o)
  <2>1. PICK r \in Rows, v \in Values : Edits(o, Both(r, v), r, v)
    BY <1>2 DEF HandleToggle
  <2>2. PICK w \in {One(r, v), Both(r, v)} : w = Both(r, v)
    OBVIOUS
  <2>3. /\ Send(o, "control", {w}, r, shown[r], v) /\ shown' = [shown EXCEPT ![r] = v]
        /\ error' = FALSE /\ shownFor' = shownFor
    BY <2>1, <2>2 DEF Edits
  <2> QED BY <1>1, <1>2, <2>3, ControlStep
<1>3. CASE HandleSaveSetting(o)
  <2>1. PICK r \in Rows, v \in Values : Send(o, "control", {Both(r, v)}, r, shown[r], v)
    BY <1>3 DEF HandleSaveSetting
  <2>2. PICK w \in {One(r, v), Both(r, v)} : w = Both(r, v)
    OBVIOUS
  <2>3. /\ Send(o, "control", {w}, r, shown[r], v) /\ shown' = shown
        /\ error' = FALSE /\ shownFor' = shownFor
    BY <1>3, <2>1, <2>2 DEF HandleSaveSetting
  <2> QED BY <1>1, <1>3, <2>3, ControlStep
<1> QED BY <1>2, <1>3

\* A deletion of several rows keeps it.
LEMMA BulkStep ==
  ASSUME SectionsInv, NEW o \in Handlers, SubmitBulkDelete(o)
  PROVE  SectionsInv'
<1>1. PICK v \in Values, R \in SUBSET Rows :
        Clears(o, "row", {[put |-> [r \in R |-> v], want |-> R]})
  BY DEF SubmitBulkDelete
<1>2. [r \in R |-> v] \in [R -> Values]
  OBVIOUS
<1>3. [put |-> [r \in R |-> v], want |-> R] \in Write
  BY <1>2 DEF Write, Put
<1>4. PICK W \in SUBSET Write : W = {[put |-> [r \in R |-> v], want |-> R]}
  BY <1>3
<1>5. (\A w \in W : DOMAIN w.put \subseteq w.want) /\ \E w \in W : W = {w}
  BY <1>4
<1> QED BY <1>1, <1>4, <1>5, ClearsStep DEF SubmitBulkDelete, At

\* Categories that change places keep it.
LEMMA SiblingsStep ==
  ASSUME PanelAssumption, SectionsInv, NEW o \in Handlers
  PROVE  MoveSibling(o) \/ HandleSortableEnd(o) => SectionsInv'
<1>1. ASSUME NEW W \in SUBSET Write, NEW k \in {"swap", "drag"}, At(o, "categories"),
             Clears(o, k, W), \A w \in W : \E r \in Rows, v \in Values : w = One(r, v)
      PROVE  SectionsInv'
  <2>1. \A w \in W : DOMAIN w.put \subseteq w.want
    BY <1>1, WritesAre
  <2> QED BY <1>1, <2>1, ClearsStep DEF At
<1>2. CASE MoveSibling(o)
  <2>1. PICK a \in Rows, b \in Rows : Clears(o, "swap", {One(a, shown[b]), One(b, shown[a])})
    BY <1>2 DEF MoveSibling
  <2>2. shown[a] \in Values /\ shown[b] \in Values
    BY <1>2, ReadyIs DEF MoveSibling, At
  <2>3. One(a, shown[b]) \in Write /\ One(b, shown[a]) \in Write
    BY <2>2, WritesAre
  <2>4. PICK W \in SUBSET Write : W = {One(a, shown[b]), One(b, shown[a])}
    BY <2>3
  <2> QED BY <1>1, <1>2, <2>1, <2>2, <2>4 DEF MoveSibling
<1>3. CASE HandleSortableEnd(o)
  <2>1. PICK place \in [Rows -> Values] :
          Clears(o, "drag", {One(r, place[r]) : r \in {x \in Rows : place[x] # shown[x]}})
    BY <1>3 DEF HandleSortableEnd
  <2>2. \A r \in Rows : place[r] \in Values /\ One(r, place[r]) \in Write
    BY WritesAre
  <2>3. PICK W \in SUBSET Write : W = {One(r, place[r]) : r \in {x \in Rows : place[x] # shown[x]}}
    BY <2>2
  <2> QED BY <1>1, <1>3, <2>1, <2>2, <2>3 DEF HandleSortableEnd
<1> QED BY <1>2, <1>3

\* The two fields of the layout are the two rows.
LEMMA LayoutStep ==
  ASSUME PanelAssumption, SectionsInv, NEW o \in Handlers
  PROVE  SubmitLayout(o) \/ SendLogo(o) => SectionsInv'
<1>1. Logo \in Rows /\ Texts \in Rows
  BY DEF PanelAssumption, Logo, Texts
<1>2. ASSUME NEW r \in Rows, NEW v \in Values, NEW k \in {"row", "form"}, Keeps(o, k, {Both(r, v)}),
             handler[o].pc \in {"idle", "uploading"}, section = "email-layout", shown # Nothing
      PROVE  SectionsInv'
  <2>1. shown \in [Rows -> Values] /\ Looking
    BY <1>2 DEF SectionsInv, SectionsTypeOK, Looking
  <2>2. Both(r, v) \in Write /\ \A x \in DOMAIN Both(r, v).put \ Both(r, v).want :
          Both(r, v).put[x] = shown[x] /\ x \in Rows
    BY <2>1, WritesAre
  <2>3. PICK w \in Write : w = Both(r, v)
    BY <2>2
  <2> QED BY <1>2, <2>1, <2>2, <2>3, KeepsStep
<1>3. CASE SubmitLayout(o)
  <2>1. PICK v \in Values : Keeps(o, "form", {Both(Texts, v)})
    BY <1>3 DEF SubmitLayout
  <2>2. handler[o].pc \in {"idle", "uploading"} /\ section = "email-layout" /\ shown # Nothing
    BY <1>3 DEF SubmitLayout, At, CanAct, Free
  <2> QED BY <1>1, <1>2, <2>1, <2>2
<1>4. CASE SendLogo(o)
  <2>1. PICK v : v = handler[o].value
    OBVIOUS
  <2>2. handler[o].pc = "uploading" /\ Keeps(o, "row", {Both(Logo, v)})
    BY <1>4, <2>1 DEF SendLogo
  <2>3. section = "email-layout" /\ shown # Nothing /\ v \in Values
    BY <2>1, <2>2, HandlerShapes DEF SectionsInv, HandlerOK
  <2> QED BY <1>1, <1>2, <2>2, <2>3
<1> QED BY <1>3, <1>4

\* A file goes up, or does not: no request awaits an answer more or less.
LEMMA UploadStep ==
  ASSUME SectionsInv, NEW o \in Handlers
  PROVE  UploadLogo(o) \/ UploadFails(o) => SectionsInv'
<1>1. ASSUME NEW h \in Handler, h.pc \in {"idle", "uploading"}, handler' = [handler EXCEPT ![o] = h],
             handler[o].pc \in {"idle", "uploading"},
             h.pc = "uploading" => shown # Nothing, section = "email-layout", error' \in BOOLEAN,
             UNCHANGED <<section, view, session, stored, shown, shownFor, filter, suspect>>
      PROVE  SectionsInv'
  <2>1. /\ handler' \in [Handlers -> Handler] /\ handler'[o] = h
        /\ \A p \in Handlers \ {o} : handler'[p] = handler[p]
    BY <1>1 DEF SectionsInv
  <2>2. Awaiting' = Awaiting
    BY <1>1, <2>1 DEF Awaiting
  <2>3. ~ Excused /\ ~ Excused' /\ (Looking' <=> Looking)
    BY <1>1 DEF Excused, Looking
  <2>4. ASSUME NEW p \in Handlers \ {o}
        PROVE  HandlerOK(p)'
    <3>1. PICK g \in Handler : g = handler[p] /\ g = handler'[p]
      BY <2>1 DEF SectionsInv
    <3>2. KindOK(g) => KindOK(g)'
      BY <1>1 DEF KindOK
    <3>3. Pending(g) => Pending(g)'
      BY <1>1 DEF Pending, Looking, Obliged, Served, Over, With
    <3>4. HandlerOK(p)
      BY DEF SectionsInv
    <3> QED BY <1>1, <2>2, <3>1, <3>2, <3>3, <3>4 DEF HandlerOK, Brings
  <2>5. HandlerOK(o)'
    BY <1>1, <2>1 DEF HandlerOK
  <2>6. ~ suspect' /\ Awaiting' = {} /\ Looking' /\ ~ Excused' => Fresh'
    BY <1>1, <2>2, <2>3 DEF SectionsInv, Fresh
  <2>7. SectionsTypeOK' /\ (~ suspect' => \A q, p \in Awaiting' : q = p)
    BY <1>1, <2>1, <2>2 DEF SectionsInv, SectionsTypeOK
  <2> QED BY <2>1, <2>4, <2>5, <2>6, <2>7 DEF SectionsInv
<1>2. CASE UploadLogo(o)
  <2>1. PICK v \in Values : handler' = [handler EXCEPT ![o] = [pc |-> "uploading", value |-> v]]
    BY <1>2 DEF UploadLogo
  <2>2. PICK h \in Handler : h = [pc |-> "uploading", value |-> v]
    BY DEF Handler
  <2> QED BY <1>1, <1>2, <2>1, <2>2 DEF UploadLogo, At, CanAct, Free, sessionVars
<1>3. CASE UploadFails(o)
  <2>1. IdleHandler \in Handler /\ IdleHandler.pc = "idle"
    BY DEF Handler, IdleHandler
  <2>2. section = "email-layout"
    BY <1>3 DEF UploadFails, SectionsInv, HandlerOK
  <2> QED BY <1>1, <1>3, <2>1, <2>2 DEF UploadFails, sessionVars
<1> QED BY <1>2, <1>3

\* A request is served or refused, one write after the other.
LEMMA ServeStep ==
  ASSUME PanelAssumption, SectionsInv, NEW o \in Handlers, Serve(o)
  PROVE  SectionsInv'
<1>1. PICK h \in SavingHandler : h = handler[o]
  BY HandlerShapes DEF Serve, SectionsInv
<1>2. PICK w \in h.open, v \in SUBSET Verdicts :
        /\ handler' = [handler EXCEPT ![o].open = @ \ {w}, ![o].verdict = @ \cup v]
        /\ stored' = IF v = {} THEN With(w.put) ELSE stored
  BY <1>1 DEF Serve, Answers, Verdicts
<1>3. UNCHANGED <<section, view, session, shown, shownFor, error, filter, suspect>>
  BY DEF Serve, sessionVars, shownVars
<1>4. PICK g \in SavingHandler : g = [h EXCEPT !.open = @ \ {w}, !.verdict = @ \cup v]
  BY DEF SavingHandler
<1>5. /\ g.open = h.open \ {w} /\ g.verdict = h.verdict \cup v /\ g.kind = h.kind /\ g.row = h.row
      /\ g.old = h.old /\ g.new = h.new /\ g.pc = "saving" /\ h.pc = "saving" /\ g \in Handler
      /\ h.open \subseteq Write
  BY <1>4 DEF SavingHandler, Handler
<1>6. handler' = [handler EXCEPT ![o] = g]
  BY <1>1, <1>2, <1>4 DEF SectionsInv
<1>7. /\ handler' \in [Handlers -> Handler] /\ handler'[o] = g
      /\ \A p \in Handlers \ {o} : handler'[p] = handler[p]
  BY <1>5, <1>6 DEF SectionsInv
<1>8. Awaiting' = Awaiting /\ o \in Awaiting
  BY <1>1, <1>5, <1>7 DEF Awaiting
<1>9. ASSUME NEW p \in Handlers \ {o}, handler[p].pc = "loading"
      PROVE  ~ handler'[p].alone
  BY <1>7, <1>8, <1>9 DEF SectionsInv, HandlerOK, Brings
<1>10. Others(o) # {} => suspect'
  BY <1>3, <1>8 DEF SectionsInv, Others
<1>11. \A p \in Handlers \ {o} : HandlerOK(p)'
  BY <1>3, <1>7, <1>9, <1>10, OthersStay
<1>12. stored \in [Rows -> Values] /\ stored' \in [Rows -> Values]
  BY <1>2, <1>5, WithIs DEF SectionsInv, SectionsTypeOK, PanelAssumption
<1>13. SharedTypeOK'
  BY <1>3, <1>12 DEF SectionsInv, SectionsTypeOK, SharedTypeOK
<1>14. KindOK(h) /\ (~ suspect => Pending(h))
  BY <1>1, <1>5 DEF SectionsInv, HandlerOK
<1>15. KindOK(g)'
  BY <1>3, <1>5, <1>14 DEF KindOK
<1>16. ASSUME ~ suspect
       PROVE  Pending(g)'
  <2>1. CASE h.kind \in {"swap", "drag"}
    <3>1. ~ Obliged(g)' /\ \A x \in g.open : DOMAIN x.put \subseteq x.want
      BY <1>3, <1>5, <1>14, <2>1 DEF KindOK, Obliged
    <3> QED BY <3>1 DEF Pending
  <2>2. CASE h.kind \notin {"swap", "drag"}
    <3>1. h.open = {w} /\ h.verdict = {} /\ g.open = {} /\ g.verdict = v
      BY <1>5, <1>14, <2>2 DEF KindOK
    <3>2. ASSUME Looking', Obliged(g)'
          PROVE  /\ stored = Over(h.row, h.old) /\ shownFor = filter
                 /\ h.kind = "control" => With(w.put) = Over(h.row, h.new)
      <4>1. Looking /\ Obliged(h)
        BY <1>3, <1>5, <3>2 DEF Looking, Obliged
      <4> QED BY <1>14, <1>16, <3>1, <4>1 DEF Pending, Served
    <3>3. /\ Over(g.row, g.old)' = Over(h.row, h.old) /\ Over(g.row, g.new)' = Over(h.row, h.new)
      BY <1>3, <1>5 DEF Over
    <3>4. Served(g)' <=> v = {}
      BY <3>1 DEF Served
    <3> QED BY <1>2, <1>3, <1>5, <3>1, <3>2, <3>3, <3>4 DEF Pending
  <2> QED BY <2>1, <2>2
<1>17. HandlerOK(o)'
  BY <1>3, <1>5, <1>7, <1>15, <1>16 DEF HandlerOK
<1>18. ~ suspect' => \A q, p \in Awaiting' : q = p
  BY <1>3, <1>8 DEF SectionsInv
<1> QED BY <1>7, <1>8, <1>11, <1>13, <1>17, <1>18 DEF SectionsInv, SectionsTypeOK, SharedTypeOK

\* The server that answers a load keeps it.
LEMMA ServeLoadStep ==
  ASSUME SectionsInv, NEW o \in Handlers, ServeLoad(o)
  PROVE  SectionsInv'
<1>1. PICK h \in LoadingHandler : h = handler[o]
  BY HandlerShapes DEF ServeLoad, SectionsInv
<1>2. PICK v \in SUBSET Verdicts :
        handler' = [handler EXCEPT ![o].verdict = v, ![o].data = IF v = {} THEN stored ELSE Nothing]
  BY DEF ServeLoad, Answers, Verdicts
<1>3. UNCHANGED <<section, view, session, stored, shown, shownFor, error, filter, suspect>>
  BY DEF ServeLoad, sessionVars, shownVars
<1>4. PICK g \in LoadingHandler :
        g = [h EXCEPT !.verdict = v, !.data = IF v = {} THEN stored ELSE Nothing]
  BY DEF LoadingHandler, SectionsInv, SectionsTypeOK
<1>5. /\ g.data \in {stored, Nothing} /\ g.filter = h.filter /\ g.alone = h.alone
      /\ g.pc = "loading" /\ h.pc = "loading" /\ g \in Handler
  BY <1>4 DEF LoadingHandler, Handler
<1>6. handler' = [handler EXCEPT ![o] = g]
  BY <1>1, <1>2, <1>4 DEF SectionsInv
<1>7. /\ handler' \in [Handlers -> Handler] /\ handler'[o] = g
      /\ \A p \in Handlers \ {o} : handler'[p] = handler[p]
  BY <1>5, <1>6 DEF SectionsInv
<1>8. Awaiting' = Awaiting /\ o \in Awaiting
  BY <1>1, <1>5, <1>7 DEF Awaiting
<1>9. ASSUME NEW p \in Handlers \ {o}, handler[p].pc = "loading"
      PROVE  ~ handler'[p].alone
  BY <1>7, <1>8, <1>9 DEF SectionsInv, HandlerOK, Brings
<1>10. Others(o) # {} => suspect'
  BY <1>3, <1>8 DEF SectionsInv, Others
<1>11. \A p \in Handlers \ {o} : HandlerOK(p)'
  BY <1>3, <1>7, <1>9, <1>10, OthersStay
<1>12. HandlerOK(o)'
  BY <1>1, <1>3, <1>5, <1>7, <1>8 DEF SectionsInv, HandlerOK, Brings
<1>13. ~ suspect' => \A q, p \in Awaiting' : q = p
  BY <1>3, <1>8 DEF SectionsInv
<1> QED BY <1>3, <1>7, <1>8, <1>11, <1>12, <1>13 DEF SectionsInv, SectionsTypeOK

\* What a save that has its answers starts from, and what it does to its row.
LEMMA SavingStart ==
  ASSUME PanelAssumption, SectionsInv, NEW o \in Handlers, handler[o].pc = "saving"
  PROVE  \E h \in SavingHandler :
           /\ h = handler[o] /\ o \in Awaiting /\ KindOK(h)
           /\ ~ suspect => Pending(h) /\ Others(o) = {}
           /\ \A v \in {h.old, h.new} : ShowRow(o, v) =>
                /\ shown' = Over(h.row, v)
                /\ shown' \in [Rows -> Values] \cup {Nothing}
                /\ shown # Nothing => shown' # Nothing
           /\ \A v \in {h.old, h.new} : h.kind # "control" => Over(h.row, v) = shown
<1>1. PICK h \in SavingHandler : h = handler[o]
  BY HandlerShapes DEF SectionsInv
<1>2. o \in Awaiting /\ KindOK(h) /\ (~ suspect => Pending(h) /\ Others(o) = {})
  BY <1>1 DEF SectionsInv, HandlerOK, Awaiting, Others
<1>3. ASSUME NEW v \in {h.old, h.new}, ShowRow(o, v)
      PROVE  /\ shown' = Over(h.row, v)
             /\ shown' \in [Rows -> Values] \cup {Nothing}
             /\ shown # Nothing => shown' # Nothing
  <2>1. CASE h.row = Nothing
    BY <1>1, <1>3, <2>1 DEF ShowRow, Over, SectionsInv, SectionsTypeOK
  <2>2. CASE h.row # Nothing
    <3>1. h.row \in Rows /\ v \in Values /\ shown \in [Rows -> Values]
      BY <1>2, <2>2 DEF KindOK, SavingHandler, SectionsInv, SectionsTypeOK
    <3>2. shown' = [shown EXCEPT ![h.row] = v]
      BY <1>1, <1>2, <1>3, <2>2 DEF ShowRow, KindOK
    <3> QED BY <2>2, <3>1, <3>2 DEF Over, PanelAssumption
  <2> QED BY <2>1, <2>2
<1>4. \A v \in {h.old, h.new} : h.kind # "control" => Over(h.row, v) = shown
  BY <1>2 DEF KindOK, Over
<1> QED BY <1>1, <1>2, <1>3, <1>4

\* A handler loads its section again.
LEMMA ReloadStep ==
  ASSUME SectionsInv, NEW o \in Handlers, Reload(o),
         UNCHANGED <<section, stored, shownFor, filter>>,
         view' \in {"login", "here", "elsewhere"}, session' \in Tokens,
         shown' \in [Rows -> Values] \cup {Nothing}, shown # Nothing => shown' # Nothing,
         suspect' \in BOOLEAN, ~ Alone(o) => suspect'
  PROVE  SectionsInv'
<1>1. PICK f \in {"all", "pending"} : f = filter
  BY DEF SectionsInv, SectionsTypeOK
<1>2. LoadFor(o, f) /\ error' = FALSE
  BY <1>1 DEF Reload
<1>3. SharedTypeOK'
  BY <1>2 DEF SectionsInv, SectionsTypeOK, SharedTypeOK
<1> QED BY <1>1, <1>2, <1>3, LoadStep

\* A handler that hears that it saved keeps it.
LEMMA SavedStep ==
  ASSUME PanelAssumption, SectionsInv, NEW o \in Handlers, Saved(o)
  PROVE  SectionsInv'
<1>0. handler[o].pc = "saving" /\ handler[o].open = {} /\ handler[o].verdict = {}
  BY DEF Saved, Answered
<1>1. PICK h \in SavingHandler :
           /\ h = handler[o] /\ o \in Awaiting /\ KindOK(h)
           /\ ~ suspect => Pending(h) /\ Others(o) = {}
           /\ ShowRow(o, h.new) =>
                /\ shown' = Over(h.row, h.new)
                /\ shown' \in [Rows -> Values] \cup {Nothing}
                /\ shown # Nothing => shown' # Nothing
  BY <1>0, SavingStart
<1>2. /\ UNCHANGED <<section, view, session, stored, shownFor, filter>>
      /\ shown' = Over(h.row, h.new) /\ shown' \in [Rows -> Values] \cup {Nothing}
      /\ shown # Nothing => shown' # Nothing
  BY <1>1 DEF Saved, sessionVars
<1>3. CASE h.kind = "control"
  <2>1. End(o) /\ error' = error /\ suspect' = suspect
    BY <1>1, <1>3 DEF Saved
  <2>2. SharedTypeOK'
    BY <1>2, <2>1 DEF SectionsInv, SectionsTypeOK, SharedTypeOK
  <2>3. ~ suspect' /\ Looking' => Fresh'
    <3>1. SUFFICES ASSUME ~ suspect, Looking
                   PROVE  stored = Over(h.row, h.new) /\ shownFor = filter
      BY <1>2, <2>1 DEF Looking, Fresh
    <3>2. Obliged(h) /\ Served(h)
      BY <1>0, <1>1, <1>3 DEF KindOK, Obliged, Served
    <3> QED BY <1>1, <1>3, <3>1, <3>2 DEF Pending
  <2> QED BY <1>1, <1>2, <2>1, <2>2, <2>3, EndStep
<1>4. CASE h.kind # "control"
  <2>1. Reload(o) /\ suspect' = (suspect \/ ~ Alone(o))
    BY <1>1, <1>4 DEF Saved, LoadsAgain
  <2>2. suspect' \in BOOLEAN /\ (~ Alone(o) => suspect')
    BY <2>1
  <2>3. /\ view' \in {"login", "here", "elsewhere"} /\ session' \in Tokens
    BY <1>2 DEF SectionsInv, SectionsTypeOK
  <2> QED BY <1>2, <2>1, <2>2, <2>3, ReloadStep
<1> QED BY <1>3, <1>4

\* A handler that hears a refusal keeps it.
LEMMA RefusedStep ==
  ASSUME PanelAssumption, SectionsInv, NEW o \in Handlers, TurnedDown(o)
  PROVE  SectionsInv'
<1>0. handler[o].pc = "saving" /\ handler[o].verdict # {}
  BY DEF TurnedDown, Answered
<1>1. PICK h \in SavingHandler :
           /\ h = handler[o] /\ o \in Awaiting /\ KindOK(h)
           /\ ~ suspect => Pending(h) /\ Others(o) = {}
           /\ ShowRow(o, h.old) =>
                /\ shown' = Over(h.row, h.old)
                /\ shown' \in [Rows -> Values] \cup {Nothing}
                /\ shown # Nothing => shown' # Nothing
  BY <1>0, SavingStart
<1>2. /\ UNCHANGED <<section, view, stored, shownFor, filter>> /\ session' \in Tokens
      /\ shown' = Over(h.row, h.old) /\ shown' \in [Rows -> Values] \cup {Nothing}
      /\ shown # Nothing => shown' # Nothing
  BY <1>1 DEF TurnedDown, Restore, DropsSession, ClearSession, SectionsInv, SectionsTypeOK, Tokens
<1>3. CASE h.kind \notin {"moderate", "drag"}
  <2>1. /\ End(o) /\ suspect' = suspect
        /\ IF h.kind = "form" THEN error' = error ELSE error' = TRUE
    BY <1>1, <1>3 DEF TurnedDown, EndsRefused
  <2>2. SharedTypeOK'
    BY <1>2, <2>1 DEF SectionsInv, SectionsTypeOK, SharedTypeOK
  <2>3. ~ suspect' /\ Looking' /\ ~ Excused' => Fresh'
    <3>1. SUFFICES ASSUME ~ suspect, Looking, section = "categories" => ~ error'
                   PROVE  stored = Over(h.row, h.old) /\ shownFor = filter
      BY <1>2, <2>1 DEF Looking, Fresh, Excused
    <3>2. Obliged(h) /\ ~ Served(h)
      BY <1>0, <1>1, <2>1, <3>1 DEF Obliged, Served
    <3> QED BY <1>1, <3>1, <3>2 DEF Pending
  <2> QED BY <1>1, <1>2, <2>1, <2>2, <2>3, EndStep
<1>4. CASE h.kind \in {"moderate", "drag"}
  <2>1. Reload(o) /\ suspect' = (suspect \/ ~ Alone(o))
    BY <1>1, <1>4 DEF TurnedDown, LoadsAgain
  <2>2. suspect' \in BOOLEAN /\ (~ Alone(o) => suspect')
    BY <2>1
  <2>3. view' \in {"login", "here", "elsewhere"}
    BY <1>2 DEF SectionsInv, SectionsTypeOK
  <2> QED BY <1>2, <2>1, <2>2, <2>3, ReloadStep
<1> QED BY <1>3, <1>4

\* A handler that hears that the session is over keeps it.
LEMMA SignedOutStep ==
  ASSUME PanelAssumption, SectionsInv, NEW o \in Handlers, SignedOut(o)
  PROVE  SectionsInv'
<1>0. handler[o].pc = "saving" /\ handler[o].verdict # {}
  BY DEF SignedOut, Answered
<1>1. PICK h \in SavingHandler :
           /\ h = handler[o] /\ o \in Awaiting /\ KindOK(h)
           /\ ~ suspect => Pending(h) /\ Others(o) = {}
           /\ ShowRow(o, h.old) =>
                /\ shown' = Over(h.row, h.old)
                /\ shown' \in [Rows -> Values] \cup {Nothing}
                /\ shown # Nothing => shown' # Nothing
           /\ h.kind # "control" => Over(h.row, h.old) = shown
  BY <1>0, SavingStart
<1>2. /\ UNCHANGED <<section, stored, shownFor, filter>> /\ session' \in Tokens /\ view' = "login"
      /\ shown' \in [Rows -> Values] \cup {Nothing}
      /\ shown # Nothing => shown' # Nothing
      /\ section = "email-layout" => shown' = shown
  BY <1>1 DEF SignedOut, Restore, ClearSession, SectionsInv, SectionsTypeOK, Tokens
<1>3. CASE h.kind # "drag"
  <2>1. End(o) /\ suspect' = suspect /\ error' = error
    BY <1>1, <1>3 DEF SignedOut
  <2>2. SharedTypeOK'
    BY <1>2, <2>1 DEF SectionsInv, SectionsTypeOK, SharedTypeOK
  <2>3. ~ suspect' /\ Looking' /\ ~ Excused' => Fresh'
    <3>1. SUFFICES ASSUME ~ suspect, section = "email-layout"
                   PROVE  stored = shown /\ shownFor = filter
      BY <1>2, <2>1 DEF Looking, Fresh
    <3>2. Looking /\ Obliged(h) /\ ~ Served(h) /\ h.kind # "control"
      BY <1>0, <1>1, <3>1 DEF Looking, Obliged, Served, KindOK
    <3> QED BY <1>1, <3>1, <3>2 DEF Pending
  <2> QED BY <1>1, <1>2, <2>1, <2>2, <2>3, EndStep
<1>4. CASE h.kind = "drag"
  <2>1. Reload(o) /\ suspect' = (suspect \/ ~ Alone(o))
    BY <1>1, <1>4 DEF SignedOut, LoadsAgain
  <2>2. suspect' \in BOOLEAN /\ (~ Alone(o) => suspect')
    BY <2>1
  <2> QED BY <1>2, <2>1, <2>2, ReloadStep
<1> QED BY <1>3, <1>4

\* An answer that is lost keeps it.
LEMMA LostStep ==
  ASSUME PanelAssumption, SectionsInv, NEW o \in Handlers, Lost(o)
  PROVE  SectionsInv'
<1>1. PICK h \in SavingHandler :
           /\ h = handler[o] /\ o \in Awaiting
           /\ ShowRow(o, h.old) =>
                /\ shown' \in [Rows -> Values] \cup {Nothing}
                /\ shown # Nothing => shown' # Nothing
  BY SavingStart DEF Lost
<1>2. /\ UNCHANGED <<section, view, stored, shownFor, filter>> /\ session' \in Tokens
      /\ view' \in {"login", "here", "elsewhere"} /\ suspect' = TRUE
      /\ shown' \in [Rows -> Values] \cup {Nothing}
      /\ shown # Nothing => shown' # Nothing
  BY <1>1 DEF Lost, Restore, DropsSession, ClearSession, SectionsInv, SectionsTypeOK, Tokens
<1>3. CASE h.kind # "drag"
  <2>1. End(o) /\ error' \in {error, TRUE}
    BY <1>1, <1>3 DEF Lost, EndsRefused
  <2>2. SharedTypeOK'
    BY <1>2, <2>1 DEF SectionsInv, SectionsTypeOK, SharedTypeOK
  <2> QED BY <1>1, <1>2, <2>1, <2>2, EndStep
<1>4. CASE h.kind = "drag"
  BY <1>1, <1>2, <1>4, ReloadStep DEF Lost
<1> QED BY <1>3, <1>4

\* Data that arrive are shown as what they were asked for.
LEMMA LoadedStep ==
  ASSUME PanelAssumption, SectionsInv, NEW o \in Handlers, Loaded(o)
  PROVE  SectionsInv'
<1>1. PICK h \in LoadingHandler : h = handler[o] /\ h.pc = "loading" /\ h.data # Nothing
  BY HandlerShapes DEF Loaded, SectionsInv
<1>2. /\ shown' = h.data /\ shownFor' = h.filter /\ suspect' = (suspect /\ ~ h.alone) /\ End(o)
      /\ UNCHANGED <<section, view, session, stored, filter, error>>
  BY <1>1 DEF Loaded, sessionVars
<1>3. /\ h.alone => Awaiting = {o} /\ h.filter = filter /\ h.data = stored
      /\ ~ suspect => h.alone
      /\ o \in Awaiting /\ h.alone \in BOOLEAN
  BY <1>1 DEF SectionsInv, HandlerOK, Brings, Awaiting, LoadingHandler
<1>4. suspect' \in BOOLEAN /\ (~ suspect' <=> h.alone)
  BY <1>2, <1>3 DEF SectionsInv, SectionsTypeOK
<1>5. SharedTypeOK'
  BY <1>1, <1>2, <1>4 DEF SectionsInv, SectionsTypeOK, SharedTypeOK, LoadingHandler
<1>6. Others(o) # {} => suspect'
  BY <1>3, <1>4 DEF Others
<1>7. ~ suspect' => Fresh'
  BY <1>2, <1>3, <1>4 DEF Fresh
<1> QED BY <1>1, <1>2, <1>3, <1>5, <1>6, <1>7, EndStep

\* A load that fails leaves an error.
LEMMA LoadFailsStep ==
  ASSUME SectionsInv, NEW o \in Handlers, LoadFails(o)
  PROVE  SectionsInv'
<1>1. o \in Awaiting /\ End(o) /\ suspect' = TRUE
      /\ UNCHANGED <<section, stored, shown, shownFor, filter>>
  BY DEF LoadFails, Awaiting
<1>2. SharedTypeOK'
  BY DEF LoadFails, ClearSession, SectionsInv, SectionsTypeOK, SharedTypeOK, Tokens, sessionVars
<1> QED BY <1>1, <1>2, EndStep

\* Only tokens change, or the view to one where nothing more has to be right.
LEMMA TokenStep ==
  ASSUME SectionsInv, handler' \in {handler, Rejecting},
         UNCHANGED <<section, stored, shown, shownFor, error, filter, suspect>>,
         view' \in {"login", "here", "elsewhere"}, session' \in Tokens,
         view' = "here" => view = "here"
  PROVE  SectionsInv'
<1>1. ASSUME NEW p \in Handlers
      PROVE  \E t \in Tokens : /\ handler'[p] \in Handler
                               /\ \/ handler'[p] = handler[p]
                                  \/ /\ handler[p].pc \in {"saving", "loading"}
                                     /\ handler'[p] = [handler[p] EXCEPT !.token = t]
  <2>1. handler[p] \in Handler
    BY DEF SectionsInv
  <2>2. CASE handler'[p] = handler[p]
    BY <2>1, <2>2 DEF Tokens
  <2>3. CASE handler'[p] # handler[p]
    <3>1. /\ handler[p].pc \in {"saving", "loading"}
          /\ handler'[p] = [handler[p] EXCEPT !.token = "rejected"]
      BY <2>3 DEF Rejecting, Awaiting
    <3>2. CASE handler[p].pc = "saving"
      <4>1. handler'[p] \in SavingHandler
        BY <2>1, <3>1, <3>2, HandlerShapes DEF SavingHandler, Tokens
      <4> QED BY <3>1, <4>1 DEF Handler, Tokens
    <3>3. CASE handler[p].pc = "loading"
      <4>1. handler'[p] \in LoadingHandler
        BY <2>1, <3>1, <3>3, HandlerShapes DEF LoadingHandler, Tokens
      <4> QED BY <3>1, <4>1 DEF Handler, Tokens
    <3> QED BY <3>1, <3>2, <3>3
  <2> QED BY <2>2, <2>3
<1>2. handler' \in [Handlers -> Handler]
  BY <1>1 DEF SectionsInv, Rejecting
<1>3. ASSUME NEW p \in Handlers
      PROVE  \E g \in Handler, h \in Handler :
               /\ g = handler[p] /\ h = handler'[p] /\ g.pc = h.pc
               /\ g.pc = "saving" => /\ h.open = g.open /\ h.verdict = g.verdict /\ h.kind = g.kind
                                     /\ h.row = g.row /\ h.old = g.old /\ h.new = g.new
               /\ g.pc = "loading" => /\ h.filter = g.filter /\ h.data = g.data
                                      /\ h.alone = g.alone
  <2>1. PICK g \in Handler, h \in Handler, t \in Tokens :
          /\ g = handler[p] /\ h = handler'[p]
          /\ h = g \/ (g.pc \in {"saving", "loading"} /\ h = [g EXCEPT !.token = t])
    BY <1>1 DEF SectionsInv
  <2>2. CASE h = g
    BY <2>1, <2>2
  <2>3. CASE g.pc = "saving" /\ h = [g EXCEPT !.token = t]
    <3>1. g \in SavingHandler
      BY <2>3, HandlerShapes
    <3> QED BY <2>1, <2>3, <3>1 DEF SavingHandler
  <2>4. CASE g.pc = "loading" /\ h = [g EXCEPT !.token = t]
    <3>1. g \in LoadingHandler
      BY <2>4, HandlerShapes
    <3> QED BY <2>1, <2>4, <3>1 DEF LoadingHandler
  <2> QED BY <2>1, <2>2, <2>3, <2>4
<1>4. Awaiting' = Awaiting
  BY <1>3 DEF Awaiting
<1>5. Looking' => Looking
  BY DEF Looking
<1>6. ASSUME NEW p \in Handlers
      PROVE  HandlerOK(p)'
  <2>1. PICK g \in Handler, h \in Handler :
               /\ g = handler[p] /\ h = handler'[p] /\ g.pc = h.pc
               /\ g.pc = "saving" => /\ h.open = g.open /\ h.verdict = g.verdict /\ h.kind = g.kind
                                     /\ h.row = g.row /\ h.old = g.old /\ h.new = g.new
               /\ g.pc = "loading" => /\ h.filter = g.filter /\ h.data = g.data
                                      /\ h.alone = g.alone
    BY <1>3
  <2>2. HandlerOK(p)
    BY DEF SectionsInv
  <2>3. g.pc = "saving" /\ KindOK(g) => KindOK(h)'
    BY <2>1 DEF KindOK
  <2>4. ASSUME g.pc = "saving", Pending(g)
        PROVE  Pending(h)'
    <3>1. /\ Obliged(h)' <=> Obliged(g)
          /\ Served(h)' <=> Served(g)
          /\ Over(h.row, h.old)' = Over(g.row, g.old) /\ Over(h.row, h.new)' = Over(g.row, g.new)
          /\ \A w \in h.open : With(w.put)' = With(w.put)
      BY <2>1, <2>4 DEF Obliged, Served, Over, With
    <3> QED BY <1>5, <2>1, <2>4, <3>1 DEF Pending
  <2> QED BY <1>4, <2>1, <2>2, <2>3, <2>4 DEF HandlerOK, Brings
<1>7. SectionsTypeOK'
  BY <1>2 DEF SectionsInv, SectionsTypeOK
<1>8. ~ suspect' => \A q, p \in Awaiting' : q = p
  BY <1>4 DEF SectionsInv
<1>9. ~ suspect' /\ Awaiting' = {} /\ Looking' /\ ~ Excused' => Fresh'
  BY <1>4, <1>5 DEF SectionsInv, Fresh, Excused
<1> QED BY <1>2, <1>6, <1>7, <1>8, <1>9 DEF SectionsInv

\* A section that is asked for again keeps it.
LEMMA LoadsStep ==
  ASSUME SectionsInv, NEW o \in Handlers, Loads(o),
         UNCHANGED <<section, stored, shown, shownFor, filter>>,
         view' \in {"login", "here", "elsewhere"}, session' \in Tokens
  PROVE  SectionsInv'
<1>1. Reload(o) /\ suspect' \in BOOLEAN /\ (~ Alone(o) => suspect')
  BY DEF Loads
<1> QED BY <1>1, ReloadStep DEF SectionsInv, SectionsTypeOK

\* A login opens a section, and keeps it.
LEMMA LoginStep ==
  ASSUME SectionsInv, NEW o \in Handlers, Login(o)
  PROVE  SectionsInv'
<1>1. UNCHANGED <<section, stored, shown, shownFor, filter>> /\ session' = "accepted"
  BY DEF Login
<1>2. CASE section = "settings"
  BY <1>1, <1>2, LoadsStep DEF Login, Tokens
<1>3. CASE section # "settings"
  BY <1>1, <1>3, TokenStep DEF Login, Tokens
<1> QED BY <1>2, <1>3

\* A tab of the dialog of a quote that is opened keeps it.
LEMMA OpensTabStep ==
  ASSUME SectionsInv, NEW o \in Handlers, NEW name, OpensTab(o, name)
  PROVE  SectionsInv'
<1>1. PICK h \in LoadingHandler :
        h = [pc |-> "loading", token |-> session, filter |-> filter, data |-> Nothing,
             verdict |-> {}, alone |-> TRUE]
  BY DEF LoadingHandler, SectionsInv, SectionsTypeOK
<1>2. handler' = [p \in Handlers |-> IF p # o THEN IdleHandler ELSE h]
  BY <1>1 DEF OpensTab
<1>3. /\ handler' \in [Handlers -> Handler] /\ handler'[o] = h
      /\ \A p \in Handlers \ {o} : handler'[p] = IdleHandler
  BY <1>2 DEF Handler
<1>4. Awaiting' = {o}
  BY <1>1, <1>3 DEF Awaiting, IdleHandler
<1>5. HandlerOK(o)'
  BY <1>1, <1>3, <1>4 DEF HandlerOK, Brings, OpensTab
<1>6. \A p \in Handlers \ {o} : HandlerOK(p)'
  BY <1>3 DEF HandlerOK, IdleHandler
<1>7. suspect' \in BOOLEAN
  BY DEF OpensTab
<1>8. SectionsTypeOK'
  BY <1>3, <1>7 DEF OpensTab, SectionsInv, SectionsTypeOK
<1> QED BY <1>3, <1>4, <1>5, <1>6, <1>8 DEF SectionsInv

\* Others change what nobody asked for, and the panel is suspect.
LEMMA OthersChangeStep ==
  ASSUME SectionsInv, OthersChange
  PROVE  SectionsInv'
<1>1. /\ handler' = [p \in Handlers |-> IF p \in Awaiting /\ handler[p].pc = "loading"
                                        THEN [handler[p] EXCEPT !.alone = FALSE] ELSE handler[p]]
      /\ suspect' = TRUE /\ UNCHANGED <<section, view, session, shown, shownFor, error, filter>>
  BY DEF OthersChange, Crowd, sessionVars, shownVars
<1>2. stored' \in [Rows -> Values]
  BY DEF OthersChange, SectionsInv, SectionsTypeOK
<1>3. ASSUME NEW p \in Handlers
      PROVE  handler'[p] \in Handler /\ HandlerOK(p)'
  <2>0. HandlerOK(p) /\ handler[p] \in Handler
    BY DEF SectionsInv
  <2>1. CASE handler[p].pc = "loading"
    <3>1. handler[p] \in LoadingHandler /\ handler'[p] = [handler[p] EXCEPT !.alone = FALSE]
      BY <1>1, <2>0, <2>1, HandlerShapes DEF Awaiting
    <3>2. handler'[p] \in LoadingHandler /\ ~ handler'[p].alone
      BY <3>1, Crossed
    <3> QED BY <1>1, <3>2 DEF HandlerOK, LoadingHandler, Handler
  <2>2. CASE handler[p].pc # "loading"
    <3>1. PICK h \in Handler : h = handler[p] /\ h = handler'[p] /\ h.pc # "loading"
      BY <1>1, <2>0, <2>2
    <3>2. h.pc = "saving" => KindOK(h)'
      BY <1>1, <2>0, <3>1 DEF HandlerOK, KindOK
    <3> QED BY <1>1, <2>0, <3>1, <3>2 DEF HandlerOK
  <2> QED BY <2>1, <2>2
<1>4. handler' \in [Handlers -> Handler]
  BY <1>1, <1>3
<1> QED BY <1>1, <1>2, <1>3, <1>4 DEF SectionsInv, SectionsTypeOK

\* Another filter asks again, and keeps it.
LEMMA ChangeFilterStep ==
  ASSUME SectionsInv, NEW o \in Handlers, ChangeFilter(o)
  PROVE  SectionsInv'
<1>1. PICK f \in {"all", "pending"} : filter' = f /\ LoadFor(o, f)
  BY DEF ChangeFilter
<1>2. /\ UNCHANGED <<section, view, session, stored, shown, shownFor>>
      /\ error' = FALSE /\ suspect' \in BOOLEAN /\ (~ Alone(o) => suspect')
  BY DEF ChangeFilter, sessionVars
<1>3. SharedTypeOK' /\ session' \in Tokens
  BY <1>1, <1>2 DEF SectionsInv, SectionsTypeOK, SharedTypeOK
<1> QED BY <1>1, <1>2, <1>3, LoadStep

\* A section that is shown asks for its data, and keeps it.
LEMMA ShowSectionStep ==
  ASSUME SectionsInv, NEW o \in Handlers, ShowSection(o)
  PROVE  SectionsInv'
<1>1. ASSUME NEW name, Shows(o, name)
      PROVE  SectionsInv'
  BY <1>1, LoadsStep DEF Shows, SectionsInv, SectionsTypeOK
<1>2. ASSUME NEW name, OpensTab(o, name)
      PROVE  SectionsInv'
  BY <1>2, OpensTabStep
<1> QED BY <1>1, <1>2 DEF ShowSection, ShowSettings, ShowUserAccounts, ShowServiceRequests,
      ShowQuotes, ShowReviews, ShowPayments, ShowCategories, ShowEmailTemplates, ShowEmailLayout,
      ShowAdminRoles, ShowAdminUsers, LoadNegotiationThread, LoadEngagementChatThread,
      LoadAppointments, LoadEngagementReviews

\* At first a section is empty and nobody waits.
LEMMA SectionsInitOK ==
  ASSUME PanelAssumption
  PROVE  SectionsInit => SectionsInv
<1> SUFFICES ASSUME SectionsInit PROVE SectionsInv
  OBVIOUS
<1>1. handler = [o \in Handlers |-> IdleHandler] /\ IdleHandler.pc = "idle" /\ suspect = TRUE
      /\ IdleHandler \in Handler
  BY DEF SectionsInit, IdleHandler, Handler
<1>2. handler \in [Handlers -> Handler] /\ \A o \in Handlers : handler[o].pc = "idle"
  BY <1>1
<1>3. \A o \in Handlers : HandlerOK(o)
  BY <1>2 DEF HandlerOK
<1>4. SectionsTypeOK
  BY <1>2 DEF SectionsInit, SectionsTypeOK, Tokens
<1> QED BY <1>1, <1>2, <1>3, <1>4 DEF SectionsInv

\* Each step of the sections keeps their invariant.
LEMMA SectionsStepOK ==
  ASSUME PanelAssumption, SectionsInv, [SectionsNext]_sectionVars
  PROVE  SectionsInv'
<1>1. ASSUME NEW o \in Handlers,
             \/ DeleteUserAccount(o) \/ DeleteAdminUser(o) \/ RevokeAdminUser(o)
             \/ DeleteAdminRole(o) \/ DeleteCategory(o)
             \/ HandleModerate(o) \/ HandleModerateReviewInTab(o)
             \/ SubmitServiceRequest(o) \/ InviteAdminUser(o) \/ EditAdminUser(o)
             \/ SubmitRole(o) \/ SubmitCategory(o) \/ SubmitTemplate(o)
      PROVE  SectionsInv'
  BY <1>1, RowStep DEF DeleteUserAccount, DeleteAdminUser, RevokeAdminUser, DeleteAdminRole,
     DeleteCategory, HandleModerate, HandleModerateReviewInTab, SubmitServiceRequest,
     InviteAdminUser, EditAdminUser, SubmitRole, SubmitCategory, SubmitTemplate
<1>2. ASSUME NEW o \in Handlers, EditUserAccount(o) \/ EditAdminUserRow(o)
      PROVE  SectionsInv'
  BY <1>2, CellStep DEF EditUserAccount, EditAdminUserRow
<1>3. ASSUME NEW o \in Handlers,
             \/ HandleForcePasswordReset(o) \/ HandleResendInvite(o) \/ HandleSendTest(o)
             \/ HandleSaveCredential(o)
      PROVE  SectionsInv'
  BY <1>3, AsksStep DEF HandleForcePasswordReset, HandleResendInvite, HandleSendTest,
     HandleSaveCredential
<1>4. ASSUME NEW o \in Handlers,
             \/ SubmitBulkDelete(o) \/ HandleToggle(o) \/ HandleSaveSetting(o)
             \/ MoveSibling(o) \/ HandleSortableEnd(o)
             \/ SubmitLayout(o) \/ UploadLogo(o) \/ SendLogo(o) \/ UploadFails(o)
      PROVE  SectionsInv'
  BY <1>4, BulkStep, SettingsStep, SiblingsStep, LayoutStep, UploadStep
<1>5. ASSUME NEW o \in Handlers,
             \/ Serve(o) \/ ServeLoad(o) \/ Saved(o) \/ TurnedDown(o) \/ SignedOut(o) \/ Lost(o)
             \/ Loaded(o) \/ LoadFails(o)
      PROVE  SectionsInv'
  BY <1>5, ServeStep, ServeLoadStep, SavedStep, RefusedStep, SignedOutStep, LostStep, LoadedStep,
     LoadFailsStep
<1>6. ASSUME NEW o \in Handlers, Login(o) \/ ShowSection(o) \/ ChangeFilter(o)
      PROVE  SectionsInv'
  BY <1>6, LoginStep, ShowSectionStep, ChangeFilterStep
<1>7. ASSUME Logout \/ SessionEnds \/ Leave
      PROVE  SectionsInv'
  BY <1>7, TokenStep DEF Logout, SessionEnds, Leave, SectionsInv, SectionsTypeOK, Tokens, shownVars
<1>8. CASE OthersChange
  BY <1>8, OthersChangeStep
<1>9. CASE UNCHANGED sectionVars
  BY <1>9, TokenStep DEF sectionVars, SectionsInv, SectionsTypeOK
<1> QED BY <1>1, <1>2, <1>3, <1>4, <1>5, <1>6, <1>7, <1>8, <1>9 DEF SectionsNext

\* The sections keep their invariant in every behaviour.
LEMMA SectionsInvariant == SectionsSpec => []SectionsInv
<1>1. SectionsInit => SectionsInv
  BY PanelAssumption, SectionsInitOK
<1>2. SectionsInv /\ [SectionsNext]_sectionVars => SectionsInv'
  BY PanelAssumption, SectionsStepOK
<1> QED BY <1>1, <1>2, PTL DEF SectionsSpec

\* The panel and its handlers hold what they should, in every section.
THEOREM SectionsTypeCorrect == SectionsSpec => []SectionsTypeOK
<1>1. SectionsInv => SectionsTypeOK
  BY DEF SectionsInv
<1> QED BY <1>1, SectionsInvariant, PTL

\* A section that shows no error shows the server's data, under the filter that is
\* set, once its handlers have their answers; unless the data changed behind the
\* panel, requests crossed, or an answer was lost (the handlers of the sections, and
\* the load that ends most of them).
THEOREM NoErrorMeansCurrentHolds == SectionsSpec => []NoErrorMeansCurrent
<1>1. SectionsInv => NoErrorMeansCurrent
  <2>1. SUFFICES ASSUME SectionsInv, view = "here", Quiet, ~ error, ~ suspect
                 PROVE  Fresh
    BY DEF NoErrorMeansCurrent, Fresh
  <2>2. Awaiting = {} /\ Looking /\ ~ Excused
    BY <2>1 DEF Awaiting, Quiet, Looking, Excused
  <2> QED BY <2>1, <2>2, CalmIsFresh
<1> QED BY <1>1, SectionsInvariant, PTL

\* A handler changes what the administrator edited and nothing else: the fields that
\* are sent along undo a change only if it is suspect (the flags of the settings, the
\* layout of the e-mails).
THEOREM OnlyTheEditedChangesHolds == SectionsSpec => OnlyTheEditedChanges
<1> DEFINE Only == \A r \in Rows : stored'[r] # stored[r] =>
       \/ suspect'
       \/ \E o \in Handlers : handler[o].pc = "saving" /\ \E w \in handler[o].open :
            r \in w.want /\ stored'[r] = w.put[r]
<1>1. SectionsInv /\ [SectionsNext]_sectionVars => Only
  <2>1. SUFFICES ASSUME SectionsInv, [SectionsNext]_sectionVars, stored' # stored
                 PROVE  Only
    OBVIOUS
  <2>2. OthersChange \/ \E o \in Handlers : Serve(o)
    <3>1. ASSUME NEW o \in Handlers, NEW k, NEW W, NEW r, NEW a, NEW b, Send(o, k, W, r, a, b)
          PROVE  FALSE
      BY <2>1, <3>1 DEF Send
    <3>2. ASSUME NEW o \in Handlers,
                 \/ DeleteUserAccount(o) \/ DeleteAdminUser(o) \/ RevokeAdminUser(o)
                 \/ DeleteAdminRole(o) \/ DeleteCategory(o) \/ SubmitBulkDelete(o)
                 \/ HandleModerate(o) \/ HandleModerateReviewInTab(o)
                 \/ MoveSibling(o) \/ HandleSortableEnd(o)
          PROVE  FALSE
      BY <3>1, <3>2 DEF DeleteUserAccount, DeleteAdminUser, RevokeAdminUser, DeleteAdminRole,
         DeleteCategory, SubmitBulkDelete, HandleModerate, HandleModerateReviewInTab, MoveSibling,
         HandleSortableEnd, OfARow, OfAReview, Clears
    <3>3. ASSUME NEW o \in Handlers,
                 \/ SubmitServiceRequest(o) \/ InviteAdminUser(o) \/ EditAdminUser(o)
                 \/ SubmitRole(o) \/ SubmitCategory(o) \/ SubmitTemplate(o)
                 \/ SubmitLayout(o) \/ SendLogo(o)
          PROVE  FALSE
      BY <3>1, <3>3 DEF SubmitServiceRequest, InviteAdminUser, EditAdminUser, SubmitRole,
         SubmitCategory, SubmitTemplate, SubmitLayout, SendLogo, OfAForm, Keeps
    <3>4. ASSUME NEW o \in Handlers,
                 \/ EditUserAccount(o) \/ EditAdminUserRow(o)
                 \/ HandleForcePasswordReset(o) \/ HandleResendInvite(o) \/ HandleSendTest(o)
                 \/ HandleSaveCredential(o) \/ HandleToggle(o) \/ HandleSaveSetting(o)
          PROVE  FALSE
      BY <3>1, <3>4 DEF EditUserAccount, EditAdminUserRow, HandleForcePasswordReset,
         HandleResendInvite, HandleSendTest, HandleSaveCredential, HandleToggle,
         HandleSaveSetting, OfACell, Asks, Edits
    <3>5. ASSUME NEW o \in Handlers,
                 \/ UploadLogo(o) \/ UploadFails(o) \/ ServeLoad(o) \/ Saved(o) \/ TurnedDown(o)
                 \/ SignedOut(o) \/ Lost(o) \/ Loaded(o) \/ LoadFails(o) \/ Login(o)
                 \/ ChangeFilter(o)
          PROVE  FALSE
      BY <2>1, <3>5 DEF UploadLogo, UploadFails, ServeLoad, Saved, TurnedDown, SignedOut, Lost,
         Loaded, LoadFails, Login, ChangeFilter
    <3>6. ASSUME NEW o \in Handlers, ShowSection(o)
          PROVE  FALSE
      <4>1. ASSUME NEW name, Shows(o, name) \/ OpensTab(o, name)
            PROVE  FALSE
        BY <2>1, <4>1 DEF Shows, OpensTab
      <4> QED BY <3>6, <4>1 DEF ShowSection, ShowSettings, ShowUserAccounts,
        ShowServiceRequests, ShowQuotes, ShowReviews, ShowPayments, ShowCategories,
        ShowEmailTemplates, ShowEmailLayout, ShowAdminRoles, ShowAdminUsers,
        LoadNegotiationThread, LoadEngagementChatThread, LoadAppointments, LoadEngagementReviews
    <3>7. ~ Logout /\ ~ SessionEnds /\ ~ Leave /\ ~ UNCHANGED sectionVars
      BY <2>1 DEF Logout, SessionEnds, Leave, sectionVars
    <3> QED BY <2>1, <3>2, <3>3, <3>4, <3>5, <3>6, <3>7 DEF SectionsNext
  <2>3. CASE OthersChange
    BY <2>3 DEF OthersChange
  <2>4. ASSUME NEW o \in Handlers, Serve(o)
        PROVE  Only
    <3>1. PICK w \in handler[o].open : stored' = With(w.put)
      BY <2>1, <2>4 DEF Serve
    <3>2. handler[o].pc = "saving" /\ suspect' = suspect
      BY <2>4 DEF Serve
    <3>3. ~ suspect => Pending(handler[o])
      BY <2>1, <2>4, <3>2 DEF SectionsInv, HandlerOK
    <3>4. ASSUME NEW r \in Rows, stored'[r] # stored[r], ~ suspect
          PROVE  r \in w.want /\ stored'[r] = w.put[r]
      <4>1. With(w.put)[r] = IF r \in DOMAIN w.put THEN w.put[r] ELSE stored[r]
        BY <3>4 DEF With
      <4>2. r \in DOMAIN w.put /\ stored'[r] = w.put[r]
        BY <3>1, <3>4, <4>1
      <4> QED BY <3>1, <3>3, <3>4, <4>2 DEF Pending
    <3> QED BY <3>1, <3>2, <3>4
  <2> QED BY <2>2, <2>3, <2>4
<1>2. SectionsInv /\ [SectionsNext]_sectionVars => [Only]_sectionVars
  BY <1>1
<1> QED BY <1>2, SectionsInvariant, PTL DEF SectionsSpec, OnlyTheEditedChanges
====
