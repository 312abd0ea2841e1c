---------------------- MODULE MC_EngagementLifecycle ----------------------
\* Two Engagements of one professional; two slots overlap and one follows the
\* first without a gap.  A behaviour is of the calendar and the work of both, of
\* one of them with its conversation and its reviews, of the calls to the provider
\* that its payment needs, or of what people upload: references or files.
EXTENDS Reviews, PaymentGateway, UploadRefs, ImageFiles, TLC

VARIABLE part

recordVars == <<chatVars, reviewVars>>

\* The country is configured for one account or for none, whose rows follow one by
\* one; of the accounts, which are alike, the first is fixed.
Configured ==
  /\ sibling = Accounts /\ usable = OtherRows
  /\ credential.token = credential.secret
  /\ credential.token \in {Blank, CHOOSE a \in Accounts : TRUE}

\* One way to leave the provider alone.
Unpaid ==
  /\ means = "card" /\ usable = {} /\ sibling = {}
  /\ credential = [token |-> Blank, secret |-> Blank]

AllInit == /\ part \in {"calendar", "record", "provider", "refs", "files"}
           /\ ReviewsInit
           /\ RefsInit
           /\ FilesInit
           /\ GatewayInit
           /\ part = "provider" => Configured
           /\ part # "provider" => Unpaid

AllNext ==
  \/ part = "calendar" /\ Next /\ UNCHANGED <<part, recordVars, gatewayVars, refVars, fileVars>>
  \/ part = "record" /\ RecordNext /\ UNCHANGED <<part, gatewayVars, refVars, fileVars>>
  \/ part = "provider" /\ GatewayNext /\ UNCHANGED <<part, vars, recordVars, refVars, fileVars>>
  \/ part = "refs" /\ RefsNext /\ UNCHANGED <<part, vars, recordVars, gatewayVars, fileVars>>
  \/ part = "files" /\ FilesNext /\ UNCHANGED <<part, vars, recordVars, gatewayVars, refVars>>

AllSpec == AllInit /\ [][AllNext]_<<part, vars, recordVars, gatewayVars, refVars, fileVars>>

\* The types of the lifecycle, the chat, the reviews, UploadRefs and ImageFiles.
PartsTypeOK == TypeOK /\ RecordTypeOK /\ RefsTypeOK /\ FilesTypeOK

\* Of the records only that of one Engagement is explored, with one appointment
\* and no reports; whoever reviews meets no handler of the work, which could
\* do nothing more.
OneRecord ==
  part = "record" =>
    /\ \A k \in Appointments : appointment[k].status # "NONE" => k = 1 /\ appointment[k].slot = <<0, 2>>
    /\ \A p \in Parties : noShows[p] = 0
    /\ \A r \in Requests : req[r].pc # "report"
    /\ \E e \in Engagements : \A f \in Engagements \ {e} :
         /\ status[f] = "ACCEPTED"
         /\ ~ conversation[f]
         /\ \A k \in Appointments : appointment[k].eng # f
         /\ \A r \in Requests : req[r].e # f
    /\ (\E r \in Requests : reviewReq[r].pc # "idle") => \A r \in Requests : req[r].pc = "idle"

\* Nothing follows a rating summary: it changes nothing that the properties of the
\* larger run read.  EngagementLifecycle_summary explores what does.
SummaryIsLast ==
  (\E t \in seen : t[3] = "summary") => /\ Cardinality(seen) = 1
                                        /\ \A r \in Requests : reviewReq[r].pc = "idle"

MCSlots == {<<0, 2>>, <<1, 3>>, <<2, 4>>}
Symmetry == Permutations(Requests) \cup Permutations(Engagements)
=============================================================================
