-------------------------- MODULE MC_Administration --------------------------
(* One instance for TLC of what administrators maintain: themselves and      *)
(* their roles, the catalog of categories, the settings, the settings and    *)
(* texts that an e-mail needs, and the pages that show settings.  They run   *)
(* side by side: a behaviour is of one of them.                              *)
EXTENDS AdminAccess, Catalog, EmailDelivery, SettingsPage, TLC

VARIABLE part

\* The keys in the order of localeCompare and their paths: 'identity',
\* 'identity.enabled', 'identity.enabled.since', 'log-in', 'log-in.hint' and
\* 'logIn', one of the storage, the four that mail reads, and of those that only
\* pages save, the three of a provider with a mode and one that has no slot.
MCPath == << <<"identity">>, <<"identity", "enabled">>, <<"identity", "enabled", "since">>,
             <<"logIn">>, <<"logIn", "hint">>, <<"logIn">>, <<"storage">>,
             <<"provider">>, <<"resend", "enabled">>, <<"resend", "apiKey">>, <<"resend", "from">>,
             <<"didit", "mode">>, <<"didit", "sandbox", "apiKey">>, <<"didit", "production", "apiKey">>,
             <<"google", "enabled">> >>
MCSegments == << <<"identity">>, <<"identity", "enabled">>, <<"identity", "enabled", "since">>,
                 <<"log-in">>, <<"log-in", "hint">>, <<"logIn">>, <<"storage", "enabled">>,
                 <<"notifications", "email", "provider">>,
                 <<"notifications", "email", "resend", "enabled">>,
                 <<"notifications", "email", "resend", "api-key">>,
                 <<"notifications", "email", "resend", "from-address">>,
                 <<"identity", "didit", "mode">>, <<"identity", "didit", "sandbox", "api-key">>,
                 <<"identity", "didit", "production", "api-key">>,
                 <<"customer", "social-login", "google", "enabled">> >>
MCWords == UNION {Range(MCSegments[k]) : k \in 1..15}
Public(v) == [encrypted |-> FALSE, public |-> TRUE, text |-> v]
Private(v) == [encrypted |-> FALSE, public |-> FALSE, text |-> v]
Secret(v) == [encrypted |-> TRUE, public |-> FALSE, text |-> v]
MCInput == [k \in 1..15 |->
  CASE k \in 1..6 -> {Public("true"), Public("false"), Private("true"), Private("")}
    [] k = 7 -> {Public("true")}
    [] k = 8 -> {Private("MAILPIT"), Private("RESEND")}
    [] k = 9 -> {Private("true"), Private("false")}
    [] k = 10 -> {Secret("s1"), Secret("s2"), Secret(""), Private("true"), [Secret("s1") EXCEPT !.public = TRUE]}
    [] k = 12 -> {Private("SANDBOX"), Private("PRODUCTION")}
    [] k \in {13, 14} -> {Secret("s1"), Private("true")}
    [] OTHER -> {Private("true")}]

MCKeys == 1..15
MCDefaults == << <<"identity", "enabled">>, <<"logIn", "apple">> >>

accessVars == vars

AllInit == 
  /\ part \in {"access", "catalog", "settings", "mail", "pages"}
  /\ Init /\ CatalogInit /\ EmailInit /\ PageInit

AllNext ==
  \/ part = "access" /\ Next /\ UNCHANGED <<part, catalogVars, emailVars, page>>
  \/ part = "catalog" /\ CatalogNext /\ UNCHANGED <<part, accessVars, emailVars, page>>
  \/ part = "settings" /\ SettingsNext /\ UNCHANGED <<part, accessVars, catalogVars, mailVars, page>>
  \/ part = "mail" /\ EmailNext /\ UNCHANGED <<part, accessVars, catalogVars, page>>
  \/ part = "pages" /\ PageNext /\ UNCHANGED <<part, accessVars, catalogVars, mailVars>>

AllSpec == AllInit /\ [][AllNext]_<<part, accessVars, catalogVars, emailVars, page>>

\* The texts and the deployment are not looked at beside the settings.  Of the
\* public settings three exist at a time, enough for a key to meet one above,
\* below or at its path and a default; saves race on the credential alone,
\* and one at a time, of one credential, where there is mail.  Pages
\* save the provider with a mode and the key with no slot, one at a time.
FewSettings ==
  LET rows(S) == Cardinality({k \in S : HasRow(k)})
      saves == {r \in Saves : save[r] # NoSave} IN
  /\ part # "mail" => template = Null /\ layout = Null /\ production
  /\ part = "settings" =>
       /\ \A k \in {8, 9} \cup 11..15 : ~ HasRow(k)
       /\ rows(1..7) <= 3
       /\ saves # {} => \A r \in saves : save[r].k \in 1..7 \cup {10}
       /\ Cardinality(saves) = 2 => rows(1..7) = 0 /\ \A r \in saves : save[r].k = 10
       /\ HasRow(7) \/ HasRow(10) => rows(1..7) <= 1
       /\ setting[7].value \in {Null, "true", "false"}
  /\ part = "mail" =>
       /\ Cardinality(saves) <= 1
       /\ entered[10] # "s2" /\ setting[10].value = Null
       /\ \A r \in saves : save[r].k = 10 => save[r].form = Secret("s1")
  /\ part = "pages" =>
       /\ rows(1..11 \ {7}) = 0
       /\ HasRow(7) => rows(12..15) = 0 /\ setting[7].value = "true"
       /\ Cardinality(saves) <= 1 /\ \A r \in saves : save[r].k \in 12..15

\* Handlers are interchangeable, and so are the administrators but Root.
Symmetry == Permutations(Requests) \cup Permutations(Admins \ {Root}) \cup Permutations(Pages)
=============================================================================
