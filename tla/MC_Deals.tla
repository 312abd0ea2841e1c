------------------------------ MODULE MC_Deals ------------------------------
\* A behaviour is of one request with its quotes, of the scripts that fill a
\* development database with such deals, or of the panel that administers
\* them: one of its sections, or one of its dialogs.
EXTENDS MC_Marketplace, DemoData, PanelSections, PanelDialogs

VARIABLE part

allVars == <<part, vars, demoVars, sectionVars, dialogVars>>

AllInit ==
  /\ part \in {"request", "demo data", "sections", "dialogs"}
  /\ Init /\ DemoInit /\ SectionsInit /\ DialogsInit
  /\ part # "sections" => /\ section = CHOOSE x \in Sections : TRUE
                          /\ stored = [r \in Rows |-> CHOOSE v \in Values : TRUE]
  /\ part # "dialogs" => dialog = "quote-detail" /\ ~ cached

AllNext ==
  \/ part = "request" /\ Next /\ UNCHANGED <<part, demoVars, sectionVars, dialogVars>>
  \/ part = "demo data" /\ DemoNext /\ UNCHANGED <<part, vars, sectionVars, dialogVars>>
  \/ part = "sections" /\ SectionsNext /\ UNCHANGED <<part, vars, demoVars, dialogVars>>
  \/ part = "dialogs" /\ DialogsNext /\ UNCHANGED <<part, vars, demoVars, sectionVars>>

AllSpec == AllInit /\ [][AllNext]_allVars

\* The handlers of the panel are interchangeable too.
AllSymmetry == Symmetry \cup Permutations(Handlers)

\* The types of the panel.
PanelTypeOK == SectionsTypeOK /\ DialogsTypeOK

\* Both quotes ask the lower price; a proposal repeats it or asks more.
OnePriceAsked == part = "request" => \A q \in Quotes : quote[q].price \in {0, 1}

\* The catalog is seeded before the people; visits and messages are explored
\* without payments and reviews, which share no row with them; one administrator.
OneStory ==
  part = "demo data" =>
    /\ run.script = "seed" => users = {}
    /\ Cardinality(admins) <= 1
    /\ runs["payments"] + runs["reviews"] = 0 \/ runs["chat"] + runs["appointments"] = 0

\* Two handlers run at once in sections that together have every kind of them,
\* and the requests of one are served before the other sends its own.
Crowded == {"settings", "categories", "email-layout", "engagement-reviews"}
Unserved(o) == handler[o].pc = "saving" /\ handler[o].open # {}
FewHandlers ==
  \A o, p \in Handlers : o # p =>
    /\ section \notin Crowded => handler[o].pc = "idle" \/ handler[p].pc = "idle"
    /\ ~ (Unserved(o) /\ Unserved(p))
=============================================================================
