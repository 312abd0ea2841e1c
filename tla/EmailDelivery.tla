---------------------------- MODULE EmailDelivery ----------------------------
(***************************************************************************)
(* One e-mail from the request that causes it to the provider that takes   *)
(* it, beside administrators who change the settings, the templates and    *)
(* the layout.                                                             *)
(*                                                                         *)
(* The request is refused at once when mail could not leave, and the       *)
(* worker asks the same settings again, attempts later; each question is   *)
(* a read of its own.  The rows only ever appear, so the two credentials   *)
(* that are read together are one read here.                               *)
(***************************************************************************)
EXTENDS PlatformSettings

CONSTANTS Provider, Enabled, ApiKey, From,  \* the keys mail depends on
          Mailpit, Yes,                     \* values of the first two
          Versions,                         \* texts of the template and of the layout
          Mails, Attempts

MailKeys == {Provider, Enabled, ApiKey, From}

ASSUME EmailAssumption == MailKeys \subseteq Keys /\ {Mailpit, Yes} \subseteq Values /\ Attempts \in Nat \ {0}

VARIABLES production,  \* NODE_ENV, of the whole deployment
          template,    \* the EmailTemplate row of the mail
          layout,      \* the EmailLayout row
          mail         \* the requests that mail, and their jobs

mailVars == <<production, template, layout, mail>>
emailVars == <<settingVars, mailVars>>

\* touched: a save committed since the request asked for the provider.
NoMail == [pc |-> "idle", template |-> Null, layout |-> Null, via |-> "none", failure |-> "none",
           tries |-> 0, stalled |-> FALSE, touched |-> FALSE]
MailPcs == {"idle", "enabled", "credentials", "template", "layout", "enqueue",
        "queued", "smtp", "settings", "resend", "accepted", "sent", "failed"}

Value(k) == IF setting[k].encrypted THEN setting[k].secret ELSE setting[k].value
Configured == Value(ApiKey) # Null /\ Value(From) # Null

Goto(m, pc) == mail' = [mail EXCEPT ![m].pc = pc]
Answer(m) == mail' = [mail EXCEPT ![m] = NoMail]
OnlyMail == UNCHANGED <<settingVars, production, template, layout>>

------------------------------------------------------------------------------
(* EnsureEmailDeliveryAvailableService, then the renderer                  *)

\* Mailpit is refused in production and needs nothing else.
ReadProvider(m) ==
  /\ mail[m].pc = "idle"
  /\ ~ (Value(Provider) = Mailpit /\ production)
  /\ Goto(m, IF Value(Provider) = Mailpit THEN "template" ELSE "enabled")
  /\ OnlyMail

ReadEnabled(m) ==
  /\ mail[m].pc = "enabled"
  /\ IF Value(Enabled) = Yes THEN Goto(m, "credentials") ELSE Answer(m)
  /\ OnlyMail

\* The variant takes one of the two for both.
ReadOneCredential(m) ==
  /\ mail[m].pc = "credentials"
  /\ IF Value(ApiKey) # Null \/ Value(From) # Null THEN Goto(m, "template") ELSE Answer(m)
  /\ OnlyMail
ReadCredentials(m) ==
  /\ mail[m].pc = "credentials"
  /\ IF Configured THEN Goto(m, "template") ELSE Answer(m)
  /\ OnlyMail

ReadTemplate(m) ==
  /\ mail[m].pc = "template"
  /\ IF template = Null THEN Answer(m)
     ELSE mail' = [mail EXCEPT ![m].pc = "layout", ![m].template = template]
  /\ OnlyMail

ReadLayout(m) ==
  /\ mail[m].pc = "layout"
  /\ IF layout = Null THEN Answer(m)
     ELSE mail' = [mail EXCEPT ![m].pc = "enqueue", ![m].layout = layout]
  /\ OnlyMail

Enqueue(m) == mail[m].pc = "enqueue" /\ Goto(m, "queued") /\ OnlyMail

\* The request fails between its reads, or the queue is down.
GiveUpMail(m) ==
  /\ mail[m].pc \in {"enabled", "credentials", "template", "layout", "enqueue"}
  /\ Answer(m)
  /\ OnlyMail

------------------------------------------------------------------------------
(* The worker: EmailQueueProcessor, the router and the two adapters        *)

\* An attempt that throws is repeated until none is left.
AttemptFails(m, failure) ==
  LET tries == mail[m].tries + 1 IN
  mail' = [mail EXCEPT ![m].pc = IF tries < Attempts THEN "queued" ELSE "failed",
                       ![m].tries = tries, ![m].failure = failure]

Route(m) ==
  /\ mail[m].pc = "queued"
  /\ IF Value(Provider) = Mailpit /\ production THEN AttemptFails(m, "misconfigured")
     ELSE Goto(m, IF Value(Provider) = Mailpit THEN "smtp" ELSE "settings")
  /\ OnlyMail

ReadResendSettings(m) ==
  /\ mail[m].pc = "settings"
  /\ IF Value(Enabled) # Yes THEN AttemptFails(m, "disabled")
     ELSE IF ~ Configured THEN AttemptFails(m, "misconfigured")
     ELSE Goto(m, "resend")
  /\ OnlyMail

\* The provider takes the mail or not.
Deliver(m) ==
  /\ mail[m].pc \in {"smtp", "resend"}
  /\ \/ mail' = [mail EXCEPT ![m].pc = "accepted", ![m].via = mail[m].pc]
     \/ AttemptFails(m, "provider")
  /\ OnlyMail

Complete(m) == mail[m].pc = "accepted" /\ Goto(m, "sent") /\ OnlyMail

\* The queue runs the job of a worker that died once more, a second time it fails.
MailWorkerDies(m) ==
  /\ mail[m].pc \in {"smtp", "settings", "resend", "accepted"}
  /\ mail' = [mail EXCEPT ![m].pc = IF mail[m].stalled THEN "failed" ELSE "queued",
                          ![m].stalled = TRUE]
  /\ OnlyMail

------------------------------------------------------------------------------
(* Administrators                                                          *)

ChangeSettings ==
  /\ \/ \E r \in Saves : CommitSave(r)
     \/ \E k \in MailKeys : \E form \in Input[k] : SeedSetting(k, form)
  /\ mail' = [m \in Mails |-> IF mail[m].pc = "idle" THEN mail[m] ELSE [mail[m] EXCEPT !.touched = TRUE]]
  /\ UNCHANGED <<production, template, layout>>

\* A template is seeded, never created here; the layout can be.
UpdateEmailTemplate(v) ==
  /\ template # Null
  /\ template' = v
  /\ UNCHANGED <<settingVars, production, layout, mail>>

UpdateEmailLayout(v) ==
  /\ layout' = v
  /\ UNCHANGED <<settingVars, production, template, mail>>

\* The seed of a deployment writes what is missing.
SeedTexts(v) ==
  /\ template' = IF template = Null THEN v ELSE template
  /\ layout' = IF layout = Null THEN v ELSE layout
  /\ UNCHANGED <<settingVars, production, mail>>

------------------------------------------------------------------------------
EmailInit == /\ SettingsInit
             /\ production \in BOOLEAN
             /\ template = Null
             /\ layout = Null
             /\ mail = [m \in Mails |-> NoMail]

Accept(m) == ReadProvider(m) \/ ReadEnabled(m) \/ ReadCredentials(m) \/ ReadTemplate(m) \/ ReadLayout(m)
             \/ Enqueue(m) \/ GiveUpMail(m)
Work(m) == Route(m) \/ ReadResendSettings(m) \/ Deliver(m) \/ Complete(m) \/ MailWorkerDies(m)
Configure == \/ ChangeSettings
             \/ UNCHANGED mailVars /\ \E r \in Saves :
                  GiveUpSave(r) \/ \E k \in MailKeys : \E form \in Input[k] : BeginSave(r, k, form)

EmailNext == \/ \E m \in Mails : Accept(m) \/ Work(m)
             \/ Configure
             \/ \E v \in Versions : UpdateEmailTemplate(v) \/ UpdateEmailLayout(v) \/ SeedTexts(v)

EmailSpec == EmailInit /\ [][EmailNext]_emailVars

------------------------------------------------------------------------------
(* Properties                                                              *)

\* The types of the templates and of the mails.
EmailTypeOK ==
  /\ SettingsTypeOK
  /\ production \in BOOLEAN
  /\ template \in Versions \cup {Null} /\ layout \in Versions \cup {Null}
  /\ mail \in [Mails -> [pc : MailPcs, template : Versions \cup {Null}, layout : Versions \cup {Null},
                         via : {"none", "smtp", "resend"},
                         failure : {"none", "disabled", "misconfigured", "provider"},
                         tries : 0..Attempts, stalled : BOOLEAN, touched : BOOLEAN]]

\* What a request accepted, the worker can send: a mail fails for want of
\* configuration only when a setting was saved after its request first asked,
\* and left as they are the settings say by which provider it leaves.  Nothing
\* leaves through the mailbox of the developers in production, and every mail
\* in the queue was rendered.
AcceptedMailCanLeave ==
  \A m \in Mails : LET job == mail[m] IN
    /\ ~ job.touched =>
         /\ job.failure \in {"none", "provider"}
         /\ job.via # "none" => job.via = IF Value(Provider) = Mailpit THEN "smtp" ELSE "resend"
    /\ production => job.via # "smtp"
    /\ job.pc \in {"queued", "smtp", "settings", "resend", "accepted", "sent", "failed"} =>
         job.template # Null /\ job.layout # Null
=============================================================================
