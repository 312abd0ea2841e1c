# TLA+ models of the GoService backend

GoService is a marketplace for home services: customers publish service requests, professionals
quote and negotiate a price, one quote is accepted and becomes an Engagement, the work is done and
paid for by card, wallet or cash, and a platform commission is kept in a ledger. The backend is a
NestJS monolith over Postgres (Prisma, READ COMMITTED), with a queue for mail and images, a payment
provider and an identity provider outside, and an administration panel in the browser.

Nearly every handler has one shape: read rows, check them, open a transaction, change each row with
an update guarded by the status it expects, and roll back when the update touched no row. What can
go wrong lies between the reads and the updates, between two transactions, and between the database
and what is outside of it. The models keep exactly that: **a handler is a read step followed by one
step per write or transaction**, any other handler may run in between, and a crash may end it there.

## Components

| Component | State | Hard behaviour | What must be true | Modules |
|---|---|---|---|---|
| Payments of an Engagement (`payments`, `cash-payment`) | PaymentAttempt rows, payment method, the provider's records | unknown outcomes, late and repeated notifications, crashes, three methods at once | one payment per Engagement, recorded once; approved means paid; a decided charge is resolved (it is not always: see the findings) | `Payments`, `PaymentBook`, `PaymentNotices` |
| Payment provider adapter and webhook (`payments/adapters`, `payments/utils`) | calls in flight; the credentials of a country, read anew by each | timeouts, charges that arrive late, credentials replaced between two reads, orders and payments of another account | a certain answer stays true; a notice is not forgotten | `PaymentGateway` |
| Ledger, summaries and receipts (`ledger`) | append-only LedgerEntry rows | rounding, a balance of two statements, a capped list grouped into events | the books balance; a line is an event; a balance is one of whole events | `Ledger` |
| Service requests (`service-requests`) | ServiceRequest status, accepted quote, references | cancel against accept | a closed request takes no further deal | `Marketplace`, `UploadRefs`, `Catalog` |
| Quotes (`quotes`) | status and price | concurrent acceptances, siblings | one accepted quote and one Engagement per request | `Marketplace` |
| Negotiation (`quote-negotiation`) | messages, price proposals, negotiated price | supersession, acceptance of the quote in between | a negotiated price was agreed by both | `Marketplace` |
| Engagement lifecycle (`engagements`) | status and its timestamps, cancellation events | the stale status when charging a cancellation | one cancellation event of the right kind; the status only moves forward | `EngagementLifecycle` |
| Appointments (`appointments`) | proposals and confirmations | overlap exclusion; cancelled after it was counted | no two confirmed appointments of a professional overlap; started work had been scheduled | `EngagementLifecycle` |
| Engagement chat (`engagement-chat`) | conversation, messages | the conversation is created while the work moves on | it tells one story, in order | `EngagementChat` |
| Reviews (`reviews`) | one row per party | double blind, moderation | nobody writes his review knowing the other's (the listing keeps to it, the averages of the profiles do not) | `Reviews` |
| Accounts (`users`, `profiles`, `identity-verification`, `platform-admin/user-accounts`) | account status, codes, profiles, checks | unconditional writes, two statements without a transaction, webhooks | a status is earned; the first decision stands | `Accounts` |
| Sessions, password reset (`auth`, `password-reset`) | sessions, reset codes | four writes without a transaction, logins in between | nothing outlives a reset; what has ended stays so | `Sessions` |
| Administration: roles, users, invites (`platform-admin/admin-*`) | roles, administrators, invites, audit log | write skew in the lockout guard | somebody can always manage administrators; references resolve | `AdminAccess` |
| Administration: categories (`platform-admin/categories`) | tree of categories | two moves at once | the listing is a tree; only a race hides categories | `Catalog`, `AdministrationProofs` |
| Administration: settings and templates | settings, templates, layout | overtaken saves, keys that contain each other, pages loaded before a save | a credential is whole; clients read what is public; a page shows each setting once, as what it is | `PlatformSettings`, `SettingsPage`, `EmailDelivery` |
| Email (`email`) | queued mails | the same settings read at different times | what was accepted can leave | `EmailDelivery` |
| Media uploads and storage (`media-uploads`, `storage`) | references, staged and public files, jobs | references looked at outside of transactions; workers that die | a reference is spent for what shows it; an image is served or failed | `UploadRefs`, `ImageFiles` |
| Administration panel (`admin-panel/js`) | what a page shows, dialogs, the stored token | late answers, fields remembered from an earlier load | no error means current; only the edited changes; what was chosen is sent | `PanelSections`, `PanelDialogs`; its settings in `SettingsPage` |
| Scripts (`prisma/seed.ts`, `scripts/seed-*`) | demo data | a script that died is repeated | the deals they write follow the rules of the services | `DemoData`; the bootstrap of the first administrator is in `AdminAccess` |
| Tests; plumbing (configuration, error mapping, database client, health) | - | - | - | not modelled: no protocol of their own |

Interaction: the acceptance of a Quote creates the Engagement in the transaction that closes the
request; payment handlers read the Engagement and the Quote's price and write the ledger in their
own transaction; lifecycle handlers write the ledger (cancellations) and the chat in theirs; the
providers call back through webhooks, and `myEngagementPaymentAttempt` re-reads the provider;
publishing, quoting, posting and profiles spend upload references; registration, invites and resets
send mail, which reads the settings when it is accepted and again when it leaves.

## How the modules are put together

A component is one module; what composes components extends them: `EngagementChat` adds the system
messages to the transitions of `EngagementLifecycle`, `Reviews` the reviews of its completed work,
`Sessions` the logins of the users of `Accounts`, `EmailDelivery` the mail that reads the rows of
`PlatformSettings`, `SettingsPage` the pages that show and save them, `PaymentNotices` the deliveries of the
provider to the handlers of `Payments`. `Payments` implements `PaymentBook` under a refinement mapping.

`MC_*` modules are instances for TLC. Components without common state share an instance: a variable
`part`, chosen in the initial state, says of which one a behaviour is, and the others stand still. A
property of a component is then checked in its own behaviours and is trivially true in the others.

| Run | Instance | Question | Bounds |
|---|---|---|---|
| `payments_races` | `MC_PaymentRaces` | Do two concurrent requests of any kinds keep the books right (`PaymentRecordedOnce`, `ApprovedIsBacked`) and implement the contract (`ImplementsPaymentBook`)? | 2 requests, 2 attempts, 2 prices, 1 crash: the second attempt is the one that competes for the slot, two handlers are what a guarded update has to separate, two prices tell a frozen amount from the current one. `OneOfEither`: either the two requests race and each checkout is paid once, or requests come one at a time and a checkout can be paid twice |
| `payments_lost_notice` | `PaymentNotices` | Expected violation of `DecidedIsEventuallyResolved`, under `FairSpec` | 2 requests, 1 attempt, 1 price, 1 payment, no crash |
| `payments_checkout_retry` | `MC_Payments` | Expected violation of `PaidOnce` | 1 request, 2 attempts, 2 payments |
| `payments_cash_rejected` | `MC_Payments` | Expected violation of `CashNeverRejected` | 1 request, 2 attempts, 2 payments |
| `marketplace_deals` | `MC_Deals` | `OneDeal`, `PriceWasAgreed`, `DecisionsAreFinal` of a request; `DealsMirrorTheServices`, `OnlyTheInterruptedRepeat`, `PurelyAdditive` of the demo scripts; `NoErrorMeansCurrent`, `OnlyTheEditedChanges`, `ChosenIsSent` and the types of the panel | 2 handlers, 2 quotes, 2 proposals, 2 prices: a winner has a sibling and a proposal a rival. `OnePriceAsked`: both quotes ask the lower price, proposals either. Scripts: each started twice at most, 1 mishap (a death or an administrator's edit); `OneStory`: the catalog is seeded before the people, visits and messages are explored apart from payments and reviews, with which they share no row. Panel: 15 sections one at a time, 2 rows, 2 values; `FewHandlers`: two handlers at once in the four sections that together have every kind of handler, one in the others, and the requests of one are served before the other sends its own; 6 dialogs one at a time, 2 choices, 2 requests on their way |
| `marketplace_late_price` | `MC_Marketplace` | Expected violation of `PriceIsFixedAtAcceptance` | as above |
| `marketplace_two_pending` | `MC_Marketplace` | Expected violation of `OnePendingProposal` | as above |
| `lifecycle_work` | `MC_EngagementLifecycle` | `SettledOnce`, `StartedWorkWasScheduled`, `NoDoubleBooking`; `ConversationTellsTheStory`, `ListIsBlind`; `AnswersHold`, `NoticeIsNotLost` of the provider's calls; `RefsAreAccountedFor`; `EndedJobsServe`; the types | 2 Engagements, 2 appointments, 2 handlers, 3 slots of which two pairs overlap and one only touches; `OneRecord`: conversation and reviews of one Engagement with one appointment, and a review handler meets no handler of the work; `SummaryIsLast`: a rating summary, which no property of this run reads, ends its behaviour (what follows is of `lifecycle_rating_summary`). 2 references, 3 documents, 2 handlers. Provider: 2 accounts, 2 calls in flight (what one is told and the other still has to hear), 2 payments in a checkout (a declined one and its repetition), 2 edits (a rotation of token and secret is two); both accounts hold an older payment of the engagement. 1 image, 1 PDF, 2 uploads, 3 attempts as in the code |
| `lifecycle_uncharged` | `MC_EngagementLifecycle` | Expected violation of `InProgressCancellationIsSettled` | the same |
| `lifecycle_rating_summary` | `MC_EngagementLifecycle` | Expected violation of `WrittenBlind` | 1 Engagement, 1 appointment, 1 handler |
| `admin_work` | `MC_Administration` | `ManagersRemain`; `ListingIsATree`, `CompatibleIsTheSubtree`, `OnlyARaceHides`; `ConfigShowsWhatIsPublic`, `CredentialsAreWhole`; `AcceptedMailCanLeave`; `OneControlEach`; `ReferencesResolve` | 2 administrators, 2 roles of which one is seeded, 2 invites (the second is the resend), 2 handlers, one of them editing (`OneEditAtATime`). 3 categories and ranks, 1 request, 2 moves. 11 settings: 6 keys at, above or below each other's paths, one of the storage and four that mail reads; `FewSettings`: at most 3 public rows, races on the credential only. 1 mail, 2 attempts instead of 5. 2 pages (what one saves the other loads), 4 more keys: a provider's mode with a credential in each bucket, and a flag without a slot; pages save these 4, one save at a time, so that every row can be there or not when a page loads |
| `accounts_work` | `MC_Accounts` | `StatusIsEarned`, `FirstDecisionStands`; `NothingOutlivesAReset`; `BooksBalance`, `LinesAreEvents`, `BalanceIsOfWholeEvents`; the types | 1 user, 2 addresses, 2 kinds of profile, 1 code with 1 attempt, 2 checks, 2 handlers. 1 session, 2 reset codes, 2 password writes. Books: 2 Engagements of 1 professional that start at the lower price, prices 3 and 5, percentages 10 and -50 (both round, and a negative one is accepted), a cap of 4 rows instead of 500 (one event and a piece of the next), 2 instants, 2 changes of price or percentage, 1 handler. Balances: within one instant and with one percentage, 1 handler that books while another adds up |

Symmetry is used over handlers, and over users' addresses, quotes, Engagements or administrators
and the panel's handlers, where no definition tells them apart; never in the run of a liveness property. Deadlock is checked in the runs of
payments, where reads and notifications can always come again. The others say
`CHECK_DEADLOCK FALSE`: their ids are used up, Engagements end, scripts are not started for ever.

Two handlers are what a guarded update has to separate, and no property speaks of a third. What
the bounds leave open, the theorems close: every safety property of a passing run, but for the joint
type invariants of the instances, is also proved for all values of the constants.

## Payments, PaymentBook

One Engagement. State: `engStatus` and `paymentMethod`, `price` (the effective price of its Quote)
and `lateProposal` (a price proposal that may still be committed), `attempt` (the PaymentAttempt
rows, in the order of creation), `ledger` (the sequence of its payment events), `commissionSet`
(whether the commission percentage is configured), `provider` (what the payment provider knows of
each payment; several per attempt, because an open checkout outlives its attempt), `checkout`
(attempts whose checkout page is open), `req`, the requests in flight with what they have read, and
`crashes`, a counter for the bound. A request record carries `pc`, the attempt it works on and the
values it read; an action that ends a handler resets it.

| Handler | Actions |
|---|---|
| `payEngagementWithCard` | `ReadForDigitalPayment`, `CreatePending` or `CreatePendingConflict`, `ChargeCardAnswered`, `ChargeCardRefused`, `ChargeCardUnknown`, then `Apply...` |
| `startEngagementWalletPayment` | `ReadForDigitalPayment`, `CreatePending`, `CreatePreference`, `CreatePreferenceFailed` |
| `handleMercadoPagoNotification` | `ReadNotified`, `FindById`, `FindByRef`, `ApplyFound`, then `Apply...` |
| `getMyEngagementPaymentAttempt` | `ReadLatestAttempt`, `FetchAndReconcile`, then `Apply...` |
| `confirmCashPayment` | `ReadForCash`, then `ConfirmOneParty`, `ConfirmBothParties` or `ConfirmRolledBack` |
| `ApplyPaymentResultService.apply` | `ApplyApproved`, `ApplyRejected`, `ApplyPending`, `ApplyNothing` |
| environment | status moves of the lifecycle, `SetNegotiatedPrice`, `SetCommission`, `PayInCheckout`, `Settle`, `Crash` |

A notification may be delivered at any time, for any payment the provider knows, any number of
times: that is what duplicated, delayed and reordered webhooks are. `Crash` ends a request between
any two steps. `PaymentBook` is the contract: attempts of one Engagement open one at a time, each is
resolved once, and the one approval, its entry in the ledger and the payment method are written in
one step. `Payments` implements it by forgetting requests, providers, checkouts and confirmations.

`PaymentNotices` says when a notification is delivered. The provider owes a notice of each change of
a payment (`owed`) and repeats it until a delivery is answered with 200; the webhook answers so whenever
its handler returns, also when it found no attempt, and only an exception (`Throws`: the commission is
not configured) or the death of the process makes the notice come again. `answering` is the notice each
request was begun for. `Work` is any step of a request in `Payments`, and acknowledges with the last.

Fairness (`FairSpec`): the remaining steps of a handler that has begun are weakly fair, since the
runtime keeps running it, and the delivery of a notice that is *owed* is strongly fair, since the
provider repeats it until it is acknowledged and a delivery only has to wait while every modelled
handler is busy. An acknowledged notice is never sent again. Nothing is assumed of customers, of the
moment when the provider decides, or of administrators; the property itself assumes that the
commission stays configured from some moment on. No other module states fairness.

Under it a decided charge is *not* always resolved (`payments_lost_notice`): `findAttempt` asks for the
payment id and then, in a second statement, for a PENDING attempt without one. The handler of the first
notice (the payment is pending) writes the id in between, so the handler of the second one (it is approved)
finds nothing either way, answers 200, and the attempt stays PENDING until somebody reads
it (`myEngagementPaymentAttempt` finds it by its id, but nobody is bound to ask). With two attempts
there is another way: a pending notice of an old checkout gives its payment's id to the new attempt,
which a notice of the new payment then no longer matches. Since the claim fails, no run shows liveness.

Findings. Besides the lost notice: a wallet attempt can be replaced while its checkout is still open at
the provider, and both checkouts can be paid; the schema says an Engagement can never be paid twice.
The pending attempt without a provider id is looked up without its method, so a rejection of an earlier
digital payment can reject a cash attempt, which the schema says never happens.

## PaymentGateway

What `Payments` takes as the answer of the provider, from the side of `MercadoPagoPaymentAdapter`: one
attempt, paid by card or in the wallet (`means`). State: `credential` (access token and webhook
secret of the country, each by the account it belongs to) and `usable` (the environment and the URLs),
`calls` (the calls in flight: what they asked, with which token, what came back), `made` (the payments
each account of the provider knows), `late` (a charge request still on its way), `page` (the account
of the open checkout), `heard` (what the callers were told for certain), `mixed` and `dropped`.

| Method | Actions |
|---|---|
| `chargeCard`, `createWalletPreference` | `StartCreate` or `RefuseInstalments`; `ReadToken`, `ReadEnvironment`, `ReadUrls`; `ProcessCharge`, `OutliveCharge` or `ProcessPreference`; `AnswerCharge` or `AnswerPreference` |
| `getPayment`, `getPaymentByPaymentId` | `StartRead`, the settings, `ProcessRead`, `AnswerRead` |
| the webhook | `StartNotice`, `CheckSignature`, then as a read |
| `getTransactionDetails` | `StartDetails`, the settings, `ProcessDetails`, `AnswerDetails` |
| outside | `ProcessLateCharge`, `PayOnPage`, `MoveOn`, `SaveCredential`, `SaveOther`, `CallDies` |

An answer is certain when it is final: approved, rejected, or refused because the request created
nothing; everything else is pending or unknown and leaves the attempt open. `AnswersHold` says that a
certain answer never turns out wrong, `NoticeIsNotLost` that a notice is acknowledged without its
payment only if token and secret once belonged to two accounts. That case is real: an administrator
replaces the two rows one after the other, and a notice that is signed with the old secret and read
with the new token is a 404, which `HandleMercadoPagoNotificationService` takes for a payment that
is not ours. The attempt then stays PENDING until it is read again.

Taken from the adapter's comments about the provider, and not checkable here: answers other than 402,
408, 409, 429 and 5xx create no order, final words of an order or a payment are final (a payment
collected may be given back), an account knows its own payments only. Reduced: a key is the account it
belongs to, its hash is not modelled; an order is the last word of its status; the redirect URL is
one, although `mapPreferenceResponse` takes the one of the row `environment`, which nothing ties to
the token that was read before it.

## Marketplace

One ServiceRequest with its Quotes and the price proposals of their negotiations. State: `srStatus`
and `acceptedQuote` of the request, `quote` and `proposal` (the rows), `engagements` (the quotes
that have an Engagement) and `req`, the handlers in flight.

| Handler | Actions |
|---|---|
| `submitQuote` | `ReadForSubmit` (the request is OPEN), `SubmitQuote`, which does not look at it again |
| `withdrawQuote`, `rejectQuote`, `cancelServiceRequest` | `WithdrawQuote`, `RejectQuote`, `CancelServiceRequest`: everything they depend on is in the condition of their one guarded update |
| `acceptQuote` | `ReadForAccept` (request, quote, pending proposal), `AcceptQuote`: request, quote, siblings and Engagement in one transaction |
| `postQuoteNegotiationMessage` with a price | `ReadForProposal`, `SeePending` (the snapshot of the superseding statement), `CreatePriceProposal` |
| `acceptQuotePriceProposal`, `rejectQuotePriceProposal` | `ReadForResolve`, then `AcceptProposal` (which also writes the negotiated price) or `RejectProposal` |
| any of them | `GiveUp`: the guarded update touched no row, or the process died |

Posting takes three steps because the transaction is not serializable: under READ COMMITTED the
updating statement sees what was committed when it began, and no unique index covers PENDING rows.

Findings: a proposal accepted while the quote is accepted changes the price of a quote that already
has its Engagement (`marketplace_late_price`); two posts leave two PENDING proposals
(`marketplace_two_pending`). `Payments` takes the first one as given: `SetNegotiatedPrice` is the
late commit.

## EngagementLifecycle, EngagementChat, Reviews

Engagements of one professional with their Appointments. State: `status` and `stamped` (which of the
four timestamps are set) of each Engagement, `ledger` (its cancellation events), `appointment` (the
rows), `noShows` (the counters of the two parties' profiles) and `req`.

| Handler | Actions |
|---|---|
| `startEngagementWork` | `ReadForStart` (the confirmed appointment is counted), `StartWorkIfAccepted` |
| `cancelEngagementByCustomer` | `ReadForCancel` (the status that decides the charge), `CancelByCustomer` |
| `reportNoShow` | `ReadForNoShow`, `IncrementNoShow` |
| finish, confirm, cancel by the professional | `FinishWorkIfInProgress`, `CompleteIfPendingCustomerConfirmation`, `CancelByProfessional`: one guarded update each, with the refund event in its transaction |
| propose, accept, cancel an appointment | `ProposeAppointment`, `ConfirmIfPending`, `CancelAppointment`; the exclusion constraint refuses an acceptance that overlaps |
| system messages | `StartWork`, `FinishWork`, `ConfirmCompletion`, `CustomerCancels`, `ProfessionalCancels` of `EngagementChat`: the transition and `Emit` in one step; `SendMessage` creates the conversation |
| `submitEngagementReview`, `moderateEngagementReviewComment` | `ReadForSubmit`, `CreateReview`; `ReadForModerate`, `UpdateModeration` |
| `myReceivedReviews` | `ListReceived`, which remembers in `seen` who was shown what, and by which channel; `WindowElapses` |
| `averageRating`, `reviewCount` of a profile | `ReadRatingSummary`: from the insertion on, a party that looked before and looks again knows how it was rated |

A commission that is not configured makes the cancellation transaction fail as a whole: `GiveUp`.
`ConversationTellsTheStory`: the system messages are, from the first message of a party on, exactly
what the timestamps and the ledger say happened, in that order. `ListIsBlind`: a review is inserted
by a party that the listing never showed the other one, or after the window. `WrittenBlind` asks the same
of every channel, and fails.

Findings: the status that decides a charge is read before the transaction, and work starts in between
(`lifecycle_uncharged`). The average and the count of a profile take in a review at once, so a party can
learn the other's rating before it writes its own, where the listing means to show nothing at all
(`lifecycle_rating_summary`; the summary is of all Engagements, so it tells the rating to who looks before
and after).

## UploadRefs, ImageFiles

`UploadRefs`: the references of one user in the three tables that keep them (`ref`, `refExpired`),
what was written with them (`document`) and the handlers that attach (`attaching`): `CreateRef` and
`Expire`; `FindUsableRefs`, then `AttachMedia` (quotes and both kinds of messages, which roll back
unless every reference was still PENDING), `Publish` (a service request, which spends them without
that condition) or `UpsertPhoto`. `RefsAreAccountedFor` says what the missing condition costs and what
it does not: a reference of the shared table is spent by one document; elsewhere two documents can
show one file, but never one that was issued for another use or that is not marked as spent.

`ImageFiles`: the staged and the public file of each key and the job of each upload. `Park`, `Enqueue`
or `LoseUpload` (the process died in between), `ReadStaging`, `ProcessingFails`, `Promote`, `Unlink`,
`WorkerDies`; `StorePdf` for what is stored as it comes. Jobs of one key may run at once. A file is
the number of the upload it came from. The `Attempts` of the instance are those of the queue.

## Accounts, Sessions

`Accounts`: User rows with their profiles, verification codes, identity checks, and who was edited by
an administrator; `Sessions`: sessions, reset codes and, as a history, the epoch of the password whose
reset was completed last. All writes of a handler are separate steps, because no transaction spans
them in the code.

| Handler | Actions |
|---|---|
| register, social login of a new address | `ReadForRegister`, `CreatePasswordUser`, then the code; `ReadForSocial`, `CreateSocialUser` |
| verification code: issue, resend | `ReadForResend`, `InvalidateCode`, `CreateCode`, `SendCode` |
| `verifyEmailCode` | `ReadForVerify`, then `IncrementAttempts` or `ConsumeCode`, `MarkEmailVerified` |
| profiles | `ReadForProfile`, `UpsertProfile` (with the transition of the status in its transaction) |
| identity check | `ReadForCheck`, `CreateCheck`; `ReadWebhook`, `UpdateResultIfPending`, `TransitionFromPendingApproval` |
| `updateUserAccount`, `deleteUserAccount` | `ReadForEdit`, `UpdateForAdmin`; `DeleteUserAccount` |
| login | `ReadForLogin`, `CreateSession`; in `Accounts` only that somebody holds a session (`LogIn`) |
| use and logout | `ReadLateSession`, `MarkExpired`; `ReadForLogout`, `MarkRevoked` |
| request of a reset, forced reset | `ReadForIssue`, `InvalidateReset`, `CreateReset` |
| `resetPassword` | `ReadForReset`, then `IncrementResetAttempts` or `UpdatePasswordHash`, `ConsumeReset`, `InvalidateOtherActiveCodes`, `RevokeAllActiveForUser` |

A password is known by its epoch, how often it was written before. `NothingOutlivesAReset` compares
the epochs of sessions and codes with the last completed one: logins and requests of codes run
between the four writes. A duplicate second submission of one code and a webhook that was processed
up to its first statement are behaviours of the model; `StatusIsEarned` and `FirstDecisionStands`
hold in spite of them. An account that such a crash leaves pending is decided by an administrator.

## Ledger

The rows of the books with their amounts, for several Engagements: `RecordDigitalPayment`,
`RecordCommissionDebt`, `CancelByCustomer` and `CancelByProfessional` with their reads (`ReadBilling`),
`SetCommission` and `Renegotiate` in between, `ReadFirstSum` and `ReadOtherSum` (a balance is two
statements that run at once, and either can read first), and the views: `CustomerView` and `ProfessionalView` of the last event of an
Engagement, and the capped list (`Fetches`, `Group`). Rows of a transaction have one stamp, which may
lie behind the clock by one instant (the transaction began before it commits). `Percent` rounds half
up to whole units, `Math.round` of the code in the smallest unit. The percentage is any integer, as the
setting accepts any finite number; a fraction is no better than none, since the rows keep it as an
`Int` (`commissionPercentApplied`) and the transaction is refused.

`BooksBalance`: what customers paid by card and in fees is what the platform and the professionals
have. `LinesAreEvents` names the two cases in which a line of a summary is not one whole event: two
events of an Engagement with one stamp, and the cut of the cap. Its figures add up, with one
exception: the fee of a cancellation under a negative percentage is a credit, which `Math.abs`
(`classify-engagement-payment-event.util.ts:95`) shows as paid while the parts beside it are negative.
A summary is of the last event only. The comment of `selectMostRecentLedgerEventRows` takes it that an
Engagement has one terminal event; it can have two, a payment in cash and then a cancellation, or a
cancellation and a charge approved late, and the summary then says nothing of the first.

`BalanceIsOfWholeEvents`: what is booked between the two sums of a balance is in one and not in the
other, and the answer need not be a balance the professional ever had (he was credited and charged in
between, and only one of them counts). It is always the balance of a set of whole events: all there
were at the first sum, some of those booked until the other.

## AdminAccess

AdminUser, AdminRole and AdminInvite rows, the actors of the audit log, and handlers in flight. Of
the permissions only `ADMIN_USERS_MANAGE` is kept: a role grants it or not. Time is left out: an
invite that is open may be in time, a cooldown over or not.

| Handler | Actions |
|---|---|
| `updateAdminUser` | `ReadForUpdate` (row, role, lockout guard), `UpdateForAdmin` |
| `deleteAdminUser` | `ReadForDelete`, `DeleteAdminUser` (the invites go with the row, an audit row keeps it) |
| `updateAdminRolePermissions` | `ReadForPermissions`, `UpdatePermissions` |
| `createAdminRole`, `deleteAdminRole` | `ReadForCreateRole`, `CreateRole`; `ReadForDeleteRole`, `DeleteRole` |
| `inviteAdminUser`, `resendAdminInvite` | `ReadForInvite`, `CreateInvited`; `ReadForResend`; then the invite |
| `issueForAdminUser` (the invite) | `FindNoneActive`, `FindActive` or `WithinCooldown`; `Invalidate`; `CreateInvite`; `AuditInvite` |
| `acceptAdminInvite` | `ReadForAccept`, `AcceptInvite`, with the password hash in between |

The permission check of a request and its reads are one step. Foreign keys are guards of the writes
they can refuse; a refused transaction is `GiveUp`. The comment of the lockout guard accepts that two
edits at once can each see the other's administrator and both pass, so `ManagersRemain` is stated for
edits made one at a time (`OneEditAtATime`: at most one handler between the check and the write of an
update, a deletion or a change of permissions). Invites, acceptances and creations and deletions of
roles may run at any moment of that edit. `updateAdminUser` can make an INVITED administrator ACTIVE
without a password, and the guard then counts one who cannot log in; two acceptances of one invite
can both succeed. Both behaviours are in the model, and no property forbids them.

## Catalog

Category rows, the specializations of a professional, the category of each request, and moves in
flight. `ReadForMove` checks that the new parent is not below the category, `Move` writes it and looks
at nothing again but what the schema enforces; `CreateCategory`, `UpdateInPlace`, `DeleteCategory`,
`ReplaceSpecializations` and `Publish` are one step each, since the schema repeats their checks.
`Visit` is the depth-first listing that all flat consumers share, to a depth that no path exceeds;
`Descendants` is the breadth-first search of what a professional serves, level by level, with a level
for each category there is. Two moves at once can close a cycle, whose categories no
listing shows: the comment of the code does not rule it out, and `OnlyARaceHides` says that nothing
else can do it. `moving[r].overtaken` is a history variable: another move was written after this one's
reads. `ListingIsATree` and `CompatibleIsTheSubtree` hold while there is a cycle as well.

## PlatformSettings, EmailDelivery

The PlatformSetting rows and the saves in flight: `BeginSave` reads the row (an empty credential keeps
the stored one), `CommitSave` writes whatever the row has become; `UpdateStorageSettings` writes a
group in one transaction, `SeedSetting` a missing row. `entered` and `reverted` are histories: what was
typed in last, and which key got an older credential from an overtaken save. `ListPlatformConfig` is
the tree clients read: a fold of the public rows, in the order of their keys, then of the defaults,
which fill in what no row says. Their paths are not empty (`DefaultsAssumption`).

A mail: `ReadProvider`, `ReadEnabled`, `ReadCredentials`, `ReadTemplate`, `ReadLayout` and `Enqueue` in
the request, each a query of its own; `Route`, `ReadResendSettings`, `Deliver`, `Complete`,
`AttemptFails` and `MailWorkerDies` in the worker. `touched` is a history: a setting was saved since
the request asked. `AcceptedMailCanLeave` says that a mail fails for want of configuration only then.

## SettingsPage

The settings in the panel (`admin-panel/js/settings.js`), on top of the rows of `PlatformSettings`. A page
holds the tree it built when it loaded, and the controls it shows. A key is a sequence of segments;
a node of the tree is the sequence that leads to it.

| Code | Definition |
|---|---|
| `KNOWN_SETTING_SLOTS`, `SELECT_FIELD_OPTIONS` | the constants `Slots`, `Credentials`, `Selects`: every slot has its own `isEncrypted` |
| `buildSettingsTree` | `Fields` (a row, or else its slot), `BuildSettingsTree` |
| `mergeActiveModeCredentials` | `Split`, `Active`, `FieldsOf`, `ChildrenOf`: beside a mode, the active bucket becomes fields of its parent |
| `renderRootTabs`, `renderGroupNode`, `renderGroupChildren`, `renderLeafBlock` | `RendersChildren`, `Reached`, `LeafBlocks`, `Render` |
| `renderSettingField` | `Kind` |
| `handleToggle`, `handleSaveSetting`, `handleSaveCredential`, the form of the storage | actions of those names, `SaveStorage`: `BeginSave` or `UpdateStorageSettings` with what was entered |
| `loadSettings` | `LoadSettings` with either query refused, `LoadSettingsFails` |

`OneControlEach` relates a page to rows that others write after it loaded: each setting it shows has one
control, in one block that can be reached, and the control is the one for credentials exactly where the
row (now) and the slot are encrypted. Keys of one segment have no tab and so no control; the bucket
that is not active rests. `PageAssumption` says of the keys what the slots and the seed have: no key
twice, slots outside the storage, no seed of a credential, and beside a mode buckets that hold only
fields, none of which is also a field of the provider (`Object.assign` would replace it). The rows are
saved by pages and seeds only; the API takes any form from other clients, and `PlatformSettings` has
those.

The description of the block of Didit (`admin-panel/js/settings.js:438`) says that its credentials "always
match whichever Mode is currently selected". They match the mode that was stored when the page loaded: saving
the mode does not load the page again. In the model a page keeps its tree, and `OneControlEach` is
stated of the mode the page loaded.

## PanelSections, PanelDialogs

`PanelSections` has the handlers of the 15 sections (and tabs of the dialog of a quote) that load and
change data: what they send (`Send`), what the server does with it, in any order and as far as it gets
(`Serve`, `ServeLoad`), and what they do with the answer (`Saved`, `Refused`, `SignedOut`, `Lost`,
`Loaded`, `LoadFails`). Sections share nothing but the stored token, so a behaviour follows one.
`suspect` is a history: the data may have changed behind the panel, requests crossed, or an answer
was lost. Another tab, another administrator and a request given up are `OthersChange`.
`PanelDialogs` has the dialogs that requests fill: roles of an administrator, customers of a new
request, the grid and confirmation of a deletion, and the details of a row. Answers of an earlier
opening land in the dialog that is open now; `crossed` and `sent.late` remember it.

Abstractions: answers of one `Promise.all` arrive together; a token is accepted, rejected or absent;
a reload of the page and a session shared by tabs are left out; the controls of the settings and
the tab of the storage are in `SettingsPage`. A modal dialog (`showModal`) hides everything behind it.

## DemoData

The seed of the catalog and the six scripts of demo data as lists of statements, run by hand one at a
time; each may die or be refused between two statements and be started again, and an administrator
may edit what it seeds. `DealsMirrorTheServices` states the rules the services enforce, which the
scripts promise to keep although they write the tables themselves. Two exceptions are part of the
properties. The marker by which a script sees that it already ran is a late row in two scripts, which
write twice after a death before it (`OnlyTheInterruptedRepeat`). And if the first script died between the
acceptances of its third and its fourth request (or a category it looks for was renamed), and the
scripts of the negotiations and the payments ran, the script of the reviews takes a deal of the
payments script for the one it looks for by its description, and completes an Engagement that is
CANCELLED and has its fee (`scripts/seed-review-scenarios.ts:118`); the clause
`"demo" \notin cut` names that case, and without it the run fails.

## What is proved

Eight modules hold theorems: `PaymentsProofs` (and `PaymentBook`), `MarketplaceProofs`,
`EngagementLifecycleProofs` (with the chat, the reviews and the uploads), `AccountsProofs` (with the
sessions), `LedgerProofs`, `AdministrationProofs` (administrators, settings, their pages, mail, categories),
`PanelProofs` and `DemoDataProofs`.
They assume what the modules assume of their constants and nothing else; the sets of users, handlers,
rows, quotes, keys and so on are arbitrary, infinite where no assumption says they are finite.

Every theorem has one shape. The property is not inductive as it stands, so a stronger invariant is
proved to hold initially and to be kept by each action, and PTL closes the argument. What the
strengthening adds is nearly always what a handler *remembers*: facts about rows it read one step ago
and that must still mean something when it writes.

- **Payments.** `Typing` adds that a request at work on an attempt has one (`RequestOK`) and that
  payment ids on rows and in requests are known to the provider (`IdsKnown`): a request writes, in a
  later step, what it carries. `PaymentsImplementsBook` shows action by action that a step of
  `Payments` is a step of `PaymentBook` or leaves the book unchanged; `PaymentRecordedOnceHolds`,
  `MethodFollowsAttemptsHolds` and `HistoryIsFinalHolds` come from the invariant of the book
  (`BooksAreRight`) through the refinement. `ApprovedIsBackedHolds` needs `Backing` besides: a request
  that is asking the provider owns its row, which nobody else has touched; a result in hand is one
  the provider gave, for the amount of the row; rows keep their amount and their method (`RowKept`).
- **The provider's calls.** `AnswersInv` says what each call in flight may still report (`CallAgrees`):
  a call that is about to answer carries a word that its account's payment has or had, a charge is
  asked for once (`AskedOnce`), by one account (`OneAccount`), and while it is unanswered nothing was
  created, or what was created is on its way. `NoticesInv` adds the account a notice came from, which
  differs from the token it reads only if the rows were mixed (`NoticeAgrees`).
- **Marketplace.** `CarriedOK`: a handler holds ids of existing rows and never resolves its own
  proposal. `PriceWasAgreedHolds` also needs that only a quote that was sent can have been negotiated
  and that proposals keep their author, quote and price (`ProposalsKept`).
- **Lifecycle.** The typing invariant includes `StampsTellTheStory`, because a cancellation in flight
  remembers an IN_PROGRESS it may only have read after `startedAt` was set, and the proofs use that no
  step takes a stamp or a confirmation back (`NothingForgotten`). For `ConversationTellsTheStory` each
  step is shown to append to the story what it appends to the conversation, or nothing (`Happens`,
  `Quiet`); lemmas about sequences carry the suffix along. `ListIsBlindHolds` needs `SeenOK`: whom
  the listing showed a review had written his own or saw the window end.
- **Media.** `FilesInv` says, for each phase of a job, what is in staging and under the public key
  while other jobs of the key may remove both; `RefsInv` that what a handler is going to attach was
  issued for its use, and that a handler of the shared table sees a spent reference.
- **Accounts, Sessions.** `IInv` adds `EarnedBy` for rows and handlers in flight: whoever is about to
  write a status has the row that justifies it; `RowsKept` lists what no step undoes. `SInv` adds that
  a handler of a reset has done, for sessions and codes from before its epoch, the writes it has left
  behind (`Behind`), with `RowsMove` for what the other steps may do meanwhile.
- **Ledger.** `LedgerInv`: an event of an Engagement is in the books whole or not at all, and not
  before the payment or cancellation that writes it; the books balance; a balance that is being added
  up has seen whole events, of which no row is missing later (`Follows`), so that leaving out those of
  the sum that was read first leaves out events and not parts of them. The amounts of a transaction add up for every price and
  percentage (`Split`, rounding included), and a transaction changes each sum by its amounts. The
  sums range over finite sets of rows and of professionals: the fold of the community modules is a
  recursive function over subsets, whose existence, and every fact about it, is proved of a *smallest
  counterexample* (`SmallestSet`, `SmallestNumber`: the library's theorem that a well-founded relation
  has minimal elements, which takes no operator parameter). `LinesAreEventsHolds` then holds for every
  cap and every integer percentage.
- **Administrators.** `EditKeepsHolders` says that the edit a handler is about to make leaves a holder,
  unless the role it assigns is deleted first and the edit fails; `GuardIsEnough` shows that the
  handlers ask the guard whenever an edit could take the last holder away, `OtherStepsTakeNothing`
  that no other step breaks the promise of an edit in flight. The theorem is
  `Spec /\ []OneEditAtATime => []ManagersRemain`. `ReferencesResolveHolds` (the roles of administrators
  and the authors of audit rows exist) needs no such restriction.
- **Settings, mail.** `SettingsInv`: what a save keeps is the credential typed in last, unless it was
  overtaken (`SaveOK`). `EmailInv`: a job remembers what its request has read, and as long as nothing
  was saved the rows still say so (`JobOK`, `Remembers`). Every step of the mail is a step of the
  settings or leaves them alone (`MailReadsTheSettings`), so `SettingsInv` holds while mail is sent. For
  `ConfigShowsWhatIsPublicHolds` the finitely many public rows are put in the order of their keys
  (smallest counterexamples again), and the two folds are followed entry by entry: after each, no leaf of
  the tree is above another, each is one of the settings so far, and one that is missing is hidden by
  another above or below it (`Shows`); the defaults only add leaves where nothing was said (`Fills`).
- **The settings in the panel.** `PagesAreAdministrators`: every step of a page or a seed is a step of
  `PlatformSettings` (a save, a group of values, a seed) or leaves the settings alone, so that
  `SettingsInv` holds under the panel. For `OneControlEachHolds`, `KindsInv` follows the kind of a setting
  around: pages show it (`PageOK`), so saves carry it (`SubmitsItsKind`), so rows keep it, so the next
  page that loads shows it (`LoadedPageOK`). That a tree shows a field once is proved of every set of
  keys, of any depth (`OneBlockEach`): the way down to a block is rendered, unless a node on it was merged away
  (`WayDown`); a node that splits is the block of its mode (`ModeOf`), and no block lies below a
  bucket (`NoBucketAbove`).
- **Categories.** `CatalogInv`: parents, ranks and references, and of a move that no other overtook
  that a set closed under children still holds the category and not its new parent
  (`MoveStillSafe`). The listing and the search are recursive functions, so first their existence is
  proved (`Recursion`: a description that is local with respect to a measure has a function that
  satisfies it, by smallest counterexamples), then that they are what their definitions say
  (`VisitWalks`, `SearchLevels`). The search grows until it is closed, for which there are levels
  enough (`SearchFindsTheClosure`). A visit lists whole trees in order and nothing above it, by the
  size of what is left to visit (`VisitListsTrees`). The listing lacks nothing exactly if every set of
  categories has one whose parent is not in it (`Grounded`), and that is what only an overtaken move
  can take away (`StaysGrounded`).
- **Panel.** `SectionsInv` says of every handler that waits what its writes and its load will bring
  (`Pending`, `Brings`), and which loads are excused from clearing an error (`Excused`); `DialogsInv`
  that the select, the grid and the details belong to the row a dialog was opened for, unless an
  answer of an earlier opening is on its way.
- **Scripts.** `DemoInv` says what holds before step `p` of script `s` (`Before`): each deal follows its
  rules and is as far as the statements behind it have brought it (`JobOK`, `Progress`, `Followed`), the
  deals are different and made in the order the lookups rely on (`Together`), no script left half a
  conversation or visit unless it was cut (`Left`), and what the next statements read was made (`Made`,
  `Reviewed`). Of the lists of statements the proof uses only their order, spelled out for each statement
  in `Fits` (a price comes before the decision, a confirmation in cash after its method, a review after
  the work). A statement writes one deal, and `RightStep` says what it has to do to it; `Written` shows once that
  such a step keeps what holds of all the others. Where a script ends (`ComesToItsEnd`), is cut
  (`EndsEarly`) or begins (`Begins`), what is behind it becomes what any script finds. The theorems hold
  for any number of starts, deaths and edits, where the run starts each script twice and
  has one death or edit.

Proved and no longer checked by a run of its own, because the theorem says more than the instance:
`MethodFollowsAttempts`, `HistoryIsFinal`, `ChargedOnlyIfStarted`, `StampsTellTheStory`,
`StatusMovesForward`, `EndedStaysEnded`, and the type invariants of Payments, of Marketplace, of the
administrators, the categories and the mail.

## What is only model-checked

- The expected violations are counterexamples of TLC, one of them of a liveness property under fairness;
  liveness, and with it `ENABLED`, is out of the prover's reach.
- The joint type invariants of the instances (`PartsTypeOK`, `TypesOK`, `PanelTypeOK`): their parts are
  theorems.

## Not modelled

Access checks that only refuse a request, the fields of a request to a provider and of its records, the hash of a
signature, logging, pagination, the text of messages, names and e-mail of administrators (and whether
two names differ only in case), the values of ratings, which party proposed an appointment, the
cipher of credentials, rendering of mails, the arguments of `create-admin-user`, and what a page of
the panel only shows (of the settings: labels, order, headings, values and hints). Of the storage: a PDF that is read while it is written, the write that replaces
a rename that fails, photos uploaded by administrators. A crash of the database itself is not
modelled: a transaction happens completely or not at all. Rows that a transaction locks in different
orders are not modelled as locks: the database aborts one of the two, which is the crash of a handler.
An approval that arrives after a cancellation is in `Ledger` (both events stand side by side) and no
property forbids it.
