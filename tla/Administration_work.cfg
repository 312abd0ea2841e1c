SPECIFICATION AllSpec
CONSTANTS
  Admins = {root, a}
  Root = root
  Roles = {super, custom}
  SuperAdmin = super
  Seeded = {super}
  Invites = {1, 2}
  Requests = {r1, r2}
  Categories = {1, 2, 3}
  Ranks = {1, 2, 3}
  Jobs = {j}
  Keep = Keep
  Nothing = Nothing
  Movers = {r1, r2}
  Saves = {r1, r2}
  Keys <- MCKeys
  Path <- MCPath
  StorageKeys = {7}
  Defaults <- MCDefaults
  Values = {"true", "false", "MAILPIT", "RESEND", "SANDBOX", "PRODUCTION"}
  Secrets = {"s1", "s2"}
  Off = "false"
  Blank = ""
  Null = Null
  Input <- MCInput
  Words <- MCWords
  Segments <- MCSegments
  Slots = {2, 8, 9, 10, 11, 12, 13, 14}
  Credentials = {10, 13, 14}
  Flags = {2, 9, 15}
  Selects = {8, 12}
  Seeds = {2, 7, 8, 9, 12, 15}
  Production = "PRODUCTION"
  Pages = {p, q}
  Provider = 8
  Enabled = 9
  ApiKey = 10
  From = 11
  Mailpit = "MAILPIT"
  Yes = "true"
  Versions = {1}
  Mails = {m}
  Attempts = 2
  None = None
SYMMETRY Symmetry
CHECK_DEADLOCK FALSE
CONSTRAINT OneEditAtATime
CONSTRAINT FewSettings
INVARIANT ManagersRemain
INVARIANT ReferencesResolve
INVARIANT ListingIsATree
INVARIANT CompatibleIsTheSubtree
PROPERTY OnlyARaceHides
INVARIANT ConfigShowsWhatIsPublic
INVARIANT CredentialsAreWhole
INVARIANT AcceptedMailCanLeave
INVARIANT OneControlEach
