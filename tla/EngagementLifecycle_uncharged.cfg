SPECIFICATION AllSpec
CONSTANTS
  Engagements = {e1, e2}
  Appointments = {1, 2}
  Requests = {r1, r2}
  Slots <- MCSlots
  MaxReports = 1
  Refs = {f1, f2}
  Documents = {1, 2, 3}
  Attachers = {r1, r2}
  Keys = {"image"}
  PdfKeys = {"pdf"}
  Uploads = {1, 2}
  Attempts = 3
  NoEngagement = NoEngagement
  Accounts = {a1, a2}
  Blank = Blank
  Tries = {1, 2}
  Callers = {r1, r2}
  MaxEdits = 2
SYMMETRY Symmetry
CHECK_DEADLOCK FALSE
CONSTRAINT OneRecord
PROPERTY InProgressCancellationIsSettled
