SPECIFICATION AllSpec
CONSTANTS
  Engagements = {e1}
  Appointments = {1}
  Requests = {r1}
  Slots <- MCSlots
  MaxReports = 1
  Refs = {f1}
  Documents = {1}
  Attachers = {r1}
  Keys = {"image"}
  PdfKeys = {"pdf"}
  Uploads = {1}
  Attempts = 1
  NoEngagement = NoEngagement
  Accounts = {a1}
  Blank = Blank
  Tries = {1}
  Callers = {r1}
  MaxEdits = 1
SYMMETRY Symmetry
CHECK_DEADLOCK FALSE
CONSTRAINT OneRecord
PROPERTY WrittenBlind
