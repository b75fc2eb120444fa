CONSTANTS
  file = file
  scaffold = scaffold
  resize = resize
  note = note
  Files = {file}
  Sample = file
  Scaffold = scaffold
  Ops = {resize, note}
  Financial = {resize}
  Finding <- MCFinding
  None = None
  HistoryLimit = 1
  MaxEdits = 2
  MaxSaved = 2
  FileReceipts <- MCFileReceipts
  NoReceipt = NoReceipt
SPECIFICATION Spec
INVARIANTS CleanMeansSaved SettledVerdictIsCurrent 
PROPERTIES VerdictSettles
CHECK_DEADLOCK FALSE
