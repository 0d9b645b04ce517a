SPECIFICATION QuerySpec
CONSTANTS
  None = None
  k1 = k1 s1 = s1 p1 = p1 p2 = p2 pBad = pBad
  Blank = ""
  Unencodable = {pBad}
  Events <- MCEvents
  Reserved = {"runtime"}
  Unprojectable <- MCUnprojectable
  MaxRows = 4
  PageSize = 1
INVARIANTS
  RetainedJournalVerifies
  DamageIsDetected
  ReadersSeeTheJournal
PROPERTIES
  ImplementsMemoryJournal
