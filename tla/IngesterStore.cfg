SPECIFICATION FairSpec
CONSTANTS
  Ingesters = {"ns/i1", "ns/i2"}
  Specs <- MCSpecs
  Absent = Absent
  Observations = "observations"
  MaxEdits = 2
  MaxBreaks = 1
INVARIANTS
  StoreFollows
  DestinationValid
PROPERTIES
  Settles
