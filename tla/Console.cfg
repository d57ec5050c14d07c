CONSTANTS
  c1 = c1  c2 = c2
  Consoles = {c1, c2}
  Lines <- AllLines
  Number <- Numbers
  Cuttable = {c1}
  MaxLines <- TwoAndOne
  Mortal = {c1}
  None = None
SPECIFICATION FairSpec
INVARIANTS
  TypeOK
  AnswersInStep
  AnswersTrue
  EntriesAsTyped
  SourcesApart
  ManagerSurvives
PROPERTY WaitEnds
