SPECIFICATION FairSpec
CONSTANTS
  MaxGeneration = 3
  MaxRun = 2
  MaxRevision = 3
INVARIANTS
  TypeOK
  MailboxesSound
  EnabledViewSettles
  ReportsInOrder
PROPERTIES
  NoErrorAfterRestart
  ImplementsAnalyticsView
  DestructorReturns
