CONSTANTS
  None = None
  Names <- MCNames
  Contents <- MCContents
  Entries <- MCEntries
  Jars <- MCJars
  Credentials <- MCCredentials
  Boundary <- MCBoundary
SPECIFICATION ContentSpec
INVARIANTS ParsedIsSubmitted ShownSinceCleared  OwnerAdmitted
CHECK_DEADLOCK FALSE
