\* Two editions of the headers: a build over the database of the other.
SPECIFICATION Spec
CONSTANTS
  Names <- MCNames
  Added <- MCAdded
  Hash <- MCHash
  Editions = 2
  None = None
  Lost = Lost
INVARIANT TypeOK
INVARIANT WritesWholeTable
INVARIANT TornDatabaseSticks
PROPERTY ImplementsBook
