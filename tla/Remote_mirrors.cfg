CONSTANTS
  Jobs = {j1, j2}
  NoJob = NoJob
  Sessions = {s1, s2}
  NoSession = NoSession
  Visits <- MCVisits
SPECIFICATION FairSpec
INVARIANTS EnsuredIsRoutable CreatedStaysListed MirrorsAreUnique
PROPERTIES PlaceholderIsResolved
CHECK_DEADLOCK FALSE
