\* The file under crashes, failures and restarts.
CONSTANTS
  None = None
  Record = {r, s}
  FsyncPolicy = {"always", "everysec", "no"}
  MaxLog = 4
SPECIFICATION FileFairSpec
INVARIANTS FileTypeOK NeverDamaged
PROPERTIES SyncedStays CommittedEventually
