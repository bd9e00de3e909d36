SPECIFICATION CloneSpec
CONSTANTS
  Users = {"owner", "guest", "poor"}
  WalletsOf <- MCWalletsOf
  PublicKey <- MCPublicKey
  Stored <- MCStored
  Edits <- MCEdits
  MaxEdits = 2
INVARIANTS
  CloneIsFaithful
  CloneStandsAlone
PROPERTIES
  CloneEnds
CHECK_DEADLOCK FALSE
