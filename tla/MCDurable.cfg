SPECIFICATION Spec
CONSTANTS
  Keys = {k1, k2}
  Passphrases = {"p", "q"}
  Modes <- AllModes
  Subject = k1
  Fixture = fixture
  Overwrite = FALSE
  Beside = FALSE
INVARIANTS
  DurableTypeOK
  NoFormerMembership
  BundleIdentityIntact
PROPERTIES
  IdentityKept
  RestoredNotRefused
