SPECIFICATION Spec
CONSTANTS
  Keys = {k1}
  Passphrases = {"p"}
  Modes <- Alone
  Subject = k1
  Fixture = fixture
  Overwrite = TRUE
  Beside = TRUE
PROPERTIES
  RejoinsAfterReset
