SPECIFICATION Spec
CONSTANTS
  None = None
  system = system
  other = other
  openssl = openssl
  ownKey = ownKey
  Profiles = {system}
  MaxVersion = 2
  Release <- SomeRelease
  Packages <- SomePackages
  Caches <- SomeCaches
  LocalCaches <- SomeLocalCaches
  PublicKeys <- SomeKeys
  LocalKeys = {}
  Foreign <- SomeForeign
  MaxKeys = 3
INVARIANTS SpinnerJustified MeasuredAsShown SaidSinceDeploy ChecksSayTrue
CHECK_DEADLOCK FALSE
