SPECIFICATION Spec
CONSTANTS
  W = 3
  SALT <- SaltBits
  Lengths = {0, 1, 4, 5, 9}
  Words <- SomeWords
  Magics <- SomeMagics
INVARIANTS TypeOK RoundTrip WrongMagicScrambles
CHECK_DEADLOCK FALSE
