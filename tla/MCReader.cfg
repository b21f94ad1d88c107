SPECIFICATION Spec
CONSTANTS
  Files <- MCFiles
  Radix = 8
  Modulus = 100
INVARIANTS
  TypeOK
  Delivers
  StopsForAReason
PROPERTIES
  EndsOrSpins
