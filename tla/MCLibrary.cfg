CONSTANTS
  HEX = 4
  BITS = 2
  LONG = 2
  LONGEST = 4
  INTMAX = 7
SPECIFICATION Spec
INVARIANTS
  TextsAgree
  ConversionsAgree
  NumbersAgree
  ParseAgrees
  ArithmeticAgrees
  DatesAgree
