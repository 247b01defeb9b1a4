SPECIFICATION Spec
CONSTANTS
  Significand = 16
  ExponentFrom = 1000
  MaxInt = 1100
  MaxDigits = 17
  MinPoint <- MCMinPoint
  MaxPoint = 23
INVARIANTS AgreesWithEcmaScript
