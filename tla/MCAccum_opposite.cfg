\* Additions that undo one another, so that the same total comes back.
SPECIFICATION Spec
CONSTANTS
  t1 = t1
  t2 = t2
  t3 = t3
  Thread <- MCThread
  Value <- OppositeValue
  Modulus = 8
  Calls = 2
PROPERTY
  IsAccumulator
