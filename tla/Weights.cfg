\* Floats of 14 bits, readings of 5 bits, a fiftieth of a kilogram for a gram,
\* weights of 15 bits,
\* fields of 11.
CONSTANTS
  Precision = 14
  MaxReading = 31
  Grams = 50
  Width = 15
  Field = 11
  Points = {0, 1, 2, 5, 9, 14, 15, 22, 30, 31}
  Tables <- AnyPoints
  Reports <- NearlyEven
  Undefined = {0}
SPECIFICATION Spec
INVARIANTS TypeOK Accurate Fits
PROPERTY Monotone
