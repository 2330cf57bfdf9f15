--------------------------------- MODULE Weights -------------------------------
(***************************************************************************)
(* What a calibrated BalanceBoard makes of a weight report                 *)
(* (src/lib/wiipp/src/wiipp.cpp, interpolate and the case of onData that   *)
(* calls it).  Each of the four sensors has its readings at 0, 17 and      *)
(* 34 kg in calibration: at the sensor's number, 4 and 8 places after it.  *)
(* A reading is weighed along the two lines through these points, in       *)
(* single precision, and cut to whole grams.  The application gets of that *)
(* what a field of BalanceBoardData holds, 65535 g at most: a heavier load *)
(* starts again at 0.                                                      *)
(*                                                                         *)
(* A float is a pair <<n, d>>, the number n/d with a power of two for d.   *)
(* Its precision, the largest reading, the number of grams in a kilogram,  *)
(* the width of the integers that weights are cut to and that of a field   *)
(* are constants: 24 bits, 65535, 1000, 31 bits with a sign and 16 bits in *)
(* the code.                                                               *)
(***************************************************************************)
EXTENDS Integers

CONSTANTS Precision,   \* bits of a float's significand
          MaxReading,  \* largest reading
          Grams,       \* units in a kilogram
          Width,       \* bits of int32_t without its sign
          Field,       \* bits of a field of BalanceBoardData
          Tables,      \* what calibration may hold
          Reports,     \* the readings that a report may have
          Undefined    \* what the conversion of an infinity or NaN may give

Sensor == 0 .. 3
Reading == 0 .. MaxReading

\* 17 times a reading is a float, and so are the grams of the calibrated loads;
\* the largest weight there is, that of the largest reading when the entries of
\* calibration for it differ by one, is not above the largest float that fits
\* int32_t; a field has room for the calibrated loads.  All of these hold in
\* the code.
ASSUME WeightsAssumption ==
  /\ {Precision, Grams, Width, Field} \subseteq Nat \ {0} /\ MaxReading \in Nat
  /\ 17 * (MaxReading + 1) < 2 ^ Precision
  /\ 34 * Grams < 2 ^ Precision
  /\ 34 * Grams < 2 ^ Field
  /\ Precision < Width
  /\ 17 * (MaxReading + 1) * Grams <= 2 ^ Width - 2 ^ (Width - Precision)
  /\ Tables \subseteq [0 .. 11 -> Reading]
  /\ Reports \subseteq [Sensor -> Reading]
  /\ Undefined \subseteq Int

VARIABLES
  calibration,  \* BalanceBoard::calibration
  values,       \* the readings of the last report
  weights,      \* what interpolate returned for them
  out           \* what the application got of it

vars == <<calibration, values, weights, out>>
--------------------------------------------------------------------------------
(* Floats.                                                                 *)

\* The integer nearest to n/d, the even one of two.
RoundEven(n, d) ==
  LET m == n \div d
      r == n % d
  IN  IF 2 * r > d \/ (2 * r = d /\ m % 2 = 1) THEN m + 1 ELSE m

\* n/d has as many bits before the point as a significand.
Significant(n, d) == d * 2 ^ (Precision - 1) <= n /\ n < d * 2 ^ Precision

\* The float nearest to n/d for positive n and d.
Nearest(n, d) ==
  IF n < d * 2 ^ Precision
  THEN LET e == CHOOSE k \in 0 .. 2 * Precision : Significant(n * 2 ^ k, d)
       IN  <<RoundEven(n * 2 ^ e, d), 2 ^ e>>
  ELSE LET e == CHOOSE k \in 0 .. Precision : Significant(n, d * 2 ^ k)
       IN  <<RoundEven(n, d * 2 ^ e) * 2 ^ e, 1>>

Float(n, d) ==
  IF n = 0 THEN <<0, 1>>
  ELSE IF n > 0 THEN Nearest(n, d)
  ELSE <<-Nearest(-n, d)[1], Nearest(-n, d)[2]>>

PlusNothing(k, f) == f   \* deviation (see below)
Plus(k, f)  == Float(k * f[2] + f[1], f[2])
Times(k, f) == Float(k * f[1], f[2])
Integral(f) == IF f[1] >= 0 THEN f[1] \div f[2] ELSE -((-f[1]) \div f[2])

SlopeDoubled(a, b) == IF b > 0 THEN Float(34 * a, b) ELSE Float(-34 * a, -b) \* deviation
\* 17 * (float)a / (float)b, for b other than 0; the product is exact.
Slope(a, b) == IF b > 0 THEN Float(17 * a, b) ELSE Float(-17 * a, -b)
--------------------------------------------------------------------------------
\* A definition marked "deviation" is a wrong version of the one it precedes,
\* used only to check that properties fail with it.
MidNeighbour(cal, pos) == cal[((pos + 1) % 4) + 4]    \* deviation
HighNeighbour(cal, pos) == cal[((pos + 1) % 4) + 8]   \* deviation

Zero(cal, pos) == cal[pos]
Mid(cal, pos)  == cal[pos + 4]
High(cal, pos) == cal[pos + 8]

\* The weight at reading v of a sensor, undefined if the code divides by zero.
Interpolate(cal, pos, v, undefined) ==
  LET zero == Zero(cal, pos)
      mid  == Mid(cal, pos)
      high == High(cal, pos)
  IN  IF v < zero THEN 0
      ELSE IF v < mid THEN Integral(Times(Grams, Slope(v - zero, mid - zero)))
      ELSE IF high = mid THEN undefined
      ELSE Integral(Times(Grams, Plus(17, Slope(v - mid, high - mid))))

Widen(n) == n   \* deviation
\* The conversion of an int32_t to a field, which is unsigned.
Narrow(n) == n % 2 ^ Field

\* onData on a weight report, once the object is calibrated.
Weigh(report) ==
  /\ values' = report
  /\ \E undefined \in [Sensor -> Undefined] :
       weights' = [pos \in Sensor |->
                     Interpolate(calibration, pos, report[pos], undefined[pos])]
  /\ out' = [pos \in Sensor |-> Narrow(weights'[pos])]
  /\ UNCHANGED calibration
--------------------------------------------------------------------------------
\* The board has sent its calibration and one report.
Init ==
  /\ calibration \in Tables
  /\ values \in Reports
  /\ \E undefined \in [Sensor -> Undefined] :
       weights = [pos \in Sensor |->
                    Interpolate(calibration, pos, values[pos], undefined[pos])]
  /\ out = [pos \in Sensor |-> Narrow(weights[pos])]

Next == \E report \in Reports : Weigh(report)

Spec == Init /\ [][Next]_vars
--------------------------------------------------------------------------------
(* Properties.                                                             *)

\* What the memory of a working board holds for a sensor.
Ascending(pos) ==
  /\ calibration[pos] < calibration[pos + 4]
  /\ calibration[pos + 4] < calibration[pos + 8]

\* A field has room for what the sensor weighs: every reading up to the one at
\* 34 kg, and those beyond it for as long as the weight is below 2 ^ Field.
Roomy(pos) ==
  \/ values[pos] <= calibration[pos + 8]
  \/ weights[pos] < 2 ^ Field

\* Every variable has its type, the fields of BalanceBoardData theirs (uint16_t,
\* wiipp.h:17-20), and interpolate returns nothing less than 0 for a working
\* sensor.
TypeOK ==
  /\ calibration \in [0 .. 11 -> Reading]
  /\ values \in [Sensor -> Reading]
  /\ weights \in [Sensor -> Int]
  /\ out \in [Sensor -> 0 .. 2 ^ Field - 1]
  /\ \A pos \in Sensor : Ascending(pos) => weights[pos] >= 0

\* The weight that the application gets grows with the reading, across the two
\* lines and whatever single precision rounds, until a field has no room for it:
\* from there on it falls (wiipp.cpp:189-192).
Monotone ==
  [][\A pos \in Sensor :
       /\ Ascending(pos)
       /\ values[pos] <= values'[pos]
       /\ Roomy(pos)'
       => out[pos] <= out'[pos]]_vars

\* At the three calibrated readings the application gets 0, 17 and 34 kg to the
\* gram ("0kg", "17kg", "34kg", wiipp.cpp:82); at any other whose weight a field
\* has room for it is off the line of the reading by at most the gram that is cut
\* off and five times what the last bit of a float is to it.
Accurate ==
  \A pos \in Sensor : Ascending(pos) /\ Roomy(pos) =>
    LET v    == values[pos]
        zero == calibration[pos]
        mid  == calibration[pos + 4]
        high == calibration[pos + 8]
        Line(low, top, base)   == (base * (top - low) + 17 * (v - low)) * Grams
        Bound(low, top, base)  == top - low + (5 * Line(low, top, base)) \div 2 ^ Precision
        Within(low, top, base) ==
          out[pos] * (top - low) - Line(low, top, base)
            \in -Bound(low, top, base) .. Bound(low, top, base)
    IN  /\ v <= zero => out[pos] = 0
        /\ v = mid => out[pos] = 17 * Grams
        /\ v = high => out[pos] = 34 * Grams
        /\ v \in zero .. mid => Within(zero, mid, 0)
        /\ v >= mid => Within(mid, high, 17)

\* Whatever calibration holds, in any order, what interpolate converts to int32_t
\* fits it, if only the code does not divide by 0.
Fits ==
  \A pos \in Sensor :
    values[pos] < calibration[pos + 4] \/ calibration[pos + 8] # calibration[pos + 4] =>
    weights[pos] \in -(2 ^ Width) .. 2 ^ Width - 1
================================================================================
