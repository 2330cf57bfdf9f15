------------------------------- MODULE MCWeights -------------------------------
(* Instances of Weights for TLC.                                           *)
EXTENDS Weights

CONSTANT Points   \* readings at which a sensor may be calibrated

\* One sensor has any three points, in any order; those of the others are
\* shifted.
AnyPoints ==
  {[i \in 0 .. 11 |-> (points[i \div 4] + (i % 4)) % (MaxReading + 1)] :
     points \in [0 .. 2 -> Points]}

\* All sensors under the same load, nearly.
NearlyEven ==
  {[pos \in Sensor |-> (v + pos) % (MaxReading + 1)] : v \in Reading}
================================================================================
