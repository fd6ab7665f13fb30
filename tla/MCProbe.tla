-------------------------------- MODULE MCProbe --------------------------------
(* Probe on laptops left in four ways: with set points of an earlier manual   *)
(* run, in Manual with set points that differ, and in Custom.                 *)
EXTENDS Probe

MCSweep == <<"high", "low">>

Left(perf, fan, rpm, boost, max) ==
  [perf |-> <<perf, perf>>, fan |-> <<fan, fan>>, rpm |-> rpm, boost |-> boost, max |-> max]

MCSettings ==
  {Left("Hyperboost", "Auto", <<"left", "left">>, <<"Low", "High">>, "Disable"),
   Left("Balanced", "Manual", <<"high", "low">>, <<"Undervolt", "Low">>, "Disable"),
   Left("Custom", "Auto", <<"low", "low">>, <<"High", "High">>, "Enable"),
   Left("Custom", "Manual", <<"left", "left">>, <<"Medium", "High">>, "Disable")}

=============================================================================
