----------------------------- MODULE MCStartup -----------------------------
(* The life of main on a machine of two packages, one cpu of which is offline, *)
(* with 16-bit integers and 24-bit long ones.                                  *)
EXTENDS Startup

CONSTANTS rapl, core, power, instructions, pkg0, pkg1, cpu0, cpu1, cpu2, cpu3

SomePackages == cpu0 :> pkg0 @@ cpu1 :> pkg0 @@ cpu2 :> pkg1 @@ cpu3 :> pkg1
SomeNumbers  == {-ULONG_MAX, -1, 0, UINT_MAX + 1}
Symmetry     == Permutations(Names) \union Permutations(Events)
=============================================================================
