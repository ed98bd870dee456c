--------------------------- MODULE MCWelfordChan ---------------------------
(* WelfordChan for TLC: partitions of up to 2 values from {-1, 0, 3}, so   *)
(* that means are not integers, deviations have both signs, and either    *)
(* partition may be empty.                                                 *)
EXTENDS WelfordChan

MCValues == {-1, 0, 3}
=============================================================================
