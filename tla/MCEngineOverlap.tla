--------------------------- MODULE MCEngineOverlap ---------------------------
(* Values of the constants of EngineOverlap for TLC. *)
EXTENDS EngineOverlap, TLC

CONSTANTS g1, g2

\* Two guardians, and the second of them alone.
SmallRotation == {<<g1, g2>>, <<g2>>}

\* Workers are interchangeable: no property is a liveness property.
WorkerSymmetry == Permutations(Workers)
===============================================================================
