---------------------------- MODULE MCAuditEngine ----------------------------
(* Values of the constants of AuditEngine for TLC. *)
EXTENDS AuditEngine, TLC

CONSTANTS g1, g2, g3

\* Two guardian sets that share a member; g1 is also the authority.
Rotation == {<<g1, g2>>, <<g2, g3>>}

\* The same with two keys.
SmallRotation == {<<g1, g2>>, <<g2>>}

\* No rotation.
Fixed == {<<g1, g2>>}

\* Announcements and what requests saw decide nothing, and neither property of the
\* Postgres run looks at them.
Unheard == <<config, proposals, approvals, now, pc, call, voted>>

\* Workers are interchangeable in the safety runs.
WorkerSymmetry == Permutations(Workers)
===============================================================================
