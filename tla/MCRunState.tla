----------------------------- MODULE MCRunState -----------------------------
(***************************************************************************)
(* Values of the constants of RunState for TLC: three stages, the second   *)
(* downstream of the first and the third of both, two release versions and *)
(* two contents.                                                           *)
(***************************************************************************)
EXTENDS RunState

MCDeps == <<{}, {1}, {1, 2}>>

MCVersion == {0, 1}

MCContent == {0, 1}

\* Deterministic stage code whose bytes follow the version and each input.
Follows(s, k) ==
    {(k.version + (IF 1 \in DOMAIN k.upstream THEN k.upstream[1] ELSE 0)
                + (IF 2 \in DOMAIN k.upstream THEN k.upstream[2] ELSE 0)) % 2}

\* Deterministic stage code that writes the same bytes in every version.
Tolerant(s, k) == {s % 2}

\* Stage code that may write either content for one key.
Wavers(s, k) == MCContent
=============================================================================
