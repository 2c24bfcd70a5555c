---------------------------- MODULE MCLiveFutures ---------------------------
(* LiveFutures on two interchangeable symbols and the two directions.      *)
EXTENDS LiveFutures, TLC

MCSymmetry == Permutations(Symbols) \cup Permutations(Directions)

\* "La posicion se cierra manualmente en exchange. | Reconciliacion detecta
\* cierre y genera outcome." (TSK-860 01-requirements.md:103, CL-4): an open
\* case without a position on the exchange is eventually closed.
ClosesAreReconciled ==
  \A i \in 1 .. MaxCases :
    (i \in Open /\ \A n \in Held : positions[n].case # i) ~> i \notin Open

============================================================================
