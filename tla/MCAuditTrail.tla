---------------------------- MODULE MCAuditTrail ----------------------------
\* Bounded instances of AuditTrail.
EXTENDS AuditTrail, TLC

Symmetry == Permutations(Keys) \cup Permutations(Text) \cup Permutations(Records \ Text)

\* What a log_decoder that has failed had read by then is of no consequence: no step
\* and no property looks at it before the next call starts afresh.
View ==
    <<file, published, make, sink, evictor, ephs, shards, left,
      IF audit.step = "done"
      THEN [audit EXCEPT !.at = 0, !.got = IF audit.code = 1 THEN << >> ELSE @] ELSE audit>>

=============================================================================
