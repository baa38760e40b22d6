------------------------- MODULE MCProductDelivery -------------------------
EXTENDS ProductDelivery, TLC

MCOwnerOf == [p \in Paths |-> IF p = "test" THEN "QA" ELSE "BACKEND"]
App(content) == << [path |-> "app", owner |-> "BACKEND", content |-> content] >>

\* One provider fails QA and repairs it; the other ends on a Security finding.
MCProviders ==
  { << [resolves |-> {}, patches |-> App("bad")],
       [resolves |-> {"QA_TEST_FAILURE"}, patches |-> App("good")] >>,
    << [resolves |-> {}, patches |-> App("unsafe")] >> }

MCAuthority == [current |-> TRUE, gitCalls |-> 24, rounds |-> 3, writes |-> 16,
                tools |-> 64, network |-> 8]
\* The defaults; the fewest Git commands that are accepted; and one that has expired.
MCAuthorities == {MCAuthority,
                  [MCAuthority EXCEPT !.gitCalls = 12],
                  [MCAuthority EXCEPT !.current = FALSE]}

Symmetry == Permutations(Callers) \cup Permutations(Execs) \cup Permutations(Orchestrations)
=============================================================================
