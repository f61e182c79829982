--------------------------- MODULE MCFeedHandler ---------------------------
(***************************************************************************)
(* A stream of six messages in five datagrams.  A window of one or two and *)
(* a hold of two to five let a gap open, a second one open inside the      *)
(* recovery from the first, and the recovery buffer overflow, before the   *)
(* stream ends.                                                            *)
(***************************************************************************)
EXTENDS FeedHandler

MCDatagrams ==
    { [first |-> 1, count |-> 1], [first |-> 2, count |-> 1],
      [first |-> 3, count |-> 2], [first |-> 5, count |-> 1],
      [first |-> 6, count |-> 1] }

\* One arm, no replay service, snapshot cycles at up to two points, a late join.
OneArm ==
    [ arms |-> {"A"}, hold_capacity |-> 2, replay |-> FALSE, gap_timeouts |-> TRUE, max_lost |-> 3,
      fragments |-> 3, fragments_lost |-> FALSE,
      cycle_points |-> {S \in SUBSET {2, 4, 5} : Cardinality(S) <= 2}, join_points |-> {0, 1, 2} ]

\* Both arms and the replay service, and no snapshots.
WithReplay ==
    [ arms |-> {"A", "B"}, hold_capacity |-> 4, replay |-> TRUE, gap_timeouts |-> FALSE, max_lost |-> 4,
      fragments |-> 3, fragments_lost |-> FALSE,
      cycle_points |-> {{}}, join_points |-> {0} ]

\* Both arms, which may lose fragments, and a snapshot cycle of two symbols at one point.
TwoArms ==
    [ arms |-> {"A", "B"}, hold_capacity |-> 2, replay |-> FALSE, gap_timeouts |-> TRUE, max_lost |-> 3,
      fragments |-> 2, fragments_lost |-> TRUE,
      cycle_points |-> {{2}, {4}, {5}}, join_points |-> {0, 1} ]

\* Both arms, and a snapshot cycle of three symbols, none of whose fragments is lost.
ThreeSymbols ==
    [TwoArms EXCEPT !.fragments = 3, !.fragments_lost = FALSE]

\* One arm, the replay service, and a snapshot cycle at one point.
ReplayAndCycle ==
    [ arms |-> {"A"}, hold_capacity |-> 4, replay |-> TRUE, gap_timeouts |-> FALSE, max_lost |-> 2,
      fragments |-> 2, fragments_lost |-> FALSE,
      cycle_points |-> {{2}, {4}, {5}}, join_points |-> {0} ]

\* The same stream in six datagrams, both arms and the replay service.
UnitDatagrams == { [first |-> n, count |-> 1] : n \in 1 .. 6 }

OnlyWithReplay == {WithReplay}

TrustedDeployments == {OneArm, WithReplay, TwoArms}

OnlyThreeSymbols == {ThreeSymbols}

OnlyReplayAndCycle == {ReplayAndCycle}

=============================================================================
