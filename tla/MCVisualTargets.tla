--------------------------- MODULE MCVisualTargets ---------------------------
(* A small instance: two targets, of which the first may also be unusable. *)
EXTENDS VisualTargets

Seen(i, stamp, place) ==
  [ target_id |-> i, stamp |-> stamp, valid_for |-> 2, observation_state |-> "CONFIRMED",
    target_type |-> "LEAF_PILE", projection_valid |-> TRUE, centroid |-> place ]

Sightings == { Seen(i, stamp, place) : i \in Ids, stamp \in 0..1, place \in Places }

Losses == { [Seen(i, stamp, 0) EXCEPT !.observation_state = "LOST"] :
              i \in Ids, stamp \in 0..1 }

Unusable ==
  { [Seen(1, 0, 0) EXCEPT !.observation_state = "UNKNOWN"],
    [Seen(1, 1, 0) EXCEPT !.target_type = "UNKNOWN"],
    [Seen(1, 1, 0) EXCEPT !.target_type = "PUDDLE"],
    [Seen(1, 1, 0) EXCEPT !.projection_valid = FALSE] }

MCBatches ==
  {<<>>} \cup { <<o>> : o \in Sightings \cup Losses \cup Unusable }
    \cup { <<o, u>> : o \in {Seen(1, 1, 0), Seen(2, 0, 1)}, u \in Sightings }
=============================================================================
