------------------------- MODULE MCRosbag2Recorder -------------------------
(* Three captures, of which max_recordings_per_run allows two. *)
EXTENDS Rosbag2Recorder

CONSTANTS c1, c2, c3

MCCaptures == {c1, c2, c3}
=============================================================================
