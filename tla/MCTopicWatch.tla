---------------------------- MODULE MCTopicWatch ----------------------------
(* Small instances of the topic watch. *)
EXTENDS TopicWatch, TLC

CONSTANTS scan, odom

OneTopic == {scan}
TwoTopics == {scan, odom}
Symmetry == Permutations(TwoTopics)
=============================================================================
