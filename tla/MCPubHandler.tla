---------------------------- MODULE MCPubHandler ----------------------------
(* An instance of PubHandler, with a device clock level with the host's    *)
(* and one ahead of it, and one of LidarMessages, with a lidar mounted a   *)
(* quarter turned and one that has no entry in the configuration.  Neither *)
(* knows of the other: a behaviour is of one of the two.                   *)
EXTENDS LidarPoints

VARIABLE part
framesVars == <<part, pubVars, msgVars>>

MCSkews == {0, 3}
MCConfigured == [l \in {5} |-> [yaw |-> 1, y |-> -13]]
MCPacketsOf == [l \in {5, 7} |-> IF l = 5 THEN << << <<20, 0>>, <<0, -30>> >>, << <<-10, 0>> >> >>
                                          ELSE << << <<0, 40>> >> >>]

MCInit == /\ part \in {"frames", "messages"}
          /\ PubInit /\ MsgInit
          /\ part = "frames" => /\ transfer_format_ = {"cloud"} /\ ~use_multi_topic_
                                /\ pcl_data_type = [l \in DOMAIN Configured |-> "high"]
                                /\ data_type = [l \in Sources |-> "high"]
MCNext == \/ part = "frames" /\ PubNext /\ UNCHANGED <<part, msgVars>>
          \/ part = "messages" /\ MsgNext /\ UNCHANGED <<part, pubVars>>
MCSpec == MCInit /\ [][MCNext]_framesVars
=============================================================================
