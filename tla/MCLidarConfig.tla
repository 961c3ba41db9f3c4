---------------------------- MODULE MCLidarConfig ----------------------------
(* Instances of LidarConfig.  u1 has the entry of config/MID360_config.json,*)
(* u2 one that names its address only.                                     *)
EXTENDS LidarConfig

CONSTANTS u1, u2, s1, s2

MCDeployed == [u \in {u1} |-> {"data_type", "pattern_mode"}]
MCAddressOnly == [u \in {u1, u2} |-> IF u = u1 THEN {"data_type", "pattern_mode"} ELSE {}]
MCTwoStrangers == [h \in {u1, s1, s2} |-> IF h = s2 THEN 1 ELSE 2]
MCFollowed == [h \in {u1, s1, s2} |-> IF h = u1 THEN {"attitude"} ELSE
                                       IF h = s2 THEN {"work_mode", "imu_data"} ELSE {}]
MCUnfollowed == [h \in {u1, u2} |-> {}]
MCOnce == [h \in {u1, u2} |-> 1]
=============================================================================
