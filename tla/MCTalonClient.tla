---------------------------- MODULE MCTalonClient ----------------------------
(* One Talon and the nodes that command it, for TLC.                       *)
EXTENDS TalonClient

MCTopics  == {"set", "setModeSelectAndDemand"}
MCLength  == [t \in MCTopics \cup {Received, Configs} |-> IF t = "set" THEN 1 ELSE 2]
OneGetter == <<"STATUS_1">>
MCStatus  == {"STATUS_1"}
MCParam   == {"P", "I"}
=============================================================================
