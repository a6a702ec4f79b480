------------------------ MODULE MCStudioConnections ------------------------
(* Runs for StudioConnections: one Android device and one phone on a cable;  *)
(* other calls are to phones on the network.                                 *)
EXTENDS StudioConnections

MCDev == [c \in Call |-> IF c \in Adb THEN "android" ELSE IF c \in Iproxy THEN "phone" ELSE "network"]
=============================================================================
