----------------------------- MODULE MCPlatform -----------------------------
(* Instances of Windows and Requests, one of the two at a time.            *)
EXTENDS Windows, Requests

VARIABLE part

platformVars == <<windowVars, requestVars, part>>

PlatformInit == part \in {"windows", "requests"} /\ WindowsInit /\ RequestsInit

WindowsPart == part = "windows" /\ WindowsNext /\ UNCHANGED <<requestVars, part>>

RequestsPart == part = "requests" /\ RequestsNext /\ UNCHANGED <<windowVars, part>>

PlatformSpec ==
  /\ PlatformInit /\ [][WindowsPart \/ RequestsPart]_platformVars
  /\ RequestsFairness

(* Two sessions behind the web app's server.                               *)
SharedClient == [f \in Families |-> "web"]

(* A computed and a fixed answer.                                          *)
Limits == [b \in Buckets |-> IF b = "download" THEN 2 ELSE 1]
WindowTicks == [b \in Buckets |-> IF b = "download" THEN 5 ELSE 2]
Fixed == [b \in Buckets |-> IF b = "download" THEN 0 ELSE 1]
=============================================================================
