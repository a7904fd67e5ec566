------------------------------ MODULE Readers ------------------------------
(***************************************************************************)
(* One window store, a collector that writes it and a process that reads   *)
(* it: a client following a timeline, a script being generated or a status *)
(* report.  A reader changes nothing the others see, so what there is to   *)
(* be seen of several is seen of one at a time.                            *)
(***************************************************************************)
EXTENDS Timeline, Script, Status

VARIABLE reader  \* timeline, script or status

vars == <<window, reader, asked, timeline, script, reporting>>

Init ==
    /\ InitWindow
    /\ InitTimeline /\ InitScript /\ InitStatus
    /\ reader \in {"timeline", "script", "status"}

Next ==
    \/ /\ reader = "timeline" /\ FollowTimeline
       /\ UNCHANGED <<reader, script, reporting>>
    \/ /\ reader = "script" /\ GenerateScript
       /\ UNCHANGED <<reader, timeline, reporting>>
    \/ /\ reader = "status" /\ ReportStatus
       /\ UNCHANGED <<reader, timeline, script>>

Spec == Init /\ [][Next]_vars
=============================================================================
