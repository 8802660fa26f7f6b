--------------------------- MODULE MissionLoading ---------------------------
(***************************************************************************)
(* What loading a mission promises, without bus, monitor, handlers or        *)
(* timeouts: the autopilot takes only what the limiter accepted, an ok is    *)
(* given when both hold the mission, and as long as it stands neither takes  *)
(* another.                                                                *)
(*                                                                         *)
(* MissionChain implements this specification.                             *)
(***************************************************************************)
CONSTANTS Missions, NoMission

VARIABLES
  accepted,      \* the missions the limiter ever accepted
  limMission,    \* the mission of the limiter,
  apMission,     \* and of the autopilot
  loaded         \* the mission of the ok that stands, or NoMission

lvars == <<accepted, limMission, apMission, loaded>>

Init ==
  /\ accepted = {}
  /\ limMission = NoMission
  /\ apMission = NoMission
  /\ loaded = NoMission

(* A new load begins; no ok stands any more.                                *)
Begin ==
  /\ loaded' = NoMission
  /\ UNCHANGED <<accepted, limMission, apMission>>

(* The limiter takes a mission, possibly one of a load that was given up ... *)
Accept(m) ==
  /\ loaded = NoMission
  /\ limMission' = m
  /\ accepted' = accepted \cup {m}
  /\ UNCHANGED <<apMission, loaded>>

(* ... and so does the autopilot, if the limiter has accepted it.            *)
Take(m) ==
  /\ loaded = NoMission
  /\ m \in accepted
  /\ apMission' = m
  /\ UNCHANGED <<accepted, limMission, loaded>>

Confirm ==
  /\ loaded = NoMission
  /\ limMission = apMission
  /\ loaded' = apMission
  /\ UNCHANGED <<accepted, limMission, apMission>>

Next ==
  \/ Begin
  \/ \E m \in Missions : Accept(m) \/ Take(m)
  \/ Confirm

Spec == Init /\ [][Next]_lvars

=============================================================================
