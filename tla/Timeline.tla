------------------------------ MODULE Timeline ------------------------------
(***************************************************************************)
(* What a room promises its viewers about the versions of its playback     *)
(* state (PlaybackState.eventId): one line of versions, which a viewer     *)
(* enters somewhere at or before its end and then follows forwards only.   *)
(* The line starts again, for everybody at once, when the daemon does.     *)
(***************************************************************************)
EXTENDS Naturals

CONSTANTS
  Viewers,
  Away       \* not following

VARIABLES
  version,   \* the end of the line
  seen       \* the version each viewer has reached

vars == <<version, seen>>

Init == version = 0 /\ seen = [v \in Viewers |-> Away]

(* One change, or two at once.                                             *)
Advance ==
  /\ version' \in {version + 1, version + 2}
  /\ UNCHANGED seen

Enter(v) ==
  /\ seen[v] = Away
  /\ \E n \in 0..version : seen' = [seen EXCEPT ![v] = n]
  /\ UNCHANGED version

Follow(v) ==
  /\ seen[v] # Away
  /\ \E n \in 0..version : n > seen[v] /\ seen' = [seen EXCEPT ![v] = n]
  /\ UNCHANGED version

Leave(v) ==
  /\ seen' = [seen EXCEPT ![v] = Away]
  /\ UNCHANGED version

Restart ==
  /\ version' = 0
  /\ seen' = [v \in Viewers |-> Away]

Next ==
  \/ Advance
  \/ \E v \in Viewers : Enter(v) \/ Follow(v) \/ Leave(v)
  \/ Restart

Spec == Init /\ [][Next]_vars
=============================================================================
