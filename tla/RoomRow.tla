------------------------------- MODULE RoomRow -------------------------------
(***************************************************************************)
(* What one transaction may make of a room's row, as far as viewers can    *)
(* tell: which videos are listed, which one the cursor is on, and the two  *)
(* modes.  Ids, positions, sources, labels and dates are the business of   *)
(* PlaylistStore; who may write, and who hears of it, of RoomSync.  Both   *)
(* implement this.                                                         *)
(***************************************************************************)
EXTENDS Naturals, FiniteSets

CONSTANTS
  Videos,
  None,          \* no cursor; not a video
  FreeformCap

VARIABLES
  list,          \* the videos listed
  cursor,        \* a listed video or None
  modes          \* which of the two are on

vars == <<list, cursor, modes>>

Init ==
  /\ list \in SUBSET Videos
  /\ cursor = None
  /\ modes \in {{}, {"single"}, {"freeform"}}

(* A list that outgrows a freeform room is cut down to the cap, and never  *)
(* by the video that has the cursor.                                       *)
Stored(grown, keep) ==
  IF "freeform" \in modes /\ Cardinality(grown) > FreeformCap
    THEN {kept \in SUBSET grown :
            Cardinality(kept) = FreeformCap /\ (keep \in grown => keep \in kept)}
    ELSE {grown}

Merge(videos) ==
  /\ "single" \notin modes
  /\ list' \in Stored(list \cup videos, cursor)
  /\ UNCHANGED <<cursor, modes>>

Move(v) ==
  /\ v \in list
  /\ cursor' = v
  /\ UNCHANGED <<list, modes>>

(* A video that is not there is appended and has the cursor at once.       *)
Append(v) ==
  /\ "single" \notin modes
  /\ v \notin list
  /\ list' \in Stored(list \cup {v}, v)
  /\ cursor' = v
  /\ UNCHANGED modes

Remove(v) ==
  /\ "single" \notin modes
  /\ v \in list /\ v # cursor
  /\ list' = list \ {v}
  /\ UNCHANGED <<cursor, modes>>

Clear ==
  /\ "single" \notin modes
  /\ list' = {} /\ cursor' = None
  /\ UNCHANGED modes

Switch ==
  /\ modes' \in SUBSET {"single", "freeform"}
  /\ UNCHANGED <<list, cursor>>

Next ==
  \/ \E videos \in SUBSET Videos : Merge(videos)
  \/ \E v \in Videos : Move(v) \/ Append(v) \/ Remove(v)
  \/ Clear
  \/ Switch

Spec == Init /\ [][Next]_vars
=============================================================================
