-------------------------------- MODULE Seats --------------------------------
(***************************************************************************)
(* What a room promises about its viewers, without sockets' lifecycles,    *)
(* timers or the room row.  Every clientId has one seat:                   *)
(*   "out"     the room does not know the id;                              *)
(*   "in"      the id has joined;                                          *)
(*   "away"    its socket is gone and its place is kept for it;            *)
(*   "banned"  the owner kicked it and the block still runs.               *)
(* speakers[i] are the sockets whose frames the room takes as coming from  *)
(* i.  Only a viewer who is in speaks, and through one socket.             *)
(***************************************************************************)
CONSTANTS Ids, Conns

VARIABLES seat, speakers

Init ==
  /\ seat = [i \in Ids |-> "out"]
  /\ speakers = [i \in Ids |-> {}]

(* A viewer takes a seat, or the one kept for it, with one socket.         *)
Sit(i) ==
  /\ seat[i] \in {"out", "away"}
  /\ seat'[i] = "in"
  /\ \E c \in Conns : speakers'[i] = {c}

(* Its socket is going: nothing more is heard, the seat is still its own.  *)
FallSilent(i) == seat[i] = "in" /\ seat'[i] = "in" /\ speakers'[i] = {}

Leave(i) == seat[i] = "in" /\ seat'[i] = "away" /\ speakers'[i] = {}

GiveUp(i) == seat[i] = "away" /\ seat'[i] = "out" /\ speakers'[i] = {}

Ban(i) == seat[i] \in {"in", "away"} /\ seat'[i] = "banned" /\ speakers'[i] = {}

Pardon(i) == seat[i] = "banned" /\ seat'[i] = "out" /\ speakers'[i] = {}

Stay(i) == seat'[i] = seat[i] /\ speakers'[i] = speakers[i]

(* One id at most sits down, falls silent by itself, leaves or is banned   *)
(* in a step; giving up and pardons come with time, several in one step.   *)
Live ==
  /\ seat' = [i \in Ids |-> seat'[i]]
  /\ speakers' = [i \in Ids |-> speakers'[i]]
  /\ \A i \in Ids : Stay(i) \/ Sit(i) \/ FallSilent(i) \/ Leave(i)
                      \/ GiveUp(i) \/ Ban(i) \/ Pardon(i)
  /\ \A i, j \in Ids : (Sit(i) \/ Leave(i) \/ Ban(i)) /\ i # j => ~(Sit(j) \/ Leave(j) \/ Ban(j))

(* The room ends, or the daemon forgets it: everyone is out.               *)
Close ==
  /\ seat' = [i \in Ids |-> "out"]
  /\ speakers' = [i \in Ids |-> {}]

Next == Live \/ Close

Spec == Init /\ [][Next]_<<seat, speakers>>
=============================================================================
