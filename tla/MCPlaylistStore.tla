--------------------------- MODULE MCPlaylistStore ---------------------------
(* PlaylistStore for TLC: videos and ids are interchangeable.             *)
EXTENDS PlaylistStore, TLC

(* One candidate; two for different videos; one video twice.               *)
Sample ==
  LET C(v, s, l) == [video |-> v, source |-> s, label |-> l] IN
  {<<C(v, s, l)>> : v \in Videos, s \in Sources, l \in Labels \cup {NoLabel}} \cup
  {<<C(v, "auto_appended", l), C(w, s, NoLabel)>> :
     v, w \in Videos, s \in {"auto_appended", "scraped"}, l \in Labels \cup {NoLabel}} \cup
  {<<C(v, "curated", NoLabel), C(v, "scraped", l)>> : v \in Videos, l \in Labels}

Lists == {<<>>} \cup {<<v>> : v \in Videos}

Symmetry == Permutations(Videos) \cup Permutations(Ids)
=============================================================================
