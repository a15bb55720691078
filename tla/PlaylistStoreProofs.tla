------------------------ MODULE PlaylistStoreProofs ------------------------
(***************************************************************************)
(* Theorems about PlaylistStore, for any videos, batches, modes and caps.  *)
(*                                                                         *)
(* In this order: what identifies an entry (StoreInv), what only the owner *)
(* may change, positions and caps (LineInv), the entries a prune takes     *)
(* (DateInv), the order of those that stay, and the types (RowInv).        *)
(***************************************************************************)
EXTENDS PlaylistStore, FiniteSetTheorems, WellFoundedInduction, TLAPS

-----------------------------------------------------------------------------
(* The inductive invariant.                                                *)

\* What identifies an entry; positions and dates have invariants of their own below.
IsEntry(e) ==
  /\ e = [id |-> e.id, video |-> e.video, pos |-> e.pos, source |-> e.source,
          label |-> e.label, addedAt |-> e.addedAt]
  /\ e.id \in Ids /\ e.video \in Videos

Shape ==
  /\ \A e \in playlist : IsEntry(e)
  /\ cursor \in Ids \cup {Null}

StoreInv == Shape /\ EntriesUnique /\ CursorInPlaylist

\* What a list must be for StoreInv to hold of it with a cursor in it.
Sound(list, keep) ==
  /\ \A e \in list : IsEntry(e)
  /\ \A e, f \in list : (e.id = f.id \/ e.video = f.video) => e = f
  /\ keep \in Ids \cup {Null}
  /\ keep # Null => \E e \in list : e.id = keep

LEMMA StoreInvIsSound == StoreInv <=> Sound(playlist, cursor)
  BY DEF StoreInv, Shape, EntriesUnique, CursorInPlaylist, Sound, IdsOf

-----------------------------------------------------------------------------
(* Lists.                                                                  *)

\* Renumbering changes positions only.
LEMMA RenumberedIsSound ==
  ASSUME NEW list, NEW keep, Sound(list, keep)
  PROVE  /\ Sound(Renumbered(list), keep)
         /\ \A e \in list : \E f \in Renumbered(list) :
              f.id = e.id /\ f.label = e.label /\ f.source = e.source
  <1> DEFINE rank(e) == Cardinality({f \in list : f.pos <= e.pos})
             at(e) == [e EXCEPT !.pos = rank(e)]
  <1>1. Renumbered(list) = {at(e) : e \in list} BY DEF Renumbered
  <1> HIDE DEF rank
  <1>2. \A e \in list : /\ at(e).id = e.id /\ at(e).video = e.video /\ IsEntry(at(e))
                        /\ at(e).label = e.label /\ at(e).source = e.source
    BY DEF Sound, IsEntry
  <1> HIDE DEF at
  <1>3. QED BY <1>1, <1>2 DEF Sound

\* A part of a sound list that keeps the cursor's entry is sound.
LEMMA PartIsSound ==
  ASSUME NEW list, NEW keep, Sound(list, keep), NEW part \in SUBSET list,
         \A e \in list : e.id = keep => e \in part
  PROVE  Sound(part, keep)
  BY DEF Sound

\* What the freeform prune leaves is sound, the cursor's entry and every
\* curated one included.
LEMMA StoredIsSound ==
  ASSUME NEW list, NEW keep, Sound(list, keep)
  PROVE  /\ Sound(Stored(list, keep), keep)
         /\ \A e \in list : e.source = "curated" =>
              \E f \in Stored(list, keep) : f.id = e.id /\ f.label = e.label /\ f.source = "curated"
  <1> DEFINE kept == list \ Dropped(list, keep)
  <1>1. \A e \in list : e.id = keep \/ e.source = "curated" => e \in kept
    BY DEF Dropped, Eligible
  <1>2. Sound(kept, keep) BY <1>1, PartIsSound
  <1> HIDE DEF kept
  <1>3. /\ Sound(Renumbered(kept), keep)
        /\ \A e \in kept : \E f \in Renumbered(kept) :
             f.id = e.id /\ f.label = e.label /\ f.source = e.source
    BY <1>2, RenumberedIsSound
  <1>4. Stored(list, keep) = list \/ Stored(list, keep) = Renumbered(kept)
    BY DEF Stored, Pruned, kept
  <1>5. CASE Stored(list, keep) = list BY <1>5
  <1>6. CASE Stored(list, keep) = Renumbered(kept) BY <1>1, <1>3, <1>6
  <1>7. QED BY <1>4, <1>5, <1>6

\* A merged list is sound and keeps the curated entries as they are.
LEMMA MergedIsSound ==
  ASSUME StoreInv, NEW batch \in Batches,
         NEW ids \in [NewVideos(batch) -> FreshIds],
         \A v, w \in NewVideos(batch) : ids[v] = ids[w] => v = w
  PROVE  /\ Sound(Merged(batch, ids), cursor)
         /\ \A e \in playlist : e.source = "curated" => e \in Merged(batch, ids)
  <1> DEFINE new == {Added(v, ids[v], batch) : v \in NewVideos(batch)}
             old == {Refreshed(e, batch) : e \in playlist}
  <1>1. \A e \in playlist : /\ Refreshed(e, batch).id = e.id /\ Refreshed(e, batch).video = e.video
                            /\ IsEntry(Refreshed(e, batch))
                            /\ e.source = "curated" => Refreshed(e, batch) = e
    <2>1. TAKE e \in playlist
    <2>2. IsEntry(e) BY DEF StoreInv, Shape
    <2>3. CASE e.source = "curated" BY <2>2, <2>3 DEF Refreshed
    <2>4. CASE e.source # "curated"
      <3> DEFINE label == LastLabel(batch, e.video, e.label)
      <3>1. Refreshed(e, batch) = [e EXCEPT !.label = label] BY <2>4 DEF Refreshed
      <3> HIDE DEF label
      <3>2. QED BY <2>2, <2>4, <3>1 DEF IsEntry
    <2>5. QED BY <2>3, <2>4
  <1>2. NewVideos(batch) \subseteq Videos /\ FreshIds \subseteq Ids
    <2>1. batch \in Seq(Candidate) BY BatchesAssumption
    <2>2. \A n \in DOMAIN batch : batch[n] \in Candidate BY <2>1
    <2>3. \A n \in DOMAIN batch : batch[n].video \in Videos BY <2>2 DEF Candidate
    <2>4. QED BY <2>3 DEF NewVideos, FreshIds
  <1>3. \A v \in NewVideos(batch) :
          /\ Added(v, ids[v], batch).id = ids[v] /\ Added(v, ids[v], batch).video = v
          /\ IsEntry(Added(v, ids[v], batch))
    BY <1>2 DEF Added, IsEntry
  <1>4. \A v \in NewVideos(batch), e \in playlist : ids[v] # e.id /\ v # e.video
    BY DEF NewVideos, FreshIds, VideosOf, IdsOf
  <1>5. Merged(batch, ids) = old \cup new BY DEF Merged
  <1>6. \A e, f \in old : e.id = f.id \/ e.video = f.video => e = f
    BY <1>1 DEF StoreInv, EntriesUnique
  <1>7. \A e, f \in new : e.id = f.id \/ e.video = f.video => e = f BY <1>3
  <1>8. \A e \in old, f \in new : e.id # f.id /\ e.video # f.video BY <1>1, <1>3, <1>4
  <1>9. \A e \in old \cup new : IsEntry(e) BY <1>1, <1>3
  <1>10. cursor # Null => \E e \in old : e.id = cursor
    BY <1>1 DEF StoreInv, CursorInPlaylist, IdsOf
  <1>11. \A e \in playlist : e.source = "curated" => e \in old BY <1>1
  <1> HIDE DEF new, old
  <1>12. QED BY <1>5, <1>6, <1>7, <1>8, <1>9, <1>10, <1>11 DEF Sound, StoreInv, Shape

-----------------------------------------------------------------------------
(* Steps.                                                                  *)

Sticky ==
  \A e \in playlist : e.source = "curated" =>
    \E f \in playlist' : f.id = e.id /\ f.label = e.label /\ f.source = "curated"

LEMMA MergeStep ==
  ASSUME StoreInv, NEW batch \in Batches, Merge(batch)
  PROVE  StoreInv' /\ Sticky
  <1>1. PICK ids \in [NewVideos(batch) -> FreshIds] :
          /\ \A v, w \in NewVideos(batch) : ids[v] = ids[w] => v = w
          /\ playlist' = Stored(Merged(batch, ids), cursor)
    BY DEF Merge
  <1>2. cursor' = cursor BY DEF Merge
  <1>3. /\ Sound(Merged(batch, ids), cursor)
        /\ \A e \in playlist : e.source = "curated" => e \in Merged(batch, ids)
    BY <1>1, MergedIsSound
  <1>4. /\ Sound(Stored(Merged(batch, ids), cursor), cursor)
        /\ \A e \in Merged(batch, ids) : e.source = "curated" =>
             \E f \in Stored(Merged(batch, ids), cursor) :
               f.id = e.id /\ f.label = e.label /\ f.source = "curated"
    BY <1>3, StoredIsSound
  <1>5. Sound(playlist', cursor') BY <1>1, <1>2, <1>4
  <1>6. StoreInv' BY <1>5 DEF StoreInv, Shape, EntriesUnique, CursorInPlaylist, Sound, IdsOf
  <1>7. Sticky BY <1>1, <1>3, <1>4 DEF Sticky
  <1>8. QED BY <1>6, <1>7

LEMMA AppendStep ==
  ASSUME StoreInv, NEW v \in Videos, v \notin VideosOf(playlist), AppendNew(v)
  PROVE  StoreInv' /\ Sticky
  <1>1. PICK id \in FreshIds :
          LET entry == [id |-> id, video |-> v, pos |-> Highest(playlist) + 1,
                        source |-> "auto_appended", label |-> NoLabel, addedAt |-> now] IN
          /\ playlist' = Stored(playlist \cup {entry}, id)
          /\ cursor' = id
    BY DEF AppendNew
  <1> DEFINE entry == [id |-> id, video |-> v, pos |-> Highest(playlist) + 1,
                       source |-> "auto_appended", label |-> NoLabel, addedAt |-> now]
  <1>2. playlist' = Stored(playlist \cup {entry}, id) /\ cursor' = id BY <1>1
  <1>3. /\ IsEntry(entry) /\ entry.id = id
        /\ \A e \in playlist : e.id # entry.id /\ e.video # entry.video
    BY DEF IsEntry, FreshIds, IdsOf, VideosOf
  <1> HIDE DEF entry
  <1>4. id \in Ids BY DEF FreshIds
  <1>5. Sound(playlist \cup {entry}, id)
    BY <1>3, <1>4 DEF StoreInv, Shape, EntriesUnique, Sound
  <1>6. /\ Sound(Stored(playlist \cup {entry}, id), id)
        /\ \A e \in playlist \cup {entry} : e.source = "curated" =>
             \E f \in Stored(playlist \cup {entry}, id) :
               f.id = e.id /\ f.label = e.label /\ f.source = "curated"
    BY <1>5, StoredIsSound
  <1>7. Sound(playlist', cursor') BY <1>2, <1>6
  <1>8. StoreInv' BY <1>7 DEF StoreInv, Shape, EntriesUnique, CursorInPlaylist, Sound, IdsOf
  <1>9. Sticky BY <1>2, <1>6 DEF Sticky
  <1>10. QED BY <1>8, <1>9

LEMMA MoveStep ==
  ASSUME StoreInv, NEW e \in playlist, MoveCursor(e.id)
  PROVE  StoreInv' /\ Sticky
  <1>1. cursor' = e.id /\ playlist' = playlist BY DEF MoveCursor
  <1>2. e.id \in Ids BY DEF StoreInv, Shape, IsEntry
  <1>3. QED
    BY <1>1, <1>2 DEF StoreInv, Shape, EntriesUnique, CursorInPlaylist, IdsOf, Sticky

LEMMA RemoveStep ==
  ASSUME StoreInv, NEW id \in Ids, RemoveEntry(id)
  PROVE  StoreInv'
  <1> DEFINE left == {e \in playlist : e.id # id}
  <1>1. Sound(left, cursor)
    BY DEF RemoveEntry, StoreInv, Shape, EntriesUnique, CursorInPlaylist, IdsOf, Sound
  <1>2. playlist' = Renumbered(left) /\ cursor' = cursor BY DEF RemoveEntry
  <1> HIDE DEF left
  <1>3. Sound(playlist', cursor') BY <1>1, <1>2, RenumberedIsSound
  <1>4. QED BY <1>3 DEF StoreInv, Shape, EntriesUnique, CursorInPlaylist, Sound, IdsOf

LEMMA ReorderStep ==
  ASSUME StoreInv, NEW order \in Orders, ReorderEntries(order)
  PROVE  StoreInv'
  <1> DEFINE at(e) == [e EXCEPT !.pos = order[e.id]]
  <1>1. playlist' = {at(e) : e \in playlist} /\ cursor' = cursor
    BY DEF ReorderEntries
  <1>2. \A e \in playlist : IsEntry(at(e)) /\ at(e).id = e.id /\ at(e).video = e.video
    BY DEF StoreInv, Shape, IsEntry
  <1> HIDE DEF at
  <1>3. Shape' BY <1>1, <1>2 DEF StoreInv, Shape
  <1>4. EntriesUnique' BY <1>1, <1>2 DEF StoreInv, EntriesUnique
  <1>5. CursorInPlaylist' BY <1>1, <1>2 DEF StoreInv, CursorInPlaylist, IdsOf
  <1>6. QED BY <1>3, <1>4, <1>5 DEF StoreInv

\* A patch, and a change of position, keep id and video.
LEMMA PatchedIsEntry ==
  ASSUME NEW e, IsEntry(e), NEW label, NEW source
  PROVE  /\ IsEntry(Patched(e, label, source))
         /\ Patched(e, label, source).id = e.id /\ Patched(e, label, source).video = e.video
  <1> DEFINE g == Patched(e, label, source)
  <1>1. PICK l, s : g = [e EXCEPT !.label = l, !.source = s] BY DEF Patched
  <1> HIDE DEF g
  <1>2. IsEntry(g) /\ g.id = e.id /\ g.video = e.video BY <1>1 DEF IsEntry
  <1>3. QED BY <1>2 DEF g

LEMMA PlacedIsEntry ==
  ASSUME NEW e, IsEntry(e), NEW target
  PROVE  /\ IsEntry([e EXCEPT !.pos = target])
         /\ [e EXCEPT !.pos = target].id = e.id /\ [e EXCEPT !.pos = target].video = e.video
  BY DEF IsEntry

LEMMA MovedIsSound ==
  ASSUME StoreInv, NEW e \in playlist, NEW target
  PROVE  /\ \A f \in Moved(e, target) :
              IsEntry(f) /\ \E g \in playlist \ {e} : f.id = g.id /\ f.video = g.video
         /\ \A f, g \in Moved(e, target) : (f.id = g.id \/ f.video = g.video) => f = g
         /\ \A g \in playlist \ {e} : \E f \in Moved(e, target) : f.id = g.id
  <1> DEFINE others == playlist \ {e}
             rank(f) == Cardinality({g \in others : g.pos <= f.pos})
             place(f) == IF rank(f) < target THEN rank(f) ELSE rank(f) + 1
             at(f) == [f EXCEPT !.pos = place(f)]
  <1>1. Moved(e, target) = {at(f) : f \in others} BY DEF Moved
  <1> HIDE DEF place
  <1>2. \A f \in others : IsEntry(at(f)) /\ at(f).id = f.id /\ at(f).video = f.video
    BY DEF StoreInv, Shape, IsEntry
  <1> HIDE DEF at
  <1>3. \A f, g \in others : (f.id = g.id \/ f.video = g.video) => f = g
    BY DEF StoreInv, EntriesUnique
  <1> HIDE DEF others
  <1>4. QED BY <1>1, <1>2, <1>3 DEF others

LEMMA UpdateStep ==
  ASSUME StoreInv, NEW id \in Ids, NEW label, NEW source, NEW position,
         UpdateEntry(id, label, source, position)
  PROVE  StoreInv'
  <1>1. PICK e \in playlist :
          /\ e.id = id /\ cursor' = cursor
          /\ \/ playlist' = (playlist \ {e}) \cup {Patched(e, label, source)}
             \/ \E target : playlist' = Moved(e, target) \cup
                                        {[Patched(e, label, source) EXCEPT !.pos = target]}
    BY DEF UpdateEntry
  <1>2. IsEntry(e) BY DEF StoreInv, Shape
  <1> DEFINE fits(os, f) ==
        /\ playlist' = os \cup {f}
        /\ IsEntry(f) /\ f.id = e.id /\ f.video = e.video
        /\ \A g \in os : IsEntry(g) /\ \E h \in playlist \ {e} : g.id = h.id /\ g.video = h.video
        /\ \A g, h \in os : (g.id = h.id \/ g.video = h.video) => g = h
        /\ \A h \in playlist \ {e} : \E g \in os : g.id = h.id
  <1>3. PICK others, f : fits(others, f)
    <2> DEFINE g == Patched(e, label, source)
    <2>1. IsEntry(g) /\ g.id = e.id /\ g.video = e.video BY <1>2, PatchedIsEntry
    <2>2. ASSUME playlist' = (playlist \ {e}) \cup {g}
          PROVE  fits(playlist \ {e}, g)
      <3> HIDE DEF g
      <3>1. QED BY <2>1, <2>2 DEF StoreInv, Shape, EntriesUnique
    <2>3. ASSUME NEW target, playlist' = Moved(e, target) \cup {[g EXCEPT !.pos = target]}
          PROVE  fits(Moved(e, target), [g EXCEPT !.pos = target])
      <3> HIDE DEF g
      <3> DEFINE f == [g EXCEPT !.pos = target]
      <3>1. IsEntry(f) /\ f.id = e.id /\ f.video = e.video BY <2>1, PlacedIsEntry
      <3>2. playlist' = Moved(e, target) \cup {f} BY <2>3
      <3> HIDE DEF f
      <3>3. fits(Moved(e, target), f) BY <3>1, <3>2, MovedIsSound
      <3>4. QED BY <3>3 DEF f
    <2> HIDE DEF fits
    <2>4. QED BY <1>1, <2>2, <2>3
  <1>4. \A g \in others : g.id # f.id /\ g.video # f.video
    BY <1>3 DEF StoreInv, EntriesUnique
  <1>5. Shape' BY <1>1, <1>3 DEF StoreInv, Shape
  <1>6. EntriesUnique' BY <1>3, <1>4 DEF EntriesUnique
  <1>7. CursorInPlaylist' BY <1>1, <1>3 DEF StoreInv, CursorInPlaylist, IdsOf
  <1>8. QED BY <1>5, <1>6, <1>7 DEF StoreInv

\* A cursor request, by entry or by video, and an auto-append.
LEMMA RequestStep ==
  ASSUME StoreInv,
         \/ \E id \in Ids : RequestById(id)
         \/ \E v \in Videos : RequestByVideo(v)
         \/ \E v \in Videos : AutoAppend(v)
  PROVE  StoreInv' /\ Sticky
  <1>1. \/ \E e \in playlist : MoveCursor(e.id)
        \/ \E v \in Videos : v \notin VideosOf(playlist) /\ AppendNew(v)
    BY DEF RequestById, RequestByVideo, AutoAppend, IdsOf
  <1>2. QED BY <1>1, MoveStep, AppendStep

-----------------------------------------------------------------------------
(* All steps.                                                              *)

LEMMA StoreInvInit == Init => StoreInv
  <1> SUFFICES ASSUME Init PROVE StoreInv OBVIOUS
  <1>1. PICK list \in InitialLists : \E ids \in [DOMAIN list -> Ids] :
       /\ \A m, n \in DOMAIN list : ids[m] = ids[n] => m = n
       /\ \E labels \in [DOMAIN list -> Labels \cup {NoLabel}] :
            playlist = {[id |-> ids[n], video |-> list[n], pos |-> n, source |-> "curated",
                         label |-> labels[n], addedAt |-> 0] : n \in DOMAIN list}
    BY DEF Init
  <1>2. PICK ids \in [DOMAIN list -> Ids] :
       /\ \A m, n \in DOMAIN list : ids[m] = ids[n] => m = n
       /\ \E labels \in [DOMAIN list -> Labels \cup {NoLabel}] :
            playlist = {[id |-> ids[n], video |-> list[n], pos |-> n, source |-> "curated",
                         label |-> labels[n], addedAt |-> 0] : n \in DOMAIN list}
    BY <1>1
  <1>3. PICK labels \in [DOMAIN list -> Labels \cup {NoLabel}] :
            playlist = {[id |-> ids[n], video |-> list[n], pos |-> n, source |-> "curated",
                         label |-> labels[n], addedAt |-> 0] : n \in DOMAIN list}
    BY <1>2
  <1>4. /\ \A n \in DOMAIN list : list[n] \in Videos /\ ids[n] \in Ids
        /\ \A m, n \in DOMAIN list : list[m] = list[n] => m = n
    BY BatchesAssumption
  <1>5. cursor = Null BY DEF Init
  <1>6. Shape BY <1>3, <1>4, <1>5 DEF Shape, IsEntry
  <1>7. EntriesUnique BY <1>2, <1>3, <1>4 DEF EntriesUnique
  <1>8. QED BY <1>5, <1>6, <1>7 DEF StoreInv, CursorInPlaylist

LEMMA StoreInvStep == StoreInv /\ [Next]_vars => StoreInv' /\ (op' # "owner" => Sticky)
  <1> SUFFICES ASSUME StoreInv, [Next]_vars
               PROVE  StoreInv' /\ (op' # "owner" => Sticky)
    OBVIOUS
  <1>1. ASSUME NEW batch \in Batches, Merge(batch)
        PROVE  StoreInv' /\ Sticky
    BY <1>1, MergeStep
  <1>2. CASE \/ \E id \in Ids : RequestById(id)
             \/ \E v \in Videos : RequestByVideo(v)
             \/ \E v \in Videos : AutoAppend(v)
    BY <1>2, RequestStep
  <1>3. ASSUME NEW id \in Ids, RemoveEntry(id)
        PROVE  StoreInv' /\ op' = "owner"
    BY <1>3, RemoveStep DEF RemoveEntry, Owner
  <1>4. ASSUME NEW order \in Orders, ReorderEntries(order)
        PROVE  StoreInv' /\ op' = "owner"
    BY <1>4, ReorderStep DEF ReorderEntries, Owner
  <1>5. ASSUME NEW id \in Ids, NEW label, NEW source, NEW position,
               UpdateEntry(id, label, source, position)
        PROVE  StoreInv' /\ op' = "owner"
    BY <1>5, UpdateStep DEF UpdateEntry, Owner
  <1>6. CASE ClearAll
    BY <1>6 DEF ClearAll, Owner, StoreInv, Shape, EntriesUnique, CursorInPlaylist
  <1>7. ASSUME playlist' = playlist, cursor' = cursor
        PROVE  StoreInv' /\ Sticky
    BY <1>7 DEF StoreInv, Shape, EntriesUnique, CursorInPlaylist, IdsOf, Sticky
  <1>8. ASSUME NEW r \in Requests, NEW s, NEW f, ReadToggles(r, s, f) \/ WriteToggles(r)
        PROVE  StoreInv' /\ Sticky
    BY <1>7, <1>8 DEF ReadToggles, WriteToggles, row
  <1>9. CASE Tick \/ UNCHANGED vars BY <1>7, <1>9 DEF Tick, row, vars
  <1>10. QED BY <1>1, <1>2, <1>3, <1>4, <1>5, <1>6, <1>8, <1>9 DEF Next

-----------------------------------------------------------------------------
(* Theorems.                                                               *)

LEMMA StoreInvHolds == Spec => []StoreInv
  <1>1. StoreInv /\ [Next]_vars => StoreInv' BY StoreInvStep
  <1>2. QED BY StoreInvInit, <1>1, PTL DEF Spec

\* No path that adds entries (merge with repeated candidates, performAutoAppend)
\* makes two entries of one video or one id.
THEOREM EntriesStayUnique == Spec => []EntriesUnique
  <1>1. StoreInv => EntriesUnique BY DEF StoreInv
  <1>2. QED BY <1>1, StoreInvHolds, PTL

\* The cursor names an entry of the playlist after every prune, removal and
\* clear: Room::getCursorEntry never meets a dangling one.
THEOREM CursorStaysValid == Spec => []CursorInPlaylist
  <1>1. StoreInv => CursorInPlaylist BY DEF StoreInv
  <1>2. QED BY <1>1, StoreInvHolds, PTL

\* Neither a merge nor a cursor request takes a curated entry away or changes
\* its label or source.
THEOREM CuratedStays == Spec => CuratedSticky
  <1>1. StoreInv /\ [Next]_vars =>
          [op' # "owner" =>
             \A e \in playlist : e.source = "curated" =>
               \E f \in playlist' : f.id = e.id /\ f.label = e.label /\ f.source = "curated"]_vars
    BY StoreInvStep DEF Sticky
  <1>2. QED BY <1>1, StoreInvHolds, PTL DEF Spec, CuratedSticky

\* What single mode keeps: the entries and their places.
Locked ==
  /\ IdsOf(playlist') = IdsOf(playlist)
  /\ \A e \in playlist, f \in playlist' : e.id = f.id => e.pos = f.pos

\* In single mode an update can only patch.
LEMMA PatchIsLocked ==
  ASSUME StoreInv, single, NEW id \in Ids, NEW label, NEW source, NEW position,
         UpdateEntry(id, label, source, position)
  PROVE  Locked
  <1>1. PICK e \in playlist : playlist' = (playlist \ {e}) \cup {Patched(e, label, source)}
    BY DEF UpdateEntry
  <1> DEFINE g == Patched(e, label, source)
  <1>2. g.id = e.id /\ g.pos = e.pos
    <2>1. IsEntry(e) BY DEF StoreInv, Shape
    <2>2. PICK l, s : g = [e EXCEPT !.label = l, !.source = s] BY DEF Patched
    <2> HIDE DEF g
    <2>3. QED BY <2>1, <2>2 DEF IsEntry
  <1>3. playlist' = (playlist \ {e}) \cup {g} BY <1>1
  <1> HIDE DEF g
  <1>4. QED BY <1>2, <1>3 DEF Locked, IdsOf, StoreInv, EntriesUnique

\* Single mode locks the playlist: no merge, cursor request, append, removal,
\* move or clear of any caller adds, drops or moves an entry.
THEOREM SingleModeLocks == Spec => SingleLocks
  <1>1. StoreInv /\ [Next]_vars => [single => Locked]_vars
    <2> SUFFICES ASSUME StoreInv, Next, single PROVE Locked OBVIOUS
    <2>1. ASSUME playlist' = playlist PROVE Locked
      BY <2>1 DEF Locked, StoreInv, EntriesUnique
    <2>2. ASSUME NEW id \in Ids, NEW label, NEW source, NEW position,
                 UpdateEntry(id, label, source, position)
          PROVE  Locked
      BY <2>2, PatchIsLocked
    <2>3. \/ playlist' = playlist
          \/ \E id \in Ids : \E label, source, position : UpdateEntry(id, label, source, position)
      BY DEF Next, Merge, RequestById, RequestByVideo, AutoAppend, MoveCursor, RemoveEntry,
             ReorderEntries, ClearAll, ReadToggles, WriteToggles, Tick, row
    <2>4. QED BY <2>1, <2>2, <2>3
  <1>2. StoreInv /\ [Next]_vars =>
          [single => /\ IdsOf(playlist') = IdsOf(playlist)
                     /\ \A e \in playlist, f \in playlist' : e.id = f.id => e.pos = f.pos]_vars
    BY <1>1 DEF Locked
  <1>3. QED BY <1>2, StoreInvHolds, PTL DEF Spec, SingleLocks

-----------------------------------------------------------------------------
(* Counting.                                                               *)

LEMMA OneToOne ==
  ASSUME NEW S, IsFiniteSet(S), NEW T, NEW f \in [S -> T],
         \A x, y \in S : f[x] = f[y] => x = y,
         \A t \in T : \E x \in S : f[x] = t
  PROVE  IsFiniteSet(T) /\ Cardinality(T) = Cardinality(S)
  <1>1. f \in Bijection(S, T) BY DEF Bijection, Injection, Surjection, IsInjective
  <1>2. QED BY <1>1, FS_Bijection DEF ExistsBijection

\* Distinct numbers up to n: there are at most n, and n of them are all.
LEMMA IntoInterval ==
  ASSUME NEW S, NEW n \in Nat, NEW f \in [S -> 1..n],
         \A x, y \in S : f[x] = f[y] => x = y
  PROVE  /\ IsFiniteSet(S) /\ Cardinality(S) <= n
         /\ Cardinality(S) = n => \A k \in 1..n : \E x \in S : f[x] = k
  <1>1. f \in Injection(S, 1..n) BY DEF Injection, IsInjective
  <1>2. IsFiniteSet(1..n) /\ Cardinality(1..n) = n BY FS_Interval
  <1>3. /\ IsFiniteSet(S) /\ Cardinality(S) <= n
        /\ Cardinality(S) = n => f \in Surjection(S, 1..n)
    BY <1>1, <1>2, FS_Injection
  <1>4. QED BY <1>3 DEF Surjection

\* In a finite total order the count of what is not above tells elements apart.
LEMMA Ranks ==
  ASSUME NEW S, IsFiniteSet(S), NEW upTo \in [S -> SUBSET S],
         \A e \in S : e \in upTo[e],
         \A e, f \in S : e # f =>
            \/ upTo[f] \subseteq upTo[e] /\ e \notin upTo[f]
            \/ upTo[e] \subseteq upTo[f] /\ f \notin upTo[e]
  PROVE  /\ Cardinality(S) \in Nat
         /\ \A e \in S : Cardinality(upTo[e]) \in 1..Cardinality(S)
         /\ \A e, f \in S : Cardinality(upTo[e]) = Cardinality(upTo[f]) => e = f
         /\ \A e, f \in S : e # f /\ e \in upTo[f] =>
                Cardinality(upTo[e]) < Cardinality(upTo[f])
  <1>1. Cardinality(S) \in Nat BY FS_CardinalityType
  <1>2. \A e \in S : /\ IsFiniteSet(upTo[e]) /\ Cardinality(upTo[e]) <= Cardinality(S)
                     /\ Cardinality(upTo[e]) \in Nat
    BY FS_Subset, FS_CardinalityType
  <1>3. \A e \in S : Cardinality(upTo[e]) # 0 BY <1>2, FS_EmptySet
  <1>4. ASSUME NEW e \in S, NEW f \in S, upTo[f] \subseteq upTo[e], e \notin upTo[f]
        PROVE  Cardinality(upTo[f]) < Cardinality(upTo[e])
    <2>1. upTo[f] \in SUBSET upTo[e] /\ upTo[f] # upTo[e] BY <1>4
    <2>2. /\ Cardinality(upTo[f]) <= Cardinality(upTo[e])
          /\ Cardinality(upTo[f]) # Cardinality(upTo[e])
      BY <1>2, <2>1, FS_Subset
    <2>3. QED BY <1>2, <2>2
  <1>5. \A e, f \in S : e # f => \/ Cardinality(upTo[f]) < Cardinality(upTo[e])
                                 \/ Cardinality(upTo[e]) < Cardinality(upTo[f])
    BY <1>4
  <1>6. \A e, f \in S : Cardinality(upTo[e]) = Cardinality(upTo[f]) => e = f
    BY <1>2, <1>5
  <1>7. \A e, f \in S : e # f /\ e \in upTo[f] =>
                Cardinality(upTo[e]) < Cardinality(upTo[f])
    BY <1>4
  <1>8. QED BY <1>1, <1>2, <1>3, <1>6, <1>7

-----------------------------------------------------------------------------
(* Positions.                                                              *)

\* Entries at different positions, and entries at the positions 1..n.
Spread(list) ==
  /\ IsFiniteSet(list)
  /\ \A e \in list : e.pos \in Int
  /\ \A e, f \in list : e.pos = f.pos => e = f

Numbered(list) == Spread(list) /\ \A e \in list : e.pos \in 1..Cardinality(list)

LEMMA NumberedIsContiguous ==
  ASSUME NEW list, Numbered(list)
  PROVE  {e.pos : e \in list} = 1..Cardinality(list)
  <1> DEFINE f == [e \in list |-> e.pos]
             n == Cardinality(list)
  <1>1. n \in Nat BY FS_CardinalityType DEF Numbered, Spread
  <1>2. f \in [list -> 1..n] /\ \A x, y \in list : f[x] = f[y] => x = y
    BY DEF Numbered, Spread
  <1>3. \A x \in list : f[x] = x.pos OBVIOUS
  <1> HIDE DEF f
  <1>4. \A k \in 1..n : \E x \in list : f[x] = k BY <1>1, <1>2, IntoInterval
  <1>5. QED BY <1>2, <1>3, <1>4

LEMMA SpreadOfPart ==
  ASSUME NEW list, Spread(list), NEW part \in SUBSET list
  PROVE  Spread(part) /\ Cardinality(part) <= Cardinality(list)
  BY FS_Subset DEF Spread

LEMMA PositionRanks ==
  ASSUME NEW list, Spread(list)
  PROVE  LET rank(e) == Cardinality({f \in list : f.pos <= e.pos}) IN
         /\ Cardinality(list) \in Nat
         /\ \A e \in list : rank(e) \in 1..Cardinality(list)
         /\ \A e, f \in list : rank(e) = rank(f) => e = f
         /\ \A e, f \in list : rank(e) < rank(f) => e.pos < f.pos
  <1> DEFINE upTo == [e \in list |-> {f \in list : f.pos <= e.pos}]
  <1>1. upTo \in [list -> SUBSET list] OBVIOUS
  <1>2. \A e \in list : e \in upTo[e] BY DEF Spread
  <1>3. \A e, f \in list : e # f =>
            \/ upTo[f] \subseteq upTo[e] /\ e \notin upTo[f]
            \/ upTo[e] \subseteq upTo[f] /\ f \notin upTo[e]
    <2> TAKE e, f \in list
    <2> HAVE e # f
    <2>1. e.pos < f.pos \/ f.pos < e.pos BY DEF Spread
    <2>2. \A g \in list : e.pos \in Int /\ f.pos \in Int /\ g.pos \in Int BY DEF Spread
    <2>3. CASE e.pos < f.pos BY <2>2, <2>3
    <2>4. CASE f.pos < e.pos BY <2>2, <2>4
    <2>5. QED BY <2>1, <2>3, <2>4
  <1>4. \A e \in list : upTo[e] = {f \in list : f.pos <= e.pos} OBVIOUS
  <1> HIDE DEF upTo
  <1>5. /\ Cardinality(list) \in Nat
        /\ \A e \in list : Cardinality(upTo[e]) \in 1..Cardinality(list)
        /\ \A e, f \in list : Cardinality(upTo[e]) = Cardinality(upTo[f]) => e = f
        /\ \A e, f \in list : e # f /\ e \in upTo[f] =>
               Cardinality(upTo[e]) < Cardinality(upTo[f])
    BY <1>1, <1>2, <1>3, Ranks DEF Spread
  <1>6. ASSUME NEW e \in list, NEW f \in list, Cardinality(upTo[e]) < Cardinality(upTo[f])
        PROVE  e.pos < f.pos
    <2>1. Cardinality(upTo[e]) \in Int /\ Cardinality(upTo[f]) \in Int BY <1>5
    <2>2. f \notin upTo[e] BY <1>5, <1>6, <2>1
    <2>3. ~(f.pos <= e.pos) BY <1>4, <2>2
    <2>4. QED BY <2>3 DEF Spread
  <1>7. QED BY <1>4, <1>5, <1>6

\* A list whose entries are put at other positions, distinct and up to n.
LEMMA Placed ==
  ASSUME NEW list, IsFiniteSet(list), NEW T, NEW put \in [list -> T],
         \A e \in list : put[e].pos \in 1..Cardinality(list),
         \A e, f \in list : put[e].pos = put[f].pos => e = f,
         \A t \in T : \E e \in list : put[e] = t
  PROVE  Numbered(T) /\ Cardinality(T) = Cardinality(list)
  <1>1. \A e, f \in list : put[e] = put[f] => e = f OBVIOUS
  <1>2. IsFiniteSet(T) /\ Cardinality(T) = Cardinality(list) BY <1>1, OneToOne
  <1>3. Cardinality(list) \in Nat BY FS_CardinalityType
  <1>4. \A t \in T : t.pos \in 1..Cardinality(T) BY <1>2
  <1>5. \A t, u \in T : t.pos = u.pos => t = u OBVIOUS
  <1>6. QED BY <1>2, <1>3, <1>4, <1>5 DEF Numbered, Spread

LEMMA RenumberedIsNumbered ==
  ASSUME NEW list, Spread(list), \A e \in list : IsEntry(e)
  PROVE  Numbered(Renumbered(list)) /\ Cardinality(Renumbered(list)) = Cardinality(list)
  <1> DEFINE rank(e) == Cardinality({f \in list : f.pos <= e.pos})
             put == [e \in list |-> [e EXCEPT !.pos = rank(e)]]
  <1>1. /\ \A e \in list : rank(e) \in 1..Cardinality(list)
        /\ \A e, f \in list : rank(e) = rank(f) => e = f
    BY PositionRanks
  <1>2. Renumbered(list) = {[e EXCEPT !.pos = rank(e)] : e \in list} BY DEF Renumbered
  <1> HIDE DEF rank
  <1>3. \A e \in list : put[e].pos = rank(e) BY DEF IsEntry
  <1>4. /\ put \in [list -> Renumbered(list)]
        /\ \A t \in Renumbered(list) : \E e \in list : put[e] = t
    BY <1>2
  <1> HIDE DEF put
  <1>5. /\ \A e \in list : put[e].pos \in 1..Cardinality(list)
        /\ \A e, f \in list : put[e].pos = put[f].pos => e = f
    BY <1>1, <1>3
  <1>6. QED BY <1>4, <1>5, Placed DEF Spread

LEMMA StoredIsNumbered ==
  ASSUME NEW list, NEW keep, Numbered(list), Sound(list, keep)
  PROVE  /\ Numbered(Stored(list, keep))
         /\ Cardinality(Stored(list, keep)) <= Cardinality(list)
         /\ freeform => Cardinality(Stored(list, keep)) =
                           Cardinality(list \ Dropped(list, keep))
  <1> DEFINE kept == list \ Dropped(list, keep)
  <1>1. Cardinality(list) \in Nat BY FS_CardinalityType DEF Numbered, Spread
  <1>2. Spread(kept) /\ Cardinality(kept) <= Cardinality(list)
    BY SpreadOfPart DEF Numbered
  <1>3. \A e \in kept : IsEntry(e) BY DEF Sound
  <1>4. Dropped(list, keep) = {} => kept = list OBVIOUS
  <1>5. Stored(list, keep) = IF freeform /\ Dropped(list, keep) # {}
                             THEN Renumbered(kept) ELSE list
    BY DEF Stored, Pruned
  <1> HIDE DEF kept
  <1>6. Numbered(Renumbered(kept)) /\ Cardinality(Renumbered(kept)) = Cardinality(kept)
    BY <1>2, <1>3, RenumberedIsNumbered
  <1>7. /\ Numbered(Stored(list, keep))
        /\ Cardinality(Stored(list, keep)) <= Cardinality(list)
        /\ freeform => Cardinality(Stored(list, keep)) = Cardinality(kept)
    BY <1>1, <1>2, <1>4, <1>5, <1>6
  <1>8. QED BY <1>7 DEF kept

\* One more entry, at the end.
LEMMA HighestIsLength ==
  ASSUME NEW list, Numbered(list)
  PROVE  Highest(list) = Cardinality(list)
  <1> DEFINE n == Cardinality(list)
  <1>1. n \in Nat /\ (n = 0 <=> list = {})
    BY FS_CardinalityType, FS_EmptySet DEF Numbered, Spread
  <1>2. {e.pos : e \in list} = 1..n BY NumberedIsContiguous
  <1>3. CASE list = {} BY <1>1, <1>3 DEF Highest
  <1>4. CASE list # {}
    <2>1. n \in {e.pos : e \in list} BY <1>1, <1>2, <1>4
    <2>2. \A e \in list : e.pos \in 1..n BY DEF Numbered
    <2>3. \A p \in {e.pos : e \in list} : (\A e \in list : e.pos <= p) => p = n
      BY <1>1, <1>2, <2>1, <2>2
    <2>4. \A e \in list : e.pos <= n BY <1>1, <2>2
    <2> HIDE DEF n
    <2>5. Highest(list) = CHOOSE p \in {e.pos : e \in list} : \A e \in list : e.pos <= p
      BY <1>4 DEF Highest
    <2>6. QED BY <2>1, <2>3, <2>4, <2>5 DEF n
  <1>5. QED BY <1>3, <1>4

LEMMA AppendedIsNumbered ==
  ASSUME NEW list, Numbered(list), NEW e, e.pos = Highest(list) + 1
  PROVE  /\ Numbered(list \cup {e})
         /\ Cardinality(list \cup {e}) = Cardinality(list) + 1
  <1> DEFINE n == Cardinality(list)
  <1>1. n \in Nat BY FS_CardinalityType DEF Numbered, Spread
  <1>2. e.pos = n + 1 BY HighestIsLength
  <1>3. \A f \in list : f.pos \in 1..n /\ f # e BY <1>1, <1>2 DEF Numbered
  <1>4. IsFiniteSet(list \cup {e}) /\ Cardinality(list \cup {e}) = n + 1
    BY <1>3, FS_AddElement DEF Numbered, Spread
  <1>5. \A f \in list \cup {e} : f.pos \in 1..(n + 1) BY <1>1, <1>2, <1>3
  <1>6. \A f, g \in list \cup {e} : f.pos = g.pos => f = g
    BY <1>1, <1>2, <1>3 DEF Numbered, Spread
  <1>7. QED BY <1>4, <1>5, <1>6 DEF Numbered, Spread

-----------------------------------------------------------------------------
(* A merge.                                                                *)

LEMMA FirstMentionIs ==
  ASSUME NEW batch \in Seq(Candidate), NEW v \in NewVideos(batch)
  PROVE  /\ FirstMention(batch, v) \in DOMAIN batch
         /\ batch[FirstMention(batch, v)].video = v
  <1>1. DOMAIN batch \subseteq Nat OBVIOUS
  <1>2. Mentions(batch, v) \in SUBSET Nat /\ Mentions(batch, v) # {}
    BY <1>1 DEF Mentions, NewVideos
  <1>3. \E n \in Mentions(batch, v) : \A m \in Mentions(batch, v) : n <= m
    <2>1. \E n \in Mentions(batch, v) :
            \A m \in Mentions(batch, v) : ~(<<m, n>> \in OpToRel(<, Nat))
      BY <1>2, NatLessThanWellFounded, WFMin
    <2>2. PICK n \in Mentions(batch, v) : \A m \in Mentions(batch, v) : ~(m < n)
      BY <1>2, <2>1 DEF OpToRel
    <2>3. \A m \in Mentions(batch, v) : m \in Nat BY <1>2
    <2>4. QED BY <2>2, <2>3
  <1>4. FirstMention(batch, v) \in Mentions(batch, v) BY <1>3 DEF FirstMention
  <1>5. QED BY <1>4 DEF Mentions

\* The newcomers are told apart by their first mention, and none is planned
\* for less than once.
LEMMA NewVideosCounted ==
  ASSUME NEW batch \in Seq(Candidate)
  PROVE  /\ IsFiniteSet(NewVideos(batch))
         /\ \A v, w \in NewVideos(batch) :
               FirstMention(batch, v) = FirstMention(batch, w) => v = w
         /\ \A v \in NewVideos(batch) : FirstMention(batch, v) \in Int
         /\ Cardinality(NewVideos(batch)) <= InsertsPlanned(batch)
         /\ Cardinality(NewVideos(batch)) \in Nat /\ InsertsPlanned(batch) \in Nat
  <1> DEFINE planned == {n \in DOMAIN batch : batch[n].video \in NewVideos(batch)}
             first == [v \in NewVideos(batch) |-> FirstMention(batch, v)]
  <1>1. \A v \in NewVideos(batch) :
          FirstMention(batch, v) \in planned /\ batch[FirstMention(batch, v)].video = v
    BY FirstMentionIs
  <1>2. DOMAIN batch = 1..Len(batch) /\ Len(batch) \in Nat OBVIOUS
  <1>3. IsFiniteSet(DOMAIN batch) BY <1>2, FS_Interval
  <1>4. planned \in SUBSET DOMAIN batch OBVIOUS
  <1>5. InsertsPlanned(batch) = Cardinality(planned) BY DEF InsertsPlanned
  <1> HIDE DEF planned
  <1>6. IsFiniteSet(planned) BY <1>3, <1>4, FS_Subset
  <1>7. first \in [NewVideos(batch) -> planned] BY <1>1
  <1>8. \A v, w \in NewVideos(batch) : first[v] = first[w] => v = w BY <1>1
  <1> HIDE DEF first
  <1>9. first \in Injection(NewVideos(batch), planned)
    BY <1>7, <1>8 DEF Injection, IsInjective
  <1>10. IsFiniteSet(NewVideos(batch)) /\ Cardinality(NewVideos(batch)) <= Cardinality(planned)
    BY <1>6, <1>9, FS_Injection
  <1>11. Cardinality(NewVideos(batch)) \in Nat /\ Cardinality(planned) \in Nat
    BY <1>6, <1>10, FS_CardinalityType
  <1>12. \A v \in NewVideos(batch) : FirstMention(batch, v) \in Int BY <1>1, <1>2, <1>4
  <1>13. QED BY <1>1, <1>5, <1>10, <1>11, <1>12

LEMMA JoinedIsNumbered ==
  ASSUME NEW old, Numbered(old), NEW new, IsFiniteSet(new),
         \A e \in new : e.pos \in (Cardinality(old) + 1)..(Cardinality(old) + Cardinality(new)),
         \A e, f \in new : e.pos = f.pos => e = f
  PROVE  /\ Numbered(old \cup new)
         /\ Cardinality(old \cup new) = Cardinality(old) + Cardinality(new)
  <1> DEFINE n == Cardinality(old)
             k == Cardinality(new)
             all == old \cup new
  <1>1. n \in Nat /\ k \in Nat BY FS_CardinalityType DEF Numbered, Spread
  <1>2. \A e \in old : e.pos \in 1..n BY DEF Numbered
  <1>3. \A e \in old, f \in new : e.pos # f.pos BY <1>1, <1>2
  <1>4. old \cap new = {} BY <1>3
  <1>5. IsFiniteSet(all) /\ Cardinality(all) = n + k
    <2>1. IsFiniteSet(old) BY DEF Numbered, Spread
    <2>2. IsFiniteSet(all) /\ Cardinality(all) = n + k - Cardinality(old \cap new)
      BY <2>1, FS_Union
    <2>3. Cardinality(old \cap new) = 0 BY <1>4, FS_EmptySet
    <2>4. QED BY <1>1, <2>2, <2>3
  <1>6. \A e \in all : e.pos \in 1..(n + k) BY <1>1, <1>2
  <1>7. \A e, f \in all : e.pos = f.pos => e = f BY <1>3 DEF Numbered, Spread
  <1> HIDE DEF all, n, k
  <1>8. Numbered(all) BY <1>1, <1>5, <1>6, <1>7 DEF Numbered, Spread
  <1>9. QED BY <1>5, <1>8 DEF all, n, k

LEMMA RefreshedInPlace ==
  ASSUME NEW e, IsEntry(e), NEW batch
  PROVE  /\ Refreshed(e, batch).id = e.id /\ Refreshed(e, batch).pos = e.pos
         /\ Refreshed(e, batch).source = e.source /\ Refreshed(e, batch).addedAt = e.addedAt
  <1>1. CASE e.source = "curated" BY <1>1 DEF Refreshed
  <1>2. CASE e.source # "curated"
    <2> DEFINE label == LastLabel(batch, e.video, e.label)
    <2>1. Refreshed(e, batch) = [e EXCEPT !.label = label] BY <1>2 DEF Refreshed
    <2> HIDE DEF label
    <2>2. QED BY <2>1 DEF IsEntry
  <1>3. QED BY <1>1, <1>2

LEMMA RefreshedVideo ==
  ASSUME NEW e, IsEntry(e), NEW batch
  PROVE  Refreshed(e, batch).video = e.video
  <1> DEFINE label == LastLabel(batch, e.video, e.label)
  <1>1. Refreshed(e, batch) = e \/ Refreshed(e, batch) = [e EXCEPT !.label = label]
    BY DEF Refreshed
  <1> HIDE DEF label
  <1>2. QED BY <1>1 DEF IsEntry

LEMMA MergedIsNumbered ==
  ASSUME StoreInv, Numbered(playlist), NEW batch \in Batches, NEW ids
  PROVE  /\ Numbered(Merged(batch, ids))
         /\ Cardinality(Merged(batch, ids)) =
              Cardinality(playlist) + Cardinality(NewVideos(batch))
         /\ \A v \in NewVideos(batch) : Added(v, ids[v], batch).pos > Cardinality(playlist)
  <1> DEFINE V == NewVideos(batch)
             old == {Refreshed(e, batch) : e \in playlist}
             new == {Added(v, ids[v], batch) : v \in V}
             n == Cardinality(playlist)
             upTo == [v \in V |-> {w \in V : FirstMention(batch, w) <= FirstMention(batch, v)}]
  <1>1. batch \in Seq(Candidate) BY BatchesAssumption
  <1>2. /\ IsFiniteSet(V) /\ \A v \in V : FirstMention(batch, v) \in Int
        /\ \A v, w \in V : FirstMention(batch, v) = FirstMention(batch, w) => v = w
    BY <1>1, NewVideosCounted
  <1>3. Numbered(old) /\ Cardinality(old) = n
    <2> DEFINE put == [e \in playlist |-> Refreshed(e, batch)]
    <2>1. put \in [playlist -> old] /\ \A t \in old : \E e \in playlist : put[e] = t OBVIOUS
    <2>2. \A e \in playlist : put[e].pos = e.pos
      BY RefreshedInPlace DEF StoreInv, Shape
    <2> HIDE DEF put, old
    <2>3. /\ \A e \in playlist : put[e].pos \in 1..Cardinality(playlist)
          /\ \A e, f \in playlist : put[e].pos = put[f].pos => e = f
      BY <2>2 DEF Numbered, Spread
    <2>4. QED BY <2>1, <2>3, Placed DEF Numbered, Spread
  <1>4. /\ Cardinality(V) \in Nat
        /\ \A v \in V : Cardinality(upTo[v]) \in 1..Cardinality(V)
        /\ \A v, w \in V : Cardinality(upTo[v]) = Cardinality(upTo[w]) => v = w
    <2>1. upTo \in [V -> SUBSET V] /\ \A v \in V : v \in upTo[v] BY <1>2
    <2>2. \A v, w \in V : v # w =>
            \/ upTo[w] \subseteq upTo[v] /\ v \notin upTo[w]
            \/ upTo[v] \subseteq upTo[w] /\ w \notin upTo[v]
      <3> HIDE DEF V
      <3> TAKE v, w \in V
      <3> HAVE v # w
      <3> DEFINE at(u) == FirstMention(batch, u)
      <3>1. \A u \in V : at(u) \in Int BY <1>2
      <3>2. at(v) < at(w) \/ at(w) < at(v) BY <1>2, <3>1
      <3>3. /\ upTo[v] = {u \in V : at(u) <= at(v)} /\ upTo[w] = {u \in V : at(u) <= at(w)}
        OBVIOUS
      <3> HIDE DEF at, upTo
      <3>4. QED BY <3>1, <3>2, <3>3
    <2> HIDE DEF upTo, V
    <2>3. QED BY <1>2, <2>1, <2>2, Ranks
  <1>5. \A v \in V : Added(v, ids[v], batch).pos = n + Cardinality(upTo[v])
    BY HighestIsLength DEF Added
  <1>6. n \in Nat BY FS_CardinalityType DEF Numbered, Spread
  <1>7. IsFiniteSet(new) /\ Cardinality(new) = Cardinality(V)
    <2> DEFINE put == [v \in V |-> Added(v, ids[v], batch)]
    <2>1. put \in [V -> new] /\ \A t \in new : \E v \in V : put[v] = t OBVIOUS
    <2>2. \A v, w \in V : put[v] = put[w] => v = w
      <3> TAKE v, w \in V
      <3>1. put[v].pos = n + Cardinality(upTo[v]) /\ put[w].pos = n + Cardinality(upTo[w])
        BY <1>5
      <3>2. Cardinality(upTo[v]) \in Int /\ Cardinality(upTo[w]) \in Int BY <1>4
      <3> HIDE DEF put, upTo, n
      <3>3. QED BY <1>4, <1>6, <3>1, <3>2
    <2> HIDE DEF put, new, V
    <2>3. QED BY <1>2, <2>1, <2>2, OneToOne
  <1>8. \A e \in new : \E v \in V : e = Added(v, ids[v], batch) /\ e.pos = n + Cardinality(upTo[v])
    BY <1>5
  <1>9. Merged(batch, ids) = old \cup new BY DEF Merged
  <1> HIDE DEF V, old, new, n, upTo
  <1>10. \A e \in new : e.pos \in (n + 1)..(n + Cardinality(new))
    BY <1>4, <1>6, <1>7, <1>8
  <1>11. \A e, f \in new : e.pos = f.pos => e = f
    <2> TAKE e, f \in new
    <2> HAVE e.pos = f.pos
    <2>1. PICK v \in V : e = Added(v, ids[v], batch) /\ e.pos = n + Cardinality(upTo[v]) BY <1>8
    <2>2. PICK w \in V : f = Added(w, ids[w], batch) /\ f.pos = n + Cardinality(upTo[w]) BY <1>8
    <2>3. Cardinality(upTo[v]) \in Int /\ Cardinality(upTo[w]) \in Int BY <1>4
    <2>4. Cardinality(upTo[v]) = Cardinality(upTo[w]) BY <1>6, <2>1, <2>2, <2>3
    <2>5. QED BY <1>4, <2>1, <2>2, <2>4
  <1>12. Numbered(old \cup new) /\ Cardinality(old \cup new) = n + Cardinality(new)
    BY <1>3, <1>7, <1>10, <1>11, JoinedIsNumbered
  <1>13. \A v \in V : Added(v, ids[v], batch).pos > n BY <1>4, <1>5, <1>6
  <1>14. QED BY <1>7, <1>9, <1>12, <1>13 DEF V, n

-----------------------------------------------------------------------------
(* The steps, counted.                                                     *)

LineInv == Numbered(playlist) /\ Cardinality(playlist) <= PerRoomCap

LEMMA PlaylistCounted ==
  ASSUME LineInv
  PROVE  Cardinality(playlist) \in Nat /\ PerRoomCap \in Nat
  BY FS_CardinalityType, CapsAssumption DEF LineInv, Numbered, Spread

\* A viewer's write adds entries up to the room's cap, and to a freeform room
\* up to its own.
LEMMA StoredFits ==
  ASSUME NEW list, NEW keep, Numbered(list), Sound(list, keep), Storable(list, keep),
         Cardinality(list) <= PerRoomCap, playlist' = Stored(list, keep)
  PROVE  LineInv' /\ (freeform => Cardinality(playlist') <= FreeformCap)
  <1>1. /\ Numbered(Stored(list, keep))
        /\ Cardinality(Stored(list, keep)) <= Cardinality(list)
        /\ freeform => Cardinality(Stored(list, keep)) = Cardinality(list \ Dropped(list, keep))
    BY StoredIsNumbered
  <1>2. Cardinality(list) \in Nat /\ Cardinality(Stored(list, keep)) \in Nat /\ PerRoomCap \in Nat
    BY <1>1, FS_CardinalityType, CapsAssumption DEF Numbered, Spread
  <1>3. Cardinality(playlist') <= PerRoomCap BY <1>1, <1>2
  <1>4. freeform => Cardinality(playlist') <= FreeformCap
    BY <1>1 DEF Storable, Prunable
  <1>5. QED BY <1>1, <1>3, <1>4 DEF LineInv

LEMMA MergeCounted ==
  ASSUME StoreInv, LineInv, NEW batch \in Batches, Merge(batch)
  PROVE  LineInv' /\ (freeform => Cardinality(playlist') <= FreeformCap)
  <1>1. PICK ids \in [NewVideos(batch) -> FreshIds] :
          /\ \A v, w \in NewVideos(batch) : ids[v] = ids[w] => v = w
          /\ Storable(Merged(batch, ids), cursor)
          /\ playlist' = Stored(Merged(batch, ids), cursor)
    BY DEF Merge
  <1>2. Sound(Merged(batch, ids), cursor) BY <1>1, MergedIsSound
  <1>3. /\ Numbered(Merged(batch, ids))
        /\ Cardinality(Merged(batch, ids)) =
             Cardinality(playlist) + Cardinality(NewVideos(batch))
    BY MergedIsNumbered DEF LineInv
  <1>4. Cardinality(Merged(batch, ids)) <= PerRoomCap
    <2>1. batch \in Seq(Candidate) BY BatchesAssumption
    <2>2. Cardinality(playlist) + InsertsPlanned(batch) <= PerRoomCap BY DEF Merge, HasRoom
    <2>3. QED BY <1>3, <2>1, <2>2, NewVideosCounted, PlaylistCounted
  <1>5. QED BY <1>1, <1>2, <1>3, <1>4, StoredFits

LEMMA AppendCounted ==
  ASSUME StoreInv, LineInv, NEW v \in Videos, v \notin VideosOf(playlist), AppendNew(v)
  PROVE  LineInv' /\ (freeform => Cardinality(playlist') <= FreeformCap)
  <1>1. PICK id \in FreshIds :
          LET entry == [id |-> id, video |-> v, pos |-> Highest(playlist) + 1,
                        source |-> "auto_appended", label |-> NoLabel, addedAt |-> now] IN
          /\ Storable(playlist \cup {entry}, id)
          /\ playlist' = Stored(playlist \cup {entry}, id)
    BY DEF AppendNew
  <1> DEFINE entry == [id |-> id, video |-> v, pos |-> Highest(playlist) + 1,
                       source |-> "auto_appended", label |-> NoLabel, addedAt |-> now]
             list == playlist \cup {entry}
  <1>2. Storable(list, id) /\ playlist' = Stored(list, id) BY <1>1
  <1>3. /\ IsEntry(entry) /\ entry.id = id /\ entry.pos = Highest(playlist) + 1
        /\ \A e \in playlist : e.id # entry.id /\ e.video # entry.video
    BY DEF IsEntry, FreshIds, IdsOf, VideosOf
  <1> HIDE DEF entry
  <1>4. Sound(list, id)
    BY <1>3 DEF FreshIds, StoreInv, Shape, EntriesUnique, Sound
  <1>5. Numbered(list) /\ Cardinality(list) = Cardinality(playlist) + 1
    BY <1>3, AppendedIsNumbered DEF LineInv
  <1>6. Cardinality(list) <= PerRoomCap BY <1>5 DEF AppendNew, HasRoom
  <1> HIDE DEF list
  <1>7. QED BY <1>2, <1>4, <1>5, <1>6, StoredFits

LEMMA RemoveCounted ==
  ASSUME StoreInv, LineInv, NEW id \in Ids, RemoveEntry(id)
  PROVE  LineInv'
  <1> DEFINE left == {e \in playlist : e.id # id}
  <1>1. Spread(left) /\ Cardinality(left) <= Cardinality(playlist)
    BY SpreadOfPart DEF LineInv, Numbered
  <1>2. \A e \in left : IsEntry(e) BY DEF StoreInv, Shape
  <1>3. playlist' = Renumbered(left) BY DEF RemoveEntry
  <1>4. Cardinality(left) \in Nat BY <1>1, FS_CardinalityType DEF Spread
  <1> HIDE DEF left
  <1>5. Numbered(playlist') /\ Cardinality(playlist') = Cardinality(left)
    BY <1>1, <1>2, <1>3, RenumberedIsNumbered
  <1>6. Cardinality(playlist') <= PerRoomCap BY <1>1, <1>4, <1>5, PlaylistCounted DEF LineInv
  <1>7. QED BY <1>5, <1>6 DEF LineInv

\* An edit that gives each entry another place, or none a new one.
LEMMA PlacedCounted ==
  ASSUME LineInv, NEW put \in [playlist -> playlist'],
         \A e \in playlist : put[e].pos \in 1..Cardinality(playlist),
         \A e, f \in playlist : put[e].pos = put[f].pos => e = f,
         \A t \in playlist' : \E e \in playlist : put[e] = t
  PROVE  LineInv'
  <1>1. Numbered(playlist') /\ Cardinality(playlist') = Cardinality(playlist)
    BY Placed DEF LineInv, Numbered, Spread
  <1>2. QED BY <1>1 DEF LineInv

LEMMA ReorderCounted ==
  ASSUME StoreInv, LineInv, NEW order \in Orders, ReorderEntries(order)
  PROVE  LineInv'
  <1> DEFINE put == [e \in playlist |-> [e EXCEPT !.pos = order[e.id]]]
  <1>1. playlist' = {[e EXCEPT !.pos = order[e.id]] : e \in playlist} BY DEF ReorderEntries
  <1>2. put \in [playlist -> playlist'] /\ \A t \in playlist' : \E e \in playlist : put[e] = t
    BY <1>1
  <1>3. \A e \in playlist : put[e].pos = order[e.id] BY DEF StoreInv, Shape, IsEntry
  <1>4. \A e \in playlist : order[e.id] \in 1..Cardinality(playlist) BY DEF Orders, IdsOf
  <1>5. \A e, f \in playlist : order[e.id] = order[f.id] => e = f
    BY DEF Orders, IdsOf, StoreInv, EntriesUnique
  <1> HIDE DEF put
  <1>6. QED BY <1>2, <1>3, <1>4, <1>5, PlacedCounted

LEMMA PatchedInPlace ==
  ASSUME NEW e, IsEntry(e), NEW label, NEW source
  PROVE  /\ Patched(e, label, source).pos = e.pos
         /\ \A target : [Patched(e, label, source) EXCEPT !.pos = target].pos = target
  <1> DEFINE g == Patched(e, label, source)
  <1>1. PICK l, s : g = [e EXCEPT !.label = l, !.source = s] BY DEF Patched
  <1> HIDE DEF g
  <1>2. g.pos = e.pos /\ \A target : [g EXCEPT !.pos = target].pos = target
    BY <1>1 DEF IsEntry
  <1>3. QED BY <1>2 DEF g

LEMMA PatchCounted ==
  ASSUME StoreInv, LineInv, NEW e \in playlist, NEW label, NEW source,
         playlist' = (playlist \ {e}) \cup {Patched(e, label, source)}
  PROVE  LineInv'
  <1> DEFINE g == Patched(e, label, source)
             put == [f \in playlist |-> IF f = e THEN g ELSE f]
  <1>1. g.pos = e.pos BY PatchedInPlace DEF StoreInv, Shape
  <1> HIDE DEF g
  <1>2. playlist' = (playlist \ {e}) \cup {g} BY DEF g
  <1>3. put \in [playlist -> playlist'] /\ \A t \in playlist' : \E f \in playlist : put[f] = t
    BY <1>2
  <1>4. \A f \in playlist : put[f].pos = f.pos BY <1>1
  <1> HIDE DEF put
  <1>5. \A f \in playlist : put[f].pos \in 1..Cardinality(playlist)
    BY <1>4 DEF LineInv, Numbered
  <1>6. \A f, h \in playlist : put[f].pos = put[h].pos => f = h
    BY <1>4 DEF LineInv, Numbered, Spread
  <1>7. QED BY <1>3, <1>5, <1>6, PlacedCounted

\* The moved entry takes the target, and the others close up around it.
LEMMA MoveCounted ==
  ASSUME StoreInv, LineInv, NEW e \in playlist, NEW target \in 1..Cardinality(playlist),
         NEW g, g.pos = target, playlist' = Moved(e, target) \cup {g}
  PROVE  LineInv'
  <1> DEFINE others == playlist \ {e}
             n == Cardinality(playlist)
             rank(f) == Cardinality({h \in others : h.pos <= f.pos})
             place(f) == IF rank(f) < target THEN rank(f) ELSE rank(f) + 1
             put == [f \in playlist |-> IF f = e THEN g ELSE [f EXCEPT !.pos = place(f)]]
  <1>1. Spread(others) /\ Cardinality(others) = n - 1
    BY SpreadOfPart, FS_RemoveElement DEF LineInv, Numbered, Spread
  <1>2. n \in Nat BY PlaylistCounted
  <1>3. Moved(e, target) = {[f EXCEPT !.pos = place(f)] : f \in others} BY DEF Moved
  <1>4. /\ \A f \in others : rank(f) \in 1..Cardinality(others)
        /\ \A f, h \in others : rank(f) = rank(h) => f = h
    <2> HIDE DEF others
    <2>1. QED BY <1>1, PositionRanks
  <1>5. \A f \in playlist : f # e => f \in others OBVIOUS
  <1> HIDE DEF rank
  <1>6. \A f \in others : place(f) \in 1..n /\ place(f) # target
    <2> TAKE f \in others
    <2>1. rank(f) \in 1..(n - 1) BY <1>1, <1>4
    <2> HIDE DEF others, n
    <2>2. target \in Nat BY <1>2 DEF n
    <2>3. QED BY <1>2, <2>1, <2>2
  <1>7. ASSUME NEW f \in others, NEW h \in others, place(f) = place(h)
        PROVE  f = h
    <2>1. rank(f) \in Nat /\ rank(h) \in Nat BY <1>1, <1>2, <1>4
    <2>2. target \in Nat OBVIOUS
    <2>3. rank(f) = rank(h) BY <1>7, <2>1, <2>2
    <2>4. QED BY <1>4, <2>3
  <1> HIDE DEF place
  <1>8. put \in [playlist -> playlist'] /\ \A t \in playlist' : \E f \in playlist : put[f] = t
    BY <1>3
  <1>9. /\ put[e].pos = target
        /\ \A f \in others : put[f].pos = place(f)
    BY DEF StoreInv, Shape, IsEntry
  <1> HIDE DEF put, others, n
  <1>10. \A f \in playlist : put[f].pos \in 1..Cardinality(playlist)
    BY <1>5, <1>6, <1>9 DEF n
  <1>11. \A f, h \in playlist : put[f].pos = put[h].pos => f = h
    <2> TAKE f, h \in playlist
    <2> HAVE put[f].pos = put[h].pos
    <2>1. CASE f = e BY <1>5, <1>6, <1>9, <2>1
    <2>2. CASE h = e BY <1>5, <1>6, <1>9, <2>2
    <2>3. CASE f # e /\ h # e BY <1>5, <1>7, <1>9, <2>3
    <2>4. QED BY <2>1, <2>2, <2>3
  <1>12. QED BY <1>8, <1>10, <1>11, PlacedCounted

LEMMA UpdateCounted ==
  ASSUME StoreInv, LineInv, NEW id \in Ids, NEW label, NEW source,
         NEW position \in (0..(PerRoomCap + 1)) \cup {Null},
         UpdateEntry(id, label, source, position)
  PROVE  LineInv'
  <1> DEFINE n == Cardinality(playlist)
             target == IF position > n THEN n ELSE IF position = 0 THEN 1 ELSE position
  <1>1. PICK e \in playlist :
          \/ playlist' = (playlist \ {e}) \cup {Patched(e, label, source)}
          \/ /\ position # Null
             /\ playlist' = Moved(e, target) \cup
                              {[Patched(e, label, source) EXCEPT !.pos = target]}
    BY DEF UpdateEntry
  <1>2. CASE playlist' = (playlist \ {e}) \cup {Patched(e, label, source)}
    BY <1>2, PatchCounted
  <1>3. CASE /\ position # Null
             /\ playlist' = Moved(e, target) \cup
                              {[Patched(e, label, source) EXCEPT !.pos = target]}
    <2> DEFINE g == [Patched(e, label, source) EXCEPT !.pos = target]
    <2>1. n \in Nat /\ PerRoomCap \in Nat BY PlaylistCounted
    <2>2. n # 0 BY FS_EmptySet DEF LineInv, Numbered, Spread
    <2>3. position \in Nat BY <1>3, <2>1
    <2>4. target \in 1..n BY <2>1, <2>2, <2>3
    <2> HIDE DEF target
    <2>5. g.pos = target BY PatchedInPlace DEF StoreInv, Shape
    <2>6. playlist' = Moved(e, target) \cup {g} BY <1>3
    <2> HIDE DEF g
    <2>7. QED BY <2>4, <2>5, <2>6, MoveCounted
  <1>4. QED BY <1>1, <1>2, <1>3

LEMMA LineInvInit == Init => LineInv
  <1> SUFFICES ASSUME Init PROVE LineInv OBVIOUS
  <1>1. PICK list \in InitialLists : \E ids \in [DOMAIN list -> Ids] :
          \E labels \in [DOMAIN list -> Labels \cup {NoLabel}] :
            playlist = {[id |-> ids[n], video |-> list[n], pos |-> n, source |-> "curated",
                         label |-> labels[n], addedAt |-> 0] : n \in DOMAIN list}
    BY DEF Init
  <1>2. PICK ids, labels :
            playlist = {[id |-> ids[n], video |-> list[n], pos |-> n, source |-> "curated",
                         label |-> labels[n], addedAt |-> 0] : n \in DOMAIN list}
    BY <1>1
  <1> DEFINE D == DOMAIN list
             put == [n \in D |-> [id |-> ids[n], video |-> list[n], pos |-> n,
                                   source |-> "curated", label |-> labels[n], addedAt |-> 0]]
  <1>3. D = 1..Len(list) /\ Len(list) \in Nat /\ Len(list) <= PerRoomCap
    BY BatchesAssumption
  <1>4. put \in [D -> playlist] /\ \A t \in playlist : \E n \in D : put[n] = t BY <1>2
  <1>5. \A n \in D : put[n].pos = n OBVIOUS
  <1>6. IsFiniteSet(D) /\ Cardinality(D) = Len(list)
    <2>1. \A k \in Nat : IsFiniteSet(1..k) /\ Cardinality(1..k) = k BY FS_Interval
    <2>2. QED BY <1>3, <2>1
  <1> HIDE DEF D, put
  <1>7. IsFiniteSet(playlist) /\ Cardinality(playlist) = Len(list)
    BY <1>4, <1>5, <1>6, OneToOne
  <1>8. \A t \in playlist : \E n \in 1..Len(list) : put[n] = t /\ t.pos = n
    BY <1>3, <1>4, <1>5
  <1>9. /\ \A t \in playlist : t.pos \in 1..Len(list)
        /\ \A t, u \in playlist : t.pos = u.pos => t = u
    BY <1>8
  <1>10. QED BY <1>3, <1>7, <1>9 DEF LineInv, Numbered, Spread

\* No step leaves a gap in the positions, passes the room's cap, or takes a
\* growing freeform room past its own.
Grows == ~(IdsOf(playlist') \subseteq IdsOf(playlist))

LEMMA LineInvStep ==
  ASSUME StoreInv, LineInv, [Next]_vars
  PROVE  LineInv' /\ (freeform /\ Grows => Cardinality(playlist') <= FreeformCap)
  <1>1. ASSUME NEW batch \in Batches, Merge(batch)
        PROVE  LineInv' /\ (freeform => Cardinality(playlist') <= FreeformCap)
    BY <1>1, MergeCounted
  <1>2. ASSUME playlist' = playlist PROVE LineInv' /\ ~Grows
    BY <1>2 DEF LineInv, Grows
  <1>3. CASE \/ \E id \in Ids : RequestById(id)
             \/ \E v \in Videos : RequestByVideo(v)
             \/ \E v \in Videos : AutoAppend(v)
    <2>1. \/ playlist' = playlist
          \/ \E v \in Videos : v \notin VideosOf(playlist) /\ AppendNew(v)
      BY <1>3 DEF RequestById, RequestByVideo, AutoAppend, MoveCursor
    <2>2. QED BY <1>2, <2>1, AppendCounted
  <1>4. ASSUME NEW id \in Ids, RemoveEntry(id)
        PROVE  LineInv' /\ ~Grows
    <2> DEFINE left == {e \in playlist : e.id # id}
               at(e) == [e EXCEPT !.pos = Cardinality({f \in left : f.pos <= e.pos})]
    <2>1. playlist' = {at(e) : e \in left} BY <1>4 DEF RemoveEntry, Renumbered
    <2>2. \A e \in left : at(e).id = e.id BY DEF StoreInv, Shape, IsEntry
    <2> HIDE DEF at
    <2>3. ~Grows BY <2>1, <2>2 DEF Grows, IdsOf
    <2>4. QED BY <1>4, <2>3, RemoveCounted
  <1>5. ASSUME NEW order \in Orders, ReorderEntries(order)
        PROVE  LineInv' /\ ~Grows
    <2> DEFINE at(e) == [e EXCEPT !.pos = order[e.id]]
    <2>1. playlist' = {at(e) : e \in playlist} BY <1>5 DEF ReorderEntries
    <2>2. \A e \in playlist : at(e).id = e.id BY DEF StoreInv, Shape, IsEntry
    <2> HIDE DEF at
    <2>3. ~Grows BY <2>1, <2>2 DEF Grows, IdsOf
    <2>4. QED BY <1>5, <2>3, ReorderCounted
  <1>6. ASSUME NEW id \in Ids, NEW label, NEW source,
               NEW position \in (0..(PerRoomCap + 1)) \cup {Null},
               UpdateEntry(id, label, source, position)
        PROVE  LineInv' /\ ~Grows
    <2>0. PICK e \in playlist : \E target :
            \/ playlist' = (playlist \ {e}) \cup {Patched(e, label, source)}
            \/ playlist' = Moved(e, target) \cup {[Patched(e, label, source) EXCEPT !.pos = target]}
      BY <1>6 DEF UpdateEntry
    <2>1. PICK target :
            \/ playlist' = (playlist \ {e}) \cup {Patched(e, label, source)}
            \/ playlist' = Moved(e, target) \cup {[Patched(e, label, source) EXCEPT !.pos = target]}
      BY <2>0
    <2> DEFINE g == Patched(e, label, source)
    <2>2. g.id = e.id /\ IsEntry(g) BY PatchedIsEntry DEF StoreInv, Shape
    <2> HIDE DEF g
    <2>3. [g EXCEPT !.pos = target].id = e.id BY <2>2, PlacedIsEntry
    <2>4. \A f \in Moved(e, target) : \E h \in playlist : f.id = h.id BY MovedIsSound
    <2>5. \A f \in playlist' : \E h \in playlist : f.id = h.id
      BY <2>1, <2>2, <2>3, <2>4 DEF g
    <2>6. QED BY <1>6, <2>5, UpdateCounted DEF Grows, IdsOf
  <1>7. CASE ClearAll
    <2>1. playlist' = {} BY <1>7 DEF ClearAll
    <2>2. IsFiniteSet({}) /\ Cardinality({}) = 0 BY FS_EmptySet
    <2>3. QED BY <2>1, <2>2, CapsAssumption DEF LineInv, Numbered, Spread, Grows, IdsOf
  <1>8. CASE \/ \E r \in Requests, s, f \in BOOLEAN \cup {Null} : ReadToggles(r, s, f)
             \/ \E r \in Requests : WriteToggles(r)
             \/ Tick \/ UNCHANGED vars
    BY <1>2, <1>8 DEF ReadToggles, WriteToggles, Tick, row, vars
  <1>9. QED BY <1>1, <1>3, <1>4, <1>5, <1>6, <1>7, <1>8 DEF Next

LEMMA LineInvHolds == Spec => []LineInv
  <1>1. StoreInv /\ LineInv /\ [Next]_vars => LineInv' BY LineInvStep
  <1>2. QED BY LineInvInit, StoreInvHolds, <1>1, PTL DEF Spec

\* Positions are 1..n after every append, move, removal and prune: the owner's
\* drag and drop and the viewers' merges renumber alike.
THEOREM PositionsStayContiguous == Spec => []PositionsContiguous
  <1>1. LineInv => PositionsContiguous
    BY NumberedIsContiguous DEF LineInv, PositionsContiguous
  <1>2. QED BY <1>1, LineInvHolds, PTL

\* No path that adds entries passes PER_ROOM_CAP, which merge tests on the
\* inserts it plans and performAutoAppend on one.
THEOREM RoomCapHolds == Spec => []WithinRoomCap
  <1>1. LineInv => WithinRoomCap BY DEF LineInv, WithinRoomCap
  <1>2. QED BY <1>1, LineInvHolds, PTL

\* A freeform room that a merge or a request grows ends within the cap of
\* pruneAutoAppendedIfOverCap.
THEOREM FreeformStaysCapped == Spec => FreeformGrowthCapped
  <1>1. StoreInv /\ LineInv /\ [Next]_vars =>
          [freeform /\ ~(IdsOf(playlist') \subseteq IdsOf(playlist)) =>
             Cardinality(playlist') <= FreeformCap]_vars
    BY LineInvStep DEF Grows
  <1>2. QED BY <1>1, StoreInvHolds, LineInvHolds, PTL DEF Spec, FreeformGrowthCapped

-----------------------------------------------------------------------------
(* The prune.                                                              *)

\* When an entry was added stays with it.
Dated(list) == \A e \in list : e.addedAt \in Nat

DateInv == Dated(playlist) /\ now \in Nat

LEMMA OlderIsOrder ==
  ASSUME NEW list, Spread(list), Dated(list), NEW e \in list, NEW f \in list
  PROVE  /\ ~Older(e, e)
         /\ e # f => Older(e, f) \/ Older(f, e)
         /\ ~(Older(e, f) /\ Older(f, e))
         /\ \A g \in list : Older(e, f) /\ Older(f, g) => Older(e, g)
  BY DEF Spread, Dated, Older

\* Whatever is dropped is older than what could have been, and no more is than
\* the list is over the cap.
LEMMA DroppedAreOldest ==
  ASSUME NEW list, Numbered(list), Dated(list), NEW keep
  PROVE  /\ Dropped(list, keep) # {} => Cardinality(list \ Dropped(list, keep)) >= FreeformCap
         /\ \A e \in Dropped(list, keep), f \in Eligible(list, keep) \ Dropped(list, keep) :
              Older(e, f)
  <1> DEFINE E == Eligible(list, keep)
             D == Dropped(list, keep)
             before(e) == {f \in E : Older(f, e)}
             upTo == [e \in E |-> before(e) \cup {e}]
             n == Cardinality(list)
  <1>1. E \subseteq list /\ D \subseteq E BY DEF Eligible, Dropped
  <1>2. Spread(list) BY DEF Numbered
  <1>3. IsFiniteSet(E) /\ IsFiniteSet(D) /\ n \in Nat /\ FreeformCap \in Nat \ {0}
    <2>1. IsFiniteSet(list) BY <1>2 DEF Spread
    <2>2. IsFiniteSet(E) /\ IsFiniteSet(D) BY <1>1, <2>1, FS_Subset
    <2>3. FreeformCap \in Nat \ {0} BY CapsAssumption
    <2>4. QED BY <2>1, <2>2, <2>3, FS_CardinalityType
  <1>4. \A e \in E : e \in D <=> Cardinality(before(e)) + FreeformCap < n
    BY DEF Dropped
  <1>5. \A e \in E : ~Older(e, e) BY <1>1, <1>2, OlderIsOrder
  <1>6. \A e, f \in E : e # f => Older(e, f) \/ Older(f, e) BY <1>1, <1>2, OlderIsOrder
  <1>7. \A e, f \in E : ~(Older(e, f) /\ Older(f, e)) BY <1>1, <1>2, OlderIsOrder
  <1>8. \A e, f, g \in E : Older(e, f) /\ Older(f, g) => Older(e, g)
    BY <1>1, <1>2, OlderIsOrder
  <1> HIDE DEF E, D
  <1>9. /\ upTo \in [E -> SUBSET E]
        /\ \A e \in E : upTo[e] = before(e) \cup {e}
    OBVIOUS
  <1>10. \A e, f \in E : e # f =>
            \/ upTo[f] \subseteq upTo[e] /\ e \notin upTo[f]
            \/ upTo[e] \subseteq upTo[f] /\ f \notin upTo[e]
    <2>1. ASSUME NEW e \in E, NEW f \in E, Older(f, e), e # f
          PROVE  upTo[f] \subseteq upTo[e] /\ e \notin upTo[f]
      <3>1. before(f) \subseteq before(e) BY <1>8, <2>1
      <3>2. f \in before(e) /\ e \notin before(f) BY <1>7, <2>1
      <3> HIDE DEF before, upTo
      <3>3. QED BY <1>9, <2>1, <3>1, <3>2
    <2> HIDE DEF upTo
    <2>2. QED BY <1>6, <2>1
  <1>11. \A e \in E : Cardinality(upTo[e]) = Cardinality(before(e)) + 1
                     /\ Cardinality(before(e)) \in Nat
    <2> TAKE e \in E
    <2>1. before(e) \in SUBSET E /\ e \notin before(e) BY <1>5
    <2> HIDE DEF before, upTo
    <2>2. IsFiniteSet(before(e)) BY <1>3, <2>1, FS_Subset
    <2>3. QED BY <1>9, <2>1, <2>2, FS_AddElement, FS_CardinalityType
  <1>12. \A e, f \in E : Older(e, f) => e \in upTo[f] OBVIOUS
  <1> HIDE DEF upTo, before
  <1>13. /\ \A e, f \in E : Cardinality(upTo[e]) = Cardinality(upTo[f]) => e = f
         /\ \A e, f \in E : e # f /\ e \in upTo[f] => Cardinality(upTo[e]) < Cardinality(upTo[f])
    <2>1. \A e \in E : e \in upTo[e] BY <1>9
    <2>2. upTo \in [E -> SUBSET E] BY <1>9
    <2>3. QED BY <1>3, <1>10, <2>1, <2>2, Ranks
  <1>14. ASSUME NEW e \in D, NEW f \in E \ D PROVE Older(e, f)
    <2>1. e \in E /\ e # f BY <1>1 DEF E, D
    <2>2. Cardinality(before(e)) < Cardinality(before(f))
      <3>1. Cardinality(before(e)) \in Nat /\ Cardinality(before(f)) \in Nat BY <1>11, <2>1
      <3>2. Cardinality(before(e)) + FreeformCap < n BY <1>4, <2>1
      <3>3. ~(Cardinality(before(f)) + FreeformCap < n) BY <1>4
      <3>4. QED BY <1>3, <3>1, <3>2, <3>3
    <2>3. ~Older(f, e)
      <3>1. Cardinality(upTo[e]) < Cardinality(upTo[f]) BY <1>11, <2>1, <2>2
      <3>2. Cardinality(upTo[e]) \in Nat /\ Cardinality(upTo[f]) \in Nat BY <1>11, <2>1
      <3>3. ~(Cardinality(upTo[f]) < Cardinality(upTo[e])) BY <3>1, <3>2
      <3>4. QED BY <1>12, <1>13, <2>1, <3>3
    <2>4. QED BY <1>6, <2>1, <2>3
  <1>15. ASSUME D # {} PROVE Cardinality(list \ D) >= FreeformCap
    <2> DEFINE over == n - FreeformCap
               f == [e \in D |-> Cardinality(upTo[e])]
    <2>1. \A e \in D : e \in E BY <1>1 DEF E, D
    <2>2. \A e \in D : Cardinality(upTo[e]) \in 1..over
      <3> TAKE e \in D
      <3>1. Cardinality(before(e)) \in Nat /\ Cardinality(upTo[e]) = Cardinality(before(e)) + 1
        BY <1>11, <2>1
      <3>2. Cardinality(before(e)) + FreeformCap < n BY <1>4, <2>1
      <3>3. QED BY <1>3, <3>1, <3>2
    <2>3. over \in Nat
      <3>1. PICK e \in D : TRUE BY <1>15
      <3>2. Cardinality(upTo[e]) \in 1..over BY <2>2
      <3>3. over \in Int BY <1>3
      <3> HIDE DEF over
      <3>4. QED BY <3>2, <3>3
    <2>4. f \in [D -> 1..over] BY <2>2
    <2>5. \A x, y \in D : f[x] = f[y] => x = y BY <1>13, <2>1
    <2> HIDE DEF f, over
    <2>6. Cardinality(D) <= over BY <2>3, <2>4, <2>5, IntoInterval
    <2>7. list \cap D = D BY <1>1 DEF E, D
    <2>8. IsFiniteSet(list) BY <1>2 DEF Spread
    <2>9. Cardinality(list \ D) = n - Cardinality(D) BY <2>7, <2>8, FS_Difference
    <2>10. Cardinality(D) \in Nat BY <1>3, FS_CardinalityType
    <2>11. QED BY <1>3, <2>6, <2>9, <2>10 DEF over
  <1>16. QED BY <1>14, <1>15 DEF D, E

\* What PruneTakesOldest says of a step, with the cursor after it.
Oldest(keep) ==
  LET gone == {e \in playlist : e.id \notin IdsOf(playlist')} IN
  /\ gone # {} => freeform /\ Cardinality(playlist') = FreeformCap
  /\ \A e \in gone :
       /\ e.source = "auto_appended"
       /\ \A f \in playlist \ gone :
            f.source = "auto_appended" /\ f.id # keep => Older(e, f)

\* What a list must hold of the playlist it was made from.
Carries(list) ==
  \A e \in playlist : \E r \in list :
     r.id = e.id /\ r.source = e.source /\ r.pos = e.pos /\ r.addedAt = e.addedAt

LEMMA NothingGone ==
  ASSUME NEW keep, \A e \in playlist : e.id \in IdsOf(playlist')
  PROVE  Oldest(keep)
  BY DEF Oldest

LEMMA RenumberedIds ==
  ASSUME NEW list, \A e \in list : IsEntry(e)
  PROVE  IdsOf(Renumbered(list)) = IdsOf(list)
  <1> DEFINE at(e) == [e EXCEPT !.pos = Cardinality({f \in list : f.pos <= e.pos})]
  <1>1. Renumbered(list) = {at(e) : e \in list} BY DEF Renumbered
  <1>2. \A e \in list : at(e).id = e.id BY DEF IsEntry
  <1> HIDE DEF at
  <1>3. QED BY <1>1, <1>2 DEF IdsOf

LEMMA StoredPrunes ==
  ASSUME NEW list, NEW keep, Numbered(list), Dated(list), Sound(list, keep),
         Storable(list, keep), playlist' = Stored(list, keep), Carries(list)
  PROVE  Oldest(keep)
  <1> DEFINE D == Dropped(list, keep)
             kept == list \ D
             gone == {e \in playlist : e.id \notin IdsOf(playlist')}
  <1>1. CASE playlist' = list
    BY <1>1, NothingGone DEF Carries, IdsOf
  <1>2. CASE freeform /\ D # {}
    <2>1. playlist' = Renumbered(kept) BY <1>2 DEF Stored, Pruned
    <2>2. \A e \in kept : IsEntry(e) BY DEF Sound
    <2>3. IdsOf(playlist') = IdsOf(kept) BY <2>1, <2>2, RenumberedIds
    <2>4. Cardinality(playlist') = FreeformCap
      <3>1. Cardinality(playlist') = Cardinality(kept) BY <1>2, StoredIsNumbered
      <3>2. Cardinality(kept) <= FreeformCap BY <1>2 DEF Storable, Prunable
      <3>3. Cardinality(kept) >= FreeformCap BY <1>2, DroppedAreOldest
      <3>4. Cardinality(kept) \in Nat /\ FreeformCap \in Nat
        <4>1. IsFiniteSet(kept) BY FS_Subset DEF Numbered, Spread
        <4>2. QED BY <4>1, FS_CardinalityType, CapsAssumption
      <3> HIDE DEF kept
      <3>5. QED BY <3>1, <3>2, <3>3, <3>4
    <2>5. \A e \in gone : \E r \in D :
            r.id = e.id /\ r.source = e.source /\ r.pos = e.pos /\ r.addedAt = e.addedAt
      BY <2>3 DEF Carries, IdsOf
    <2>6. \A f \in playlist \ gone : \E r \in kept :
            r.id = f.id /\ r.source = f.source /\ r.pos = f.pos /\ r.addedAt = f.addedAt
      <3> TAKE f \in playlist \ gone
      <3>1. PICK r \in list :
              r.id = f.id /\ r.source = f.source /\ r.pos = f.pos /\ r.addedAt = f.addedAt
        BY DEF Carries
      <3>2. PICK k \in kept : k.id = f.id BY <2>3 DEF IdsOf
      <3>3. r = k BY <3>1, <3>2 DEF Sound
      <3>4. QED BY <3>1, <3>2, <3>3
    <2>7. \A r \in D : r.source = "auto_appended" BY DEF Dropped, Eligible
    <2>8. \A r \in D, k \in kept : k.source = "auto_appended" /\ k.id # keep => Older(r, k)
      BY DroppedAreOldest DEF Eligible
    <2> HIDE DEF D, kept
    <2>9. \A e \in gone : e.source = "auto_appended" BY <2>5, <2>7
    <2>10. ASSUME NEW e \in gone, NEW f \in playlist \ gone,
                  f.source = "auto_appended", f.id # keep
           PROVE  Older(e, f)
      <3>1. PICK r \in D :
              r.id = e.id /\ r.source = e.source /\ r.pos = e.pos /\ r.addedAt = e.addedAt
        BY <2>5
      <3>2. PICK k \in kept :
              k.id = f.id /\ k.source = f.source /\ k.pos = f.pos /\ k.addedAt = f.addedAt
        BY <2>6
      <3>3. Older(r, k) BY <2>8, <2>10, <3>2
      <3>4. QED BY <3>1, <3>2, <3>3 DEF Older
    <2>11. QED BY <1>2, <2>4, <2>9, <2>10 DEF Oldest
  <1>3. QED BY <1>1, <1>2 DEF Stored, Pruned

\* Renumbering, pruning and refreshing keep when an entry was added.
LEMMA StoredIsDated ==
  ASSUME NEW list, NEW keep, Dated(list), Sound(list, keep)
  PROVE  Dated(Stored(list, keep))
  <1> DEFINE kept == list \ Dropped(list, keep)
             at(e) == [e EXCEPT !.pos = Cardinality({f \in kept : f.pos <= e.pos})]
  <1>1. Renumbered(kept) = {at(e) : e \in kept} BY DEF Renumbered
  <1>2. \A e \in kept : at(e).addedAt = e.addedAt BY DEF Sound, IsEntry
  <1> HIDE DEF at
  <1>3. Dated(Renumbered(kept)) BY <1>1, <1>2 DEF Dated
  <1>4. Stored(list, keep) = list \/ Stored(list, keep) = Renumbered(kept)
    BY DEF Stored, Pruned
  <1>5. QED BY <1>3, <1>4

LEMMA MergeOldest ==
  ASSUME StoreInv, LineInv, DateInv, NEW batch \in Batches, Merge(batch)
  PROVE  Dated(playlist') /\ Oldest(cursor')
  <1>1. PICK ids \in [NewVideos(batch) -> FreshIds] :
          /\ \A v, w \in NewVideos(batch) : ids[v] = ids[w] => v = w
          /\ Storable(Merged(batch, ids), cursor)
          /\ playlist' = Stored(Merged(batch, ids), cursor)
    BY DEF Merge
  <1>2. cursor' = cursor BY DEF Merge
  <1>3. Sound(Merged(batch, ids), cursor) /\ Numbered(Merged(batch, ids))
    BY <1>1, MergedIsSound, MergedIsNumbered DEF LineInv
  <1>4. \A e \in playlist :
          /\ Refreshed(e, batch).id = e.id /\ Refreshed(e, batch).pos = e.pos
          /\ Refreshed(e, batch).source = e.source /\ Refreshed(e, batch).addedAt = e.addedAt
    BY RefreshedInPlace DEF StoreInv, Shape
  <1>5. \A v : Added(v, ids[v], batch).addedAt = now BY DEF Added
  <1>6. Dated(Merged(batch, ids)) BY <1>4, <1>5 DEF Merged, Dated, DateInv
  <1>7. Carries(Merged(batch, ids)) BY <1>4 DEF Merged, Carries
  <1>8. Dated(playlist') BY <1>1, <1>3, <1>6, StoredIsDated
  <1>9. Oldest(cursor) BY <1>1, <1>3, <1>6, <1>7, StoredPrunes
  <1>10. QED BY <1>2, <1>8, <1>9

LEMMA AppendOldest ==
  ASSUME StoreInv, LineInv, DateInv, NEW v \in Videos, v \notin VideosOf(playlist), AppendNew(v)
  PROVE  Dated(playlist') /\ Oldest(cursor')
  <1>1. PICK id \in FreshIds :
          LET entry == [id |-> id, video |-> v, pos |-> Highest(playlist) + 1,
                        source |-> "auto_appended", label |-> NoLabel, addedAt |-> now] IN
          /\ Storable(playlist \cup {entry}, id)
          /\ playlist' = Stored(playlist \cup {entry}, id)
          /\ cursor' = id
    BY DEF AppendNew
  <1> DEFINE entry == [id |-> id, video |-> v, pos |-> Highest(playlist) + 1,
                       source |-> "auto_appended", label |-> NoLabel, addedAt |-> now]
             list == playlist \cup {entry}
  <1>2. Storable(list, id) /\ playlist' = Stored(list, id) /\ cursor' = id BY <1>1
  <1>3. /\ IsEntry(entry) /\ entry.id = id /\ entry.pos = Highest(playlist) + 1
        /\ entry.addedAt = now
        /\ \A e \in playlist : e.id # entry.id /\ e.video # entry.video
    BY DEF IsEntry, FreshIds, IdsOf, VideosOf
  <1> HIDE DEF entry
  <1>4. Sound(list, id) BY <1>3 DEF FreshIds, StoreInv, Shape, EntriesUnique, Sound
  <1>5. Numbered(list) BY <1>3, AppendedIsNumbered DEF LineInv
  <1>6. Dated(list) BY <1>3 DEF Dated, DateInv
  <1>7. Carries(list) BY DEF Carries
  <1> HIDE DEF list
  <1>8. Dated(playlist') BY <1>2, <1>4, <1>6, StoredIsDated
  <1>9. Oldest(id) BY <1>2, <1>4, <1>5, <1>6, <1>7, StoredPrunes
  <1>10. QED BY <1>2, <1>8, <1>9

\* The owner's edits keep the dates too.
LEMMA EditsKeepDates ==
  ASSUME StoreInv, DateInv,
         \/ \E id \in Ids : RemoveEntry(id)
         \/ \E order \in Orders : ReorderEntries(order)
         \/ \E id \in Ids : \E label, source, position : UpdateEntry(id, label, source, position)
         \/ ClearAll
  PROVE  Dated(playlist') /\ op' = "owner" /\ now' = now
  <1>1. op' = "owner" /\ now' = now
    BY DEF RemoveEntry, ReorderEntries, UpdateEntry, ClearAll, Owner
  <1>2. \A e \in playlist : IsEntry(e) /\ e.addedAt \in Nat
    BY DEF StoreInv, Shape, DateInv, Dated
  <1>3. \A e \in playlist : \A p : [e EXCEPT !.pos = p].addedAt \in Nat
    BY <1>2 DEF IsEntry
  <1>4. ASSUME NEW id \in Ids, RemoveEntry(id) PROVE Dated(playlist')
    <2> DEFINE left == {e \in playlist : e.id # id}
               at(e) == [e EXCEPT !.pos = Cardinality({f \in left : f.pos <= e.pos})]
    <2>1. playlist' = {at(e) : e \in left} BY <1>4 DEF RemoveEntry, Renumbered
    <2>2. \A e \in left : at(e).addedAt \in Nat BY <1>3
    <2> HIDE DEF at
    <2>3. QED BY <2>1, <2>2 DEF Dated
  <1>5. ASSUME NEW order \in Orders, ReorderEntries(order) PROVE Dated(playlist')
    <2> DEFINE at(e) == [e EXCEPT !.pos = order[e.id]]
    <2>1. playlist' = {at(e) : e \in playlist} BY <1>5 DEF ReorderEntries
    <2>2. \A e \in playlist : at(e).addedAt \in Nat BY <1>3
    <2> HIDE DEF at
    <2>3. QED BY <2>1, <2>2 DEF Dated
  <1>6. ASSUME NEW id \in Ids, NEW label, NEW source, NEW position,
               UpdateEntry(id, label, source, position)
        PROVE  Dated(playlist')
    <2>0. PICK e \in playlist : \E target :
            \/ playlist' = (playlist \ {e}) \cup {Patched(e, label, source)}
            \/ playlist' = Moved(e, target) \cup {[Patched(e, label, source) EXCEPT !.pos = target]}
      BY <1>6 DEF UpdateEntry
    <2>1. PICK target :
            \/ playlist' = (playlist \ {e}) \cup {Patched(e, label, source)}
            \/ playlist' = Moved(e, target) \cup {[Patched(e, label, source) EXCEPT !.pos = target]}
      BY <2>0
    <2> DEFINE g == Patched(e, label, source)
               others == playlist \ {e}
               rank(f) == Cardinality({h \in others : h.pos <= f.pos})
               at(f) == [f EXCEPT !.pos = IF rank(f) < target THEN rank(f) ELSE rank(f) + 1]
    <2>2. g.addedAt \in Nat /\ [g EXCEPT !.pos = target].addedAt \in Nat
      <3>1. PICK l, s : g = [e EXCEPT !.label = l, !.source = s] BY DEF Patched
      <3> HIDE DEF g
      <3>2. QED BY <1>2, <3>1 DEF IsEntry
    <2>3. Moved(e, target) = {at(f) : f \in others} BY DEF Moved
    <2>4. \A f \in others : at(f).addedAt \in Nat BY <1>3
    <2> HIDE DEF at, g
    <2>5. QED BY <1>2, <2>1, <2>2, <2>3, <2>4 DEF Dated, g
  <1>7. ClearAll => Dated(playlist') BY DEF ClearAll, Dated
  <1>8. QED BY <1>1, <1>4, <1>5, <1>6, <1>7

LEMMA DateInvInit == Init => DateInv
  BY DEF Init, DateInv, Dated

LEMMA DateInvStep ==
  ASSUME StoreInv, LineInv, DateInv, [Next]_vars
  PROVE  DateInv' /\ (op' # "owner" => Oldest(cursor'))
  <1>1. ASSUME NEW batch \in Batches, Merge(batch)
        PROVE  DateInv' /\ Oldest(cursor')
    BY <1>1, MergeOldest DEF Merge, DateInv
  <1>2. ASSUME playlist' = playlist, now' \in Nat
        PROVE  DateInv' /\ Oldest(cursor')
    BY <1>2, NothingGone DEF DateInv, Dated, IdsOf
  <1>3. CASE \/ \E id \in Ids : RequestById(id)
             \/ \E v \in Videos : RequestByVideo(v)
             \/ \E v \in Videos : AutoAppend(v)
    <2>1. \/ playlist' = playlist /\ now' = now
          \/ \E v \in Videos : v \notin VideosOf(playlist) /\ AppendNew(v)
      BY <1>3 DEF RequestById, RequestByVideo, AutoAppend, MoveCursor
    <2>2. \A v \in Videos : AppendNew(v) => now' = now BY DEF AppendNew
    <2>3. QED BY <1>2, <2>1, <2>2, AppendOldest DEF DateInv
  <1>4. CASE \/ \E id \in Ids : RemoveEntry(id)
             \/ \E order \in Orders : ReorderEntries(order)
             \/ \E id \in Ids : \E label, source, position : UpdateEntry(id, label, source, position)
             \/ ClearAll
    BY <1>4, EditsKeepDates DEF DateInv
  <1>5. CASE \/ \E r \in Requests, s, f \in BOOLEAN \cup {Null} : ReadToggles(r, s, f)
             \/ \E r \in Requests : WriteToggles(r)
             \/ Tick \/ UNCHANGED vars
    <2>1. playlist' = playlist BY <1>5 DEF ReadToggles, WriteToggles, Tick, row, vars
    <2>2. now' \in Nat BY <1>5 DEF ReadToggles, WriteToggles, Tick, row, vars, DateInv
    <2>3. QED BY <1>2, <2>1, <2>2
  <1>6. QED BY <1>1, <1>3, <1>4, <1>5 DEF Next

LEMMA DateInvHolds == Spec => []DateInv
  <1>1. StoreInv /\ LineInv /\ DateInv /\ [Next]_vars => DateInv' BY DateInvStep
  <1>2. QED BY DateInvInit, StoreInvHolds, LineInvHolds, <1>1, PTL DEF Spec

\* The freeform prune stops at the cap, takes auto-appended entries only, oldest
\* first, and spares the one under the cursor; nothing else of what a viewer
\* does makes an entry disappear.
THEOREM PruneIsOldestFirst == Spec => PruneTakesOldest
  <1>1. StoreInv /\ LineInv /\ DateInv /\ [Next]_vars =>
          [op' # "owner" =>
             LET gone == {e \in playlist : e.id \notin IdsOf(playlist')} IN
             /\ gone # {} => freeform /\ Cardinality(playlist') = FreeformCap
             /\ \A e \in gone :
                  /\ e.source = "auto_appended"
                  /\ \A f \in playlist \ gone :
                       f.source = "auto_appended" /\ f.id # cursor' =>
                         e.addedAt < f.addedAt \/ (e.addedAt = f.addedAt /\ e.pos < f.pos)]_vars
    BY DateInvStep DEF Oldest, Older
  <1>2. QED BY <1>1, StoreInvHolds, LineInvHolds, DateInvHolds, PTL DEF Spec, PruneTakesOldest

-----------------------------------------------------------------------------
(* The order of the entries.                                               *)

\* What was made from a list puts no entry before one it came after.
Follows(made, list) ==
  \A f, g \in made : \E r, q \in list :
     r.id = f.id /\ q.id = g.id /\ (f.pos < g.pos => r.pos < q.pos)

LEMMA RenumberedFollows ==
  ASSUME NEW list, Spread(list), \A e \in list : IsEntry(e)
  PROVE  Follows(Renumbered(list), list)
  <1> DEFINE rank(e) == Cardinality({f \in list : f.pos <= e.pos})
             at(e) == [e EXCEPT !.pos = rank(e)]
  <1>1. Renumbered(list) = {at(e) : e \in list} BY DEF Renumbered
  <1>2. \A e, f \in list : rank(e) < rank(f) => e.pos < f.pos BY PositionRanks
  <1> HIDE DEF rank
  <1>3. \A e \in list : at(e).id = e.id /\ at(e).pos = rank(e) BY DEF IsEntry
  <1> HIDE DEF at
  <1>4. QED BY <1>1, <1>2, <1>3 DEF Follows

LEMMA StoredFollows ==
  ASSUME NEW list, NEW keep, Numbered(list), Sound(list, keep)
  PROVE  Follows(Stored(list, keep), list)
  <1> DEFINE kept == list \ Dropped(list, keep)
  <1>1. Spread(kept) BY SpreadOfPart DEF Numbered
  <1>2. \A e \in kept : IsEntry(e) BY DEF Sound
  <1>3. Stored(list, keep) = list \/ Stored(list, keep) = Renumbered(kept)
    BY DEF Stored, Pruned
  <1>4. kept \subseteq list OBVIOUS
  <1> HIDE DEF kept
  <1>5. Follows(Renumbered(kept), kept) BY <1>1, <1>2, RenumberedFollows
  <1>6. QED BY <1>3, <1>4, <1>5 DEF Follows

\* What OrderKept asks of a step that is not the owner's.
Ordered ==
  \A f, g \in playlist' : f.pos < g.pos =>
    /\ g.id \in IdsOf(playlist) => f.id \in IdsOf(playlist)
    /\ \A d, e \in playlist : d.id = f.id /\ e.id = g.id => d.pos < e.pos

\* The newcomers of a list stand behind the playlist it was made from.
Behind(list) ==
  \A r \in list : r.id \in IdsOf(playlist) \/ r.pos > Cardinality(playlist)

LEMMA StoredOrdered ==
  ASSUME LineInv, NEW list, NEW keep, Numbered(list), Sound(list, keep),
         playlist' = Stored(list, keep), Carries(list), Behind(list)
  PROVE  Ordered
  <1> SUFFICES ASSUME NEW f \in playlist', NEW g \in playlist', f.pos < g.pos
               PROVE  /\ g.id \in IdsOf(playlist) => f.id \in IdsOf(playlist)
                      /\ \A d, e \in playlist : d.id = f.id /\ e.id = g.id => d.pos < e.pos
    BY DEF Ordered
  <1>1. PICK r, q : /\ r \in list /\ q \in list
                    /\ r.id = f.id /\ q.id = g.id /\ r.pos < q.pos
    BY StoredFollows DEF Follows
  <1>2. \A e \in playlist, t \in list : e.id = t.id => t.pos = e.pos
    BY DEF Carries, Sound
  <1>3. ASSUME NEW e \in playlist, e.id = g.id PROVE f.id \in IdsOf(playlist)
    <2>1. q.pos = e.pos BY <1>1, <1>2, <1>3
    <2>2. /\ e.pos \in 1..Cardinality(playlist) /\ Cardinality(playlist) \in Nat
          /\ r.pos \in Int
      BY <1>1, PlaylistCounted DEF LineInv, Numbered, Spread
    <2>3. ~(r.pos > Cardinality(playlist)) BY <1>1, <2>1, <2>2
    <2>4. QED BY <1>1, <2>3 DEF Behind
  <1>4. \A d, e \in playlist : d.id = f.id /\ e.id = g.id => d.pos < e.pos
    BY <1>1, <1>2
  <1>5. QED BY <1>3, <1>4 DEF IdsOf

LEMMA MergeOrdered ==
  ASSUME StoreInv, LineInv, NEW batch \in Batches, Merge(batch)
  PROVE  Ordered
  <1>1. PICK ids \in [NewVideos(batch) -> FreshIds] :
          /\ \A v, w \in NewVideos(batch) : ids[v] = ids[w] => v = w
          /\ Storable(Merged(batch, ids), cursor)
          /\ playlist' = Stored(Merged(batch, ids), cursor)
    BY DEF Merge
  <1>2. Sound(Merged(batch, ids), cursor) BY <1>1, MergedIsSound
  <1>3. /\ Numbered(Merged(batch, ids))
        /\ \A v \in NewVideos(batch) : Added(v, ids[v], batch).pos > Cardinality(playlist)
    BY MergedIsNumbered DEF LineInv
  <1>4. \A e \in playlist :
          /\ Refreshed(e, batch).id = e.id /\ Refreshed(e, batch).pos = e.pos
          /\ Refreshed(e, batch).source = e.source /\ Refreshed(e, batch).addedAt = e.addedAt
    BY RefreshedInPlace DEF StoreInv, Shape
  <1>5. Carries(Merged(batch, ids)) BY <1>4 DEF Merged, Carries
  <1>6. Behind(Merged(batch, ids)) BY <1>3, <1>4 DEF Merged, Behind, IdsOf
  <1>7. QED BY <1>1, <1>2, <1>3, <1>5, <1>6, StoredOrdered

LEMMA AppendOrdered ==
  ASSUME StoreInv, LineInv, NEW v \in Videos, v \notin VideosOf(playlist), AppendNew(v)
  PROVE  Ordered
  <1>1. PICK id \in FreshIds :
          LET entry == [id |-> id, video |-> v, pos |-> Highest(playlist) + 1,
                        source |-> "auto_appended", label |-> NoLabel, addedAt |-> now] IN
          playlist' = Stored(playlist \cup {entry}, id)
    BY DEF AppendNew
  <1> DEFINE entry == [id |-> id, video |-> v, pos |-> Highest(playlist) + 1,
                       source |-> "auto_appended", label |-> NoLabel, addedAt |-> now]
             list == playlist \cup {entry}
  <1>2. playlist' = Stored(list, id) BY <1>1
  <1>3. /\ IsEntry(entry) /\ entry.id = id /\ entry.pos = Highest(playlist) + 1
        /\ \A e \in playlist : e.id # entry.id /\ e.video # entry.video
    BY DEF IsEntry, FreshIds, IdsOf, VideosOf
  <1> HIDE DEF entry
  <1>4. Sound(list, id) BY <1>3 DEF FreshIds, StoreInv, Shape, EntriesUnique, Sound
  <1>5. Numbered(list) BY <1>3, AppendedIsNumbered DEF LineInv
  <1>6. Carries(list) BY DEF Carries
  <1>7. Behind(list)
    <2>1. entry.pos > Cardinality(playlist)
      BY <1>3, HighestIsLength, PlaylistCounted DEF LineInv
    <2>2. QED BY <2>1 DEF Behind, IdsOf
  <1> HIDE DEF list
  <1>8. QED BY <1>2, <1>4, <1>5, <1>6, <1>7, StoredOrdered

LEMMA StoreStepOrdered ==
  ASSUME StoreInv, LineInv, [Next]_vars, op' # "owner"
  PROVE  Ordered
  <1>1. ASSUME playlist' = playlist PROVE Ordered
    BY <1>1 DEF Ordered, StoreInv, EntriesUnique, IdsOf
  <1>2. CASE \E batch \in Batches : Merge(batch) BY <1>2, MergeOrdered
  <1>3. CASE \/ \E id \in Ids : RequestById(id)
             \/ \E v \in Videos : RequestByVideo(v)
             \/ \E v \in Videos : AutoAppend(v)
    <2>1. \/ playlist' = playlist
          \/ \E v \in Videos : v \notin VideosOf(playlist) /\ AppendNew(v)
      BY <1>3 DEF RequestById, RequestByVideo, AutoAppend, MoveCursor
    <2>2. QED BY <1>1, <2>1, AppendOrdered
  <1>4. ~(\/ \E id \in Ids : RemoveEntry(id)
          \/ \E order \in Orders : ReorderEntries(order)
          \/ \E id \in Ids : \E label, source, position : UpdateEntry(id, label, source, position)
          \/ ClearAll)
    BY DEF RemoveEntry, ReorderEntries, UpdateEntry, ClearAll, Owner
  <1>5. CASE \/ \E r \in Requests, s, f \in BOOLEAN \cup {Null} : ReadToggles(r, s, f)
             \/ \E r \in Requests : WriteToggles(r)
             \/ Tick \/ UNCHANGED vars
    <2>1. playlist' = playlist BY <1>5 DEF ReadToggles, WriteToggles, Tick, row, vars
    <2>2. QED BY <1>1, <2>1
  <1>6. QED BY <1>2, <1>3, <1>4, <1>5 DEF Next

\* Whatever a viewer's call appends, refreshes or prunes, the entries that stay
\* keep their order and the newcomers come after all of them.
THEOREM OrderIsKept == Spec => OrderKept
  <1>1. StoreInv /\ LineInv /\ [Next]_vars =>
          [op' # "owner" =>
             \A f, g \in playlist' : f.pos < g.pos =>
               /\ g.id \in IdsOf(playlist) => f.id \in IdsOf(playlist)
               /\ \A d, e \in playlist : d.id = f.id /\ e.id = g.id => d.pos < e.pos]_vars
    BY StoreStepOrdered DEF Ordered
  <1>2. QED BY StoreInvHolds, LineInvHolds, <1>1, PTL DEF Spec, OrderKept

-----------------------------------------------------------------------------
(* The row as the viewers see it.                                          *)

\* Cardinality as RoomRow has it.
LEMMA SameCount == \A S : ViewersRow!Cardinality(S) = Cardinality(S)
  BY Zenon DEF Cardinality, ViewersRow!Cardinality, IsFiniteSet, ViewersRow!IsFiniteSet

LEMMA ModesOn ==
  LET modes == (IF single THEN {"single"} ELSE {}) \cup (IF freeform THEN {"freeform"} ELSE {}) IN
  ("single" \in modes <=> single) /\ ("freeform" \in modes <=> freeform)
  OBVIOUS

\* As many videos as entries.
LEMMA VideosCounted ==
  ASSUME NEW list, NEW keep, Sound(list, keep), IsFiniteSet(list)
  PROVE  Cardinality(VideosOf(list)) = Cardinality(list) /\ VideosOf(list) \subseteq Videos
  <1> DEFINE f == [e \in list |-> e.video]
  <1>1. f \in [list -> VideosOf(list)] /\ \A t \in VideosOf(list) : \E e \in list : f[e] = t
    BY DEF VideosOf
  <1>2. \A d, e \in list : f[d] = f[e] => d = e BY DEF Sound
  <1>3. VideosOf(list) \subseteq Videos BY DEF VideosOf, Sound, IsEntry
  <1> HIDE DEF f
  <1>4. QED BY <1>1, <1>2, <1>3, OneToOne

LEMMA RenumberedVideos ==
  ASSUME NEW list, \A e \in list : IsEntry(e)
  PROVE  /\ VideosOf(Renumbered(list)) = VideosOf(list)
         /\ \A e \in list : \E f \in Renumbered(list) : f.id = e.id /\ f.video = e.video
  <1> DEFINE at(e) == [e EXCEPT !.pos = Cardinality({f \in list : f.pos <= e.pos})]
  <1>1. Renumbered(list) = {at(e) : e \in list} BY DEF Renumbered
  <1>2. \A e \in list : at(e).id = e.id /\ at(e).video = e.video BY DEF IsEntry
  <1> HIDE DEF at
  <1>3. QED BY <1>1, <1>2 DEF VideosOf

\* What is stored is one of the cuts RoomRow allows, and keep's entry stays.
LEMMA StoredVideos ==
  ASSUME NEW list, NEW keep, Numbered(list), Dated(list), Sound(list, keep),
         Storable(list, keep), NEW u,
         keep = Null => u = Null,
         \A e \in list : e.id = keep => u = e.video
  PROVE  /\ VideosOf(Stored(list, keep)) \in ViewersRow!Stored(VideosOf(list), u)
         /\ \A e \in list : e.id = keep =>
              \E f \in Stored(list, keep) : f.id = e.id /\ f.video = e.video
  <1> DEFINE kept == list \ Dropped(list, keep)
  <1>1. IsFiniteSet(list) /\ IsFiniteSet(kept) BY FS_Subset DEF Numbered, Spread
  <1>2. /\ Cardinality(list) \in Nat /\ Cardinality(kept) \in Nat /\ FreeformCap \in Nat
        /\ Cardinality(kept) <= Cardinality(list)
        /\ Cardinality(kept) = Cardinality(list) => kept = list
    BY <1>1, FS_CardinalityType, FS_Subset, CapsAssumption
  <1>3. \A e \in list : e.id = keep => e \in kept BY DEF Dropped, Eligible
  <1>4. Sound(kept, keep) BY <1>3, PartIsSound
  <1>5. /\ Cardinality(VideosOf(list)) = Cardinality(list)
        /\ Cardinality(VideosOf(kept)) = Cardinality(kept)
        /\ VideosOf(list) \subseteq Videos /\ VideosOf(kept) \subseteq VideosOf(list)
    <2>1. VideosOf(kept) \subseteq VideosOf(list) BY DEF VideosOf
    <2> HIDE DEF kept
    <2>2. QED BY <1>1, <1>4, <2>1, VideosCounted
  <1>6. Dropped(list, keep) # {} => Cardinality(kept) >= FreeformCap BY DroppedAreOldest
  <1>7. freeform => Cardinality(kept) <= FreeformCap BY DEF Storable, Prunable
  <1>8. Dropped(list, keep) # {} <=> kept # list BY DEF Dropped, Eligible
  <1> HIDE DEF kept
  <1>9. CASE freeform /\ Cardinality(list) > FreeformCap
    <2>1. Cardinality(kept) = FreeformCap /\ kept # list BY <1>2, <1>6, <1>7, <1>8, <1>9
    <2>2. Stored(list, keep) = Renumbered(kept) BY <1>8, <1>9, <2>1 DEF Stored, Pruned, kept
    <2>3. /\ VideosOf(Stored(list, keep)) = VideosOf(kept)
          /\ \A e \in kept : \E f \in Stored(list, keep) : f.id = e.id /\ f.video = e.video
      BY <1>4, <2>2, RenumberedVideos DEF Sound
    <2>4. u \in VideosOf(list) => u \in VideosOf(kept)
      <3>1. CASE keep = Null BY <1>5, <3>1, NullAssumption
      <3>2. CASE keep # Null
        <4>1. PICK e \in list : e.id = keep BY <3>2 DEF Sound
        <4>2. e \in kept /\ u = e.video BY <1>3, <4>1
        <4>3. QED BY <4>2 DEF VideosOf
      <3>3. QED BY <3>1, <3>2
    <2>5. ViewersRow!Stored(VideosOf(list), u) =
            {k \in SUBSET VideosOf(list) :
               Cardinality(k) = FreeformCap /\ (u \in VideosOf(list) => u \in k)}
      BY <1>5, <1>9, SameCount, ModesOn DEF ViewersRow!Stored
    <2>6. QED BY <1>3, <1>5, <2>1, <2>3, <2>4, <2>5
  <1>10. CASE ~(freeform /\ Cardinality(list) > FreeformCap)
    <2>1. freeform => kept = list BY <1>2, <1>6, <1>8, <1>10
    <2>2. Stored(list, keep) = list BY <1>8, <2>1 DEF Stored, Pruned
    <2>3. ViewersRow!Stored(VideosOf(list), u) = {VideosOf(list)}
      BY <1>5, <1>10, SameCount, ModesOn DEF ViewersRow!Stored
    <2>4. QED BY <2>2, <2>3
  <1>11. QED BY <1>9, <1>10

\* The video under the cursor.
LEMMA EntryAt ==
  ASSUME NEW list, NEW keep, Sound(list, keep), keep # Null
  PROVE  \A e \in list : e.id = keep => (CHOOSE f \in list : f.id = keep) = e
  BY DEF Sound

LEMMA VideoNow ==
  ASSUME StoreInv
  PROVE  /\ cursor = Null => VideoAt(cursor) = Null
         /\ \A e \in playlist : e.id = cursor => VideoAt(cursor) = e.video
  <1>1. \A e \in playlist : e.id # Null BY NullAssumption DEF StoreInv, Shape, IsEntry
  <1> DEFINE c == CHOOSE f \in playlist : f.id = cursor
  <1>2. cursor # Null => \A e \in playlist : e.id = cursor => c = e
    BY StoreInvIsSound, EntryAt
  <1>3. VideoAt(cursor) = IF cursor = Null THEN Null ELSE c.video BY DEF VideoAt
  <1> HIDE DEF c
  <1>4. QED BY <1>1, <1>2, <1>3

LEMMA VideoNext ==
  ASSUME StoreInv'
  PROVE  /\ cursor' = Null => VideoAt(cursor)' = Null
         /\ \A e \in playlist' : e.id = cursor' => VideoAt(cursor)' = e.video
  <1>1. \A e \in playlist' : e.id # Null BY NullAssumption DEF StoreInv, Shape, IsEntry
  <1>2. Sound(playlist', cursor')
    BY DEF StoreInv, Shape, EntriesUnique, CursorInPlaylist, Sound, IdsOf
  <1> DEFINE c == CHOOSE f \in playlist' : f.id = cursor'
  <1>3. cursor' # Null => \A e \in playlist' : e.id = cursor' => c = e BY <1>2, EntryAt
  <1>4. VideoAt(cursor)' = IF cursor' = Null THEN Null ELSE c.video BY DEF VideoAt
  <1> HIDE DEF c
  <1>5. QED BY <1>1, <1>3, <1>4

\* The cursor stays where it is, and its entry keeps its video.
LEMMA VideoStays ==
  ASSUME StoreInv, StoreInv', cursor' = cursor,
         \A e \in playlist : e.id = cursor => \E f \in playlist' : f.id = e.id /\ f.video = e.video
  PROVE  VideoAt(cursor)' = VideoAt(cursor)
  <1>1. CASE cursor = Null BY <1>1, VideoNow, VideoNext
  <1>2. CASE cursor # Null
    <2>1. PICK e \in playlist : e.id = cursor BY <1>2 DEF StoreInv, CursorInPlaylist, IdsOf
    <2>2. PICK f \in playlist' : f.id = cursor /\ f.video = e.video BY <2>1
    <2>3. QED BY <2>1, <2>2, VideoNow, VideoNext
  <1>3. QED BY <1>1, <1>2

LEMMA MergeOfVideos ==
  ASSUME StoreInv, StoreInv', LineInv, DateInv, NEW batch \in Batches, Merge(batch)
  PROVE  ViewersRow!Next
  <1>1. PICK ids \in [NewVideos(batch) -> FreshIds] :
          /\ \A v, w \in NewVideos(batch) : ids[v] = ids[w] => v = w
          /\ Storable(Merged(batch, ids), cursor)
          /\ playlist' = Stored(Merged(batch, ids), cursor)
    BY DEF Merge
  <1> DEFINE list == Merged(batch, ids)
  <1>2. ~single /\ cursor' = cursor /\ single' = single /\ freeform' = freeform BY DEF Merge
  <1>3. Sound(list, cursor) /\ Numbered(list)
    BY <1>1, MergedIsSound, MergedIsNumbered DEF LineInv
  <1>4. \A e \in playlist :
          /\ Refreshed(e, batch).id = e.id /\ Refreshed(e, batch).video = e.video
          /\ Refreshed(e, batch).addedAt = e.addedAt
    BY RefreshedInPlace, RefreshedVideo DEF StoreInv, Shape
  <1>5. \A v : Added(v, ids[v], batch).addedAt = now /\ Added(v, ids[v], batch).video = v
    BY DEF Added
  <1>6. Dated(list) BY <1>4, <1>5 DEF Merged, Dated, DateInv
  <1>7. /\ VideosOf(list) = VideosOf(playlist) \cup NewVideos(batch)
        /\ \A e \in playlist : \E r \in list : r.id = e.id /\ r.video = e.video
    BY <1>4, <1>5 DEF Merged, VideosOf
  <1>8. NewVideos(batch) \in SUBSET Videos
    <2>1. \A n \in DOMAIN batch : batch[n] \in Candidate BY BatchesAssumption
    <2>2. QED BY <2>1 DEF NewVideos, Candidate
  <1>9. Storable(list, cursor) /\ playlist' = Stored(list, cursor) BY <1>1
  <1> HIDE DEF list
  <1>10. \A r \in list : r.id = cursor => VideoAt(cursor) = r.video
    <2> SUFFICES ASSUME NEW r \in list, r.id = cursor PROVE VideoAt(cursor) = r.video
      OBVIOUS
    <2>1. cursor # Null BY <1>3, NullAssumption DEF Sound, IsEntry
    <2>2. PICK e \in playlist : e.id = cursor BY <2>1 DEF StoreInv, CursorInPlaylist, IdsOf
    <2>3. PICK s \in list : s.id = e.id /\ s.video = e.video BY <1>7
    <2>4. r = s BY <2>2, <2>3, <1>3 DEF Sound
    <2>5. QED BY <2>2, <2>3, <2>4, VideoNow
  <1>11. /\ VideosOf(playlist') \in ViewersRow!Stored(VideosOf(list), VideoAt(cursor))
         /\ \A r \in list : r.id = cursor => \E f \in playlist' : f.id = r.id /\ f.video = r.video
    BY <1>3, <1>6, <1>9, <1>10, VideoNow, StoredVideos
  <1>12. VideoAt(cursor)' = VideoAt(cursor) BY <1>2, <1>7, <1>11, VideoStays
  <1>13. ViewersRow!Merge(NewVideos(batch))
    BY <1>2, <1>7, <1>11, <1>12, ModesOn DEF ViewersRow!Merge, VideosOf
  <1>14. QED BY <1>8, <1>13 DEF ViewersRow!Next

LEMMA AppendOfVideo ==
  ASSUME StoreInv, StoreInv', LineInv, DateInv, ~single,
         NEW v \in Videos, v \notin VideosOf(playlist), AppendNew(v)
  PROVE  ViewersRow!Next
  <1>1. PICK id \in FreshIds :
          LET entry == [id |-> id, video |-> v, pos |-> Highest(playlist) + 1,
                        source |-> "auto_appended", label |-> NoLabel, addedAt |-> now] IN
          /\ Storable(playlist \cup {entry}, id)
          /\ playlist' = Stored(playlist \cup {entry}, id)
          /\ cursor' = id
    BY DEF AppendNew
  <1> DEFINE entry == [id |-> id, video |-> v, pos |-> Highest(playlist) + 1,
                       source |-> "auto_appended", label |-> NoLabel, addedAt |-> now]
             list == playlist \cup {entry}
  <1>2. Storable(list, id) /\ playlist' = Stored(list, id) /\ cursor' = id BY <1>1
  <1>3. /\ IsEntry(entry) /\ entry.id = id /\ entry.pos = Highest(playlist) + 1
        /\ entry.addedAt = now /\ entry.video = v
        /\ \A e \in playlist : e.id # entry.id /\ e.video # entry.video
    BY DEF IsEntry, FreshIds, IdsOf, VideosOf
  <1> HIDE DEF entry
  <1>4. Sound(list, id) BY <1>3 DEF FreshIds, StoreInv, Shape, EntriesUnique, Sound
  <1>5. Numbered(list) BY <1>3, AppendedIsNumbered DEF LineInv
  <1>6. Dated(list) BY <1>3 DEF Dated, DateInv
  <1>7. VideosOf(list) = VideosOf(playlist) \cup {v} BY <1>3 DEF VideosOf
  <1>8. \A e \in list : e.id = id => v = e.video BY <1>3
  <1>9. entry \in list OBVIOUS
  <1>10. id # Null BY NullAssumption DEF FreshIds
  <1> HIDE DEF list
  <1>11. /\ VideosOf(playlist') \in ViewersRow!Stored(VideosOf(list), v)
         /\ \A e \in list : e.id = id => \E f \in playlist' : f.id = e.id /\ f.video = e.video
    BY <1>2, <1>4, <1>5, <1>6, <1>8, <1>10, StoredVideos
  <1>12. VideoAt(cursor)' = v
    <2>1. PICK f \in playlist' : f.id = id /\ f.video = v BY <1>3, <1>9, <1>11
    <2>2. QED BY <1>2, <2>1, VideoNext
  <1>13. single' = single /\ freeform' = freeform BY DEF AppendNew
  <1>14. ViewersRow!Append(v)
    BY <1>7, <1>11, <1>12, <1>13, ModesOn DEF ViewersRow!Append, VideosOf
  <1>15. QED BY <1>14 DEF ViewersRow!Next

LEMMA MoveOfCursor ==
  ASSUME StoreInv, StoreInv', NEW e \in playlist, MoveCursor(e.id)
  PROVE  ViewersRow!Next
  <1>1. /\ cursor' = e.id /\ playlist' = playlist
        /\ single' = single /\ freeform' = freeform
    BY DEF MoveCursor
  <1>2. VideoAt(cursor)' = e.video BY <1>1, VideoNext
  <1>3. VideosOf(playlist)' = VideosOf(playlist) /\ e.video \in VideosOf(playlist)
    BY <1>1 DEF VideosOf
  <1>4. ViewersRow!Move(e.video) BY <1>1, <1>2, <1>3 DEF ViewersRow!Move
  <1>5. e.video \in Videos BY DEF StoreInv, Shape, IsEntry
  <1>6. QED BY <1>4, <1>5 DEF ViewersRow!Next

LEMMA RemovalOfVideo ==
  ASSUME StoreInv, StoreInv', NEW id \in Ids, RemoveEntry(id)
  PROVE  ViewersRow!Next
  <1> DEFINE left == {f \in playlist : f.id # id}
  <1>1. /\ ~single /\ id # cursor /\ cursor' = cursor /\ playlist' = Renumbered(left)
        /\ single' = single /\ freeform' = freeform
    BY DEF RemoveEntry, Owner
  <1>2. PICK e \in playlist : e.id = id BY DEF RemoveEntry, IdsOf
  <1>3. \A f \in left : IsEntry(f) BY DEF StoreInv, Shape
  <1>4. VideosOf(left) = VideosOf(playlist) \ {e.video}
    BY <1>2 DEF VideosOf, StoreInv, EntriesUnique
  <1>5. \A f \in playlist : f.id = cursor => f \in left BY <1>1
  <1> HIDE DEF left
  <1>6. /\ VideosOf(playlist') = VideosOf(left)
        /\ \A f \in left : \E g \in playlist' : g.id = f.id /\ g.video = f.video
    BY <1>1, <1>3, RenumberedVideos
  <1>7. VideoAt(cursor)' = VideoAt(cursor) BY <1>1, <1>5, <1>6, VideoStays
  <1>8. e.video \in Videos BY DEF StoreInv, Shape, IsEntry
  <1>9. e.video # VideoAt(cursor)
    <2>1. CASE cursor = Null BY <1>8, <2>1, VideoNow, NullAssumption
    <2>2. CASE cursor # Null
      <3>1. PICK c \in playlist : c.id = cursor BY <2>2 DEF StoreInv, CursorInPlaylist, IdsOf
      <3>2. c.video # e.video BY <1>1, <1>2, <3>1 DEF StoreInv, EntriesUnique
      <3>3. QED BY <3>1, <3>2, VideoNow
    <2>3. QED BY <2>1, <2>2
  <1>10. e.video \in VideosOf(playlist) BY DEF VideosOf
  <1>11. ViewersRow!Remove(e.video)
    BY <1>1, <1>4, <1>6, <1>7, <1>9, <1>10, ModesOn DEF ViewersRow!Remove, VideosOf
  <1>12. QED BY <1>8, <1>11 DEF ViewersRow!Next

\* The same entries, in other places or with other labels.
Alike ==
  /\ \A e \in playlist : \E f \in playlist' : f.id = e.id /\ f.video = e.video
  /\ \A f \in playlist' : \E e \in playlist : f.id = e.id /\ f.video = e.video

LEMMA AlikeUnmoved ==
  ASSUME StoreInv, StoreInv', Alike, UNCHANGED <<cursor, single, freeform>>
  PROVE  UNCHANGED ViewersRow!vars
  <1>1. VideosOf(playlist)' = VideosOf(playlist) BY DEF Alike, VideosOf
  <1>2. VideoAt(cursor)' = VideoAt(cursor) BY VideoStays DEF Alike
  <1>3. QED BY <1>1, <1>2 DEF ViewersRow!vars

LEMMA ReorderAlike ==
  ASSUME StoreInv, NEW order \in Orders, ReorderEntries(order)
  PROVE  Alike
  <1> DEFINE at(e) == [e EXCEPT !.pos = order[e.id]]
  <1>1. playlist' = {at(e) : e \in playlist} BY DEF ReorderEntries
  <1>2. \A e \in playlist : at(e).id = e.id /\ at(e).video = e.video
    BY DEF StoreInv, Shape, IsEntry
  <1> HIDE DEF at
  <1>3. QED BY <1>1, <1>2 DEF Alike

LEMMA UpdateAlike ==
  ASSUME StoreInv, NEW id \in Ids, NEW label, NEW source, NEW position,
         UpdateEntry(id, label, source, position)
  PROVE  Alike
  <1>1. PICK e \in playlist :
          \/ playlist' = (playlist \ {e}) \cup {Patched(e, label, source)}
          \/ \E target : playlist' = Moved(e, target) \cup
                                     {[Patched(e, label, source) EXCEPT !.pos = target]}
    BY DEF UpdateEntry
  <1>2. IsEntry(e) BY DEF StoreInv, Shape
  <1> DEFINE g == Patched(e, label, source)
  <1>3. IsEntry(g) /\ g.id = e.id /\ g.video = e.video BY <1>2, PatchedIsEntry
  <1>4. CASE playlist' = (playlist \ {e}) \cup {g}
    <2> HIDE DEF g
    <2>1. QED BY <1>3, <1>4 DEF Alike
  <1>5. ASSUME NEW target, playlist' = Moved(e, target) \cup {[g EXCEPT !.pos = target]}
        PROVE  Alike
    <2> HIDE DEF g
    <2> DEFINE f == [g EXCEPT !.pos = target]
               others == Moved(e, target)
    <2>1. f.id = e.id /\ f.video = e.video BY <1>3, PlacedIsEntry
    <2>2. \A r \in others : \E h \in playlist \ {e} : r.id = h.id /\ r.video = h.video
      BY MovedIsSound
    <2>3. \A h \in playlist \ {e} : \E r \in others : r.id = h.id /\ r.video = h.video
      <3> TAKE h \in playlist \ {e}
      <3>1. PICK r \in others : r.id = h.id BY MovedIsSound
      <3>2. PICK k \in playlist : r.id = k.id /\ r.video = k.video BY <2>2
      <3>3. k = h BY <3>1, <3>2 DEF StoreInv, EntriesUnique
      <3>4. QED BY <3>1, <3>2, <3>3
    <2> HIDE DEF f, others
    <2>4. playlist' = others \cup {f} BY <1>5 DEF f, others
    <2>5. QED BY <2>1, <2>2, <2>3, <2>4 DEF Alike
  <1> HIDE DEF g
  <1>6. QED BY <1>1, <1>4, <1>5 DEF g

LEMMA StoreStepOfRow ==
  ASSUME StoreInv, StoreInv', LineInv, DateInv, [Next]_vars
  PROVE  ViewersRow!Next \/ UNCHANGED ViewersRow!vars
  <1>1. ASSUME NEW batch \in Batches, Merge(batch) PROVE ViewersRow!Next
    BY <1>1, MergeOfVideos
  <1>2. CASE \/ \E id \in Ids : RequestById(id)
             \/ \E v \in Videos : RequestByVideo(v)
             \/ \E v \in Videos : AutoAppend(v)
    <2>1. \/ \E e \in playlist : MoveCursor(e.id)
          \/ ~single /\ \E v \in Videos : v \notin VideosOf(playlist) /\ AppendNew(v)
      BY <1>2 DEF RequestById, RequestByVideo, AutoAppend, IdsOf
    <2>2. QED BY <2>1, MoveOfCursor, AppendOfVideo
  <1>3. ASSUME NEW id \in Ids, RemoveEntry(id) PROVE ViewersRow!Next
    BY <1>3, RemovalOfVideo
  <1>4. CASE \/ \E order \in Orders : ReorderEntries(order)
             \/ \E id \in Ids : \E label, source, position : UpdateEntry(id, label, source, position)
    <2>1. Alike BY <1>4, ReorderAlike, UpdateAlike
    <2>2. UNCHANGED <<cursor, single, freeform>>
      BY <1>4 DEF ReorderEntries, UpdateEntry, Owner
    <2>3. QED BY <2>1, <2>2, AlikeUnmoved
  <1>5. CASE ClearAll
    <2>1. /\ ~single /\ playlist' = {} /\ cursor' = Null
          /\ single' = single /\ freeform' = freeform
      BY <1>5 DEF ClearAll, Owner
    <2>2. VideoAt(cursor)' = Null BY <2>1, VideoNext
    <2>3. VideosOf(playlist)' = {} BY <2>1 DEF VideosOf
    <2>4. ViewersRow!Clear BY <2>1, <2>2, <2>3, ModesOn DEF ViewersRow!Clear
    <2>5. QED BY <2>4 DEF ViewersRow!Next
  <1>6. ASSUME NEW r \in Requests, WriteToggles(r) PROVE ViewersRow!Next
    <2>1. UNCHANGED <<playlist, cursor>> BY <1>6 DEF WriteToggles
    <2>2. VideoAt(cursor)' = VideoAt(cursor) /\ VideosOf(playlist)' = VideosOf(playlist)
      BY <2>1 DEF VideoAt, VideosOf
    <2>3. ViewersRow!Switch BY <2>2 DEF ViewersRow!Switch
    <2>4. QED BY <2>3 DEF ViewersRow!Next
  <1>7. CASE \/ \E r \in Requests, s, f \in BOOLEAN \cup {Null} : ReadToggles(r, s, f)
             \/ Tick \/ UNCHANGED vars
    <2>1. UNCHANGED <<playlist, cursor, single, freeform>>
      BY <1>7 DEF ReadToggles, Tick, row, vars
    <2>2. Alike BY <2>1 DEF Alike
    <2>3. QED BY <2>1, <2>2, AlikeUnmoved
  <1>8. QED BY <1>1, <1>2, <1>3, <1>4, <1>5, <1>6, <1>7 DEF Next

LEMMA StoreInitOfRow == Init => ViewersRow!Init
  <1> SUFFICES ASSUME Init PROVE ViewersRow!Init
    OBVIOUS
  <1>1. StoreInv BY StoreInvInit
  <1>2. VideosOf(playlist) \subseteq Videos BY <1>1 DEF StoreInv, Shape, IsEntry, VideosOf
  <1>3. cursor = Null /\ VideoAt(cursor) = Null BY DEF Init, VideoAt
  <1>4. ~(single /\ freeform) BY DEF Init
  <1>5. QED BY <1>2, <1>3, <1>4 DEF ViewersRow!Init

\* PlaylistStore implements RoomRow: with ids, positions, labels, dates and the
\* prune's choice forgotten, every operation of the services does to the row
\* what RoomSync takes a transaction to do.
THEOREM StoreIsTheRow == Spec => KeepsRow
  <1>1. StoreInv /\ StoreInv' /\ LineInv /\ DateInv /\ [Next]_vars =>
          [ViewersRow!Next]_ViewersRow!vars
    BY StoreStepOfRow
  <1>2. QED
    BY StoreInitOfRow, StoreInvHolds, LineInvHolds, DateInvHolds, <1>1, PTL
       DEF Spec, KeepsRow, ViewersRow!Spec

-----------------------------------------------------------------------------
(* Types.                                                                  *)

\* The columns of an entry that StoreInv and LineInv say nothing of.
Filled(e) ==
  /\ e.source \in Sources /\ e.label \in Labels \cup {NoLabel}
  /\ e.addedAt \in 0..MaxNow

RowInv ==
  /\ \A e \in playlist : Filled(e)
  /\ single \in BOOLEAN /\ freeform \in BOOLEAN
  /\ toggling \in [Requests -> Columns \cup {Null}]
  /\ now \in 0..MaxNow
  /\ op \in {"viewer", "raw", "owner"}

LEMMA PlacedIsFilled ==
  ASSUME NEW e, IsEntry(e), Filled(e), NEW p
  PROVE  Filled([e EXCEPT !.pos = p])
  BY DEF IsEntry, Filled

LEMMA StoredIsFilled ==
  ASSUME NEW list, NEW keep, Sound(list, keep), \A e \in list : Filled(e)
  PROVE  \A e \in Stored(list, keep) : Filled(e)
  <1> DEFINE kept == list \ Dropped(list, keep)
             at(e) == [e EXCEPT !.pos = Cardinality({f \in kept : f.pos <= e.pos})]
  <1>1. Renumbered(kept) = {at(e) : e \in kept} BY DEF Renumbered
  <1>2. \A e \in kept : Filled(at(e)) BY PlacedIsFilled DEF Sound
  <1>3. Stored(list, keep) = list \/ Stored(list, keep) = Renumbered(kept)
    BY DEF Stored, Pruned
  <1> HIDE DEF at
  <1>4. QED BY <1>1, <1>2, <1>3

\* The last label given is one a candidate carries.
LEMMA LastLabelIs ==
  ASSUME NEW batch \in Seq(Candidate), NEW v, NEW old \in Labels \cup {NoLabel}
  PROVE  LastLabel(batch, v, old) \in Labels \cup {NoLabel}
  <1> DEFINE given == {n \in Mentions(batch, v) : batch[n].label # NoLabel}
             L == Len(batch)
             back == {k \in Nat : L - k \in given}
  <1>1. DOMAIN batch = 1..L /\ L \in Nat OBVIOUS
  <1>2. \A n \in given : n \in 1..L /\ batch[n] \in Candidate BY <1>1 DEF Mentions
  <1>3. LastLabel(batch, v, old) =
          IF given = {} THEN old ELSE batch[CHOOSE n \in given : \A m \in given : m <= n].label
    BY DEF LastLabel
  <1> HIDE DEF given, L
  <1>4. CASE given = {} BY <1>3, <1>4
  <1>5. CASE given # {}
    <2>1. PICK n \in given : TRUE BY <1>5
    <2>2. L - n \in Nat /\ L - (L - n) = n BY <1>1, <1>2, <2>1
    <2>3. back \in SUBSET Nat /\ back # {} BY <2>1, <2>2
    <2>4. \E k \in back : \A j \in back : ~(<<j, k>> \in OpToRel(<, Nat))
      BY <2>3, NatLessThanWellFounded, WFMin
    <2>5. PICK k \in back : \A j \in back : ~(j < k) BY <2>3, <2>4 DEF OpToRel
    <2>6. L - k \in given BY <2>5
    <2>7. ASSUME NEW m \in given PROVE m <= L - k
      <3>1. L - m \in Nat /\ L - (L - m) = m BY <1>1, <1>2
      <3>2. L - m \in back BY <3>1
      <3>3. ~(L - m < k) BY <2>5, <3>2
      <3>4. k \in Int /\ m \in Int BY <1>2, <2>3
      <3>5. QED BY <1>1, <3>3, <3>4
    <2> HIDE DEF back
    <2>8. (CHOOSE i \in given : \A m \in given : m <= i) \in given BY <2>6, <2>7
    <2>9. QED BY <1>2, <1>3, <1>5, <2>8 DEF Candidate
  <1>6. QED BY <1>4, <1>5

LEMMA MergedIsFilled ==
  ASSUME StoreInv, RowInv, NEW batch \in Batches, NEW ids
  PROVE  \A e \in Merged(batch, ids) : Filled(e)
  <1>1. batch \in Seq(Candidate) BY BatchesAssumption
  <1>2. ASSUME NEW e \in playlist PROVE Filled(Refreshed(e, batch))
    <2>1. LastLabel(batch, e.video, e.label) \in Labels \cup {NoLabel}
      BY <1>1, LastLabelIs DEF RowInv, Filled
    <2>2. IsEntry(e) /\ Filled(e) BY DEF StoreInv, Shape, RowInv
    <2>3. \A label \in Labels \cup {NoLabel} : Filled([e EXCEPT !.label = label])
      BY <2>2 DEF IsEntry, Filled
    <2>4. QED BY <2>1, <2>2, <2>3 DEF Refreshed
  <1>3. ASSUME NEW v \in NewVideos(batch) PROVE Filled(Added(v, ids[v], batch))
    <2> DEFINE first == batch[FirstMention(batch, v)]
    <2>1. first \in Candidate BY <1>1, FirstMentionIs
    <2>2. LastLabel(batch, v, NoLabel) \in Labels \cup {NoLabel} BY <1>1, LastLabelIs
    <2> HIDE DEF first
    <2>3. /\ Added(v, ids[v], batch).source = first.source
          /\ Added(v, ids[v], batch).label =
               IF first.source = "curated" THEN first.label ELSE LastLabel(batch, v, NoLabel)
          /\ Added(v, ids[v], batch).addedAt = now
      BY DEF Added, first
    <2>4. QED BY <2>1, <2>2, <2>3 DEF Candidate, RowInv, Filled
  <1>4. QED BY <1>2, <1>3 DEF Merged

LEMMA MergeFills ==
  ASSUME StoreInv, RowInv, NEW batch \in Batches, Merge(batch)
  PROVE  RowInv'
  <1>1. PICK ids \in [NewVideos(batch) -> FreshIds] :
          /\ \A v, w \in NewVideos(batch) : ids[v] = ids[w] => v = w
          /\ playlist' = Stored(Merged(batch, ids), cursor)
    BY DEF Merge
  <1>2. Sound(Merged(batch, ids), cursor) BY <1>1, MergedIsSound
  <1>3. \A e \in Merged(batch, ids) : Filled(e) BY MergedIsFilled
  <1>4. \A e \in playlist' : Filled(e) BY <1>1, <1>2, <1>3, StoredIsFilled
  <1>5. QED BY <1>4 DEF RowInv, Merge

LEMMA AppendFills ==
  ASSUME StoreInv, RowInv, NEW v \in Videos, v \notin VideosOf(playlist), AppendNew(v)
  PROVE  \A e \in playlist' : Filled(e)
  <1>1. PICK id \in FreshIds :
          LET entry == [id |-> id, video |-> v, pos |-> Highest(playlist) + 1,
                        source |-> "auto_appended", label |-> NoLabel, addedAt |-> now] IN
          playlist' = Stored(playlist \cup {entry}, id)
    BY DEF AppendNew
  <1> DEFINE entry == [id |-> id, video |-> v, pos |-> Highest(playlist) + 1,
                       source |-> "auto_appended", label |-> NoLabel, addedAt |-> now]
             list == playlist \cup {entry}
  <1>2. playlist' = Stored(list, id) BY <1>1
  <1>3. /\ IsEntry(entry) /\ entry.id = id
        /\ \A e \in playlist : e.id # entry.id /\ e.video # entry.video
    BY DEF IsEntry, FreshIds, IdsOf, VideosOf
  <1>4. Filled(entry) BY DEF RowInv, Filled, Sources
  <1> HIDE DEF entry
  <1>5. Sound(list, id) BY <1>3 DEF FreshIds, StoreInv, Shape, EntriesUnique, Sound
  <1>6. \A e \in list : Filled(e) BY <1>4 DEF RowInv
  <1> HIDE DEF list
  <1>7. QED BY <1>2, <1>5, <1>6, StoredIsFilled

LEMMA EditsFill ==
  ASSUME StoreInv, RowInv,
         \/ \E id \in Ids : RemoveEntry(id)
         \/ \E order \in Orders : ReorderEntries(order)
         \/ \E id \in Ids, label \in Labels \cup {NoLabel}, source \in {"curated", Null},
               position \in (0..(PerRoomCap + 1)) \cup {Null} :
               UpdateEntry(id, label, source, position)
         \/ ClearAll
  PROVE  RowInv'
  <1>1. /\ UNCHANGED <<single, freeform, toggling, now>> /\ op' = "owner"
    BY DEF RemoveEntry, ReorderEntries, UpdateEntry, ClearAll, Owner
  <1>2. \A e \in playlist : IsEntry(e) /\ Filled(e) BY DEF StoreInv, Shape, RowInv
  <1>3. \A e \in playlist : \A p : Filled([e EXCEPT !.pos = p]) BY <1>2, PlacedIsFilled
  <1>4. ASSUME NEW id \in Ids, RemoveEntry(id) PROVE \A e \in playlist' : Filled(e)
    <2> DEFINE left == {e \in playlist : e.id # id}
               at(e) == [e EXCEPT !.pos = Cardinality({f \in left : f.pos <= e.pos})]
    <2>1. playlist' = {at(e) : e \in left} BY <1>4 DEF RemoveEntry, Renumbered
    <2>2. \A e \in left : Filled(at(e)) BY <1>3
    <2> HIDE DEF at
    <2>3. QED BY <2>1, <2>2
  <1>5. ASSUME NEW order \in Orders, ReorderEntries(order)
        PROVE  \A e \in playlist' : Filled(e)
    <2> DEFINE at(e) == [e EXCEPT !.pos = order[e.id]]
    <2>1. playlist' = {at(e) : e \in playlist} BY <1>5 DEF ReorderEntries
    <2>2. \A e \in playlist : Filled(at(e)) BY <1>3
    <2> HIDE DEF at
    <2>3. QED BY <2>1, <2>2
  <1>6. ASSUME NEW id \in Ids, NEW label \in Labels \cup {NoLabel}, NEW source \in {"curated", Null},
               NEW position, UpdateEntry(id, label, source, position)
        PROVE  \A e \in playlist' : Filled(e)
    <2>1. PICK e \in playlist : \E target :
            \/ playlist' = (playlist \ {e}) \cup {Patched(e, label, source)}
            \/ playlist' = Moved(e, target) \cup {[Patched(e, label, source) EXCEPT !.pos = target]}
      BY <1>6 DEF UpdateEntry
    <2>2. PICK target :
            \/ playlist' = (playlist \ {e}) \cup {Patched(e, label, source)}
            \/ playlist' = Moved(e, target) \cup {[Patched(e, label, source) EXCEPT !.pos = target]}
      BY <2>1
    <2> DEFINE g == Patched(e, label, source)
               others == playlist \ {e}
               rank(f) == Cardinality({h \in others : h.pos <= f.pos})
               at(f) == [f EXCEPT !.pos = IF rank(f) < target THEN rank(f) ELSE rank(f) + 1]
    <2>3. IsEntry(g) BY <1>2, PatchedIsEntry
    <2>4. Filled(g)
      <3> DEFINE l == IF label = NoLabel THEN e.label ELSE label
                 s == IF source = Null THEN e.source ELSE source
      <3>1. l \in Labels \cup {NoLabel} /\ s \in Sources BY <1>2 DEF Filled, Sources
      <3>2. g = [e EXCEPT !.label = l, !.source = s] BY DEF Patched
      <3> HIDE DEF g, l, s
      <3>3. QED BY <1>2, <3>1, <3>2 DEF IsEntry, Filled
    <2>5. Moved(e, target) = {at(f) : f \in others} BY DEF Moved
    <2>6. \A f \in others : Filled(at(f)) BY <1>3
    <2> HIDE DEF at, g
    <2>7. Filled([g EXCEPT !.pos = target]) BY <2>3, <2>4, PlacedIsFilled
    <2>8. QED BY <1>2, <2>2, <2>4, <2>5, <2>6, <2>7 DEF g
  <1>7. ClearAll => \A e \in playlist' : Filled(e) BY DEF ClearAll
  <1>8. \A e \in playlist' : Filled(e) BY <1>4, <1>5, <1>6, <1>7
  <1>9. QED BY <1>1, <1>8 DEF RowInv

LEMMA TogglesFill ==
  ASSUME RowInv, NEW r \in Requests,
         \/ WriteToggles(r)
         \/ \E s, f \in BOOLEAN \cup {Null} : ReadToggles(r, s, f)
  PROVE  RowInv'
  <1>1. CASE WriteToggles(r)
    <2>1. toggling[r] \in Columns BY <1>1 DEF WriteToggles, RowInv
    <2>2. single' \in BOOLEAN /\ freeform' \in BOOLEAN
      BY <1>1, <2>1 DEF WriteToggles, RowInv, Columns
    <2>3. toggling' \in [Requests -> Columns \cup {Null}] BY <1>1 DEF WriteToggles, RowInv
    <2>4. QED BY <1>1, <2>2, <2>3 DEF WriteToggles, RowInv
  <1>2. ASSUME NEW s \in BOOLEAN \cup {Null}, NEW f \in BOOLEAN \cup {Null}, ReadToggles(r, s, f)
        PROVE  RowInv'
    <2> DEFINE ns == IF s = Null THEN single ELSE s
               nf == IF f = Null THEN freeform ELSE f
               cols == [single |-> IF ns = single THEN Null ELSE ns,
                        freeform |-> IF nf = freeform THEN Null ELSE nf]
    <2>1. cols \in Columns BY DEF Columns, RowInv
    <2>2. toggling' = [toggling EXCEPT ![r] = cols] BY <1>2 DEF ReadToggles
    <2> HIDE DEF cols
    <2>3. toggling' \in [Requests -> Columns \cup {Null}] BY <2>1, <2>2 DEF RowInv
    <2>4. QED BY <1>2, <2>3 DEF ReadToggles, RowInv, row
  <1>3. QED BY <1>1, <1>2

LEMMA RowInvInit == Init => RowInv
  <1> SUFFICES ASSUME Init PROVE RowInv OBVIOUS
  <1>1. PICK list \in InitialLists : \E ids \in [DOMAIN list -> Ids] :
          \E labels \in [DOMAIN list -> Labels \cup {NoLabel}] :
            playlist = {[id |-> ids[n], video |-> list[n], pos |-> n, source |-> "curated",
                         label |-> labels[n], addedAt |-> 0] : n \in DOMAIN list}
    BY DEF Init
  <1>2. \A e \in playlist : Filled(e) BY <1>1, CapsAssumption DEF Filled, Sources
  <1>3. toggling \in [Requests -> Columns \cup {Null}] BY DEF Init
  <1>4. QED BY <1>2, <1>3, CapsAssumption DEF Init, RowInv

LEMMA RowInvStep ==
  ASSUME StoreInv, RowInv, [Next]_vars
  PROVE  RowInv'
  <1>1. CASE \E batch \in Batches : Merge(batch) BY <1>1, MergeFills
  <1>2. CASE \/ \E id \in Ids : RequestById(id)
             \/ \E v \in Videos : RequestByVideo(v)
             \/ \E v \in Videos : AutoAppend(v)
    <2>1. \/ playlist' = playlist
          \/ \E v \in Videos : v \notin VideosOf(playlist) /\ AppendNew(v)
      BY <1>2 DEF RequestById, RequestByVideo, AutoAppend, MoveCursor
    <2>2. \A e \in playlist' : Filled(e) BY <2>1, AppendFills DEF RowInv
    <2>3. UNCHANGED <<single, freeform, toggling, now>> /\ op' \in {"viewer", "raw"}
      BY <1>2 DEF RequestById, RequestByVideo, AutoAppend, MoveCursor, AppendNew
    <2>4. QED BY <2>2, <2>3 DEF RowInv
  <1>3. CASE \/ \E id \in Ids : RemoveEntry(id)
             \/ \E order \in Orders : ReorderEntries(order)
             \/ \E id \in Ids, label \in Labels \cup {NoLabel}, source \in {"curated", Null},
                   position \in (0..(PerRoomCap + 1)) \cup {Null} :
                   UpdateEntry(id, label, source, position)
             \/ ClearAll
    BY <1>3, EditsFill
  <1>4. CASE \/ \E r \in Requests, s, f \in BOOLEAN \cup {Null} : ReadToggles(r, s, f)
             \/ \E r \in Requests : WriteToggles(r)
    BY <1>4, TogglesFill
  <1>5. CASE Tick BY <1>5, CapsAssumption DEF Tick, RowInv, row
  <1>6. CASE UNCHANGED vars BY <1>6 DEF vars, RowInv
  <1>7. QED BY <1>1, <1>2, <1>3, <1>4, <1>5, <1>6 DEF Next

\* The row keeps its types: every entry has its columns, a position from 1, one
\* of the three sources and a label a caller gave (the last of a batch that
\* names it is one of the batch), whoever writes.
THEOREM StoreTypes == Spec => []TypeOK
  <1>1. StoreInv /\ RowInv /\ [Next]_vars => RowInv' BY RowInvStep
  <1>2. StoreInv /\ LineInv /\ RowInv => TypeOK
    <2> SUFFICES ASSUME StoreInv, LineInv, RowInv PROVE TypeOK OBVIOUS
    <2>1. ASSUME NEW e \in playlist PROVE e \in Entry
      <3>1. e.pos \in Nat \ {0} BY PlaylistCounted DEF LineInv, Numbered
      <3>2. IsEntry(e) /\ Filled(e) BY DEF StoreInv, Shape, RowInv
      <3>3. QED BY <3>1, <3>2 DEF Entry, IsEntry, Filled
    <2>2. QED BY <2>1 DEF TypeOK, StoreInv, Shape, RowInv
  <1>3. QED BY RowInvInit, StoreInvHolds, LineInvHolds, <1>1, <1>2, PTL DEF Spec

=============================================================================
