---------------------------- MODULE PlaylistStore ----------------------------
(***************************************************************************)
(* The room's row as PlaylistService, CursorService and RoomService change *)
(* it: the playlist, the cursor and the two mode toggles.                  *)
(*                                                                         *)
(* Every playlist and cursor operation runs in a transaction on the row    *)
(* locked FOR UPDATE, so it is one action; when it throws, the transaction *)
(* is rolled back and nothing changes, so an action has the conditions     *)
(* under which the operation does not throw as its guard.  setToggles      *)
(* takes no lock: it reads the row, decides, and updates the columns it    *)
(* changed later, so it is two actions.                                    *)
(*                                                                         *)
(* The JSON column is a set of entries, each with its position; a video is *)
(* its lower-cased (providerId, videoId); pageUrl, the episode numbers     *)
(* (which follow the label's rule), addedBy and lastSeenAt are left out.   *)
(***************************************************************************)
EXTENDS Naturals, FiniteSets, Sequences

CONSTANTS
  Videos,         \* natural keys
  Ids,            \* entryIds; one that is not in the playlist is as good as new
  Labels,         \* labels a candidate or a patch may carry
  NoLabel,        \* label = null
  Null,           \* no cursor, no argument, a column that is not written
  Batches,        \* the candidate lists merge is called with
  InitialLists,   \* the lists of videos createRoom may be given
  Requests,       \* setToggles calls that may run at the same time
  PerRoomCap,     \* PlaylistService::PER_ROOM_CAP
  FreeformCap,    \* FreeformConfig.autoAppendCap
  MaxNow          \* bound on the clock

Sources == {"curated", "scraped", "auto_appended"}

Candidate == [video : Videos, source : Sources, label : Labels \cup {NoLabel}]

ASSUME BatchesAssumption ==
  /\ Batches \subseteq Seq(Candidate)
  /\ InitialLists \subseteq Seq(Videos)
  /\ \A list \in InitialLists :
       Len(list) <= PerRoomCap /\ \A m, n \in DOMAIN list : list[m] = list[n] => m = n

\* FreeformConfig::fromAppConfig clamps its cap to 1..PER_ROOM_CAP.
ASSUME CapsAssumption ==
  /\ PerRoomCap \in Nat
  /\ FreeformCap \in 1..PerRoomCap
  /\ MaxNow \in Nat

ASSUME NullAssumption ==
  Null \notin Ids \cup Videos \cup BOOLEAN /\ NoLabel \notin Labels

VARIABLES
  playlist,   \* set of entries
  cursor,     \* cursorEntryId or Null
  single,     \* singleMode
  freeform,   \* freeformMode
  toggling,   \* what each setToggles call is about to write
  now,        \* seconds
  op          \* who changed the row last: "viewer", "raw" (a raw cursor target), "owner"

row == <<playlist, cursor, single, freeform>>
vars == <<playlist, cursor, single, freeform, toggling, now, op>>

Entry == [id : Ids, video : Videos, pos : Nat \ {0}, source : Sources,
          label : Labels \cup {NoLabel}, addedAt : 0..MaxNow]

Columns == [single : BOOLEAN \cup {Null}, freeform : BOOLEAN \cup {Null}]

TypeOK ==
  /\ playlist \subseteq Entry
  /\ cursor \in Ids \cup {Null}
  /\ single \in BOOLEAN /\ freeform \in BOOLEAN
  /\ toggling \in [Requests -> Columns \cup {Null}]
  /\ now \in 0..MaxNow
  /\ op \in {"viewer", "raw", "owner"}

-----------------------------------------------------------------------------
(* The playlist.                                                           *)

VideosOf(list) == {e.video : e \in list}
IdsOf(list) == {e.id : e \in list}
FreshIds == Ids \ IdsOf(playlist)

HasRoom(n) == Cardinality(playlist) + n <= PerRoomCap

(* highestPosition                                                         *)
Highest(list) == IF list = {} THEN 0
                 ELSE CHOOSE p \in {e.pos : e \in list} : \A e \in list : e.pos <= p

(* position = 1, 2, ... in the order the entries already have.             *)
Renumbered(list) ==
  {[e EXCEPT !.pos = Cardinality({f \in list : f.pos <= e.pos})] : e \in list}

(* createRoom: mode and curated initial entries; the cursor stays unset.   *)
Init ==
  /\ single \in BOOLEAN /\ freeform \in BOOLEAN /\ ~(single /\ freeform)
  /\ \E list \in InitialLists : \E ids \in [DOMAIN list -> Ids] :
       /\ \A m, n \in DOMAIN list : ids[m] = ids[n] => m = n
       /\ \E labels \in [DOMAIN list -> Labels \cup {NoLabel}] :
            playlist = {[id |-> ids[n], video |-> list[n], pos |-> n, source |-> "curated",
                         label |-> labels[n], addedAt |-> 0] : n \in DOMAIN list}
  /\ cursor = Null
  /\ toggling = [r \in Requests |-> Null]
  /\ now = 0
  /\ op = "owner"

-----------------------------------------------------------------------------
(* pruneAutoAppendedIfOverCap                                              *)

\* Mutant: the position decides alone.
OlderByPosition(e, f) == e.pos < f.pos

Older(e, f) == e.addedAt < f.addedAt \/ (e.addedAt = f.addedAt /\ e.pos < f.pos)

\* Mutant: the entry under the cursor is not spared.
EligibleWithCursor(list, keep) == {e \in list : e.source = "auto_appended"}

\* Mutant: any entry may be pruned.
EligibleAnySource(list, keep) == {e \in list : e.id # keep}

Eligible(list, keep) == {e \in list : e.source = "auto_appended" /\ e.id # keep}

(* The oldest eligible entries, as many as the list is over the cap.       *)
Dropped(list, keep) ==
  {e \in Eligible(list, keep) :
     Cardinality({f \in Eligible(list, keep) : Older(f, e)}) + FreeformCap < Cardinality(list)}

\* Mutant: it never throws.
AlwaysPrunable(list, keep) == TRUE

(* Otherwise it throws freeform_cap.                                       *)
Prunable(list, keep) == Cardinality(list \ Dropped(list, keep)) <= FreeformCap

Pruned(list, keep) ==
  IF Dropped(list, keep) = {} THEN list ELSE Renumbered(list \ Dropped(list, keep))

(* What is stored when list is written in the current mode.                *)
Storable(list, keep) == freeform => Prunable(list, keep)
Stored(list, keep) == IF freeform THEN Pruned(list, keep) ELSE list

-----------------------------------------------------------------------------
(* merge                                                                   *)

Mentions(batch, v) == {n \in DOMAIN batch : batch[n].video = v}
FirstMention(batch, v) ==
  CHOOSE n \in Mentions(batch, v) : \A m \in Mentions(batch, v) : n <= m
NewVideos(batch) == {batch[n].video : n \in DOMAIN batch} \ VideosOf(playlist)

(* insertsPlanned counts mentions, so a video mentioned twice counts twice.*)
InsertsPlanned(batch) == Cardinality({n \in DOMAIN batch : batch[n].video \in NewVideos(batch)})

(* The label that stays: the last one given, or what there was.            *)
LastLabel(batch, v, old) ==
  LET given == {n \in Mentions(batch, v) : batch[n].label # NoLabel} IN
  IF given = {} THEN old ELSE batch[CHOOSE n \in given : \A m \in given : m <= n].label

Refreshed(e, batch) ==
  IF e.source = "curated" THEN e ELSE [e EXCEPT !.label = LastLabel(batch, e.video, @)]

(* Appended in the order of first mention; a curated newcomer keeps the    *)
(* label of its first mention, the others take later ones.                 *)
Added(v, id, batch) ==
  LET first == batch[FirstMention(batch, v)] IN
  [id |-> id, video |-> v,
   pos |-> Highest(playlist) +
           Cardinality({w \in NewVideos(batch) : FirstMention(batch, w) <= FirstMention(batch, v)}),
   source |-> first.source,
   label |-> IF first.source = "curated" THEN first.label ELSE LastLabel(batch, v, NoLabel),
   addedAt |-> now]

Merged(batch, ids) ==
  {Refreshed(e, batch) : e \in playlist} \cup
    {Added(v, ids[v], batch) : v \in NewVideos(batch)}

(* Throws single_mode_locked, then the per-room cap, then the freeform cap.*)
Merge(batch) ==
  /\ ~single
  /\ HasRoom(InsertsPlanned(batch))
  /\ \E ids \in [NewVideos(batch) -> FreshIds] :
       /\ \A v, w \in NewVideos(batch) : ids[v] = ids[w] => v = w
       /\ Storable(Merged(batch, ids), cursor)
       /\ playlist' = Stored(Merged(batch, ids), cursor)
  /\ op' = "viewer"
  /\ UNCHANGED <<cursor, single, freeform, toggling, now>>

-----------------------------------------------------------------------------
(* The cursor: CursorService::requestChange, PlaylistService::autoAppend.  *)

MoveCursor(id) == cursor' = id /\ UNCHANGED <<playlist, single, freeform, toggling, now>>

(* A target by entry id: accepted in every mode.                           *)
RequestById(id) == id \in IdsOf(playlist) /\ MoveCursor(id) /\ op' = "viewer"

(* performAutoAppend for a video that is not there.                        *)
AppendNew(v) ==
  /\ HasRoom(1)
  /\ \E id \in FreshIds :
       LET entry == [id |-> id, video |-> v, pos |-> Highest(playlist) + 1,
                     source |-> "auto_appended", label |-> NoLabel, addedAt |-> now] IN
       /\ Storable(playlist \cup {entry}, id)
       /\ playlist' = Stored(playlist \cup {entry}, id)
       /\ cursor' = id
  /\ UNCHANGED <<single, freeform, toggling, now>>

\* Mutant: freeform appends without looking for the video first.
RequestByVideoBlindly(v) ==
  /\ \/ \E e \in playlist : e.video = v /\ MoveCursor(e.id)
     \/ ~single /\ freeform /\ AppendNew(v)
  /\ op' = "raw"

(* A target by raw video: an existing one is resolved in every mode, an    *)
(* unknown one is single_mode_locked, not_in_playlist or appended.         *)
RequestByVideo(v) ==
  /\ \/ \E e \in playlist : e.video = v /\ MoveCursor(e.id)
     \/ v \notin VideosOf(playlist) /\ ~single /\ freeform /\ AppendNew(v)
  /\ op' = "raw"

AutoAppend(v) ==
  /\ ~single
  /\ \/ \E e \in playlist : e.video = v /\ MoveCursor(e.id)
     \/ v \notin VideosOf(playlist) /\ AppendNew(v)
  /\ op' = "raw"

-----------------------------------------------------------------------------
(* The owner's edits.                                                      *)

Owner == op' = "owner" /\ UNCHANGED <<single, freeform, toggling, now>>

\* Mutant: the hole is left.
RemoveEntryOnly(id) ==
  /\ ~single
  /\ id # cursor
  /\ id \in IdsOf(playlist)
  /\ playlist' = {e \in playlist : e.id # id}
  /\ UNCHANGED cursor
  /\ Owner

RemoveEntry(id) ==
  /\ ~single
  /\ id # cursor
  /\ id \in IdsOf(playlist)
  /\ playlist' = Renumbered({e \in playlist : e.id # id})
  /\ UNCHANGED cursor
  /\ Owner

(* Any permutation of the entry ids.                                       *)
ReorderEntries(order) ==
  /\ ~single
  /\ playlist' = {[e EXCEPT !.pos = order[e.id]] : e \in playlist}
  /\ UNCHANGED cursor
  /\ Owner

Patched(e, label, source) ==
  [e EXCEPT !.label = IF label = NoLabel THEN @ ELSE label,
            !.source = IF source = Null THEN @ ELSE source]

(* e at target, the others 1, 2, ... around it.                            *)
Moved(e, target) ==
  LET others == playlist \ {e}
      rank(f) == Cardinality({g \in others : g.pos <= f.pos}) IN
  {[f EXCEPT !.pos = IF rank(f) < target THEN rank(f) ELSE rank(f) + 1] : f \in others}

\* Mutant: the single-mode check of a move is missing.
UpdateEntryInSingle(id, label, source, position) ==
  \E e \in playlist :
    /\ e.id = id
    /\ \/ /\ position \in {Null, e.pos}
          /\ playlist' = (playlist \ {e}) \cup {Patched(e, label, source)}
       \/ /\ position \notin {Null, e.pos}
          /\ LET target == IF position > Cardinality(playlist) THEN Cardinality(playlist)
                           ELSE IF position = 0 THEN 1 ELSE position IN
             playlist' = Moved(e, target) \cup {[Patched(e, label, source) EXCEPT !.pos = target]}
    /\ UNCHANGED cursor
    /\ Owner

(* updateEntry; promoteToCurated is the case without a position.  A        *)
(* position that is the entry's own is no move and passes in single mode.  *)
UpdateEntry(id, label, source, position) ==
  \E e \in playlist :
    /\ e.id = id
    /\ \/ /\ position \in {Null, e.pos}
          /\ playlist' = (playlist \ {e}) \cup {Patched(e, label, source)}
       \/ /\ position \notin {Null, e.pos}
          /\ ~single
          /\ LET target == IF position > Cardinality(playlist) THEN Cardinality(playlist)
                           ELSE IF position = 0 THEN 1 ELSE position IN
             playlist' = Moved(e, target) \cup {[Patched(e, label, source) EXCEPT !.pos = target]}
    /\ UNCHANGED cursor
    /\ Owner

ClearAll ==
  /\ ~single
  /\ playlist' = {}
  /\ cursor' = Null
  /\ Owner

-----------------------------------------------------------------------------
(* setToggles                                                              *)

(* The row is read and the combination checked; an argument may be Null.   *)
(* When no column changes, nothing is written.                             *)
ReadToggles(r, wantSingle, wantFreeform) ==
  LET nextSingle == IF wantSingle = Null THEN single ELSE wantSingle
      nextFreeform == IF wantFreeform = Null THEN freeform ELSE wantFreeform IN
  /\ toggling[r] = Null
  /\ ~(nextSingle /\ nextFreeform)
  /\ <<nextSingle, nextFreeform>> # <<single, freeform>>
  /\ toggling' = [toggling EXCEPT ![r] =
       [single |-> IF nextSingle = single THEN Null ELSE nextSingle,
        freeform |-> IF nextFreeform = freeform THEN Null ELSE nextFreeform]]
  /\ UNCHANGED <<row, now, op>>

(* QBMapper::update writes the fields whose value changed since the read.  *)
WriteToggles(r) ==
  /\ toggling[r] # Null
  /\ single' = IF toggling[r].single = Null THEN single ELSE toggling[r].single
  /\ freeform' = IF toggling[r].freeform = Null THEN freeform ELSE toggling[r].freeform
  /\ toggling' = [toggling EXCEPT ![r] = Null]
  /\ UNCHANGED <<playlist, cursor, now, op>>

Tick ==
  /\ now < MaxNow
  /\ now' = now + 1
  /\ UNCHANGED <<row, toggling, op>>

Orders == {f \in [IdsOf(playlist) -> 1..Cardinality(playlist)] :
             \A i, j \in IdsOf(playlist) : f[i] = f[j] => i = j}

Next ==
  \/ \E batch \in Batches : Merge(batch)
  \/ \E id \in Ids : RequestById(id)
  \/ \E v \in Videos : RequestByVideo(v)
  \/ \E v \in Videos : AutoAppend(v)
  \/ \E id \in Ids : RemoveEntry(id)
  \/ \E order \in Orders : ReorderEntries(order)
  \/ \E id \in Ids, label \in Labels \cup {NoLabel}, source \in {"curated", Null},
        position \in (0..(PerRoomCap + 1)) \cup {Null} :
        UpdateEntry(id, label, source, position)
  \/ ClearAll
  \/ \E r \in Requests, s, f \in BOOLEAN \cup {Null} : ReadToggles(r, s, f)
  \/ \E r \in Requests : WriteToggles(r)
  \/ Tick

Spec == Init /\ [][Next]_vars

-----------------------------------------------------------------------------
(* Safety.                                                                 *)

\* No video is twice in the playlist and no two entries share an id, whatever
\* a batch repeats and whichever path appended (merge, performAutoAppend).
EntriesUnique ==
  \A e, f \in playlist : (e.id = f.id \/ e.video = f.video) => e = f

\* The cursor never dangles: no prune, removal or clear takes the entry under
\* it away (Room::getCursorEntry allows for a stale one).
CursorInPlaylist == cursor # Null => cursor \in IdsOf(playlist)

\* Positions are 1..n, each once, after every append, move, removal and prune.
PositionsContiguous == {e.pos : e \in playlist} = 1..Cardinality(playlist)

\* The per-room cap is never passed.
WithinRoomCap == Cardinality(playlist) <= PerRoomCap

\* What no one but the owner does to an entry: lose a curated one, or change
\* its label or source (merge rules, auto-prune).
CuratedSticky ==
  [][op' # "owner" =>
       \A e \in playlist : e.source = "curated" =>
         \E f \in playlist' : f.id = e.id /\ f.label = e.label /\ f.source = "curated"]_vars

\* Nobody but the owner reorders: entries that survive keep their order, and
\* newcomers come after all of them.
OrderKept ==
  [][op' # "owner" =>
       \A f, g \in playlist' : f.pos < g.pos =>
         /\ g.id \in IdsOf(playlist) => f.id \in IdsOf(playlist)
         /\ \A d, e \in playlist : d.id = f.id /\ e.id = g.id => d.pos < e.pos]_vars

\* The prune takes the oldest auto-appended entries, never the one under the
\* cursor, and stops at the cap; nothing else disappears by itself.
PruneTakesOldest ==
  [][op' # "owner" =>
       LET gone == {e \in playlist : e.id \notin IdsOf(playlist')} IN
       /\ gone # {} => freeform /\ Cardinality(playlist') = FreeformCap
       /\ \A e \in gone :
            /\ e.source = "auto_appended"
            /\ \A f \in playlist \ gone :
                 f.source = "auto_appended" /\ f.id # cursor' =>
                   e.addedAt < f.addedAt \/ (e.addedAt = f.addedAt /\ e.pos < f.pos)]_vars

\* A freeform room that grows ends within its cap.
FreeformGrowthCapped ==
  [][freeform /\ ~(IdsOf(playlist') \subseteq IdsOf(playlist)) =>
       Cardinality(playlist') <= FreeformCap]_vars

\* While single mode is on no call adds, drops or moves an entry.
SingleLocks ==
  [][single => /\ IdsOf(playlist') = IdsOf(playlist)
               /\ \A e \in playlist, f \in playlist' : e.id = f.id => e.pos = f.pos]_vars

(* What RoomSync knows of the row: see RoomRow.                            *)
VideoAt(id) == IF id = Null THEN Null ELSE (CHOOSE e \in playlist : e.id = id).video

ViewersRow == INSTANCE RoomRow WITH
  None <- Null, list <- VideosOf(playlist), cursor <- VideoAt(cursor),
  modes <- (IF single THEN {"single"} ELSE {}) \cup (IF freeform THEN {"freeform"} ELSE {})

\* Every merge, prune, append, edit and settings request does to the listed
\* videos, the cursor and the modes what RoomSync takes a transaction to do.
KeepsRow == ViewersRow!Spec

(* What the repository says and the code does not do.                      *)

\* "singleMode and freeformMode are mutually exclusive" (RoomService).
ModesExclusive == ~(single /\ freeform)

\* "Single, target by raw video -> reject single_mode_locked" (CursorService):
\* in single mode a raw target moves nothing.
SingleRejectsRaw == [][single /\ op' = "raw" => cursor' = cursor]_vars
=============================================================================
