------------------------------ MODULE SourceSync ------------------------------
(***************************************************************************)
(* The catalogue of the sources: how m3u_sync.rs, xtream_sync.rs and       *)
(* stalker_sync.rs fetch what a provider lists, and how save_sync_data     *)
(* (services/mod.rs) replaces the stored channels and movies with it.      *)
(*                                                                         *)
(* A sync is one long asynchronous call: a list after the other is fetched *)
(* while the provider changes its offer and other syncs, of this source or *)
(* of another one, run.  Only the transaction at its end is serialised (by *)
(* sync_mutex), so it is one step here.  Movies, series and episodes share *)
(* the table db_movies.  A film of a playlist is an item of two kinds: its  *)
(* entry becomes a channel and a movie.                                    *)
(***************************************************************************)
EXTENDS Naturals, Sequences

CONSTANTS
    Sources,     \* ids a source may be given; a deleted id is not reused
    SourceType,  \* m3u, xtream or stalker, for each source
    Url,         \* the provider behind each source
    Items,       \* all a provider may list: [url, kind, num], num its native id
    Syncs,       \* calls of sync_*_source that can be under way together
    MaxChanges,  \* bound: how often offers change
    MaxSyncs     \* bound: how many syncs are begun

ASSUME SourceAssumption ==
    /\ SourceType \in [Sources -> {"m3u", "xtream", "stalker"}]
    /\ DOMAIN Url = Sources
    /\ MaxChanges \in Nat /\ MaxSyncs \in Nat

Kinds == {"live", "movie", "series", "episode"}
Idle == [src |-> "none", no |-> 0, step |-> 0, got |-> {}]

VARIABLES
    life,      \* of each source: new, present or deleted
    server,    \* the items on offer
    rows,      \* db_channels and db_movies: [src, kind, num, id]
    favs,      \* db_user_favorites: ids of channel rows
    cats,      \* sources that have rows in db_categories
    sync,      \* the call each of Syncs is in
    fetched,   \* history: what the calls for each source came to save
    changes,
    begun

sourceVars == <<life, server, rows, favs, cats, sync, fetched, changes, begun>>

Present == {s \in Sources : life[s] = "present"}
Table(x) == IF x.kind = "live" THEN "db_channels" ELSE "db_movies"

\* UNIQUE (source_id, native_id) of either table.
Key(x) == <<Table(x), x.num>>
Keys(X) == {Key(x) : x \in X}

\* The primary key an item is parsed with: a movie of a playlist has one made of
\* its address only; channels and all else have a new entity id in each call,
\* and an episode one made of its series' new id and its number.
RowId(no, type, i) ==
    IF type = "m3u" /\ i.kind = "movie" THEN <<"mvod", i.num>> ELSE <<no, i.kind, i.num>>

RowsOf(s) == {r \in rows : r.src = s}

-----------------------------------------------------------------------------
\* The kinds each request of a sync asks for, in order.
Requests(type) ==
    CASE type = "m3u"     -> << {"live", "movie"} >>
      [] type = "xtream"  -> << {"live"}, {"movie"}, {"series"}, {"episode"} >>
      [] type = "stalker" -> << {"live"}, {"movie"}, {"series"} >>

Listing(t) ==
    LET asked == Requests(SourceType[sync[t].src])[sync[t].step]
    IN  {i \in server :
            /\ i.url = Url[sync[t].src]
            /\ i.kind \in asked
            /\ i.kind = "episode" => \E g \in sync[t].got : g.kind = "series"}

\* What a request may bring: pages of Stalker and per-series calls fail one by
\* one; any other list is complete or empty, Xtream's if the request failed, a
\* playlist if the server sent the page of an error, in which nothing is found.
Brings(type, kinds, listing) ==
    IF type = "stalker" \/ "episode" \in kinds THEN SUBSET listing ELSE {listing, {}}

SyncBegin(t, s) ==
    /\ sync[t] = Idle
    /\ s \in Present
    /\ begun < MaxSyncs
    /\ begun' = begun + 1
    /\ sync' = [sync EXCEPT ![t] = [src |-> s, no |-> begun', step |-> 1, got |-> {}]]
    /\ UNCHANGED <<life, server, rows, favs, cats, fetched, changes>>

Fetching(t) ==
    /\ sync[t] # Idle
    /\ sync[t].step <= Len(Requests(SourceType[sync[t].src]))

Fetch(t) ==
    /\ Fetching(t)
    /\ \E got \in Brings(SourceType[sync[t].src],
                         Requests(SourceType[sync[t].src])[sync[t].step], Listing(t)) :
          sync' = [sync EXCEPT ![t] = [src |-> @.src, no |-> @.no,
                                       step |-> @.step + 1, got |-> @.got \cup got]]
    /\ UNCHANGED <<life, server, rows, favs, cats, fetched, changes, begun>>

\* The address is not valid, the playlist cannot be downloaded or is empty, the
\* portal refuses the MAC: the call ends and nothing was touched.
FetchAborts(t) ==
    /\ Fetching(t)
    /\ sync[t].step = 1
    /\ sync' = [sync EXCEPT ![t] = Idle]
    /\ UNCHANGED <<life, server, rows, favs, cats, fetched, changes, begun>>

Fetched(t) == sync[t] # Idle /\ sync[t].step = Len(Requests(SourceType[sync[t].src])) + 1

\* save_categories is a transaction of its own, before the catalogue's; rows of
\* a source deleted meanwhile violate the foreign key and end the sync.
SaveCategories(t) ==
    /\ Fetched(t)
    /\ \E some \in BOOLEAN :
          IF some /\ sync[t].src \notin Present
          THEN sync' = [sync EXCEPT ![t] = Idle] /\ UNCHANGED <<cats, fetched>>
          ELSE /\ sync' = [sync EXCEPT ![t].step = @ + 1]
               /\ cats' = (cats \ {sync[t].src}) \cup IF some THEN {sync[t].src} ELSE {}
               /\ fetched' = [fetched EXCEPT ![sync[t].src] = @ \cup {sync[t].got}]
    /\ UNCHANGED <<life, server, rows, favs, changes, begun>>

-----------------------------------------------------------------------------
Order == [live |-> 0, movie |-> 1, series |-> 2, episode |-> 3]

Foremost(X) == CHOOSE i \in X : \A j \in X : Order[i.kind] <= Order[j.kind]
Hindmost(X) == CHOOSE i \in X : \A j \in X : Order[i.kind] >= Order[j.kind]
SameKey(key, X) == {x \in X : Key(x) = key}

\* Mutant: the row takes the id of the item.
UpsertedAnew(call, key) ==
    LET same == SameKey(key, call.got)
    IN  [src |-> call.src, kind |-> Hindmost(same).kind, num |-> Hindmost(same).num,
         id |-> RowId(call.no, SourceType[call.src], Hindmost(same))]

\* The row an upsert of the items with one native id leaves behind: the content
\* of the last of them, the id of the row that was there or of the first.
Upserted(call, key) ==
    LET same == SameKey(key, call.got)
        old  == SameKey(key, RowsOf(call.src))
    IN  [src |-> call.src, kind |-> Hindmost(same).kind, num |-> Hindmost(same).num,
         id |-> IF old = {} THEN RowId(call.no, SourceType[call.src], Foremost(same))
                ELSE (CHOOSE r \in old : TRUE).id]

UpsertedRows(call) == {Upserted(call, key) : key \in Keys(call.got)}

IdTaken(call) == \E n \in UpsertedRows(call), r \in rows : r.src # call.src /\ r.id = n.id

\* Mutant: the upserts run whether or not the source is still there.
UpsertFailsOnClash(call) == IdTaken(call)

\* An insert fails on a missing source (foreign key), or on a primary key that a
\* row of another source has, which the ON CONFLICT clause does not name: a
\* movie that two playlists list.
UpsertFails(call) == (call.got # {} /\ call.src \notin Present) \/ IdTaken(call)

\* Mutant: the rows left marked are not deleted.
SaveRowsUnpruned(call) ==
    {r \in rows : r.src # call.src \/ Key(r) \notin Keys(call.got)} \cup UpsertedRows(call)

\* The rows of the source are marked, the items upserted, which clears the
\* mark, and the rows still marked are deleted.
SaveRows(call) == {r \in rows : r.src # call.src} \cup UpsertedRows(call)

\* ON DELETE CASCADE from db_channels.
Kept(F, R) == {f \in F : \E r \in R : r.id = f /\ r.kind = "live"}

SaveSyncData(t) ==
    /\ sync[t] # Idle
    /\ sync[t].step = Len(Requests(SourceType[sync[t].src])) + 2
    /\ sync' = [sync EXCEPT ![t] = Idle]
    /\ IF UpsertFails(sync[t])
       THEN UNCHANGED <<rows, favs>>
       ELSE rows' = SaveRows(sync[t]) /\ favs' = Kept(favs, rows')
    /\ UNCHANGED <<life, server, cats, fetched, changes, begun>>

-----------------------------------------------------------------------------
\* A source of another type, or at another address, than those present.
AddSource(s) ==
    /\ life[s] = "new"
    /\ \A p \in Present : Url[p] # Url[s] \/ SourceType[p] # SourceType[s]
    /\ life' = [life EXCEPT ![s] = "present"]
    /\ UNCHANGED <<server, rows, favs, cats, sync, fetched, changes, begun>>

DeleteSource(s) ==
    /\ s \in Present
    /\ life' = [life EXCEPT ![s] = "deleted"]
    /\ rows' = rows \ RowsOf(s)
    /\ favs' = Kept(favs, rows')
    /\ cats' = cats \ {s}
    /\ UNCHANGED <<server, sync, fetched, changes, begun>>

\* clear_all empties every table but db_sources.
ClearAll ==
    /\ rows # {}
    /\ rows' = {} /\ favs' = {} /\ cats' = {}
    /\ UNCHANGED <<life, server, sync, fetched, changes, begun>>

AddFavorite(r) ==
    /\ r \in rows /\ r.kind = "live" /\ r.id \notin favs
    /\ favs' = favs \cup {r.id}
    /\ UNCHANGED <<life, server, rows, cats, sync, fetched, changes, begun>>

RemoveFavorite(f) ==
    /\ f \in favs
    /\ favs' = favs \ {f}
    /\ UNCHANGED <<life, server, rows, cats, sync, fetched, changes, begun>>

\* The provider adds or withdraws an item.
OfferChanges(i) ==
    /\ changes < MaxChanges
    /\ changes' = changes + 1
    /\ server' = IF i \in server THEN server \ {i} ELSE server \cup {i}
    /\ UNCHANGED <<life, rows, favs, cats, sync, fetched, begun>>

SourceInit ==
    /\ life = [s \in Sources |-> "new"]
    /\ server = Items
    /\ rows = {} /\ favs = {} /\ cats = {}
    /\ sync = [t \in Syncs |-> Idle]
    /\ fetched = [s \in Sources |-> {}]
    /\ changes = 0 /\ begun = 0

SourceNext ==
    \/ \E t \in Syncs : Fetch(t) \/ FetchAborts(t) \/ SaveCategories(t) \/ SaveSyncData(t)
    \/ \E t \in Syncs, s \in Sources : SyncBegin(t, s)
    \/ \E s \in Sources : AddSource(s) \/ DeleteSource(s)
    \/ ClearAll
    \/ \E r \in rows : AddFavorite(r)
    \/ \E f \in favs : RemoveFavorite(f)
    \/ \E i \in Items : OfferChanges(i)

SourceSpec == SourceInit /\ [][SourceNext]_sourceVars

-----------------------------------------------------------------------------
\* Types, and what the schema enforces: foreign keys, and primary keys.
SourceTypeOK ==
    /\ life \in [Sources -> {"new", "present", "deleted"}]
    /\ server \subseteq Items
    /\ \A r \in rows : r.src \in Present /\ r.kind \in Kinds
    /\ \A r, q \in rows : r.id = q.id => r = q
    /\ \A f \in favs : \E r \in rows : r.id = f /\ r.kind = "live"
    /\ cats \subseteq Present
    /\ \A s \in Sources : \A g \in fetched[s] : g \subseteq Items
    /\ \A t \in Syncs : sync[t].got \subseteq Items /\ sync[t].no \in 0..begun
    /\ changes \in 0..MaxChanges /\ begun \in 0..MaxSyncs

\* However syncs overlap, fail, or outlive their source, the stored rows of a
\* source are what one call for it had fetched, whole, or none: never a mix of
\* two calls or a part of one (save_sync_data).
RowsAreOneFetch ==
    \A s \in Sources : RowsOf(s) # {} => Keys(RowsOf(s)) \in {Keys(g) : g \in fetched[s]}

\* A favourite survives every sync that lists its channel, though each parses
\* it with a new id, and every sync of another source; and it stays that
\* channel's (save_channels_inner).
FavouriteKept ==
    [][\A t \in Syncs : SaveSyncData(t) =>
          \A r \in rows :
             /\ r.id \in favs
             /\ r.src = sync[t].src => Key(r) \in Keys(sync[t].got)
             => /\ r.id \in favs'
                /\ \E q \in rows' : q.id = r.id /\ q.src = r.src /\ Key(q) = Key(r)]_sourceVars
=============================================================================
