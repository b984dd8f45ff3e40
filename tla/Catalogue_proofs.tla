---------------------------- MODULE Catalogue_proofs ----------------------------
(***************************************************************************)
(* Proofs about the catalogue (SourceSync), for any number of sources and  *)
(* of syncs under way together and for any set of items a provider may     *)
(* list; and about the guide (GuideFetch), for any number of sources, of   *)
(* calls under way together and of published guides.                       *)
(***************************************************************************)
EXTENDS SourceSync, GuideFetch, TLAPS

-----------------------------------------------------------------------------
(* The catalogue.                                                           *)

SyncRecord == [src : Sources \cup {"none"}, no : Nat, step : Nat, got : SUBSET Items]

\* A call that is under way belongs to a source, has a number of its own, and
\* holds items of the known kinds; what it is about to save has been fetched.
CallTyped(call, all, number) ==
    /\ call.src \in Sources /\ call.step # 0 /\ call.no \in 1..number
    /\ \A i \in call.got : i.kind \in Kinds
    /\ call.step = Len(Requests(SourceType[call.src])) + 2 => call.got \in all[call.src]
SyncsTyped ==
    /\ sync \in [Syncs -> SyncRecord]
    /\ \A t \in Syncs : sync[t] # Idle => CallTyped(sync[t], fetched, begun)
    /\ \A t, u \in Syncs :
          sync[t] # Idle /\ sync[u] # Idle /\ sync[t].no = sync[u].no => t = u

\* The numbers of the calls that have ended, which no call will have again.
Done == {n \in 1..begun : \A t \in Syncs : sync[t] # Idle => sync[t].no # n}

\* A row has the address of a movie for its id, or one given in a call that has ended.
RowShape(r) ==
    /\ r.src \in Present /\ r.kind \in Kinds
    /\ \/ r.id = <<"mvod", r.num>> /\ Table(r) = "db_movies"
       \/ \E n \in Done, k \in Kinds : r.id = <<n, k, r.num>>

\* Different rows have different ids, and those of one source different native
\* ids, as the PRIMARY KEY and the UNIQUE constraint demand.
RowsShaped ==
    /\ \A r \in rows : RowShape(r)
    /\ \A r, q \in rows : r.src = q.src /\ Key(r) = Key(q) => r = q
    /\ \A r, q \in rows : r.id = q.id => r = q

FavouritesLive == \A f \in favs : \E r \in rows : r.id = f /\ r.kind = "live"

\* The part of the type invariant that the rows have no share in.
OthersTyped ==
    /\ life \in [Sources -> {"new", "present", "deleted"}]
    /\ server \subseteq Items
    /\ cats \subseteq Present
    /\ DOMAIN fetched = Sources /\ \A s \in Sources : \A g \in fetched[s] : g \subseteq Items
    /\ changes \in 0..MaxChanges /\ begun \in 0..MaxSyncs

SourceInv ==
    /\ OthersTyped /\ SyncsTyped /\ RowsShaped /\ FavouritesLive /\ RowsAreOneFetch

-----------------------------------------------------------------------------
LEMMA KeyParts ==
    ASSUME NEW x, NEW y
    PROVE  Key(x) = Key(y) <=> Table(x) = Table(y) /\ x.num = y.num
  BY DEF Key

LEMMA LiveTable ==
    ASSUME NEW x, NEW y, x.kind = "live", Table(y) = Table(x)
    PROVE  y.kind = "live"
  BY DEF Table

LEMMA InvImplies == SourceInv => SourceTypeOK /\ RowsAreOneFetch
  <1> SUFFICES ASSUME SourceInv PROVE SourceTypeOK
    BY DEF SourceInv
  <1>1. \A r \in rows : r.src \in Present /\ r.kind \in Kinds
    BY DEF SourceInv, RowsShaped, RowShape
  <1>2. \A r, q \in rows : r.id = q.id => r = q
    BY DEF SourceInv, RowsShaped
  <1>3. \A t \in Syncs : sync[t].got \subseteq Items /\ sync[t].no \in 0..begun
    <2>1. begun \in Nat
      BY SourceAssumption DEF SourceInv, OthersTyped
    <2>2. QED
      BY <2>1 DEF SourceInv, SyncsTyped, SyncRecord, CallTyped, Idle
  <1>4. QED
    BY <1>1, <1>2, <1>3 DEF SourceInv, OthersTyped, FavouritesLive, SourceTypeOK

LEMMA InitInv == SourceInit => SourceInv
  <1> SUFFICES ASSUME SourceInit PROVE SourceInv
    OBVIOUS
  <1>1. OthersTyped
    BY SourceAssumption DEF SourceInit, OthersTyped
  <1>2. SyncsTyped
    BY DEF SourceInit, SyncsTyped, SyncRecord, Idle
  <1>3. RowsShaped /\ FavouritesLive
    BY DEF SourceInit, RowsShaped, FavouritesLive
  <1>4. RowsAreOneFetch
    BY DEF SourceInit, RowsAreOneFetch, RowsOf
  <1>5. QED
    BY <1>1, <1>2, <1>3, <1>4 DEF SourceInv

-----------------------------------------------------------------------------
\* Among items of the known kinds one is first and one is last in the order of the calls.
LEMMA Extremes ==
    ASSUME NEW X, X # {}, \A x \in X : x.kind \in Kinds
    PROVE  /\ \E i \in X : \A j \in X : Order[i.kind] <= Order[j.kind]
           /\ \E i \in X : \A j \in X : Order[i.kind] >= Order[j.kind]
  <1> DEFINE Of(k) == \E i \in X : i.kind = k
  <1>1. Order["live"] = 0 /\ Order["movie"] = 1 /\ Order["series"] = 2 /\ Order["episode"] = 3
    BY DEF Order
  <1>2. \A x \in X : x.kind \in {"live", "movie", "series", "episode"}
    BY DEF Kinds
  <1>3. Of("live") \/ Of("movie") \/ Of("series") \/ Of("episode")
    BY <1>2
  <1>4. \E i \in X : \A j \in X : Order[i.kind] <= Order[j.kind]
    <2>1. CASE Of("live")
      BY <2>1, <1>1, <1>2
    <2>2. CASE ~Of("live") /\ Of("movie")
      BY <2>2, <1>1, <1>2
    <2>3. CASE ~Of("live") /\ ~Of("movie") /\ Of("series")
      BY <2>3, <1>1, <1>2
    <2>4. CASE ~Of("live") /\ ~Of("movie") /\ ~Of("series")
      BY <2>4, <1>1, <1>2, <1>3
    <2>5. QED
      BY <2>1, <2>2, <2>3, <2>4
  <1>5. \E i \in X : \A j \in X : Order[i.kind] >= Order[j.kind]
    <2>1. CASE Of("episode")
      BY <2>1, <1>1, <1>2
    <2>2. CASE ~Of("episode") /\ Of("series")
      BY <2>2, <1>1, <1>2
    <2>3. CASE ~Of("episode") /\ ~Of("series") /\ Of("movie")
      BY <2>3, <1>1, <1>2
    <2>4. CASE ~Of("episode") /\ ~Of("series") /\ ~Of("movie")
      BY <2>4, <1>1, <1>2, <1>3
    <2>5. QED
      BY <2>1, <2>2, <2>3, <2>4
  <1>6. QED
    BY <1>4, <1>5

\* What one native id leaves behind: a row of its source, under that id, of the kind
\* of one of the items; the row's own id is that of the row that was there, if any.
IsUpserted(n, call, key) ==
    /\ n.src = call.src /\ Key(n) = key
    /\ n.kind \in Kinds /\ \E i \in call.got : Key(i) = key /\ n.kind = i.kind
    /\ \/ /\ \E i \in call.got : Key(i) = key /\ n.id = RowId(call.no, SourceType[call.src], i)
          /\ \A r \in RowsOf(call.src) : Key(r) # key
       \/ \E r \in RowsOf(call.src) : Key(r) = key /\ n.id = r.id

LEMMA UpsertedIs ==
    ASSUME NEW call, \A i \in call.got : i.kind \in Kinds, NEW key \in Keys(call.got)
    PROVE  IsUpserted(Upserted(call, key), call, key)
  <1> DEFINE same  == SameKey(key, call.got)
             first == Foremost(same)
             last  == Hindmost(same)
             old   == SameKey(key, RowsOf(call.src))
             row   == CHOOSE r \in old : TRUE
             new   == RowId(call.no, SourceType[call.src], first)
             u     == [src |-> call.src, kind |-> last.kind, num |-> last.num,
                       id |-> IF old = {} THEN new ELSE row.id]
  <1>1. Upserted(call, key) = u
    BY DEF Upserted
  <1>2. /\ same # {} /\ \A x \in same : x.kind \in Kinds /\ x \in call.got /\ Key(x) = key
        /\ \A r : r \in old <=> r \in RowsOf(call.src) /\ Key(r) = key
    BY DEF Keys, SameKey
  <1> HIDE DEF same, old
  <1>3. /\ \E i \in same : \A j \in same : Order[i.kind] <= Order[j.kind]
        /\ \E i \in same : \A j \in same : Order[i.kind] >= Order[j.kind]
    BY <1>2, Extremes
  <1>4. first \in same /\ last \in same
    BY <1>3 DEF Foremost, Hindmost
  <1>5. old # {} => row \in old
    OBVIOUS
  <1>6. u.src = call.src /\ u.kind = last.kind /\ u.num = last.num
        /\ u.id = IF old = {} THEN new ELSE row.id
    <2> HIDE DEF first, last, row, new
    <2> QED
      OBVIOUS
  <1> HIDE DEF last, row, u
  <1>7. Key(u) = Key(last)
    BY <1>6 DEF Key, Table
  <1>8. u.src = call.src /\ Key(u) = key /\ u.kind \in Kinds
        /\ \E i \in call.got : Key(i) = key /\ u.kind = i.kind
    BY <1>2, <1>4, <1>6, <1>7
  <1>9. CASE old = {}
    <2>1. first \in call.got /\ Key(first) = key /\ u.id = new
      BY <1>2, <1>4, <1>6, <1>9
    <2>2. \A r \in RowsOf(call.src) : Key(r) # key
      BY <1>2, <1>9
    <2>3. QED
      BY <1>1, <1>8, <2>1, <2>2 DEF IsUpserted
  <1>10. CASE old # {}
    <2>1. u.id = row.id /\ row \in RowsOf(call.src) /\ Key(row) = key
      BY <1>2, <1>5, <1>6, <1>10
    <2>2. QED
      BY <1>1, <1>8, <2>1 DEF IsUpserted
  <1>11. QED
    BY <1>9, <1>10

-----------------------------------------------------------------------------
\* What a transaction that commits writes: beside the rows of the other sources,
\* one row for each native id of what the call had fetched.
LEMMA Commits ==
    ASSUME SourceInv, NEW t \in Syncs, SaveSyncData(t), ~UpsertFails(sync[t])
    PROVE  LET call == sync[t]
               new  == UpsertedRows(call)
           IN  /\ call # Idle /\ CallTyped(call, fetched, begun) /\ call.got \in fetched[call.src]
               /\ rows' = {r \in rows : r.src # call.src} \cup new
               /\ favs' = Kept(favs, rows')
               /\ UNCHANGED <<life, fetched, begun>> /\ sync' = [sync EXCEPT ![t] = Idle]
               /\ \A n \in new : call.src \in Present
               /\ \A n \in new, r \in rows : r.src # call.src => r.id # n.id
               /\ \A n \in new : Key(n) \in Keys(call.got) /\ IsUpserted(n, call, Key(n))
               /\ \A key \in Keys(call.got) : \E n \in new : Key(n) = key
               /\ \A n, m \in new : Key(n) = Key(m) => n = m
  <1> DEFINE call == sync[t]
             new  == UpsertedRows(call)
  <1>1. call # Idle /\ CallTyped(call, fetched, begun) /\ call.got \in fetched[call.src]
    BY DEF SaveSyncData, SourceInv, SyncsTyped, CallTyped
  <1>2. /\ rows' = {r \in rows : r.src # call.src} \cup new
        /\ favs' = Kept(favs, rows') /\ sync' = [sync EXCEPT ![t] = Idle]
        /\ UNCHANGED <<life, fetched, begun>>
    BY DEF SaveSyncData, SaveRows
  <1>3. \A n \in new : call.src \in Present
    <2>1. \A n \in new : call.got # {}
      BY DEF UpsertedRows, Keys
    <2>2. QED
      BY <2>1 DEF UpsertFails
  <1>4. \A n \in new, r \in rows : r.src # call.src => r.id # n.id
    BY DEF UpsertFails, IdTaken
  <1>5. \A i \in call.got : i.kind \in Kinds
    BY <1>1 DEF CallTyped
  <1>6. \A key \in Keys(call.got) : /\ Upserted(call, key) \in new
                                    /\ IsUpserted(Upserted(call, key), call, key)
                                    /\ Key(Upserted(call, key)) = key
    BY <1>5, UpsertedIs DEF UpsertedRows, IsUpserted
  <1>7. \A n \in new : \E key \in Keys(call.got) : n = Upserted(call, key)
    BY DEF UpsertedRows
  <1> HIDE DEF call, new
  <1>8. \A n \in new : /\ Key(n) \in Keys(call.got) /\ IsUpserted(n, call, Key(n))
                       /\ n = Upserted(call, Key(n))
    BY <1>6, <1>7
  <1>9. \A n, m \in new : Key(n) = Key(m) => n = m
    BY <1>8
  <1>10. \A key \in Keys(call.got) : \E n \in new : Key(n) = key
    BY <1>6
  <1>11. QED
    BY <1>1, <1>2, <1>3, <1>4, <1>8, <1>9, <1>10 DEF call, new

\* A row that was there keeps its id; a new one has one that no row has.
LEMMA NewIds ==
    ASSUME SourceInv, NEW t \in Syncs, SaveSyncData(t), ~UpsertFails(sync[t]),
           NEW n \in UpsertedRows(sync[t])
    PROVE  \/ \E r \in RowsOf(sync[t].src) : Key(r) = Key(n) /\ n.id = r.id
           \/ /\ \A r \in rows : r.id # n.id
              /\ \/ n.id = <<"mvod", n.num>> /\ Table(n) = "db_movies"
                 \/ \E k \in Kinds : n.id = <<sync[t].no, k, n.num>> /\ Table(n) = Table([kind |-> k])
  <1> DEFINE call == sync[t]
  <1>0. /\ call # Idle /\ CallTyped(call, fetched, begun) /\ IsUpserted(n, call, Key(n))
        /\ \A r \in rows : r.src # call.src => r.id # n.id
    BY Commits
  <1> HIDE DEF call
  <1>1. SUFFICES ASSUME NEW i \in call.got, Key(i) = Key(n),
                        n.id = RowId(call.no, SourceType[call.src], i),
                        \A r \in RowsOf(call.src) : Key(r) # Key(n)
                 PROVE  /\ \A r \in rows : r.id # n.id
                        /\ \/ n.id = <<"mvod", n.num>> /\ Table(n) = "db_movies"
                           \/ \E k \in Kinds : /\ n.id = <<call.no, k, n.num>>
                                               /\ Table(n) = Table([kind |-> k])
    BY <1>0 DEF IsUpserted, call
  <1>2. Table(i) = Table(n) /\ i.num = n.num /\ i.kind \in Kinds
    BY <1>0, <1>1, KeyParts DEF CallTyped
  <1>3. \A r \in rows : RowShape(r)
    BY DEF SourceInv, RowsShaped
  <1>4. CASE SourceType[call.src] = "m3u" /\ i.kind = "movie"
    <2>1. n.id = <<"mvod", n.num>> /\ Table(n) = "db_movies"
      BY <1>1, <1>2, <1>4 DEF RowId, Table
    <2>2. ASSUME NEW r \in rows, r.id = n.id PROVE FALSE
      <3>1. r.src = call.src
        BY <1>0, <2>2
      <3>2. r.num = n.num /\ Table(r) = "db_movies"
        <4>1. \A a, b, c : <<"mvod", n.num>> # <<a, b, c>>
          OBVIOUS
        <4>2. r.id = <<"mvod", r.num>> /\ Table(r) = "db_movies"
          BY <1>3, <2>1, <2>2, <4>1 DEF RowShape
        <4>3. QED
          BY <2>1, <2>2, <4>2
      <3>3. Key(r) = Key(n) /\ r \in RowsOf(call.src)
        BY <2>1, <3>1, <3>2, KeyParts DEF RowsOf
      <3>4. QED
        BY <1>1, <3>3
    <2>3. QED
      BY <2>1, <2>2
  <1>5. CASE ~(SourceType[call.src] = "m3u" /\ i.kind = "movie")
    <2>1. n.id = <<call.no, i.kind, n.num>> /\ Table(n) = Table([kind |-> i.kind])
      BY <1>1, <1>2, <1>5 DEF RowId, Table
    <2>2. ASSUME NEW r \in rows, r.id = n.id PROVE FALSE
      <3>1. \A a, b : <<a, b>> # <<call.no, i.kind, n.num>>
        OBVIOUS
      <3>2. PICK m \in Done, k \in Kinds : r.id = <<m, k, r.num>>
        BY <1>3, <2>1, <2>2, <3>1 DEF RowShape
      <3>3. m = call.no
        BY <2>1, <2>2, <3>2
      <3>4. QED
        BY <1>0, <3>2, <3>3 DEF Done, call
    <2>3. QED
      BY <1>2, <2>1, <2>2
  <1>6. QED
    BY <1>4, <1>5

LEMMA CommitShaped ==
    ASSUME SourceInv, NEW t \in Syncs, SaveSyncData(t), ~UpsertFails(sync[t])
    PROVE  RowsShaped' /\ FavouritesLive' /\ RowsAreOneFetch'
  <1> DEFINE call == sync[t]
             new  == UpsertedRows(call)
             s    == call.src
  <1>1. /\ call # Idle /\ CallTyped(call, fetched, begun) /\ call.got \in fetched[s]
        /\ rows' = {r \in rows : r.src # s} \cup new
        /\ favs' = Kept(favs, rows')
        /\ UNCHANGED <<life, fetched, begun>> /\ sync' = [sync EXCEPT ![t] = Idle]
        /\ \A n \in new : s \in Present
        /\ \A n \in new, r \in rows : r.src # s => r.id # n.id
        /\ \A n \in new : Key(n) \in Keys(call.got) /\ IsUpserted(n, call, Key(n))
        /\ \A key \in Keys(call.got) : \E n \in new : Key(n) = key
        /\ \A n, m \in new : Key(n) = Key(m) => n = m
    BY Commits
  <1>2. ASSUME NEW n \in new
        PROVE  \/ \E r \in RowsOf(s) : Key(r) = Key(n) /\ n.id = r.id
               \/ /\ \A r \in rows : r.id # n.id
                  /\ \/ n.id = <<"mvod", n.num>> /\ Table(n) = "db_movies"
                     \/ \E k \in Kinds : n.id = <<call.no, k, n.num>> /\ Table(n) = Table([kind |-> k])
    BY <1>2, NewIds
  <1>3. \A r \in RowsOf(s) : r \in rows /\ r.src = s
    BY DEF RowsOf
  <1>4. RowsShaped /\ \A n \in new : n.src = s /\ n.kind \in Kinds
    BY <1>1 DEF SourceInv, IsUpserted
  <1>5. Done \cup {call.no} \subseteq Done'
    <2>1. \A u \in Syncs : sync'[u] = IF u = t THEN Idle ELSE sync[u]
      BY <1>1 DEF SourceInv, SyncsTyped
    <2>2. call.no \in 1..begun /\ \A u \in Syncs : u # t /\ sync[u] # Idle => sync[u].no # call.no
      BY <1>1 DEF SourceInv, SyncsTyped, CallTyped
    <2>3. QED
      BY <1>1, <2>1, <2>2 DEF Done
  <1> HIDE DEF call, new, s
  <1>6. \A r \in rows : RowShape(r)'
    <2>1. \A r \in rows : RowShape(r)
      BY <1>4 DEF RowsShaped
    <2>2. QED
      BY <1>1, <1>5, <2>1 DEF RowShape, Present, Table
  <1>7. ASSUME NEW n \in new PROVE RowShape(n)'
    <2>0. n.src \in Present' /\ n.kind \in Kinds
      BY <1>1, <1>4 DEF Present
    <2>1. CASE \E r \in RowsOf(s) : Key(r) = Key(n) /\ n.id = r.id
      <3>1. PICK r \in RowsOf(s) : Key(r) = Key(n) /\ n.id = r.id
        BY <2>1
      <3>2. Table(r) = Table(n) /\ r.num = n.num /\ RowShape(r)'
        BY <1>3, <1>6, <3>1, KeyParts
      <3>3. QED
        BY <2>0, <3>1, <3>2 DEF RowShape, Table
    <2>2. CASE n.id = <<"mvod", n.num>> /\ Table(n) = "db_movies"
      BY <2>0, <2>2 DEF RowShape, Table
    <2>3. CASE \E k \in Kinds : n.id = <<call.no, k, n.num>>
      BY <1>5, <2>0, <2>3 DEF RowShape
    <2>4. QED
      BY <1>2, <2>1, <2>2, <2>3
  <1>8. ASSUME NEW n \in new, NEW m \in new, n.id = m.id PROVE n = m
    <2> SUFFICES Key(n) = Key(m)
      BY <1>1, <1>8
    <2>1. CASE \E r \in RowsOf(s) : Key(r) = Key(n) /\ n.id = r.id
      <3>1. PICK r \in RowsOf(s) : Key(r) = Key(n) /\ n.id = r.id
        BY <2>1
      <3>2. PICK q \in RowsOf(s) : Key(q) = Key(m) /\ m.id = q.id
        BY <1>2, <1>3, <1>8, <3>1
      <3>3. r = q
        BY <1>3, <1>4, <1>8, <3>1, <3>2 DEF RowsShaped
      <3>4. QED
        BY <3>1, <3>2, <3>3
    <2>2. CASE ~\E r \in RowsOf(s) : Key(r) = Key(n) /\ n.id = r.id
      <3> DEFINE Mvod(x)   == x.id = <<"mvod", x.num>> /\ Table(x) = "db_movies"
                 New(x, k) == x.id = <<call.no, k, x.num>> /\ Table(x) = Table([kind |-> k])
      <3>1. /\ \A r \in rows : r.id # n.id
            /\ Mvod(n) \/ \E k \in Kinds : New(n, k)
        BY <1>2, <2>2
      <3>2. ~\E r \in RowsOf(s) : Key(r) = Key(m) /\ m.id = r.id
        BY <1>3, <1>8, <3>1
      <3>5. Mvod(m) \/ \E k \in Kinds : New(m, k)
        BY <1>2, <3>2
      <3>6. ASSUME Mvod(n), Mvod(m) PROVE n.num = m.num /\ Table(n) = Table(m)
        <4>1. <<"mvod", n.num>> = <<"mvod", m.num>>
          BY <1>8, <3>6
        <4>2. QED
          BY <3>6, <4>1
      <3>7. ASSUME NEW k \in Kinds, NEW l \in Kinds, New(n, k), New(m, l)
            PROVE  n.num = m.num /\ Table(n) = Table(m)
        <4>0. <<call.no, k, n.num>> = <<call.no, l, m.num>>
          BY <1>8, <3>7
        <4>1. k = l /\ n.num = m.num
          BY <4>0
        <4>2. QED
          BY <3>7, <4>1
      <3>8. ASSUME NEW k \in Kinds, (Mvod(n) /\ New(m, k)) \/ (Mvod(m) /\ New(n, k))
            PROVE  FALSE
        <4>1. \A a, b, c, d, e : <<a, b>> # <<c, d, e>>
          OBVIOUS
        <4>2. \/ <<"mvod", n.num>> = <<call.no, k, m.num>>
              \/ <<"mvod", m.num>> = <<call.no, k, n.num>>
          BY <1>8, <3>8
        <4>3. QED
          BY <4>1, <4>2
      <3>3. n.num = m.num /\ Table(n) = Table(m)
        <4> HIDE DEF Mvod, New
        <4> QED
          BY <3>1, <3>5, <3>6, <3>7, <3>8
      <3>4. QED
        BY <3>3, KeyParts
    <2>3. QED
      BY <2>1, <2>2
  <1>9. \A r : r \in rows' <=> (r \in rows /\ r.src # s) \/ r \in new
    BY <1>1
  <1>10. RowsShaped'
    <2>1. \A r \in rows' : RowShape(r)'
      BY <1>6, <1>7, <1>9
    <2>2. \A r \in rows', q \in rows' : r.src = q.src /\ Key(r) = Key(q) => r = q
      BY <1>1, <1>4, <1>9 DEF RowsShaped
    <2>3. \A r \in rows', q \in rows' : r.id = q.id => r = q
      BY <1>1, <1>4, <1>8, <1>9 DEF RowsShaped
    <2>4. QED
      BY <2>1, <2>2, <2>3 DEF RowsShaped, Key, Table
  <1>11. FavouritesLive'
    BY <1>1 DEF Kept, FavouritesLive
  <1>12. RowsAreOneFetch'
    <2> SUFFICES ASSUME NEW o \in Sources, {r \in rows' : r.src = o} # {}
                 PROVE  Keys({r \in rows' : r.src = o}) \in {Keys(g) : g \in fetched[o]}
      BY <1>1 DEF RowsAreOneFetch, RowsOf, Keys, Key, Table
    <2>1. CASE o = s
      <3>1. {r \in rows' : r.src = o} = new
        BY <1>4, <1>9, <2>1
      <3>2. Keys(new) = Keys(call.got)
        <4>1. \A key \in Keys(call.got) : key \in Keys(new)
          BY <1>1 DEF Keys
        <4>2. \A key \in Keys(new) : key \in Keys(call.got)
          BY <1>1 DEF Keys
        <4>3. QED
          BY <4>1, <4>2
      <3>3. QED
        BY <1>1, <2>1, <3>1, <3>2
    <2>2. CASE o # s
      <3>1. {r \in rows' : r.src = o} = RowsOf(o)
        BY <1>4, <1>9, <2>2 DEF RowsOf
      <3>2. QED
        BY <3>1 DEF SourceInv, RowsAreOneFetch
    <2>3. QED
      BY <2>1, <2>2
  <1>13. QED
    BY <1>10, <1>11, <1>12

\* A row whose id is a favourite's is a channel's; it keeps its id in the
\* transaction and stays that channel's.
LEMMA CommitKeeps ==
    ASSUME SourceInv, NEW t \in Syncs, SaveSyncData(t), ~UpsertFails(sync[t]),
           NEW r \in rows, r.id \in favs,
           r.src = sync[t].src => Key(r) \in Keys(sync[t].got)
    PROVE  /\ r.id \in favs'
           /\ \E q \in rows' : q.id = r.id /\ q.src = r.src /\ Key(q) = Key(r)
  <1> DEFINE call == sync[t]
             new  == UpsertedRows(call)
  <1>0. /\ rows' = {q \in rows : q.src # call.src} \cup new /\ favs' = Kept(favs, rows')
        /\ \A n \in new : IsUpserted(n, call, Key(n))
        /\ \A key \in Keys(call.got) : \E n \in new : Key(n) = key
    BY Commits
  <1> HIDE DEF new
  <1>1. r.kind = "live"
    <2>1. PICK q \in rows : q.id = r.id /\ q.kind = "live"
      BY DEF SourceInv, FavouritesLive
    <2>2. QED
      BY <2>1 DEF SourceInv, RowsShaped
  <1>2. \E q \in rows' : q.id = r.id /\ q.src = r.src /\ Key(q) = Key(r)
    <2>1. CASE r.src # call.src
      BY <1>0, <2>1
    <2>2. CASE r.src = call.src
      <3>1. PICK n \in new : Key(n) = Key(r)
        BY <1>0, <2>2
      <3>2. IsUpserted(n, call, Key(r)) /\ r \in RowsOf(call.src)
        BY <1>0, <2>2, <3>1 DEF RowsOf
      <3>3. PICK q \in RowsOf(call.src) : Key(q) = Key(r) /\ n.id = q.id
        BY <3>2 DEF IsUpserted
      <3>4. q = r
        BY <3>2, <3>3 DEF SourceInv, RowsShaped, RowsOf
      <3>5. n \in rows' /\ n.src = r.src
        BY <1>0, <2>2, <3>2 DEF IsUpserted
      <3>6. QED
        BY <3>1, <3>3, <3>4, <3>5
    <2>3. QED
      BY <2>1, <2>2
  <1>3. PICK q \in rows' : q.id = r.id /\ q.src = r.src /\ Key(q) = Key(r)
    BY <1>2
  <1>4. q.kind = "live"
    BY <1>1, <1>3, KeyParts, LiveTable
  <1>5. QED
    BY <1>0, <1>3, <1>4 DEF Kept

-----------------------------------------------------------------------------
\* A step of a call, or of the user, that leaves the catalogue alone.
LEMMA CallMoves ==
    ASSUME SourceInv, UNCHANGED <<life, rows, favs>>, Done \subseteq Done',
           \A s \in Sources : fetched[s] \subseteq fetched'[s],
           OthersTyped', SyncsTyped'
    PROVE  SourceInv'
  <1>1. RowsShaped'
    <2>1. \A r \in rows : RowShape(r) => RowShape(r)'
      BY DEF RowShape, Present, Table
    <2>2. QED
      BY <2>1 DEF SourceInv, RowsShaped, Key, Table
  <1>2. FavouritesLive'
    BY DEF SourceInv, FavouritesLive
  <1>3. RowsAreOneFetch'
    <2> SUFFICES ASSUME NEW s \in Sources, RowsOf(s) # {}
                 PROVE  \E g \in fetched'[s] : Keys(RowsOf(s)) = Keys(g)
      BY DEF RowsAreOneFetch, RowsOf, Keys, Key, Table
    <2>1. PICK g \in fetched[s] : Keys(RowsOf(s)) = Keys(g)
      BY DEF SourceInv, RowsAreOneFetch
    <2>2. QED
      BY <2>1
  <1>4. QED
    BY <1>1, <1>2, <1>3 DEF SourceInv

\* The rows of some sources disappear.
LEMMA RowsGo ==
    ASSUME SourceInv, NEW G,
           rows' = {r \in rows : r.src \notin G},
           \A r \in rows' : r.src \in Present',
           favs' = Kept(favs, rows'), UNCHANGED <<sync, fetched, begun>>
    PROVE  RowsShaped' /\ FavouritesLive' /\ RowsAreOneFetch'
  <1>1. RowsShaped'
    <2>1. \A r \in rows' : RowShape(r)'
      BY DEF SourceInv, RowsShaped, RowShape, Done, Table
    <2>2. QED
      BY <2>1 DEF SourceInv, RowsShaped, Key, Table
  <1>2. FavouritesLive'
    BY DEF Kept, FavouritesLive
  <1>3. RowsAreOneFetch'
    <2> SUFFICES ASSUME NEW o \in Sources, {r \in rows' : r.src = o} # {}
                 PROVE  Keys({r \in rows' : r.src = o}) \in {Keys(g) : g \in fetched[o]}
      BY DEF RowsAreOneFetch, RowsOf, Keys, Key, Table
    <2>1. {r \in rows' : r.src = o} = RowsOf(o)
      BY DEF RowsOf
    <2>2. QED
      BY <2>1 DEF SourceInv, RowsAreOneFetch
  <1>4. QED
    BY <1>1, <1>2, <1>3

\* What a sync brings is among what it was offered, of the kinds it asked for.
LEMMA BringsListed ==
    ASSUME SourceInv, NEW t \in Syncs, Fetching(t),
           NEW got \in Brings(SourceType[sync[t].src],
                              Requests(SourceType[sync[t].src])[sync[t].step], Listing(t))
    PROVE  got \subseteq Items /\ \A i \in got : i.kind \in Kinds
  <1> DEFINE type == SourceType[sync[t].src]
             step == sync[t].step
  <1>1. type \in {"m3u", "xtream", "stalker"} /\ step \in Nat /\ step # 0
    BY SourceAssumption DEF Fetching, SourceInv, SyncsTyped, SyncRecord, CallTyped
  <1>2. step <= Len(Requests(type))
    BY DEF Fetching
  <1> HIDE DEF type, step
  <1>3. Requests(type)[step] \subseteq Kinds
    <2>1. CASE type = "m3u"
      <3>1. Requests(type) = << {"live", "movie"} >>
        BY <2>1 DEF Requests
      <3>2. step = 1
        BY <1>1, <1>2, <3>1
      <3>3. QED
        BY <3>1, <3>2 DEF Kinds
    <2>2. CASE type = "xtream"
      <3>1. Requests(type) = << {"live"}, {"movie"}, {"series"}, {"episode"} >>
        BY <2>2 DEF Requests
      <3>2. step \in {1, 2, 3, 4}
        BY <1>1, <1>2, <3>1
      <3>3. QED
        BY <3>1, <3>2 DEF Kinds
    <2>3. CASE type = "stalker"
      <3>1. Requests(type) = << {"live"}, {"movie"}, {"series"} >>
        BY <2>3 DEF Requests
      <3>2. step \in {1, 2, 3}
        BY <1>1, <1>2, <3>1
      <3>3. QED
        BY <3>1, <3>2 DEF Kinds
    <2>4. QED
      BY <1>1, <2>1, <2>2, <2>3
  <1>4. \A i \in Listing(t) : i \in Items /\ i.kind \in Requests(type)[step]
    BY DEF Listing, SourceInv, OthersTyped, type, step
  <1>5. got \subseteq Listing(t)
    BY DEF Brings
  <1>6. QED
    BY <1>3, <1>4, <1>5

\* A call moves on, or ends: what is left of it is still a call with a number of its own.
LEMMA SyncsKept ==
    ASSUME SyncsTyped, NEW t \in Syncs, NEW n \in SyncRecord,
           sync' = [sync EXCEPT ![t] = n], begun \in Nat, begun' \in {begun, begun + 1},
           \A s \in Sources : fetched[s] \subseteq fetched'[s],
           n # Idle => /\ CallTyped(n, fetched', begun')
                       /\ \A u \in Syncs : u # t /\ sync[u] # Idle => sync[u].no # n.no
    PROVE  SyncsTyped'
  <1>1. sync' \in [Syncs -> SyncRecord]
    BY DEF SyncsTyped
  <1>2. \A u \in Syncs : sync'[u] = IF u = t THEN n ELSE sync[u]
    BY DEF SyncsTyped
  <1>3. \A u \in Syncs : sync'[u] # Idle => CallTyped(sync'[u], fetched', begun')
    <2>1. ASSUME NEW u \in Syncs, u # t, sync[u] # Idle
          PROVE  CallTyped(sync[u], fetched', begun')
      BY <2>1 DEF SyncsTyped, CallTyped
    <2>2. QED
      BY <1>2, <2>1
  <1>4. \A u, v \in Syncs :
          sync'[u] # Idle /\ sync'[v] # Idle /\ sync'[u].no = sync'[v].no => u = v
    BY <1>2 DEF SyncsTyped
  <1>5. QED
    BY <1>1, <1>3, <1>4 DEF SyncsTyped, SyncRecord, Idle

\* A number that no call bears any more is not given again.
LEMMA DoneGrows ==
    ASSUME SyncsTyped, NEW t \in Syncs, NEW n,
           sync' = [sync EXCEPT ![t] = n], begun \in Nat, begun' \in {begun, begun + 1},
           n # Idle => n.no = begun + 1 \/ (sync[t] # Idle /\ n.no = sync[t].no)
    PROVE  Done \subseteq Done'
  <1>1. \A u \in Syncs : sync'[u] = IF u = t THEN n ELSE sync[u]
    BY DEF SyncsTyped
  <1>2. QED
    BY <1>1 DEF Done

LEMMA IdleTyped == Idle \in SyncRecord
  BY DEF Idle, SyncRecord

LEMMA CallStep ==
    ASSUME SourceInv, NEW t \in Syncs,
           \/ \E s \in Sources : SyncBegin(t, s)
           \/ Fetch(t) \/ FetchAborts(t) \/ SaveCategories(t)
    PROVE  SourceInv'
  <1> USE IdleTyped
  <1>0. /\ SyncsTyped /\ OthersTyped /\ MaxSyncs \in Nat /\ begun \in Nat
        /\ sync \in [Syncs -> SyncRecord]
        /\ sync[t] # Idle => CallTyped(sync[t], fetched, begun)
        /\ sync[t] # Idle => \A u \in Syncs : u # t /\ sync[u] # Idle => sync[u].no # sync[t].no
    BY SourceAssumption DEF SourceInv, OthersTyped, SyncsTyped
  <1>1. ASSUME NEW s \in Sources, SyncBegin(t, s) PROVE SourceInv'
    <2> DEFINE n == [src |-> s, no |-> begun + 1, step |-> 1, got |-> {}]
    <2>0. sync' = [sync EXCEPT ![t] = n] /\ begun' = begun + 1 /\ fetched' = fetched
      BY <1>1 DEF SyncBegin
    <2>1. n \in SyncRecord /\ n.src = s /\ n.step = 1 /\ n.got = {} /\ n.no = begun + 1
      BY <1>0 DEF SyncRecord
    <2> HIDE DEF n
    <2>2. Len(Requests(SourceType[s])) + 2 # 1
      BY SourceAssumption DEF Requests
    <2>3. CallTyped(n, fetched', begun')
      BY <1>0, <2>0, <2>1, <2>2 DEF CallTyped, Requests
    <2>4. \A u \in Syncs : sync[u] # Idle => sync[u].no # n.no
      BY <1>0, <2>1 DEF SyncsTyped, CallTyped
    <2>5. SyncsTyped'
      BY <1>0, <2>0, <2>1, <2>3, <2>4, SyncsKept
    <2>6. Done \subseteq Done'
      BY <1>0, <2>0, <2>1, DoneGrows
    <2>7. OthersTyped'
      BY <1>0, <1>1 DEF SyncBegin, OthersTyped, Present
    <2>8. QED
      BY <1>1, <2>0, <2>5, <2>6, <2>7, CallMoves DEF SyncBegin
  <1>2. CASE Fetch(t)
    <2>1. PICK got \in Brings(SourceType[sync[t].src],
                              Requests(SourceType[sync[t].src])[sync[t].step], Listing(t)) :
             sync' = [sync EXCEPT ![t] = [src |-> @.src, no |-> @.no,
                                          step |-> @.step + 1, got |-> @.got \cup got]]
      BY <1>2 DEF Fetch
    <2>2. got \subseteq Items /\ \A i \in got : i.kind \in Kinds
      BY <1>2, BringsListed DEF Fetch
    <2> DEFINE n == [src |-> sync[t].src, no |-> sync[t].no, step |-> sync[t].step + 1,
                     got |-> sync[t].got \cup got]
    <2>3. /\ sync[t] \in SyncRecord /\ sync[t] # Idle
          /\ sync[t].step <= Len(Requests(SourceType[sync[t].src]))
          /\ UNCHANGED <<life, rows, favs, fetched, begun>>
      BY <1>0, <1>2 DEF Fetch, Fetching
    <2>4. sync' = [sync EXCEPT ![t] = n]
      BY <1>0, <2>1, <2>3 DEF SyncRecord
    <2>5. /\ n \in SyncRecord /\ n.src = sync[t].src /\ n.no = sync[t].no
          /\ n.step = sync[t].step + 1 /\ n.got = sync[t].got \cup got
      BY <2>2, <2>3 DEF SyncRecord
    <2> HIDE DEF n
    <2>6. n.step # Len(Requests(SourceType[n.src])) + 2 /\ n.step # 0
      <3>1. Len(Requests(SourceType[n.src])) \in Nat /\ sync[t].step \in Nat
        BY <1>0, <2>3, <2>5, SourceAssumption DEF Requests, SyncRecord, CallTyped
      <3>2. QED
        BY <2>3, <2>5, <3>1
    <2>7. CallTyped(n, fetched', begun')
      BY <1>0, <2>2, <2>3, <2>5, <2>6 DEF CallTyped, Requests, Kinds
    <2>8. SyncsTyped'
      BY <1>0, <2>3, <2>4, <2>5, <2>7, SyncsKept
    <2>9. Done \subseteq Done'
      BY <1>0, <2>3, <2>4, <2>5, DoneGrows
    <2>10. OthersTyped'
      BY <1>0, <1>2 DEF Fetch, OthersTyped, Present
    <2>11. QED
      BY <2>3, <2>8, <2>9, <2>10, CallMoves
  <1>3. ASSUME sync' = [sync EXCEPT ![t] = Idle], OthersTyped',
               UNCHANGED <<life, rows, favs, fetched, begun>>
        PROVE  SourceInv'
    <2>1. SyncsTyped' /\ Done \subseteq Done'
      BY <1>0, <1>3, SyncsKept, DoneGrows
    <2>2. QED
      BY <1>3, <2>1, CallMoves
  <1>4. CASE FetchAborts(t)
    <2>1. OthersTyped'
      BY <1>0, <1>4 DEF FetchAborts, OthersTyped, Present
    <2>2. QED
      BY <1>3, <1>4, <2>1 DEF FetchAborts
  <1>5. CASE SaveCategories(t)
    <2>1. PICK some \in BOOLEAN :
            IF some /\ sync[t].src \notin Present
            THEN sync' = [sync EXCEPT ![t] = Idle] /\ UNCHANGED <<cats, fetched>>
            ELSE /\ sync' = [sync EXCEPT ![t].step = @ + 1]
                 /\ cats' = (cats \ {sync[t].src}) \cup IF some THEN {sync[t].src} ELSE {}
                 /\ fetched' = [fetched EXCEPT ![sync[t].src] = @ \cup {sync[t].got}]
      BY <1>5 DEF SaveCategories
    <2>2. UNCHANGED <<life, server, rows, favs, changes, begun>>
      BY <1>5 DEF SaveCategories
    <2>3. sync[t] \in SyncRecord /\ sync[t] # Idle /\ CallTyped(sync[t], fetched, begun) /\ sync[t].got \subseteq Items
      BY <1>0, <1>5 DEF SaveCategories, Fetched, SyncRecord
    <2>4. CASE some /\ sync[t].src \notin Present
      <3>1. OthersTyped'
        BY <1>0, <2>1, <2>2, <2>4 DEF OthersTyped, Present
      <3>2. QED
        BY <1>3, <2>1, <2>2, <2>4, <3>1
    <2>5. CASE ~(some /\ sync[t].src \notin Present)
      <3> DEFINE n == [sync[t] EXCEPT !.step = @ + 1]
      <3>1. sync' = [sync EXCEPT ![t] = n]
        BY <1>0, <2>1, <2>3, <2>5 DEF SyncRecord
      <3>2. /\ n \in SyncRecord /\ n.src = sync[t].src /\ n.no = sync[t].no
            /\ n.step = sync[t].step + 1 /\ n.got = sync[t].got
        BY <2>3 DEF SyncRecord
      <3> HIDE DEF n
      <3>3. /\ DOMAIN fetched' = Sources
            /\ \A s \in Sources : fetched'[s] = IF s = sync[t].src
                                                THEN fetched[s] \cup {sync[t].got} ELSE fetched[s]
        BY <1>0, <2>1, <2>5 DEF OthersTyped
      <3>4. CallTyped(n, fetched', begun')
        BY <2>2, <2>3, <3>2, <3>3 DEF CallTyped, SyncRecord, Requests, Kinds
      <3>5. SyncsTyped'
        <4>1. begun \in Nat /\ begun' = begun /\ SyncsTyped
          BY <1>0, <2>2
        <4>2. \A s \in Sources : fetched[s] \subseteq fetched'[s]
          BY <3>3
        <4>3. \A u \in Syncs : u # t /\ sync[u] # Idle => sync[u].no # n.no
          BY <2>3, <3>2, <4>1 DEF SyncsTyped
        <4>4. QED
          BY <3>1, <3>2, <3>4, <4>1, <4>2, <4>3, SyncsKept
      <3>6. Done \subseteq Done'
        BY <1>0, <2>2, <2>3, <3>1, <3>2, DoneGrows
      <3>7. cats' \subseteq Present'
        BY <1>0, <2>1, <2>2, <2>5 DEF OthersTyped, Present
      <3>8. OthersTyped'
        BY <1>0, <2>2, <2>3, <3>3, <3>7 DEF OthersTyped
      <3>9. QED
        BY <2>2, <3>3, <3>5, <3>6, <3>8, CallMoves
    <2>6. QED
      BY <2>4, <2>5
  <1>6. QED
    BY <1>1, <1>2, <1>4, <1>5

LEMMA SaveStep ==
    ASSUME SourceInv, NEW t \in Syncs, SaveSyncData(t)
    PROVE  SourceInv'
  <1> USE IdleTyped
  <1>0. /\ SyncsTyped /\ OthersTyped /\ begun \in Nat
        /\ sync' = [sync EXCEPT ![t] = Idle] /\ UNCHANGED <<life, server, cats, fetched, changes, begun>>
    BY SourceAssumption DEF SourceInv, OthersTyped, SaveSyncData
  <1>1. SyncsTyped' /\ Done \subseteq Done'
    BY <1>0, SyncsKept, DoneGrows
  <1>2. OthersTyped'
    BY <1>0 DEF OthersTyped, Present
  <1>3. CASE UpsertFails(sync[t])
    BY <1>0, <1>1, <1>2, <1>3, CallMoves DEF SaveSyncData
  <1>4. CASE ~UpsertFails(sync[t])
    <2>1. RowsShaped' /\ FavouritesLive' /\ RowsAreOneFetch'
      BY <1>4, CommitShaped
    <2>2. QED
      BY <1>1, <1>2, <2>1 DEF SourceInv
  <1>5. QED
    BY <1>3, <1>4

LEMMA UserStep ==
    ASSUME SourceInv,
           \/ \E s \in Sources : AddSource(s) \/ DeleteSource(s)
           \/ ClearAll
           \/ \E r \in rows : AddFavorite(r)
           \/ \E f \in favs : RemoveFavorite(f)
           \/ \E i \in Items : OfferChanges(i)
    PROVE  SourceInv'
  <1>0. /\ OthersTyped /\ SyncsTyped /\ RowsShaped /\ FavouritesLive /\ RowsAreOneFetch
        /\ MaxChanges \in Nat
    BY SourceAssumption DEF SourceInv
  <1>1. UNCHANGED <<sync, fetched, begun>>
    BY DEF AddSource, DeleteSource, ClearAll, AddFavorite, RemoveFavorite, OfferChanges
  <1>2. SyncsTyped' /\ Done' = Done
    BY <1>0, <1>1 DEF SyncsTyped, CallTyped, Done, Idle, Requests, Kinds, SyncRecord
  <1>3. ASSUME NEW s \in Sources, AddSource(s) PROVE SourceInv'
    <2>1. OthersTyped' /\ Present \subseteq Present'
      BY <1>0, <1>3 DEF AddSource, OthersTyped, Present
    <2>2. \A r \in rows : RowShape(r)'
      BY <1>0, <1>2, <2>1 DEF RowsShaped, RowShape, Table, Kinds
    <2>3. RowsShaped' /\ FavouritesLive' /\ RowsAreOneFetch'
      BY <1>0, <1>3, <2>2 DEF AddSource, RowsShaped, Key, Table, FavouritesLive,
                              RowsAreOneFetch, RowsOf, Keys
    <2>4. QED
      BY <1>2, <2>1, <2>3 DEF SourceInv
  <1>4. ASSUME NEW s \in Sources, DeleteSource(s) PROVE SourceInv'
    <2>1. OthersTyped' /\ \A x \in Present : x = s \/ x \in Present'
      BY <1>0, <1>4 DEF DeleteSource, OthersTyped, Present
    <2>2. rows' = {r \in rows : r.src \notin {s}} /\ favs' = Kept(favs, rows')
      BY <1>4 DEF DeleteSource, RowsOf
    <2>3. \A r \in rows' : r.src \in Present'
      BY <1>0, <2>1, <2>2 DEF RowsShaped, RowShape
    <2>4. RowsShaped' /\ FavouritesLive' /\ RowsAreOneFetch'
      BY <1>1, <2>2, <2>3, RowsGo
    <2>5. QED
      BY <1>2, <2>1, <2>4 DEF SourceInv
  <1>5. CASE ClearAll
    <2>1. rows' = {} /\ favs' = {} /\ cats' = {} /\ UNCHANGED <<life, server, fetched, changes, begun>>
      BY <1>5 DEF ClearAll
    <2>2. OthersTyped'
      BY <1>0, <2>1 DEF OthersTyped, Present
    <2>3. RowsShaped' /\ FavouritesLive' /\ RowsAreOneFetch'
      BY <2>1 DEF RowsShaped, FavouritesLive, RowsAreOneFetch, RowsOf
    <2>4. QED
      BY <1>2, <2>2, <2>3 DEF SourceInv
  <1>6. ASSUME FavouritesLive', UNCHANGED <<life, server, rows, cats, changes>>
        PROVE  SourceInv'
    <2>1. OthersTyped'
      BY <1>0, <1>1, <1>6 DEF OthersTyped, Present
    <2>2. \A r \in rows : RowShape(r)'
      BY <1>0, <1>2, <1>6 DEF RowsShaped, RowShape, Present, Table, Kinds
    <2>3. RowsShaped' /\ RowsAreOneFetch'
      BY <1>0, <1>1, <1>6, <2>2 DEF RowsShaped, Key, Table, RowsAreOneFetch, RowsOf, Keys
    <2>4. QED
      BY <1>2, <1>6, <2>1, <2>3 DEF SourceInv
  <1>7. ASSUME NEW r \in rows, AddFavorite(r) PROVE SourceInv'
    <2>1. FavouritesLive'
      BY <1>0, <1>7 DEF AddFavorite, FavouritesLive
    <2>2. QED
      BY <1>6, <1>7, <2>1 DEF AddFavorite
  <1>8. ASSUME NEW f \in favs, RemoveFavorite(f) PROVE SourceInv'
    <2>1. FavouritesLive'
      BY <1>0, <1>8 DEF RemoveFavorite, FavouritesLive
    <2>2. QED
      BY <1>6, <1>8, <2>1 DEF RemoveFavorite
  <1>9. ASSUME NEW i \in Items, OfferChanges(i) PROVE SourceInv'
    <2>1. OthersTyped'
      BY <1>0, <1>9 DEF OfferChanges, OthersTyped, Present
    <2>2. QED
      BY <1>1, <1>2, <1>9, <2>1, CallMoves DEF OfferChanges
  <1>10. QED
    BY <1>3, <1>4, <1>5, <1>7, <1>8, <1>9

LEMMA SourceStep == SourceInv /\ [SourceNext]_sourceVars => SourceInv'
  <1> SUFFICES ASSUME SourceInv, [SourceNext]_sourceVars PROVE SourceInv'
    OBVIOUS
  <1>1. ASSUME NEW t \in Syncs,
               Fetch(t) \/ FetchAborts(t) \/ SaveCategories(t) \/ SaveSyncData(t)
        PROVE  SourceInv'
    BY <1>1, CallStep, SaveStep
  <1>2. ASSUME NEW t \in Syncs, NEW s \in Sources, SyncBegin(t, s) PROVE SourceInv'
    BY <1>2, CallStep
  <1>3. CASE UNCHANGED sourceVars
    <2>1. OthersTyped' /\ SyncsTyped' /\ Done' = Done
      BY <1>3 DEF sourceVars, SourceInv, OthersTyped, Present, SyncsTyped, CallTyped, Done,
                  Idle, Requests, Kinds, SyncRecord
    <2>2. QED
      BY <1>3, <2>1, CallMoves DEF sourceVars
  <1>4. CASE \/ \E s \in Sources : AddSource(s) \/ DeleteSource(s)
             \/ ClearAll
             \/ \E r \in rows : AddFavorite(r)
             \/ \E f \in favs : RemoveFavorite(f)
             \/ \E i \in Items : OfferChanges(i)
    BY <1>4, UserStep
  <1>5. QED
    BY <1>1, <1>2, <1>3, <1>4 DEF SourceNext

LEMMA InvAlways == SourceSpec => []SourceInv
  BY InitInv, SourceStep, PTL DEF SourceSpec

\* The schema's promises hold in every reachable state: rows and categories belong to
\* sources that are present, no two rows share an id though a movie of a playlist has
\* the same in every source, a favourite is a channel's (save_sync_data, the foreign
\* keys of db_channels and db_user_favorites).
THEOREM SourceTypeCorrect == SourceSpec => []SourceTypeOK
  BY InvAlways, InvImplies, PTL

\* However many syncs overlap, fail or outlive their source, the stored rows of a source
\* are those of one fetch for it, none mixed in, none left over (save_sync_data).
THEOREM CatalogueIsOneFetch == SourceSpec => []RowsAreOneFetch
  BY InvAlways, InvImplies, PTL

\* No transaction of a sync takes away a favourite whose channel it lists, or one of
\* another source, or hands it to another channel, though the parsers give every
\* channel a new id in every call (save_channels_inner).
THEOREM FavouritesSurvive == SourceSpec => FavouriteKept
  <1>1. ASSUME SourceInv, NEW t \in Syncs, SaveSyncData(t), NEW r \in rows,
               /\ r.id \in favs
               /\ r.src = sync[t].src => Key(r) \in Keys(sync[t].got)
        PROVE  /\ r.id \in favs'
               /\ \E q \in rows' : q.id = r.id /\ q.src = r.src /\ Key(q) = Key(r)
    <2>1. CASE UpsertFails(sync[t])
      BY <1>1, <2>1 DEF SaveSyncData
    <2>2. CASE ~UpsertFails(sync[t])
      BY <1>1, <2>2, CommitKeeps
    <2>3. QED
      BY <2>1, <2>2
  <1>2. SourceInv => \A t \in Syncs : SaveSyncData(t) =>
          \A r \in rows :
             /\ r.id \in favs
             /\ r.src = sync[t].src => Key(r) \in Keys(sync[t].got)
             => /\ r.id \in favs'
                /\ \E q \in rows' : q.id = r.id /\ q.src = r.src /\ Key(q) = Key(r)
    BY <1>1
  <1>3. QED
    BY <1>2, InvAlways, PTL DEF FavouriteKept

-----------------------------------------------------------------------------
(* The guide.                                                               *)

\* What a call holds: past its first line, the source it was asked for.
CallRecord == [pc : {"idle", "request", "channels", "resolve", "entries"},
               src : GuideSources \cup {"none"}, tag : 0..MaxVersion, ver : 0..MaxVersion]
CallHasSource == \A f \in Fetchers : fetch[f].pc # "idle" => fetch[f].src \in GuideSources

\* A name is only ever matched through the channel definitions.
NameNeedsBridge == \A s \in GuideSources : mapped[s] = "name" => s \in bridge

GuideInv ==
    /\ GuideTypeOK
    /\ mapped \in [GuideSources -> MatchIds \cup {"none"}]
    /\ CallHasSource
    /\ NameNeedsBridge
    /\ NoGuideOfDeletedSource

LEMMA GuideInitOK == GuideInit => GuideInv
  <1> SUFFICES ASSUME GuideInit PROVE GuideInv
    OBVIOUS
  <1>1. \A f \in Fetchers : fetch[f] = NoCall /\ fetch[f].pc = "idle"
    BY DEF GuideInit, NoCall
  <1>2. NoCall \in CallRecord
    BY GuideAssumption DEF NoCall, CallRecord
  <1>3. fetch \in [Fetchers -> CallRecord]
    BY <1>2 DEF GuideInit
  <1>4. GuideTypeOK
    <2>1. version \in 1..MaxVersion /\ validator \in 0..MaxVersion /\ 0 \in 0..MaxVersion
      BY GuideAssumption DEF GuideInit
    <2>2. /\ guide \in [GuideSources -> 0..MaxVersion] /\ ids \in [GuideSources -> SUBSET MatchIds]
          /\ \A s \in GuideSources : mapped[s] \in ids[s] \cup {"none"}
      BY <2>1 DEF GuideInit
    <2>3. QED
      BY <1>3, <2>1, <2>2 DEF GuideInit, GuideTypeOK, CallRecord
  <1>5. QED
    BY <1>1, <1>4 DEF GuideInit, GuideInv, CallHasSource, NameNeedsBridge, NoGuideOfDeletedSource

\* A call moves on with the source it has.
LEMMA FetchMoves ==
  ASSUME GuideInv, NEW f \in Fetchers, NEW call \in CallRecord,
         call.pc # "idle" => call.src \in GuideSources, fetch' = [fetch EXCEPT ![f] = call]
  PROVE  /\ fetch' \in [Fetchers -> CallRecord]
         /\ CallHasSource'
  BY DEF GuideInv, GuideTypeOK, CallRecord, CallHasSource

LEMMA FinishMoves ==
  ASSUME GuideInv, NEW f \in Fetchers, Finish(f)
  PROVE  /\ fetch' \in [Fetchers -> CallRecord]
         /\ CallHasSource'
  <1>1. NoCall \in CallRecord /\ NoCall.pc = "idle"
    BY GuideAssumption DEF NoCall, CallRecord
  <1>2. QED
    BY <1>1, FetchMoves DEF Finish

\* The id a channel is resolved to is one of its own.
LEMMA ResolvedIsOwn ==
  ASSUME NEW s \in GuideSources
  PROVE  /\ ResolvedId(s) \in (ids[s] \cap GuideIds) \cup ids[s] \cup {"none"}
         /\ ResolvedId(s) \in MatchIds \cup {"none"}
         /\ ResolvedId(s) = "name" => s \in bridge
  BY DEF ResolvedId, MatchIds

LEMMA FetchKeepsGuide ==
  ASSUME GuideInv, NEW f \in Fetchers,
         \/ \E s \in GuideSources, force \in BOOLEAN : FetchBegin(f, s, force)
         \/ FetchFails(f) \/ NotModified(f) \/ Parsed(f) \/ SaveGuideChannels(f)
         \/ ResolveChannelIds(f) \/ SaveEntries(f)
  PROVE  GuideInv'
  <1> USE DEF GuideInv
  <1>0. /\ fetch[f] \in CallRecord
        /\ fetch[f].pc # "idle" => fetch[f].src \in GuideSources
    BY DEF GuideTypeOK, CallRecord, CallHasSource
  <1>1. ASSUME NEW s \in GuideSources, NEW force \in BOOLEAN, FetchBegin(f, s, force)
        PROVE  GuideInv'
    <2> DEFINE call == [pc |-> "request", src |-> s, tag |-> validator, ver |-> 0]
    <2>1. call \in CallRecord /\ call.src \in GuideSources
      BY GuideAssumption DEF CallRecord, GuideTypeOK
    <2>2. fetch' \in [Fetchers -> CallRecord] /\ CallHasSource'
      BY <1>1, <2>1, FetchMoves DEF FetchBegin
    <2>3. QED
      BY <1>1, <2>2 DEF FetchBegin, GuideTypeOK, CallRecord, NameNeedsBridge, NoGuideOfDeletedSource
  <1>2. CASE FetchFails(f)
    BY <1>2, FinishMoves DEF FetchFails, GuideTypeOK, CallRecord, NameNeedsBridge, NoGuideOfDeletedSource
  <1>3. CASE NotModified(f)
    BY <1>3, FinishMoves DEF NotModified, GuideTypeOK, CallRecord, NameNeedsBridge, NoGuideOfDeletedSource
  <1>4. CASE Parsed(f)
    <2> DEFINE call == [fetch[f] EXCEPT !.pc = "channels", !.ver = version]
    <2>0. version \in 0..MaxVersion /\ fetch[f].src \in GuideSources
      BY <1>0, <1>4, GuideAssumption DEF Parsed, GuideTypeOK
    <2>1. call \in CallRecord /\ call.src \in GuideSources
      BY <1>0, <2>0 DEF CallRecord
    <2>2. fetch' = [fetch EXCEPT ![f] = call] \/ Finish(f)
      BY <1>4 DEF Parsed
    <2>3. fetch' \in [Fetchers -> CallRecord] /\ CallHasSource'
      BY <2>1, <2>2, FetchMoves, FinishMoves
    <2>4. cooling' \in BOOLEAN
      BY <1>4 DEF Parsed, GuideTypeOK
    <2>5. QED
      BY <1>4, <2>3, <2>4, GuideAssumption
      DEF Parsed, GuideTypeOK, CallRecord, NameNeedsBridge, NoGuideOfDeletedSource
  <1>5. CASE SaveGuideChannels(f)
    <2> DEFINE call == [fetch[f] EXCEPT !.pc = "resolve"]
    <2>1. call \in CallRecord /\ call.src \in GuideSources
      BY <1>0, <1>5 DEF SaveGuideChannels, CallRecord
    <2>2. Finish(f) \/ fetch' = [fetch EXCEPT ![f] = call]
      BY <1>5 DEF SaveGuideChannels
    <2>3. fetch' \in [Fetchers -> CallRecord] /\ CallHasSource'
      BY <2>1, <2>2, FetchMoves, FinishMoves
    <2>4. QED
      BY <1>0, <1>5, <2>3
      DEF SaveGuideChannels, GuideTypeOK, CallRecord, NameNeedsBridge, NoGuideOfDeletedSource
  <1>6. CASE ResolveChannelIds(f)
    <2> DEFINE call == [fetch[f] EXCEPT !.pc = "entries"]
               s == fetch[f].src
    <2>1. call \in CallRecord /\ call.src \in GuideSources /\ s \in GuideSources
      BY <1>0, <1>6 DEF ResolveChannelIds, CallRecord
    <2>2. fetch' = [fetch EXCEPT ![f] = call]
      BY <1>6 DEF ResolveChannelIds
    <2>3. fetch' \in [Fetchers -> CallRecord] /\ CallHasSource'
      BY <2>1, <2>2, FetchMoves
    <2>4. UNCHANGED mapped \/ (s \in known /\ mapped' = [mapped EXCEPT ![s] = ResolvedId(s)])
      BY <1>6, <2>1 DEF ResolveChannelIds
    <2> HIDE DEF s
    <2>5. QED
      BY <1>6, <2>1, <2>3, <2>4, ResolvedIsOwn
      DEF ResolveChannelIds, GuideTypeOK, CallRecord, NameNeedsBridge, NoGuideOfDeletedSource
  <1>7. CASE SaveEntries(f)
    <2>1. fetch' \in [Fetchers -> CallRecord] /\ CallHasSource'
      BY <1>7, FinishMoves DEF SaveEntries
    <2>2. QED
      BY <1>0, <1>7, <2>1
      DEF SaveEntries, GuideTypeOK, CallRecord, NameNeedsBridge, NoGuideOfDeletedSource
  <1>8. QED
    BY <1>1, <1>2, <1>3, <1>4, <1>5, <1>6, <1>7

\* What a sync stores of a channel are ids of its own.
LEMMA IdsStored ==
  ASSUME GuideInv, NEW s \in GuideSources, SaveChannelIds(s)
  PROVE  /\ ids' \in [GuideSources -> SUBSET MatchIds]
         /\ mapped' \in [GuideSources -> MatchIds \cup {"none"}]
         /\ \A p \in GuideSources : mapped'[p] \in ids'[p] \cup {"none"}
         /\ \A p \in GuideSources \ {s} : mapped'[p] = mapped[p]
         /\ mapped'[s] # "name"
  <1>1. PICK I \in SUBSET MatchIds \ {{}}, i \in {"none", "tvg"} :
          /\ i \in I \cup {"none"}
          /\ ids' = [ids EXCEPT ![s] = I] /\ mapped' = [mapped EXCEPT ![s] = i]
    BY DEF SaveChannelIds
  <1>2. i \in MatchIds \cup {"none"} /\ i # "name"
    BY <1>1
  <1>3. QED
    BY <1>1, <1>2 DEF GuideInv, GuideTypeOK

LEMMA GuideStep == GuideInv /\ [GuideNext]_guideVars => GuideInv'
  <1> SUFFICES ASSUME GuideInv, [GuideNext]_guideVars PROVE GuideInv'
    OBVIOUS
  <1> USE DEF GuideInv
  <1>1. ASSUME NEW s \in GuideSources, AddGuideSource(s) PROVE GuideInv'
    BY <1>1, IdsStored
    DEF AddGuideSource, GuideTypeOK, CallHasSource, NameNeedsBridge, NoGuideOfDeletedSource
  <1>2. ASSUME NEW s \in GuideSources, DeleteGuideSource(s) PROVE GuideInv'
    BY <1>2, GuideAssumption
    DEF DeleteGuideSource, GuideTypeOK, CallHasSource, NameNeedsBridge, NoGuideOfDeletedSource
  <1>3. ASSUME NEW s \in GuideSources, Resync(s) PROVE GuideInv'
    BY <1>3, IdsStored
    DEF Resync, GuideTypeOK, CallHasSource, NameNeedsBridge, NoGuideOfDeletedSource
  <1>4. CASE ClearEntries
    BY <1>4, GuideAssumption
    DEF ClearEntries, GuideTypeOK, CallHasSource, NameNeedsBridge, NoGuideOfDeletedSource
  <1>5. CASE CooldownEnds
    BY <1>5 DEF CooldownEnds, GuideTypeOK, CallHasSource, NameNeedsBridge, NoGuideOfDeletedSource
  <1>6. CASE Publish
    BY <1>6, GuideAssumption
    DEF Publish, GuideTypeOK, CallHasSource, NameNeedsBridge, NoGuideOfDeletedSource
  <1>7. CASE UNCHANGED guideVars
    BY <1>7 DEF guideVars, GuideTypeOK, CallHasSource, NameNeedsBridge, NoGuideOfDeletedSource
  <1>8. QED
    BY <1>1, <1>2, <1>3, <1>4, <1>5, <1>6, <1>7, FetchKeepsGuide DEF GuideNext

\* Types, for any sources and any number of fetches under way together.
THEOREM GuideTypeCorrect == GuideSpec => []GuideTypeOK
  <1>1. GuideInv => GuideTypeOK
    BY DEF GuideInv
  <1>2. QED
    BY <1>1, GuideInitOK, GuideStep, PTL DEF GuideSpec

\* However late a fetch ends, a deleted source keeps no programmes, channel
\* definitions or mapping.
THEOREM NothingOfDeletedSource == GuideSpec => []NoGuideOfDeletedSource
  <1>1. GuideInv => NoGuideOfDeletedSource
    BY DEF GuideInv
  <1>2. QED
    BY <1>1, GuideInitOK, GuideStep, PTL DEF GuideSpec

\* A sync of the playlist takes the guide of a channel off the screen only if it
\* leaves the channel none of the ids it was found by; forgetting the mapping alone,
\* whatever it had been resolved to, does not (save_channels_inner,
\* resolve_epg_keys_for_channels).
THEOREM GuideSurvivesResync == GuideSpec => ResyncKeepsGuide
  <1>1. ASSUME GuideInv, NEW s \in GuideSources, Resync(s), Shown(s),
               ids'[s] \cap LookupIds(s) \cap GuideIds # {}
        PROVE  Shown(s)'
    <2>1. bridge' = bridge /\ guide' = guide
      BY <1>1 DEF Resync
    <2>2. \E p \in GuideSources : guide[p] # 0
      BY <1>1 DEF Shown
    <2>3. PICK i \in GuideIds : i \in ids'[s] /\ i \in LookupIds(s)
      BY <1>1
    <2>4. i = "name" => s \in bridge
      BY <1>1, <2>3 DEF LookupIds, GuideInv, NameNeedsBridge
    <2>5. i \in LookupIds(s)'
      BY <2>1, <2>3, <2>4 DEF LookupIds
    <2>6. QED
      BY <2>1, <2>2, <2>3, <2>5 DEF Shown
  <1>2. GuideInv /\ [GuideNext]_guideVars
            => [\A s \in GuideSources :
                  /\ Resync(s) /\ Shown(s)
                  /\ ids'[s] \cap LookupIds(s) \cap GuideIds # {}
                  => Shown(s)']_guideVars
    BY <1>1
  <1>3. QED
    BY <1>2, GuideInitOK, GuideStep, PTL DEF GuideSpec, ResyncKeepsGuide

=============================================================================
