--------------------------- MODULE EventStoreProofs ---------------------------
(***************************************************************************)
(* Theorems about EventStore, for every set of events, every set of        *)
(* filters and every bound, and with `strfry delete` in use where it does  *)
(* not matter, and that it implements AbstractStore.  Liveness is left to  *)
(* TLC.                                                                    *)
(***************************************************************************)
EXTENDS StoreRefinement, TLAPS, WellFoundedInduction

-----------------------------------------------------------------------------
(* Lookups *)

\* A set of numbers with an upper bound has a greatest element, or is empty.
LEMMA GreatestExists ==
  ASSUME NEW S \in SUBSET Nat, NEW b \in Nat, \A n \in S : n <= b
  PROVE  \E m \in S \cup {0} : \A n \in S : n <= m
<1> DEFINE T == {m \in Nat : \A n \in S : n <= m}
           R == {ss \in Nat \X Nat : ss[1] < ss[2]}
<1>1. IsWellFoundedOn(R, Nat)
  BY NatLessThanWellFounded DEF OpToRel
<1>2. T \in SUBSET Nat /\ T # {}
  OBVIOUS
<1>3. PICK m \in T : \A y \in T : ~ (<<y, m>> \in R)
  <2> HIDE DEF T, R
  <2> QED BY <1>1, <1>2, WFMin
<1>4. \A y \in T : ~(y < m)
  BY <1>3
<1>5. m \in Nat /\ \A n \in S : n <= m
  OBVIOUS
<1>6. m \in S \cup {0}
  <2> SUFFICES ASSUME m \notin S, m # 0 PROVE FALSE
    OBVIOUS
  <2>1. m - 1 \in T
    BY <1>5
  <2> QED BY <2>1, <1>4, <1>5
<1> QED BY <1>5, <1>6

\* The levIds of a table have an upper bound.
Bounded(d) == \E b \in Nat : \A r \in d : r.levId <= b

\* getMostRecentLevId returns the highest levId, 0 for an empty table.
LEMMA MostRecentIsGreatest ==
  ASSUME NEW d \in SUBSET Entries, Bounded(d)
  PROVE  /\ MostRecentLevId(d) \in Nat
         /\ \A r \in d : r.levId <= MostRecentLevId(d)
         /\ MostRecentLevId(d) \in LevIds(d) \cup {0}
<1>1. LevIds(d) \in SUBSET Nat
  BY DEF LevIds, Entries
<1>2. PICK b \in Nat : \A r \in d : r.levId <= b
  BY DEF Bounded
<1>3. \A n \in LevIds(d) : n <= b
  BY <1>2 DEF LevIds
<1>4. \E m \in LevIds(d) \cup {0} : \A n \in LevIds(d) : n <= m
  BY <1>1, <1>3, GreatestExists
<1>5. /\ MostRecentLevId(d) \in LevIds(d) \cup {0}
      /\ \A n \in LevIds(d) : n <= MostRecentLevId(d)
  BY <1>4 DEF MostRecentLevId
<1> QED BY <1>1, <1>5 DEF LevIds

-----------------------------------------------------------------------------
(* What one table satisfies, and what the operations on it preserve *)

Good(d) ==
  /\ d \subseteq Entries
  /\ Bounded(d)
  /\ OneVersionIn(d)
  /\ DeletionsHoldIn(d)
  /\ UniqueIn(d)

\* Deleting any set of levIds keeps a table good.
LEMMA WithoutGood ==
  ASSUME NEW d, Good(d), NEW L
  PROVE  Good(Without(d, L))
<1>1. Without(d, L) \subseteq d
  BY DEF Without
<1> QED BY <1>1 DEF Good, Bounded, OneVersionIn, DeletionsHoldIn, UniqueIn

\* In a good table the version checkReplaceable looks at is the only one.
LEMMA OnlyVersion ==
  ASSUME NEW d, Good(d), NEW ev \in Events, Versioned(ev),
         NEW r \in d, HasD(r.ev), ReplaceKey(r.ev) = ReplaceKey(ev)
  PROVE  ReplaceEntries(d, ev) = {r} /\ LastReplaceEntry(d, ev) = r
<1>1. r.ev.kind = ev.kind
  BY DEF ReplaceKey
<1>2. Versioned(r.ev)
  BY <1>1 DEF Versioned
<1>3. ReplaceEntries(d, ev) = {r}
  BY <1>2 DEF ReplaceEntries, Good, OneVersionIn
<1>4. r.levId \in Nat
  BY DEF Good, Entries
<1>5. \E x \in ReplaceEntries(d, ev) : \A s \in ReplaceEntries(d, ev) : s.levId <= x.levId
  BY <1>3, <1>4
<1>6. LastReplaceEntry(d, ev) \in ReplaceEntries(d, ev)
  BY <1>5 DEF LastReplaceEntry
<1> QED BY <1>3, <1>6

\* The step of writeEvents that stores an event keeps the working copy good:
\* the new levId is fresh, the older version and the targets are removed.
LEMMA InsertGood ==
  ASSUME Good(wdb), toDelete = {}, NEW ev \in Events,
         ~EventExists(wdb, ev), ~DeletionStored(wdb, ev), ~IsReplaced(ev),
         NEW entry, entry = [levId |-> MostRecentLevId(wdb) + 1, ev |-> ev]
  PROVE  /\ entry \in Entries
         /\ \A r \in wdb : r.levId < entry.levId
         /\ UniqueIn(wdb \cup {entry})
         /\ entry.levId \notin Collected(ev)
         /\ Good(Without(wdb \cup {entry}, Collected(ev)))
<1> DEFINE after == Without(wdb \cup {entry}, Collected(ev))
<1>1. /\ MostRecentLevId(wdb) \in Nat
      /\ \A r \in wdb : r.levId <= MostRecentLevId(wdb)
  BY MostRecentIsGreatest DEF Good
<1>2. wdb \subseteq Entries /\ entry \in Entries
  BY <1>1 DEF Good, Entries
<1>3. \A r \in wdb : r.levId < entry.levId
  BY <1>1, <1>2 DEF Entries
<1>4. UniqueIn(wdb \cup {entry})
  BY <1>2, <1>3 DEF Good, UniqueIn, EventExists, Entries
<1>5. Bounded(after)
  <2>1. \A r \in wdb \cup {entry} : r.levId <= entry.levId
    BY <1>2, <1>3 DEF Entries
  <2> QED BY <2>1, <1>2 DEF Bounded, Without, Entries
<1>6. DeletionsHoldIn(after)
  <2> SUFFICES ASSUME NEW r \in after, NEW s \in after, Deletes(r.ev, s.ev)
               PROVE  FALSE
    BY DEF DeletionsHoldIn
  <2>1. CASE r \in wdb /\ s \in wdb
    BY <2>1 DEF Good, DeletionsHoldIn
  <2>2. CASE r \in wdb /\ s = entry
    BY <2>2 DEF DeletionStored
  <2>3. CASE r = entry /\ s \in wdb
    BY <2>3 DEF Deletes, Collected, DeletionTargets, Without
  <2>4. CASE r = entry /\ s = entry
    BY <2>4, EventsAssumption DEF Deletes
  <2> QED BY <2>1, <2>2, <2>3, <2>4 DEF Without
<1>7. OneVersionIn(after)
  <2>1. ASSUME NEW r \in wdb, r \in after, HasD(r.ev), Versioned(ev),
               ReplaceKey(r.ev) = ReplaceKey(ev)
        PROVE  FALSE
    <3>1. ReplaceEntries(wdb, ev) = {r} /\ LastReplaceEntry(wdb, ev) = r
      BY <2>1, OnlyVersion
    <3>2. r.levId \in Collected(ev)
      BY <2>1, <3>1 DEF Collected, ReplacedLevIds
    <3> QED BY <2>1, <3>2 DEF Without
  <2> SUFFICES ASSUME NEW r \in after, NEW s \in after, Versioned(r.ev), HasD(s.ev),
                      ReplaceKey(r.ev) = ReplaceKey(s.ev)
               PROVE  r = s
    BY DEF OneVersionIn
  <2>2. Versioned(s.ev) /\ HasD(r.ev)
    BY DEF ReplaceKey, Versioned
  <2>3. CASE r \in wdb /\ s \in wdb
    BY <2>3 DEF Good, OneVersionIn
  <2>4. CASE r \in wdb /\ s = entry
    BY <2>1, <2>2, <2>4
  <2>5. CASE r = entry /\ s \in wdb
    BY <2>1, <2>2, <2>5
  <2> QED BY <2>3, <2>4, <2>5 DEF Without
<1>8. UniqueIn(after) /\ after \subseteq Entries
  BY <1>2, <1>4 DEF UniqueIn, Without
<1>9. entry.levId \notin Collected(ev)
  <2>1. \A n \in DeletionTargets(ev) : \E r \in wdb : n = r.levId
    BY DEF DeletionTargets
  <2>2. ASSUME NEW n \in ReplacedLevIds(ev)
        PROVE  \E r \in wdb : n = r.levId
    <3>1. PICK r \in ReplaceEntries(wdb, ev) : TRUE
      BY <2>2 DEF ReplacedLevIds
    <3>2. LastReplaceEntry(wdb, ev) = r /\ r \in wdb
      BY <2>2, <3>1, OnlyVersion DEF ReplaceEntries, ReplacedLevIds
    <3> QED BY <2>2, <3>2 DEF ReplacedLevIds
  <2> QED BY <2>1, <2>2, <1>1, <1>2 DEF Collected, Entries
<1> QED BY <1>2, <1>3, <1>4, <1>5, <1>6, <1>7, <1>8, <1>9 DEF Good

-----------------------------------------------------------------------------
(* Negentropy trees *)

\* The kind index of the filter cache loses nothing: the trees visited for an
\* event are the trees whose filter matches it.
LEMMA TreesOfMatch ==
  ASSUME NEW fs, NEW ev
  PROVE  TreesOf(fs, ev) = {i \in DOMAIN fs : DoesMatch(fs[i], ev)}
BY DEF TreesOf, DoesMatch

\* What tree t must hold of the entries its filter matches.
Owed(t, r) == r.levId > from[t] \/ (t \in built /\ filters[t].limit = {})

\* Inserting an event and visiting its trees (TreesInsert) keeps them exact.
LEMMA InsertExact ==
  ASSUME NEW d, NEW ts \in Seq(SUBSET Events), Len(ts) = Len(filters),
         filters \in Seq(Filters \cup {EmptyFilter}),
         TreesExactIn(d, ts), NEW ev, NEW entry, entry.ev = ev
  PROVE  TreesExactIn(d \cup {entry}, TreesInsert(filters, ts, ev))
<1> SUFFICES ASSUME NEW t \in DOMAIN filters
             PROVE  LET new == TreesInsert(filters, ts, ev)[t]
                    IN  /\ new \subseteq MatchingIn(d \cup {entry}, filters[t])
                        /\ \A r \in d \cup {entry} :
                             DoesMatch(filters[t], r.ev) /\ Owed(t, r) => r.ev \in new
  BY DEF TreesExactIn, Owed
<1>1. t \in DOMAIN ts
  OBVIOUS
<1>2. /\ ts[t] \subseteq MatchingIn(d, filters[t])
      /\ \A r \in d : DoesMatch(filters[t], r.ev) /\ Owed(t, r) => r.ev \in ts[t]
  BY DEF TreesExactIn, Owed
<1>3. CASE DoesMatch(filters[t], ev)
  <2>1. TreesInsert(filters, ts, ev)[t] = ts[t] \cup {ev}
    BY <1>1, <1>3, TreesOfMatch DEF TreesInsert
  <2>2. MatchingIn(d \cup {entry}, filters[t]) = MatchingIn(d, filters[t]) \cup {ev}
    BY <1>3 DEF MatchingIn
  <2> QED BY <1>2, <2>1, <2>2
<1>4. CASE ~DoesMatch(filters[t], ev)
  <2>1. TreesInsert(filters, ts, ev)[t] = ts[t]
    BY <1>1, <1>4, TreesOfMatch DEF TreesInsert
  <2>2. MatchingIn(d \cup {entry}, filters[t]) = MatchingIn(d, filters[t])
    BY <1>4 DEF MatchingIn
  <2> QED BY <1>2, <1>4, <2>1, <2>2
<1> QED BY <1>3, <1>4

\* Deleting levIds and erasing their events from the trees keeps them exact.
LEMMA EraseExact ==
  ASSUME NEW d, NEW ts \in Seq(SUBSET Events), Len(ts) = Len(filters),
         filters \in Seq(Filters \cup {EmptyFilter}),
         TreesExactIn(d, ts), UniqueIn(d), NEW L
  PROVE  TreesExactIn(Without(d, L), TreesErase(filters, ts, Victims(d, L)))
<1> DEFINE gone == Victims(d, L)
<1> SUFFICES ASSUME NEW t \in DOMAIN filters
             PROVE  LET new == TreesErase(filters, ts, gone)[t]
                    IN  /\ new \subseteq MatchingIn(Without(d, L), filters[t])
                        /\ \A r \in Without(d, L) :
                             DoesMatch(filters[t], r.ev) /\ Owed(t, r) => r.ev \in new
  BY DEF TreesExactIn, Owed
<1>1. t \in DOMAIN ts
  OBVIOUS
<1>2. /\ ts[t] \subseteq MatchingIn(d, filters[t])
      /\ \A r \in d : DoesMatch(filters[t], r.ev) /\ Owed(t, r) => r.ev \in ts[t]
  BY DEF TreesExactIn, Owed
<1>0. \A r \in d : r.ev \in gone <=> r.levId \in L
  BY DEF Victims, UniqueIn
<1>3. TreesErase(filters, ts, gone)[t]
        = ts[t] \ {ev \in gone : DoesMatch(filters[t], ev)}
  BY <1>1, TreesOfMatch DEF TreesErase
<1>4. MatchingIn(Without(d, L), filters[t])
        = MatchingIn(d, filters[t]) \ {ev \in gone : DoesMatch(filters[t], ev)}
  BY <1>0 DEF MatchingIn, Without
<1> QED BY <1>0, <1>2, <1>3, <1>4 DEF Without

\* What a query hands over matches, and without a limit it is all there is.
LEMMA FoundMatches ==
  ASSUME NEW f, NEW M, NEW S \in QueryResults(f, M)
  PROVE  S \subseteq M /\ (f.limit = {} => S = M)
BY DEF QueryResults

-----------------------------------------------------------------------------
(* Type correctness *)

\* TreesInsert keeps a list of trees a list of trees.
LEMMA InsertType ==
  ASSUME NEW fs, NEW ts \in Seq(SUBSET Events), NEW ev \in Events
  PROVE  /\ TreesInsert(fs, ts, ev) \in Seq(SUBSET Events)
         /\ Len(TreesInsert(fs, ts, ev)) = Len(ts)
<1>1. TreesInsert(fs, ts, ev) \in [1..Len(ts) -> SUBSET Events]
  BY DEF TreesInsert
<1> QED BY <1>1

\* TreesErase keeps a list of trees a list of trees.
LEMMA EraseType ==
  ASSUME NEW fs, NEW ts \in Seq(SUBSET Events), NEW gone
  PROVE  /\ TreesErase(fs, ts, gone) \in Seq(SUBSET Events)
         /\ Len(TreesErase(fs, ts, gone)) = Len(ts)
<1>1. TreesErase(fs, ts, gone) \in [1..Len(ts) -> SUBSET Events]
  BY DEF TreesErase
<1> QED BY <1>1

\* A new database is well typed.
LEMMA InitType == Init => TypeOK
BY BoundsAssumption DEF Init, TypeOK, EmptyCache, EmptyFilter

\* A write step leaves the types alone; storing an event needs Good(wdb).
LEMMA WriteEventType ==
  ASSUME TypeOK, Good(wdb), toDelete = {}, WriteEvent
  PROVE  TypeOK'
<1> DEFINE ev == evs[idx]
           entry == [levId |-> MostRecentLevId(wdb) + 1, ev |-> ev]
<1>1. ev \in Events
  BY DEF TypeOK, WriteEvent
<1>2. Good(wdb')
  <2>1. ~EventExists(wdb, ev) /\ ~DeletionStored(wdb, ev) /\ ~IsReplaced(ev)
    BY DEF WriteEvent, IsDuplicate
  <2>2. wdb' = Without(wdb \cup {entry}, Collected(ev))
    BY DEF WriteEvent
  <2> QED BY <1>1, <2>1, <2>2, InsertGood
<1>3. wtrees' \in Seq(SUBSET Events) /\ Len(wtrees') = Len(wtrees)
  <2>1. TreesInsert(cache.filters, wtrees, ev) \in Seq(SUBSET Events)
        /\ Len(TreesInsert(cache.filters, wtrees, ev)) = Len(wtrees)
    BY <1>1, InsertType, EraseType DEF TypeOK
  <2> HIDE DEF ev
  <2>2. wtrees' = TreesErase(cache.filters, TreesInsert(cache.filters, wtrees, ev),
                             Victims(wdb \cup {entry}, Collected(ev)))
    BY DEF WriteEvent, ev
  <2> QED BY <1>1, <2>1, <2>2, InsertType, EraseType
<1>4. /\ status' \in Seq({"Pending", "Written", "Duplicate", "Replaced", "Deleted"})
      /\ Len(status') = Len(evs') /\ evs' = evs
      /\ idx' \in 1..(Len(evs') + 1)
      /\ toDelete' \subseteq Nat
  BY DEF TypeOK, WriteEvent
<1> QED BY <1>2, <1>3, <1>4 DEF TypeOK, WriteEvent, store, Good

\* Every step keeps the types; storing an event needs the working copy to be good.
LEMMA NextType ==
  ASSUME TypeOK, Good(db), pc = "writing" => Good(wdb) /\ toDelete = {},
         [NextWithDelete]_vars
  PROVE  TypeOK'
<1> USE DEF store, writer
<1>1. ASSUME NEW s \in Batches, BeginWrite(s) PROVE TypeOK'
  <2>1. s \in Seq(Events)
    BY BoundsAssumption DEF Batches
  <2>2. status' \in [1..Len(s) -> {"Pending"}]
    BY <1>1, <2>1 DEF BeginWrite
  <2>3. status' \in Seq({"Pending", "Written", "Duplicate", "Replaced", "Deleted"})
        /\ Len(status') = Len(s)
    BY <2>1, <2>2
  <2>4. cache'.counter \in Nat
    BY <1>1 DEF BeginWrite, Freshen, TypeOK
  <2>5. idx' \in 1..(Len(s) + 1)
    BY <1>1, <2>1 DEF BeginWrite
  <2> QED BY <1>1, <2>1, <2>3, <2>4, <2>5 DEF TypeOK, BeginWrite
<1>2. ASSUME NEW st \in {"Duplicate", "Deleted"}, pc = "writing", idx \in DOMAIN evs, Skip(st)
      PROVE  TypeOK'
  <2>1. /\ status' \in Seq({"Pending", "Written", "Duplicate", "Replaced", "Deleted"})
        /\ Len(status') = Len(evs)
        /\ idx' \in 1..(Len(evs) + 1)
    BY <1>2 DEF Skip, TypeOK
  <2> QED BY <1>2, <2>1 DEF TypeOK, Skip
<1>3. ASSUME WriteReplaced PROVE TypeOK'
  <2>1. /\ status' \in Seq({"Pending", "Written", "Duplicate", "Replaced", "Deleted"})
        /\ Len(status') = Len(evs)
        /\ idx' \in 1..(Len(evs) + 1)
        /\ pc' \in {"unprocessed", "writing"}
    BY <1>3 DEF WriteReplaced, TypeOK
  <2>2. toDelete' \subseteq Nat
    <3>1. ReplacedLevIds(evs[idx]) = {}
      BY <1>3 DEF WriteReplaced, ReplacedLevIds
    <3>2. DeletionTargets(evs[idx]) \subseteq Nat
      BY DEF DeletionTargets, TypeOK, Entries
    <3> QED BY <1>3, <3>1, <3>2 DEF WriteReplaced, Collected, TypeOK
  <2> QED BY <1>3, <2>1, <2>2 DEF TypeOK, WriteReplaced
<1>4. ASSUME WriteEvent PROVE TypeOK'
  BY <1>4, WriteEventType DEF WriteEvent
<1>5. ASSUME CommitWrite PROVE TypeOK'
  BY <1>5 DEF TypeOK, CommitWrite
<1>6. ASSUME WriteError PROVE TypeOK'
  BY <1>6 DEF TypeOK, WriteError
<1>7. ASSUME Respond PROVE TypeOK'
  BY <1>7 DEF TypeOK, Respond
<1>8. ASSUME CronScan PROVE TypeOK'
  <2>1. ExpiredLevIds \subseteq Nat
    BY DEF ExpiredLevIds, TypeOK, Entries
  <2> QED BY <1>8, <2>1 DEF TypeOK, CronScan
<1>9. ASSUME NEW L, DeleteEvents(L)
      PROVE  /\ db' \subseteq Entries
             /\ trees' \in Seq(SUBSET Events) /\ Len(trees') = Len(trees)
  <2>1. CASE FreshenThrows(EmptyCache)
    BY <1>9, <2>1 DEF DeleteEvents, TypeOK
  <2>2. CASE ~FreshenThrows(EmptyCache)
    <3>1. db' \subseteq db
      BY <1>9, <2>2 DEF DeleteEvents, Without
    <3>2. trees' = TreesErase(Freshen(EmptyCache).filters, trees, Victims(db, L))
      BY <1>9, <2>2 DEF DeleteEvents
    <3>3. trees \in Seq(SUBSET Events)
      BY DEF TypeOK
    <3>4. trees' \in Seq(SUBSET Events) /\ Len(trees') = Len(trees)
      BY <3>2, <3>3, EraseType
    <3>5. db \subseteq Entries
      BY DEF TypeOK
    <3> QED BY <3>1, <3>4, <3>5
  <2> QED BY <2>1, <2>2
<1>10. ASSUME CronDelete PROVE TypeOK'
  BY <1>9, <1>10 DEF TypeOK, CronDelete
<1>11. ASSUME DeleteApply PROVE TypeOK'
  BY <1>9, <1>11 DEF TypeOK, DeleteApply
<1>12. ASSUME NEW f, NEW until, DeleteScan(f, until) PROVE TypeOK'
  <2> DEFINE M == {s \in db : DoesMatch(f, s.ev) /\ s.ev.created <= until}
  <2>0. PICK S \in QueryResults(f, M) : delIds' = LevIds(S)
    BY <1>12 DEF DeleteScan
  <2>1. delIds' \subseteq Nat
    <3>1. S \subseteq M
      BY FoundMatches
    <3> QED BY <2>0, <3>1 DEF LevIds, TypeOK, Entries
  <2> QED BY <1>12, <2>1 DEF TypeOK, DeleteScan
<1>13. ASSUME NEW f \in Filters, NegentropyAdd(f) PROVE TypeOK'
  <2>1. /\ filters' \in Seq(Filters \cup {EmptyFilter})
        /\ trees' \in Seq(SUBSET Events) /\ Len(trees') = Len(filters')
        /\ built' \subseteq DOMAIN filters'
        /\ modCounter' \in Nat \ {0}
    BY <1>13 DEF NegentropyAdd, TypeOK
  <2>2. from' \in Seq(Nat) /\ Len(from') = Len(filters')
    <3>1. MostRecentLevId(db) \in Nat
      BY MostRecentIsGreatest DEF TypeOK, Good
    <3>2. /\ from' = Append(from, MostRecentLevId(db)) /\ filters' = Append(filters, f)
          /\ from \in Seq(Nat) /\ Len(from) = Len(filters)
          /\ filters \in Seq(Filters \cup {EmptyFilter})
      BY <1>13 DEF NegentropyAdd, TypeOK
    <3>3. from' \in Seq(Nat)
      BY <3>1, <3>2
    <3>4. Len(from') = Len(filters')
      BY <3>2
    <3> QED BY <3>3, <3>4
  <2> QED BY <1>13, <2>1, <2>2 DEF TypeOK, NegentropyAdd
<1>14. ASSUME NEW t \in DOMAIN filters, NegentropyBuild(t) PROVE TypeOK'
  <2>0. PICK S \in BuildFound(t) : trees' = [trees EXCEPT ![t] = @ \cup {r.ev : r \in S}]
    BY <1>14 DEF NegentropyBuild
  <2>1. trees[t] \cup {r.ev : r \in S} \in SUBSET Events
    BY FoundMatches DEF BuildFound, TypeOK, Entries
  <2>2. trees' \in Seq(SUBSET Events) /\ Len(trees') = Len(filters)
    BY <1>14, <2>0, <2>1 DEF NegentropyBuild, TypeOK
  <2>3. /\ modCounter' \in Nat \ {0} /\ built' \subseteq DOMAIN filters
        /\ UNCHANGED <<db, filters, from, writer, cronIds, delIds, now, crashes>>
    BY <1>14 DEF TypeOK, NegentropyBuild
  <2> QED BY <2>2, <2>3 DEF TypeOK
<1>15. ASSUME Tick PROVE TypeOK'
  BY <1>15 DEF TypeOK, Tick
<1>16. ASSUME Crash \/ CronThrows PROVE TypeOK'
  <2>1. Restart /\ crashes' \in Nat
    BY <1>16 DEF TypeOK, Crash, CronThrows
  <2> QED BY <2>1 DEF TypeOK, Restart, EmptyCache
<1>17. ASSUME UNCHANGED vars PROVE TypeOK'
  BY <1>17 DEF TypeOK, vars
<1> QED
  BY <1>1, <1>2, <1>3, <1>4, <1>5, <1>6, <1>7, <1>8, <1>10, <1>11, <1>12, <1>13,
     <1>14, <1>15, <1>16, <1>17
  DEF NextWithDelete, Next, WriterStep, WriteDuplicate, WriteDeleted

-----------------------------------------------------------------------------
(* The inductive invariant.  The properties of the committed tables are not *)
(* inductive by themselves: a commit makes the working copy the table, so   *)
(* the copy must have them too, its trees must be kept with the current     *)
(* filters, and no deletion may be left over from the event before.         *)

WriterInv ==
  pc = "writing" =>
    /\ Good(wdb)
    /\ toDelete = {}
    /\ cache.counter = modCounter
    /\ TreesExactIn(wdb, wtrees)

StoreInv ==
  /\ TypeOK
  /\ Good(db)
  /\ CacheCoherent
  /\ TreesExact
  /\ NoUnprocessedDeletion
  /\ WriterInv

\* A new database satisfies the invariant.
LEMMA InitInv == Init => StoreInv
<1> SUFFICES ASSUME Init PROVE StoreInv
  OBVIOUS
<1>1. Good(db)
  BY DEF Init, Good, Bounded, OneVersionIn, DeletionsHoldIn, UniqueIn
<1>2. TreesExact
  BY DEF Init, TreesExact, TreesExactIn, MatchingIn
<1>3. CacheCoherent /\ NoUnprocessedDeletion /\ WriterInv
  BY DEF Init, CacheCoherent, NoUnprocessedDeletion, WriterInv, EmptyCache
<1> QED BY <1>1, <1>2, <1>3, InitType DEF StoreInv

\* The parts about the committed tables only change with the tables.
LEMMA TablesUnchanged ==
  ASSUME StoreInv, UNCHANGED <<db, filters, trees, built, from>>
  PROVE  Good(db)' /\ TreesExact'
<1>1. Good(db)'
  BY DEF StoreInv
<1>2. TreesExact'
  BY DEF StoreInv, TreesExact, TreesExactIn
<1> QED BY <1>1, <1>2

\* A write transaction that deletes levIds keeps tables and trees in step.
LEMMA DeleteEventsInv ==
  ASSUME StoreInv, NEW L, DeleteEvents(L), UNCHANGED <<filters, built, from>>
  PROVE  Good(db)' /\ TreesExact'
<1>1. CASE FreshenThrows(EmptyCache)
  BY <1>1, TablesUnchanged DEF DeleteEvents
<1>2. CASE ~FreshenThrows(EmptyCache)
  <2>1. Freshen(EmptyCache).filters = filters
    BY <1>2 DEF Freshen, EmptyCache, StoreInv, TypeOK
  <2>2. /\ db' = Without(db, L)
        /\ trees' = TreesErase(filters, trees, Victims(db, L))
    BY <1>2, <2>1 DEF DeleteEvents
  <2>3. Good(db)'
    BY <2>2, WithoutGood DEF StoreInv
  <2>4. TreesExactIn(Without(db, L), TreesErase(filters, trees, Victims(db, L)))
    BY EraseExact DEF StoreInv, TypeOK, Good, TreesExact
  <2>5. TreesExact'
    BY <2>2, <2>4 DEF TreesExact, TreesExactIn
  <2> QED BY <2>3, <2>5
<1> QED BY <1>1, <1>2

\* The step that stores an event.
LEMMA WriteEventInv ==
  ASSUME StoreInv, WriteEvent
  PROVE  WriterInv'
<1> DEFINE ev == evs[idx]
           entry == [levId |-> MostRecentLevId(wdb) + 1, ev |-> ev]
           mid == TreesInsert(filters, wtrees, ev)
<1>1. Good(wdb) /\ toDelete = {} /\ cache.filters = filters /\ TreesExactIn(wdb, wtrees)
  BY DEF StoreInv, WriterInv, WriteEvent, CacheCoherent
<1>2. ev \in Events /\ wtrees \in Seq(SUBSET Events) /\ Len(wtrees) = Len(filters)
  BY DEF StoreInv, TypeOK, WriteEvent
<1>3. ~EventExists(wdb, ev) /\ ~DeletionStored(wdb, ev) /\ ~IsReplaced(ev)
  BY DEF WriteEvent, IsDuplicate
<1>4. /\ wdb' = Without(wdb \cup {entry}, Collected(ev))
      /\ wtrees' = TreesErase(filters, mid, Victims(wdb \cup {entry}, Collected(ev)))
  BY <1>1 DEF WriteEvent
<1>5. /\ UniqueIn(wdb \cup {entry})
      /\ Good(wdb')
  BY <1>1, <1>2, <1>3, <1>4, InsertGood
<1>6. entry.ev = ev
  OBVIOUS
<1> HIDE DEF ev, entry
<1>7. TreesExactIn(wdb \cup {entry}, mid)
  BY <1>1, <1>2, <1>6, InsertExact DEF StoreInv, TypeOK
<1>8. mid \in Seq(SUBSET Events) /\ Len(mid) = Len(filters)
  BY <1>2, InsertType, EraseType
<1>9. TreesExactIn(wdb', wtrees')
  <2> HIDE DEF mid
  <2> QED BY <1>4, <1>5, <1>7, <1>8, EraseExact DEF StoreInv, TypeOK
<1>10. UNCHANGED <<filters, built, from, modCounter, cache>> /\ toDelete' = {}
  BY DEF WriteEvent, store
<1>11. TreesExactIn(wdb, wtrees)'
  BY <1>9, <1>10 DEF TreesExactIn
<1> QED BY <1>1, <1>5, <1>10, <1>11 DEF WriterInv, StoreInv, WriteEvent

\* Every step, `strfry delete` included, preserves the invariant.
LEMMA NextInv == StoreInv /\ [NextWithDelete]_vars => StoreInv'
<1> SUFFICES ASSUME StoreInv, [NextWithDelete]_vars PROVE StoreInv'
  OBVIOUS
<1> USE DEF store, writer
<1>type. TypeOK'
  BY NextType DEF StoreInv, WriterInv
<1>1. ASSUME NEW s \in Batches, BeginWrite(s) PROVE StoreInv'
  <2>1. Good(db)' /\ TreesExact'
    BY <1>1, TablesUnchanged DEF BeginWrite
  <2>2. CacheCoherent'
    BY <1>1 DEF StoreInv, BeginWrite, CacheCoherent, Freshen, TypeOK
  <2>3. WriterInv'
    <3> SUFFICES ASSUME pc' = "writing" PROVE WriterInv'
      BY DEF WriterInv
    <3>1. cache'.counter = modCounter'
      BY <1>1 DEF BeginWrite, Freshen
    <3>2. TreesExactIn(wdb, wtrees)'
      BY <1>1 DEF BeginWrite, StoreInv, TreesExact, TreesExactIn
    <3> QED BY <1>1, <3>1, <3>2 DEF WriterInv, BeginWrite, StoreInv
  <2> QED BY <1>type, <1>1, <2>1, <2>2, <2>3
          DEF StoreInv, NoUnprocessedDeletion, BeginWrite
<1>2. ASSUME NEW st, pc = "writing", Skip(st) PROVE StoreInv'
  <2>1. Good(db)' /\ TreesExact'
    BY <1>2, TablesUnchanged DEF Skip
  <2>2. TreesExactIn(wdb, wtrees)'
    BY <1>2 DEF Skip, StoreInv, WriterInv, TreesExactIn
  <2> QED BY <1>type, <1>2, <2>1, <2>2
          DEF StoreInv, NoUnprocessedDeletion, Skip, CacheCoherent, WriterInv
<1>3. ASSUME WriteReplaced PROVE StoreInv'
  <2>1. Good(db)' /\ TreesExact'
    BY <1>3, TablesUnchanged DEF WriteReplaced
  <2>2. toDelete' = {}
    <3>1. toDelete = {} /\ Versioned(evs[idx]) /\ evs[idx] \in Events
      BY <1>3 DEF WriteReplaced, StoreInv, WriterInv, IsReplaced, TypeOK
    <3>2. ReplacedLevIds(evs[idx]) = {}
      BY <1>3 DEF WriteReplaced, ReplacedLevIds
    <3>3. ~IsDeletion(evs[idx].kind)
      BY <3>1, EventsAssumption
      DEF Versioned, IsDeletion, IsReplaceable, IsParamReplaceable
    <3>4. DeletionTargets(evs[idx]) = {}
      BY <3>3 DEF DeletionTargets
    <3> QED BY <1>3, <3>1, <3>2, <3>4 DEF WriteReplaced, Collected
  <2>3. TreesExactIn(wdb, wtrees)'
    BY <1>3 DEF WriteReplaced, StoreInv, WriterInv, TreesExactIn
  <2> QED BY <1>type, <1>3, <2>1, <2>2, <2>3
          DEF StoreInv, NoUnprocessedDeletion, WriteReplaced, CacheCoherent, WriterInv
<1>4. ASSUME WriteEvent PROVE StoreInv'
  <2>1. Good(db)' /\ TreesExact'
    BY <1>4, TablesUnchanged DEF WriteEvent
  <2>2. CacheCoherent' /\ NoUnprocessedDeletion'
    BY <1>4 DEF StoreInv, CacheCoherent, NoUnprocessedDeletion, WriteEvent
  <2> QED BY <1>type, <1>4, <2>1, <2>2, WriteEventInv DEF StoreInv
<1>5. ASSUME CommitWrite PROVE StoreInv'
  <2>1. Good(db)'
    BY <1>5 DEF CommitWrite, StoreInv, WriterInv
  <2>2. TreesExact'
    BY <1>5 DEF CommitWrite, StoreInv, WriterInv, TreesExact, TreesExactIn
  <2> QED BY <1>type, <1>5, <2>1, <2>2
          DEF StoreInv, NoUnprocessedDeletion, CommitWrite, CacheCoherent, WriterInv
<1>6. ASSUME WriteError \/ Respond \/ Crash \/ CronThrows PROVE StoreInv'
  <2>1. Good(db)' /\ TreesExact'
    BY <1>6, TablesUnchanged DEF WriteError, Respond, Crash, CronThrows, Restart
  <2>2. CacheCoherent'
    BY <1>6 DEF WriteError, Respond, Crash, CronThrows, Restart, CacheCoherent,
                EmptyCache, StoreInv, TypeOK
  <2> QED BY <1>type, <1>6, <2>1, <2>2
          DEF StoreInv, NoUnprocessedDeletion, WriterInv, WriteError, Respond, Crash,
              CronThrows, Restart
<1>7. ASSUME NEW f, NEW until,
             CronScan \/ DeleteScan(f, until) \/ Tick \/ UNCHANGED vars
      PROVE  StoreInv'
  <2>1. UNCHANGED <<store, writer>>
    BY <1>7 DEF CronScan, DeleteScan, Tick, vars
  <2>2. Good(db)' /\ TreesExact'
    BY <2>1, TablesUnchanged
  <2>3. TreesExactIn(wdb, wtrees)' <=> TreesExactIn(wdb, wtrees)
    BY <2>1 DEF TreesExactIn
  <2> QED BY <1>type, <2>1, <2>2, <2>3
          DEF StoreInv, CacheCoherent, NoUnprocessedDeletion, WriterInv
<1>8. ASSUME CronDelete \/ DeleteApply PROVE StoreInv'
  <2>1. PICK L : DeleteEvents(L)
    BY <1>8 DEF CronDelete, DeleteApply
  <2>2. UNCHANGED <<filters, built, from, modCounter, writer>> /\ pc # "writing"
    BY <1>8 DEF CronDelete, DeleteApply
  <2>3. Good(db)' /\ TreesExact'
    BY <2>1, <2>2, DeleteEventsInv
  <2> QED BY <1>type, <2>2, <2>3
          DEF StoreInv, CacheCoherent, NoUnprocessedDeletion, WriterInv
<1>9. ASSUME NEW f \in Filters, NegentropyAdd(f) PROVE StoreInv'
  <2>1. Good(db)'
    BY <1>9 DEF NegentropyAdd, StoreInv
  <2>2. TreesExact'
    <3> SUFFICES ASSUME NEW t \in DOMAIN filters'
                 PROVE  /\ trees'[t] \subseteq MatchingIn(db, filters'[t])
                        /\ \A r \in db : DoesMatch(filters'[t], r.ev) /\ Owed(t, r)'
                             => r.ev \in trees'[t]
      BY <1>9 DEF NegentropyAdd, TreesExact, TreesExactIn, Owed
    <3>1. CASE t \in DOMAIN filters
      <4>1. filters'[t] = filters[t] /\ trees'[t] = trees[t] /\ from'[t] = from[t]
        BY <1>9, <3>1 DEF NegentropyAdd, StoreInv, TypeOK
      <4>2. built' = built
        BY <1>9 DEF NegentropyAdd
      <4> QED BY <3>1, <4>1, <4>2 DEF StoreInv, TreesExact, TreesExactIn, Owed
    <3>2. CASE t \notin DOMAIN filters
      <4>1. trees'[t] = {} /\ t \notin built' /\ from'[t] = MostRecentLevId(db)
        BY <1>9, <3>2 DEF NegentropyAdd, StoreInv, TypeOK
      <4>2. \A r \in db : r.levId <= MostRecentLevId(db) /\ r.levId \in Nat
        BY MostRecentIsGreatest DEF StoreInv, Good, Entries
      <4>3. MostRecentLevId(db) \in Nat
        BY MostRecentIsGreatest DEF StoreInv, Good
      <4> QED BY <4>1, <4>2, <4>3 DEF Owed
    <3> QED BY <3>1, <3>2
  <2>3. CacheCoherent'
    BY <1>9 DEF NegentropyAdd, CacheCoherent, StoreInv, TypeOK
  <2> QED BY <1>type, <1>9, <2>1, <2>2, <2>3
          DEF StoreInv, NoUnprocessedDeletion, WriterInv, NegentropyAdd
<1>10. ASSUME NEW t \in DOMAIN filters, NegentropyBuild(t) PROVE StoreInv'
  <2>1. Good(db)'
    BY <1>10 DEF NegentropyBuild, StoreInv
  <2>2. TreesExact'
    <3> SUFFICES ASSUME NEW u \in DOMAIN filters
                 PROVE  /\ trees'[u] \subseteq MatchingIn(db, filters[u])
                        /\ \A r \in db : DoesMatch(filters[u], r.ev) /\ Owed(u, r)'
                             => r.ev \in trees'[u]
      BY <1>10 DEF NegentropyBuild, TreesExact, TreesExactIn, Owed
    <3>1. /\ trees[u] \subseteq MatchingIn(db, filters[u])
          /\ \A r \in db : DoesMatch(filters[u], r.ev) /\ Owed(u, r) => r.ev \in trees[u]
      BY DEF StoreInv, TreesExact, TreesExactIn, Owed
    <3>2. u \in DOMAIN trees
      BY DEF StoreInv, TypeOK
    <3>3. PICK S \in BuildFound(t) : trees' = [trees EXCEPT ![t] = @ \cup {r.ev : r \in S}]
      BY <1>10 DEF NegentropyBuild
    <3>4. filters' = filters /\ from' = from /\ built' = built \cup {t}
      BY <1>10 DEF NegentropyBuild
    <3>5. CASE u = t
      <4> DEFINE M == {s \in db : DoesMatch(filters[u], s.ev)}
      <4>1. S \subseteq M /\ (filters[u].limit = {} => S = M)
        BY <3>5, FoundMatches DEF BuildFound
      <4>2. trees'[u] = trees[u] \cup {r.ev : r \in S}
        BY <3>2, <3>3, <3>5
      <4>3. {r.ev : r \in S} \subseteq MatchingIn(db, filters[u])
        BY <4>1 DEF MatchingIn
      <4>4. ASSUME NEW r \in db, DoesMatch(filters[u], r.ev), Owed(u, r)'
            PROVE  r.ev \in trees'[u]
        <5>1. CASE Owed(u, r)
          BY <3>1, <4>2, <4>4, <5>1
        <5>2. CASE filters[u].limit = {}
          BY <4>1, <4>2, <4>4, <5>2
        <5> QED BY <3>4, <4>4, <5>1, <5>2 DEF Owed
      <4> QED BY <3>1, <4>2, <4>3, <4>4
    <3>6. CASE u # t
      <4>1. trees'[u] = trees[u]
        BY <3>2, <3>3, <3>6
      <4>2. \A r \in db : Owed(u, r)' => Owed(u, r)
        BY <3>4, <3>6 DEF Owed
      <4> QED BY <3>1, <4>1, <4>2
    <3> QED BY <3>5, <3>6
  <2>3. CacheCoherent'
    BY <1>10 DEF NegentropyBuild, CacheCoherent, StoreInv, TypeOK
  <2> QED BY <1>type, <1>10, <2>1, <2>2, <2>3
          DEF StoreInv, NoUnprocessedDeletion, WriterInv, NegentropyBuild
<1> QED
  BY <1>1, <1>2, <1>3, <1>4, <1>5, <1>6, <1>7, <1>8, <1>9, <1>10
  DEF NextWithDelete, Next, WriterStep, WriteDuplicate, WriteDeleted

\* The invariant holds in every behaviour, also with `strfry delete`.
THEOREM StoreInvariant == SpecWithDelete => []StoreInv
BY InitInv, NextInv, PTL DEF SpecWithDelete

\* Every variable keeps its type.
THEOREM StoreTypeOK == SpecWithDelete => []TypeOK
<1>1. StoreInv => TypeOK
  BY DEF StoreInv
<1> QED BY <1>1, StoreInvariant, PTL

\* One stored version per replaceable key (checkReplaceable).
THEOREM OneVersionTheorem == SpecWithDelete => []OneVersion
<1>1. StoreInv => OneVersion
  BY DEF StoreInv, Good, OneVersion
<1> QED BY <1>1, StoreInvariant, PTL

\* A stored deletion request keeps its targets out.
THEOREM DeletionsHoldTheorem == SpecWithDelete => []DeletionsHold
<1>1. StoreInv => DeletionsHold
  BY DEF StoreInv, Good, DeletionsHold
<1> QED BY <1>1, StoreInvariant, PTL

\* Neither an event nor a levId occurs twice in the table.
THEOREM UniqueTheorem == SpecWithDelete => []Unique
<1>1. StoreInv => Unique
  BY DEF StoreInv, Good, Unique
<1> QED BY <1>1, StoreInvariant, PTL

\* A negentropy tree holds stored events its filter matches only, every one
\* written since it was added, and every one there is once it is built from a
\* filter without a limit.
THEOREM TreesExactTheorem == SpecWithDelete => []TreesExact
<1>1. StoreInv => TreesExact
  BY DEF StoreInv
<1> QED BY <1>1, StoreInvariant, PTL

\* The filter cache is current whenever its counter says so.
THEOREM CacheCoherentTheorem == SpecWithDelete => []CacheCoherent
<1>1. StoreInv => CacheCoherent
  BY DEF StoreInv
<1> QED BY <1>1, StoreInvariant, PTL

\* writeEvents cannot throw "unprocessed deletion".
THEOREM NoUnprocessedDeletionTheorem == SpecWithDelete => []NoUnprocessedDeletion
<1>1. StoreInv => NoUnprocessedDeletion
  BY DEF StoreInv
<1> QED BY <1>1, StoreInvariant, PTL

-----------------------------------------------------------------------------
(* levIds, without `strfry delete`.  The cron thread never holds the highest *)
(* levId, and the working copy only grows above the committed table.         *)

Covers(d, e) == \A r \in d : \E s \in e : s.levId >= r.levId

LevInv ==
  /\ \A n \in cronIds : \E r \in db : r.levId > n
  /\ pc = "writing" => /\ Covers(db, wdb)
                       /\ \A s \in wdb \ db : \A r \in db : s.levId > r.levId

\* A table that covers another has a highest levId at least as high.
LEMMA CoversMostRecent ==
  ASSUME NEW d, NEW e, Good(d), Good(e), Covers(d, e)
  PROVE  MostRecentLevId(e) >= MostRecentLevId(d)
<1>1. /\ MostRecentLevId(d) \in Nat /\ MostRecentLevId(e) \in Nat
      /\ MostRecentLevId(d) \in LevIds(d) \cup {0}
      /\ \A s \in e : s.levId <= MostRecentLevId(e)
  BY MostRecentIsGreatest DEF Good
<1>2. CASE MostRecentLevId(d) = 0
  BY <1>1, <1>2
<1>3. CASE MostRecentLevId(d) \in LevIds(d)
  <2>1. PICK r \in d : r.levId = MostRecentLevId(d)
    BY <1>3 DEF LevIds
  <2>2. PICK s \in e : s.levId >= r.levId
    BY DEF Covers
  <2>3. s.levId \in Nat
    BY DEF Good, Entries
  <2> QED BY <1>1, <2>1, <2>2, <2>3
<1> QED BY <1>1, <1>2, <1>3

\* Deleting what the cron thread holds leaves the highest levId in place.
LEMMA CronCovers ==
  ASSUME StoreInv, LevInv
  PROVE  Covers(db, Without(db, cronIds))
<1>1. /\ MostRecentLevId(db) \in Nat
      /\ \A r \in db : r.levId <= MostRecentLevId(db)
      /\ MostRecentLevId(db) \in LevIds(db) \cup {0}
  BY MostRecentIsGreatest DEF StoreInv, Good
<1>2. \A r \in db : r.levId \in Nat \ {0}
  BY DEF StoreInv, Good, Entries
<1> SUFFICES ASSUME NEW r \in db
             PROVE  \E s \in Without(db, cronIds) : s.levId >= r.levId
  BY DEF Covers
<1>3. PICK s \in db : s.levId = MostRecentLevId(db)
  BY <1>1, <1>2 DEF LevIds
<1>4. s.levId \notin cronIds
  BY <1>1, <1>2, <1>3 DEF LevInv
<1> QED BY <1>1, <1>2, <1>3, <1>4 DEF Without

\* A levId with one above it still has one above it in a table that covers.
LEMMA CoversAbove ==
  ASSUME NEW d, NEW e, Covers(d, e), d \subseteq Entries, e \subseteq Entries,
         NEW n \in Nat, \E r \in d : r.levId > n
  PROVE  \E s \in e : s.levId > n
<1>1. PICK r \in d : r.levId > n
  OBVIOUS
<1>2. PICK s \in e : s.levId >= r.levId
  BY DEF Covers
<1> QED BY <1>1, <1>2 DEF Entries

\* Every step but `strfry delete` keeps the highest levId out of the cron's reach.
LEMMA NextLevInv == StoreInv /\ StoreInv' /\ LevInv /\ [Next]_vars => LevInv'
<1> SUFFICES ASSUME StoreInv, StoreInv', LevInv, [Next]_vars PROVE LevInv'
  OBVIOUS
<1> USE DEF store, writer
<1>0. /\ db \subseteq Entries /\ wdb \subseteq Entries /\ cronIds \subseteq Nat
      /\ db' \subseteq Entries
  BY DEF StoreInv, TypeOK
<1>1. ASSUME NEW s \in Batches, BeginWrite(s) PROVE LevInv'
  BY <1>0, <1>1 DEF BeginWrite, LevInv, Covers, Entries
<1>2. ASSUME NEW st, Skip(st) PROVE LevInv'
  BY <1>2 DEF Skip, LevInv
<1>3. ASSUME WriteReplaced PROVE LevInv'
  BY <1>3 DEF WriteReplaced, LevInv
<1>4. ASSUME WriteEvent PROVE LevInv'
  <2> DEFINE ev == evs[idx]
             entry == [levId |-> MostRecentLevId(wdb) + 1, ev |-> ev]
  <2>1. Good(wdb) /\ toDelete = {} /\ ev \in Events
    BY <1>4 DEF WriteEvent, StoreInv, WriterInv, TypeOK
  <2>2. ~EventExists(wdb, ev) /\ ~DeletionStored(wdb, ev) /\ ~IsReplaced(ev)
    BY <1>4 DEF WriteEvent, IsDuplicate
  <2>3. wdb' = Without(wdb \cup {entry}, Collected(ev))
    BY <1>4 DEF WriteEvent
  <2>4. /\ entry \in Entries /\ \A r \in wdb : r.levId < entry.levId
        /\ entry.levId \notin Collected(ev)
    BY <2>1, <2>2, InsertGood
  <2>5. entry \in wdb'
    BY <2>3, <2>4 DEF Without
  <2>6. Covers(db, wdb) /\ \A s \in wdb \ db : \A r \in db : s.levId > r.levId
    BY <1>4 DEF WriteEvent, LevInv
  <2>7. \A r \in db : entry.levId > r.levId
    <3> SUFFICES ASSUME NEW r \in db PROVE entry.levId > r.levId
      OBVIOUS
    <3>1. PICK s \in wdb : s.levId >= r.levId
      BY <2>6 DEF Covers
    <3> HIDE DEF entry
    <3> QED BY <1>0, <2>4, <3>1 DEF Entries
  <2>8. db' = db /\ cronIds' = cronIds
    BY <1>4 DEF WriteEvent
  <2>9. Covers(db', wdb')
    <3> HIDE DEF entry
    <3> QED BY <1>0, <2>4, <2>5, <2>7, <2>8 DEF Covers, Entries
  <2>10. \A s \in wdb' \ db' : \A r \in db' : s.levId > r.levId
    BY <2>3, <2>6, <2>7, <2>8 DEF Without
  <2> QED BY <2>8, <2>9, <2>10 DEF LevInv
<1>5. ASSUME CommitWrite PROVE LevInv'
  <2>1. Covers(db, db') /\ cronIds' = cronIds /\ pc' = "done"
    BY <1>5 DEF CommitWrite, LevInv
  <2>2. \A n \in cronIds : \E r \in db' : r.levId > n
    BY <1>0, <2>1, CoversAbove DEF LevInv
  <2> QED BY <2>1, <2>2 DEF LevInv
<1>6. ASSUME WriteError \/ Respond \/ Crash \/ CronThrows PROVE LevInv'
  BY <1>6 DEF WriteError, Respond, Crash, CronThrows, Restart, LevInv
<1>7. ASSUME CronScan PROVE LevInv'
  <2>1. /\ MostRecentLevId(db) \in Nat
        /\ \A r \in db : r.levId <= MostRecentLevId(db)
        /\ MostRecentLevId(db) \in LevIds(db) \cup {0}
    BY MostRecentIsGreatest DEF StoreInv, Good
  <2>2. ASSUME NEW n \in ExpiredLevIds PROVE \E r \in db : r.levId > n
    <3>1. PICK q \in db : q.levId = n /\ n # MostRecentLevId(db)
      BY <2>2 DEF ExpiredLevIds
    <3>2. q.levId \in Nat \ {0}
      BY <1>0 DEF Entries
    <3>3. PICK r \in db : r.levId = MostRecentLevId(db)
      BY <2>1, <3>1, <3>2 DEF LevIds
    <3> QED BY <2>1, <3>1, <3>2, <3>3
  <2> QED BY <1>7, <2>2 DEF CronScan, LevInv
<1>8. ASSUME CronDelete PROVE LevInv'
  BY <1>8 DEF CronDelete, LevInv
<1>9. ASSUME NEW f, NegentropyAdd(f) PROVE LevInv'
  BY <1>9 DEF NegentropyAdd, LevInv
<1>10. ASSUME NEW t, NegentropyBuild(t) PROVE LevInv'
  BY <1>10 DEF NegentropyBuild, LevInv
<1>11. ASSUME Tick \/ UNCHANGED vars PROVE LevInv'
  BY <1>11 DEF Tick, vars, LevInv
<1> QED
  BY <1>1, <1>2, <1>3, <1>4, <1>5, <1>6, <1>7, <1>8, <1>9, <1>10, <1>11
  DEF Next, WriterStep, WriteDuplicate, WriteDeleted

\* As long as `strfry delete` is not used, levIds only grow and the highest
\* one is never given up: no levId is used again.
THEOREM LevIdsAdvanceTheorem == Spec => LevIdsAdvance
<1> DEFINE A == /\ \A r \in db' \ db : r.levId > MostRecentLevId(db)
                /\ MostRecentLevId(db') >= MostRecentLevId(db)
<1>1. Init => LevInv
  BY DEF Init, LevInv
<1>2. StoreInv /\ StoreInv' /\ LevInv /\ [Next]_vars => [A]_db
  <2> SUFFICES ASSUME StoreInv, StoreInv', LevInv, [Next]_vars, db' # db PROVE A
    OBVIOUS
  <2>1. CommitWrite \/ CronDelete
    BY DEF Next, WriterStep, WriteDuplicate, WriteDeleted, vars, store, writer,
       BeginWrite, Skip, WriteReplaced, WriteEvent, WriteError, Respond,
       CronScan, NegentropyAdd, NegentropyBuild, Tick, Crash, CronThrows, Restart
  <2>2. /\ MostRecentLevId(db) \in Nat
        /\ MostRecentLevId(db) \in LevIds(db) \cup {0}
    BY MostRecentIsGreatest DEF StoreInv, Good
  <2>3. CASE CommitWrite
    <3>1. Covers(db, db') /\ \A s \in db' \ db : \A r \in db : s.levId > r.levId
      BY <2>3 DEF CommitWrite, LevInv
    <3>2. \A s \in db' : s.levId \in Nat \ {0}
      BY DEF StoreInv, Good, Entries
    <3>3. \A s \in db' \ db : s.levId > MostRecentLevId(db)
      BY <2>2, <3>1, <3>2 DEF LevIds
    <3>4. MostRecentLevId(db') >= MostRecentLevId(db)
      BY <3>1, CoversMostRecent DEF StoreInv
    <3> QED BY <3>3, <3>4
  <2>4. CASE CronDelete
    <3>1. db' = Without(db, cronIds)
      BY <2>4 DEF CronDelete, DeleteEvents
    <3>2. Covers(db, db')
      BY <3>1, CronCovers
    <3>3. db' \subseteq db
      BY <3>1 DEF Without
    <3>4. MostRecentLevId(db') >= MostRecentLevId(db)
      BY <3>2, CoversMostRecent DEF StoreInv
    <3> QED BY <3>3, <3>4
  <2> QED BY <2>1, <2>3, <2>4
<1>3. Next => NextWithDelete
  BY DEF NextWithDelete
<1>4. Spec => SpecWithDelete
  BY <1>3, PTL DEF Spec, SpecWithDelete
<1>5. QED
  BY <1>1, <1>2, <1>4, NextLevInv, StoreInvariant, PTL DEF Spec, LevIdsAdvance

-----------------------------------------------------------------------------
(* What the batch in hand has done to the events it met: the statement of    *)
(* AcknowledgedAccounted for the working copy, after every event.            *)

AccountedIn(i) ==
  \/ EventExists(wdb, evs[i])
  \/ \E j \in DOMAIN evs :
       /\ status[j] = "Written"
       /\ \/ Deletes(evs[j], evs[i])
          \/ /\ Versioned(evs[i]) /\ HasD(evs[j])
             /\ ReplaceKey(evs[i]) = ReplaceKey(evs[j])
             /\ Supersedes(evs[j], evs[i])

AckInv ==
  pc = "writing" =>
    /\ \A k \in DOMAIN evs : k >= idx => status[k] = "Pending"
    /\ \A i \in DOMAIN evs :
         status[i] = "Written" \/ EventExists(db, evs[i]) => AccountedIn(i)

\* What the step that stores an event removes from the working copy is
\* superseded or deleted by that event.
LEMMA RemovedForAReason ==
  ASSUME Good(wdb), toDelete = {}, NEW ev \in Events, ~IsReplaced(ev),
         NEW r \in wdb, r.levId \in Collected(ev)
  PROVE  \/ Deletes(ev, r.ev)
         \/ /\ Versioned(r.ev) /\ HasD(ev) /\ ReplaceKey(r.ev) = ReplaceKey(ev)
            /\ Supersedes(ev, r.ev)
<1>1. CASE r.levId \in DeletionTargets(ev)
  BY <1>1 DEF DeletionTargets, Deletes, Good, UniqueIn
<1>2. CASE r.levId \in ReplacedLevIds(ev)
  <2>1. Versioned(ev) /\ r.levId = LastReplaceEntry(wdb, ev).levId
    BY <1>2 DEF ReplacedLevIds
  <2>2. PICK q \in ReplaceEntries(wdb, ev) : TRUE
    BY <1>2 DEF ReplacedLevIds
  <2>3. q \in wdb /\ HasD(q.ev) /\ ReplaceKey(q.ev) = ReplaceKey(ev)
    BY DEF ReplaceEntries
  <2>4. LastReplaceEntry(wdb, ev) = q
    BY <2>1, <2>3, OnlyVersion
  <2>5. q = r
    BY <2>1, <2>3, <2>4 DEF Good, UniqueIn
  <2>6. Supersedes(ev, r.ev)
    BY <2>1, <2>2, <2>4, <2>5 DEF IsReplaced
  <2>7. Versioned(r.ev) /\ HasD(ev)
    BY <2>1, <2>3, <2>5 DEF Versioned, ReplaceKey
  <2> QED BY <2>3, <2>5, <2>6, <2>7
<1> QED BY <1>1, <1>2 DEF Collected

\* Storing an event keeps every earlier event of the batch accounted for.
LEMMA WriteEventAck ==
  ASSUME StoreInv, AckInv, WriteEvent
  PROVE  AckInv'
<1> DEFINE ev == evs[idx]
           entry == [levId |-> MostRecentLevId(wdb) + 1, ev |-> ev]
<1>1. /\ Good(wdb) /\ toDelete = {} /\ ev \in Events /\ pc = "writing"
      /\ evs \in Seq(Events) /\ Len(status) = Len(evs) /\ idx \in DOMAIN evs
      /\ status \in Seq({"Pending", "Written", "Duplicate", "Replaced", "Deleted"})
  BY DEF WriteEvent, StoreInv, WriterInv, TypeOK
<1>2. ~EventExists(wdb, ev) /\ ~DeletionStored(wdb, ev) /\ ~IsReplaced(ev)
  BY DEF WriteEvent, IsDuplicate
<1>3. wdb' = Without(wdb \cup {entry}, Collected(ev))
  BY DEF WriteEvent
<1>4. entry \in Entries /\ entry.levId \notin Collected(ev)
  BY <1>1, <1>2, InsertGood
<1>5. entry \in wdb'
  BY <1>3, <1>4 DEF Without
<1>6. /\ evs' = evs /\ db' = db /\ idx' = idx + 1 /\ status'[idx] = "Written"
      /\ \A k \in DOMAIN evs : k # idx => status'[k] = status[k]
  BY <1>1 DEF WriteEvent, store
<1> HIDE DEF entry
<1>7. \A k \in DOMAIN evs' : k >= idx' => status'[k] = "Pending"
  BY <1>1, <1>6 DEF AckInv
<1>8. ASSUME NEW i \in DOMAIN evs', status'[i] = "Written" \/ EventExists(db', evs'[i])
      PROVE  AccountedIn(i)'
  <2>1. CASE i = idx
    BY <2>1, <1>5, <1>6 DEF AccountedIn, EventExists, entry
  <2>2. CASE i # idx
    <3>1. AccountedIn(i)
      BY <1>1, <1>6, <1>8, <2>2 DEF AckInv
    <3>2. CASE EventExists(wdb, evs[i])
      <4>1. PICK r \in wdb : r.ev.id = evs[i].id
        BY <3>2 DEF EventExists
      <4>2. r.ev = evs[i]
        BY <1>1, <1>6, <4>1, EventsAssumption DEF Good, Entries
      <4>3. CASE r \in wdb'
        BY <1>6, <4>2, <4>3 DEF AccountedIn, EventExists
      <4>4. CASE r \notin wdb'
        <5>1. r.levId \in Collected(ev)
          BY <1>3, <4>4 DEF Without
        <5>2. \/ Deletes(ev, r.ev)
              \/ /\ Versioned(r.ev) /\ HasD(ev) /\ ReplaceKey(r.ev) = ReplaceKey(ev)
                 /\ Supersedes(ev, r.ev)
          BY <1>1, <1>2, <5>1, RemovedForAReason
        <5> QED BY <1>1, <1>6, <4>2, <5>2 DEF AccountedIn
      <4> QED BY <4>3, <4>4
    <3>3. CASE ~EventExists(wdb, evs[i])
      <4>1. PICK j \in DOMAIN evs :
               /\ status[j] = "Written"
               /\ \/ Deletes(evs[j], evs[i])
                  \/ /\ Versioned(evs[i]) /\ HasD(evs[j])
                     /\ ReplaceKey(evs[i]) = ReplaceKey(evs[j])
                     /\ Supersedes(evs[j], evs[i])
        BY <3>1, <3>3 DEF AccountedIn
      <4>2. status'[j] = "Written"
        BY <1>6, <4>1
      <4> QED BY <1>6, <4>1, <4>2 DEF AccountedIn
    <3> QED BY <3>2, <3>3
  <2> QED BY <2>1, <2>2
<1> QED BY <1>7, <1>8 DEF AckInv

\* Skipping an event does, too.
LEMMA SkipAck ==
  ASSUME StoreInv, AckInv, NEW st \in {"Duplicate", "Deleted", "Replaced"},
         pc = "writing", idx \in DOMAIN evs,
         status' = [status EXCEPT ![idx] = st], idx' = idx + 1,
         UNCHANGED <<evs, db, wdb>>
  PROVE  AckInv'
<1>1. /\ evs \in Seq(Events) /\ Len(status) = Len(evs)
      /\ status \in Seq({"Pending", "Written", "Duplicate", "Replaced", "Deleted"})
  BY DEF StoreInv, TypeOK
<1>2. /\ status'[idx] = st /\ status[idx] = "Pending"
      /\ \A k \in DOMAIN evs : k # idx => status'[k] = status[k]
  BY <1>1 DEF AckInv
<1>3. \A k \in DOMAIN evs : status'[k] = "Written" <=> status[k] = "Written"
  BY <1>2
<1>4. \A i \in DOMAIN evs : AccountedIn(i) => AccountedIn(i)'
  BY <1>3 DEF AccountedIn, EventExists
<1>5. \A k \in DOMAIN evs' : k >= idx' => status'[k] = "Pending"
  BY <1>1, <1>2 DEF AckInv
<1>6. \A i \in DOMAIN evs : EventExists(db, evs[i])' <=> EventExists(db, evs[i])
  BY DEF EventExists
<1> QED BY <1>3, <1>4, <1>5, <1>6 DEF AckInv

\* Every step, with `strfry delete` too, keeps the batch accounted for.
LEMMA NextAckInv == StoreInv /\ AckInv /\ [NextWithDelete]_vars => AckInv'
<1> SUFFICES ASSUME StoreInv, AckInv, [NextWithDelete]_vars PROVE AckInv'
  OBVIOUS
<1> USE DEF store, writer
<1>1. ASSUME NEW s \in Batches, BeginWrite(s) PROVE AckInv'
  <2>1. s \in Seq(Events)
    BY BoundsAssumption DEF Batches
  <2> QED BY <1>1, <2>1 DEF BeginWrite, AckInv, AccountedIn, EventExists
<1>2. ASSUME WriteDuplicate \/ WriteDeleted \/ WriteReplaced PROVE AckInv'
  BY <1>2, SkipAck DEF WriteDuplicate, WriteDeleted, Skip, WriteReplaced
<1>3. ASSUME WriteEvent PROVE AckInv'
  BY <1>3, WriteEventAck
<1>4. ASSUME pc' # "writing" PROVE AckInv'
  BY <1>4 DEF AckInv
<1>5. ASSUME UNCHANGED <<pc, evs, idx, status, wdb, db>> PROVE AckInv'
  BY <1>5 DEF AckInv, AccountedIn, EventExists
<1>6. ASSUME \/ CommitWrite \/ WriteError \/ Respond \/ Crash
             \/ CronDelete \/ CronThrows \/ DeleteApply
      PROVE  AckInv'
  BY <1>4, <1>6 DEF CommitWrite, WriteError, Respond, Crash, CronDelete, CronThrows,
     Restart, DeleteApply
<1>7. ASSUME NEW f, NEW t, NEW until,
             \/ CronScan \/ DeleteScan(f, until) \/ NegentropyAdd(f) \/ NegentropyBuild(t)
             \/ Tick \/ UNCHANGED vars
      PROVE  AckInv'
  BY <1>5, <1>7 DEF CronScan, DeleteScan, NegentropyAdd, NegentropyBuild, Tick, vars
<1> QED BY <1>1, <1>2, <1>3, <1>6, <1>7 DEF NextWithDelete, Next, WriterStep

\* When a batch commits, every event that the database held or that the batch
\* wrote is in the database, or the batch wrote an event that supersedes or
\* deletes it: no acknowledged event is lost to another one's deletions.
THEOREM AcknowledgedAccountedTheorem == SpecWithDelete => AcknowledgedAccounted
<1> DEFINE A == pc = "writing" /\ pc' = "done"
                => \A i \in DOMAIN evs :
                     status[i] = "Written" \/ EventExists(db, evs[i]) => Accounted(i)
<1>1. Init => AckInv
  BY DEF Init, AckInv
<1>2. AckInv /\ [NextWithDelete]_vars => [A]_vars
  <2> SUFFICES ASSUME AckInv, [NextWithDelete]_vars, pc = "writing", pc' = "done" PROVE A
    OBVIOUS
  <2>1. CommitWrite
    BY DEF NextWithDelete, Next, WriterStep, WriteDuplicate, WriteDeleted, vars, store,
       writer, BeginWrite, Skip, WriteReplaced, WriteEvent, WriteError, Respond, CronScan,
       CronDelete, CronThrows, Restart, DeleteScan, DeleteApply, NegentropyAdd,
       NegentropyBuild, Tick, Crash
  <2>2. db' = wdb
    BY <2>1 DEF CommitWrite
  <2>3. \A i : EventExists(db', evs[i]) <=> EventExists(wdb, evs[i])
    BY <2>2
  <2>4. \A i \in DOMAIN evs : AccountedIn(i) => Accounted(i)
    BY <2>3 DEF AccountedIn, Accounted
  <2> QED BY <2>4 DEF AckInv
<1> QED BY <1>1, <1>2, NextAckInv, StoreInvariant, PTL DEF SpecWithDelete, AcknowledgedAccounted

-----------------------------------------------------------------------------
(* EventStore implements AbstractStore: each step of the relay is a step of  *)
(* the abstract store or leaves it alone.                                    *)

\* What the abstract store says of events is what the relay says of them.
LEMMA SameKeys ==
  ASSUME NEW x, NEW y
  PROVE  /\ Abs!Deletes(x, y) <=> Deletes(x, y)
         /\ Abs!Versioned(x) <=> Versioned(x)
         /\ Abs!HasD(x) <=> HasD(x)
         /\ Abs!ReplaceKey(x) = ReplaceKey(x)
         /\ Abs!Supersedes(x, y) <=> Supersedes(x, y)
<1>1. Abs!Deletes(x, y) <=> Deletes(x, y)
  BY DEF Abs!Deletes, Abs!IsDeletion, Abs!ETags, Deletes, IsDeletion, ETags
<1>2. Abs!HasD(x) <=> HasD(x)
  BY DEF Abs!HasD, Abs!DTags, HasD, DTags
<1>3. Abs!Versioned(x) <=> Versioned(x)
  BY <1>2 DEF Abs!Versioned, Abs!IsReplaceable, Abs!IsParamReplaceable,
     Versioned, IsReplaceable, IsParamReplaceable
<1>4. Abs!ReplaceKey(x) = ReplaceKey(x)
  BY DEF Abs!ReplaceKey, Abs!FirstD, Abs!DTags, ReplaceKey, FirstD, DTags
<1>5. Abs!Supersedes(x, y) <=> Supersedes(x, y)
  BY DEF Abs!Supersedes, Supersedes
<1> QED BY <1>1, <1>2, <1>3, <1>4, <1>5

-----------------------------------------------------------------------------
(* The cron thread decides in one transaction and deletes in another.  What  *)
(* makes this safe: a levId it holds is never given to another event, and an *)
(* expired event stays expired.                                              *)

CronInv == \A r \in db : r.levId \in cronIds => Expired(r.ev)

RefInv == StoreInv /\ LevInv /\ CronInv

\* Nothing is held at the start.
LEMMA InitCron == Init => LevInv /\ CronInv
BY DEF Init, LevInv, CronInv

\* No step makes the cron thread hold the levId of an event that is not expired.
LEMMA NextCronInv == RefInv /\ StoreInv' /\ [Next]_vars => CronInv'
<1> SUFFICES ASSUME RefInv, StoreInv', [Next]_vars PROVE CronInv'
  OBVIOUS
<1> USE DEF store, writer
<1>0. /\ db \subseteq Entries /\ wdb \subseteq Entries /\ cronIds \subseteq Nat
      /\ now \in Nat
  BY DEF RefInv, StoreInv, TypeOK
<1>1. ASSUME db' \subseteq db, cronIds' \subseteq cronIds, now' = now PROVE CronInv'
  BY <1>1 DEF RefInv, CronInv, Expired
<1>2. CASE CommitWrite
  <2> SUFFICES ASSUME NEW r \in wdb, r.levId \in cronIds PROVE Expired(r.ev)
    BY <1>2 DEF CommitWrite, CronInv, Expired
  <2>1. PICK q \in db : q.levId > r.levId
    BY DEF RefInv, LevInv
  <2>2. r \in db
    BY <1>0, <1>2, <2>1 DEF CommitWrite, RefInv, LevInv, Entries
  <2> QED BY <2>2 DEF RefInv, CronInv
<1>3. CASE CronScan
  <2> SUFFICES ASSUME NEW r \in db, r.levId \in ExpiredLevIds PROVE Expired(r.ev)
    BY <1>3 DEF CronScan, CronInv, Expired
  <2>1. PICK q \in db : q.levId = r.levId /\ Expired(q.ev)
    BY DEF ExpiredLevIds
  <2>2. q = r
    BY <2>1 DEF RefInv, StoreInv, Good, UniqueIn
  <2> QED BY <2>1, <2>2
<1>4. CASE Tick
  <2>1. \A r \in db : r.ev.expiration \in Nat /\ r.ev.created \in Nat
    BY <1>0, EventsAssumption DEF Entries
  <2>2. now' = now + 1 /\ db' = db /\ cronIds' = cronIds
    BY <1>4 DEF Tick
  <2>3. \A r \in db : Expired(r.ev) => Expired(r.ev)'
    BY <1>0, <2>1, <2>2, BoundsAssumption DEF Expired
  <2> QED BY <2>2, <2>3 DEF RefInv, CronInv
<1>5. CASE CronDelete
  <2>1. db' \subseteq db /\ cronIds' \subseteq cronIds /\ now' = now
    BY <1>5 DEF CronDelete, DeleteEvents, Without
  <2> QED BY <1>1, <2>1
<1>6. CASE WriterStep /\ ~CommitWrite
  <2>1. db' \subseteq db /\ cronIds' \subseteq cronIds /\ now' = now
    BY <1>6 DEF WriterStep, WriteDuplicate, WriteDeleted, Skip, WriteReplaced, WriteEvent,
       WriteError, Respond
  <2> QED BY <1>1, <2>1
<1>7. CASE \/ \E s \in Batches : BeginWrite(s)
           \/ \E f \in Filters : NegentropyAdd(f)
           \/ \E t \in DOMAIN filters : NegentropyBuild(t)
           \/ Crash \/ CronThrows \/ UNCHANGED vars
  <2>1. db' \subseteq db /\ cronIds' \subseteq cronIds /\ now' = now
    BY <1>7 DEF BeginWrite, NegentropyAdd, NegentropyBuild, Crash, CronThrows, Restart, vars
  <2> QED BY <1>1, <2>1
<1> QED
  BY <1>2, <1>3, <1>4, <1>5, <1>6, <1>7 DEF Next

\* The three invariants hold together in every behaviour.
LEMMA RefInvariant == Spec => []RefInv
<1>1. Next => NextWithDelete
  BY DEF NextWithDelete
<1>2. Spec => SpecWithDelete
  BY <1>1, PTL DEF Spec, SpecWithDelete
<1>3. RefInv <=> StoreInv /\ LevInv /\ CronInv
  BY DEF RefInv
<1> QED
  BY <1>2, <1>3, InitCron, NextLevInv, NextCronInv, StoreInvariant, PTL DEF Spec

-----------------------------------------------------------------------------
(* Steps of the relay as steps of the abstract store *)

\* Storing an event under the next levId, reading the last entry of its key
\* and deleting the collected levIds afterwards puts the event in one step.
LEMMA WriteEventPuts ==
  ASSUME StoreInv, WriteEvent
  PROVE  \E ev \in Events : Abs!Put(ev)
<1> DEFINE ev == evs[idx]
           entry == [levId |-> MostRecentLevId(wdb) + 1, ev |-> ev]
           W == EventsIn(wdb)
<1>1. Good(wdb) /\ toDelete = {} /\ ev \in Events /\ pc = "writing" /\ pc' = "writing"
  BY DEF WriteEvent, StoreInv, WriterInv, TypeOK
<1>2. ~EventExists(wdb, ev) /\ ~DeletionStored(wdb, ev) /\ ~IsReplaced(ev)
  BY DEF WriteEvent, IsDuplicate
<1>3. wdb' = Without(wdb \cup {entry}, Collected(ev))
  BY DEF WriteEvent
<1>4. entry \in Entries /\ entry.levId \notin Collected(ev)
  BY <1>1, <1>2, InsertGood
<1> HIDE DEF ev, entry
<1>5. entry.ev = ev
  BY DEF entry
<1>6. \A r \in wdb : r.levId \in Collected(ev)
        <=> \/ Versioned(ev) /\ HasD(r.ev) /\ ReplaceKey(r.ev) = ReplaceKey(ev)
            \/ Deletes(ev, r.ev)
  <2> SUFFICES ASSUME NEW r \in wdb
               PROVE  r.levId \in Collected(ev)
                        <=> \/ Versioned(ev) /\ HasD(r.ev) /\ ReplaceKey(r.ev) = ReplaceKey(ev)
                            \/ Deletes(ev, r.ev)
    OBVIOUS
  <2>1. r.levId \in DeletionTargets(ev) <=> Deletes(ev, r.ev)
    BY <1>1 DEF DeletionTargets, Deletes, Good, UniqueIn
  <2>2. r.levId \in ReplacedLevIds(ev)
          <=> Versioned(ev) /\ HasD(r.ev) /\ ReplaceKey(r.ev) = ReplaceKey(ev)
    <3>1. CASE Versioned(ev) /\ HasD(r.ev) /\ ReplaceKey(r.ev) = ReplaceKey(ev)
      <4>1. ReplaceEntries(wdb, ev) = {r} /\ LastReplaceEntry(wdb, ev) = r
        BY <1>1, <3>1, OnlyVersion
      <4> QED BY <1>2, <3>1, <4>1 DEF ReplacedLevIds
    <3>2. ASSUME r.levId \in ReplacedLevIds(ev)
          PROVE  Versioned(ev) /\ HasD(r.ev) /\ ReplaceKey(r.ev) = ReplaceKey(ev)
      <4>1. Versioned(ev) /\ r.levId = LastReplaceEntry(wdb, ev).levId
        BY <3>2 DEF ReplacedLevIds
      <4>2. PICK q \in ReplaceEntries(wdb, ev) : TRUE
        BY <3>2 DEF ReplacedLevIds
      <4>3. q \in wdb /\ HasD(q.ev) /\ ReplaceKey(q.ev) = ReplaceKey(ev)
        BY DEF ReplaceEntries
      <4>4. LastReplaceEntry(wdb, ev) = q
        BY <1>1, <4>1, <4>3, OnlyVersion
      <4>5. q = r
        BY <1>1, <4>1, <4>3, <4>4 DEF Good, UniqueIn
      <4> QED BY <4>1, <4>3, <4>5
    <3> QED BY <3>1, <3>2
  <2> QED BY <1>1, <2>1, <2>2 DEF Collected
<1>7. ev \notin W
  BY <1>2 DEF EventExists, EventsIn
<1>8. \A x \in W : ~Abs!Deletes(x, ev)
  BY <1>2, SameKeys DEF DeletionStored, EventsIn
<1>9. \A x \in Abs!VersionsOf(W, ev) : Abs!Supersedes(ev, x)
  <2> SUFFICES ASSUME NEW x \in Abs!VersionsOf(W, ev) PROVE Supersedes(ev, x)
    BY SameKeys
  <2>1. PICK r \in wdb : r.ev = x
    BY DEF Abs!VersionsOf, EventsIn
  <2>2. Versioned(ev) /\ HasD(r.ev) /\ ReplaceKey(r.ev) = ReplaceKey(ev)
    BY <2>1, SameKeys DEF Abs!VersionsOf
  <2>3. ReplaceEntries(wdb, ev) = {r} /\ LastReplaceEntry(wdb, ev) = r
    BY <1>1, <2>2, OnlyVersion
  <2> QED BY <1>2, <2>1, <2>2, <2>3 DEF IsReplaced
<1>10. EventsIn(wdb') = {x \in W \cup {ev} : x \notin Abs!VersionsOf(W, ev) /\ ~Abs!Deletes(ev, x)}
  <2> DEFINE Goes(x) == \/ Versioned(ev) /\ HasD(x) /\ ReplaceKey(x) = ReplaceKey(ev)
                        \/ Deletes(ev, x)
  <2>1. \A x \in W : Goes(x) <=> x \in Abs!VersionsOf(W, ev) \/ Abs!Deletes(ev, x)
    BY SameKeys DEF Abs!VersionsOf
  <2>2. ev \notin Abs!VersionsOf(W, ev)
    BY <1>7 DEF Abs!VersionsOf
  <2>3. ~Abs!Deletes(ev, ev)
    BY <1>1, EventsAssumption, SameKeys DEF Deletes
  <2>4. wdb' = {r \in wdb : ~Goes(r.ev)} \cup {entry}
    BY <1>3, <1>4, <1>6 DEF Without
  <2>5. EventsIn(wdb') = {x \in W : ~Goes(x)} \cup {ev}
    BY <1>5, <2>4 DEF EventsIn
  <2> QED BY <2>1, <2>2, <2>3, <2>5
<1>11. UNCHANGED <<db, pc, now>>
  BY DEF WriteEvent, store
<1>12. Abs!Put(ev)
  BY <1>1, <1>7, <1>8, <1>9, <1>10, <1>11 DEF Abs!Put
<1> QED BY <1>1, <1>12

\* What the cron thread deletes may expire.
LEMMA CronDeleteExpires ==
  ASSUME RefInv, CronDelete
  PROVE  \E S \in SUBSET EventsIn(db) : Abs!Expire(S)
<1> DEFINE S == EventsIn(db) \ EventsIn(db')
<1>1. pc # "writing" /\ pc' = pc /\ now' = now
  BY DEF CronDelete, writer
<1>2. db' \subseteq db /\ \A r \in db \ db' : r.levId \in cronIds
  BY DEF CronDelete, DeleteEvents, Without
<1>3. EventsIn(db') = EventsIn(db) \ S
  BY <1>2 DEF EventsIn
<1>4. ASSUME NEW x \in S PROVE Abs!MayExpire(x)
  <2>1. PICK r \in db : r.ev = x
    BY <1>4 DEF EventsIn
  <2>2. r \notin db'
    BY <1>4, <2>1 DEF EventsIn
  <2>3. Expired(x)
    BY <1>2, <2>1, <2>2 DEF RefInv, CronInv
  <2>4. x \in Events /\ now \in Nat
    BY <2>1 DEF RefInv, StoreInv, TypeOK, Entries
  <2> QED BY <2>3, <2>4, EventsAssumption, BoundsAssumption DEF Expired, Abs!MayExpire
<1>5. Abs!Expire(S)
  BY <1>1, <1>3, <1>4 DEF Abs!Expire
<1> QED BY <1>5

\* Every step of the relay is a step of the abstract store or changes nothing
\* that the abstract store shows.
LEMMA NextRefines == RefInv /\ [Next]_vars => [Abs!Next]_Abs!vars
<1> SUFFICES ASSUME RefInv, [Next]_vars PROVE [Abs!Next]_Abs!vars
  OBVIOUS
<1> USE DEF store, writer
<1>1. CASE \E s \in Batches : BeginWrite(s)
  <2>1. PICK s \in Batches : BeginWrite(s)
    BY <1>1
  <2>2. CASE pc' = "writing"
    BY <2>1, <2>2 DEF BeginWrite, Abs!Next, Abs!Begin
  <2>3. CASE pc' # "writing"
    BY <2>1, <2>3 DEF BeginWrite, Abs!vars
  <2> QED BY <2>2, <2>3
<1>2. CASE WriteDuplicate \/ WriteDeleted
  BY <1>2 DEF WriteDuplicate, WriteDeleted, Skip, Abs!vars
<1>3. CASE WriteReplaced
  <2>1. pc' = "writing"
    <3>1. toDelete = {} /\ Versioned(evs[idx]) /\ evs[idx] \in Events
      BY <1>3 DEF WriteReplaced, RefInv, StoreInv, WriterInv, IsReplaced, TypeOK
    <3>2. ReplacedLevIds(evs[idx]) = {}
      BY <1>3 DEF WriteReplaced, ReplacedLevIds
    <3>3. DeletionTargets(evs[idx]) = {}
      BY <3>1, EventsAssumption
      DEF Versioned, IsDeletion, IsReplaceable, IsParamReplaceable, DeletionTargets
    <3> QED BY <1>3, <3>1, <3>2, <3>3 DEF WriteReplaced, Collected
  <2> QED BY <1>3, <2>1 DEF WriteReplaced, Abs!vars
<1>4. CASE WriteEvent
  BY <1>4, WriteEventPuts DEF RefInv, Abs!Next
<1>5. CASE CommitWrite
  BY <1>5 DEF CommitWrite, Abs!Next, Abs!Commit
<1>6. CASE WriteError \/ Crash \/ CronThrows
  <2>1. CASE pc = "writing"
    BY <1>6, <2>1 DEF WriteError, Crash, CronThrows, Restart, Abs!Next, Abs!Abort
  <2>2. CASE pc # "writing"
    BY <1>6, <2>2 DEF WriteError, Crash, CronThrows, Restart, Abs!vars
  <2> QED BY <2>1, <2>2
<1>7. CASE Respond
  BY <1>7 DEF Respond, Abs!vars
<1>8. CASE CronScan
  BY <1>8 DEF CronScan, Abs!vars
<1>9. CASE CronDelete
  BY <1>9, CronDeleteExpires DEF Abs!Next
<1>10. CASE \/ \E f \in Filters : NegentropyAdd(f)
            \/ \E t \in DOMAIN filters : NegentropyBuild(t)
  BY <1>10 DEF NegentropyAdd, NegentropyBuild, Abs!vars
<1>11. CASE Tick
  BY <1>11 DEF Tick, Abs!Next, Abs!Tick
<1>12. CASE UNCHANGED vars
  BY <1>12 DEF vars, Abs!vars
<1> QED
  BY <1>1, <1>2, <1>3, <1>4, <1>5, <1>6, <1>7, <1>8, <1>9, <1>10, <1>11, <1>12
  DEF Next, WriterStep

\* The relay's store implements the abstract store: batches are transactions,
\* an event is accepted with everything it makes disappear, and nothing leaves
\* the store unless it is superseded, deleted by its author or expired.
THEOREM StoreImplementsAbstract == Spec => Implements
<1>1. Init => Abs!Init
  BY DEF Init, Abs!Init, EventsIn
<1> QED BY <1>1, RefInvariant, NextRefines, PTL DEF Spec, Implements, Abs!Spec
=============================================================================
