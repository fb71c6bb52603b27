------------------------- MODULE ActiveMonitorsProofs -------------------------
(***************************************************************************)
(* What ActiveMonitors promises, for all filter groups, events and bounds. *)
(***************************************************************************)
EXTENDS ActiveMonitors, FiniteSetTheorems, SequenceTheorems, TLAPS

\* Every variable keeps its type, and no item and no monitor is ahead of the
\* snapshot.
MonitorsType ==
    /\ latestEventId \in Nat /\ levId \in 0..latestEventId /\ visit \in Nat
    /\ kindRefcounts \in [EphemeralKinds -> Nat] /\ catchAllCount \in Nat
    /\ conns \in [Monitors -> [filters : Groups, latest : 0..latestEventId]]
    /\ lookups \in [DOMAIN lookups -> 0..latestEventId]
    /\ event = <<>> \/ \E ev \in Events : event = <<ev>>
    /\ recipients \in Seq(Monitors)
    /\ Idle => recipients = <<>>

\* How many of the entries are under a key
Count(entries, key) == Cardinality({e \in entries : e.at = key})

\* The counts of TrackerExact; that what is counted is finite makes them add up,
\* and what is still to be taken off is apart from what stays counted.
CountsInv ==
    /\ IsFiniteSet(DOMAIN lookups) /\ IsFiniteSet(removing)
    /\ adding \subseteq DOMAIN lookups
    /\ removing = Tracked(removing) /\ adding = Tracked(adding)
    /\ removing \cap (DOMAIN lookups \ adding) = {}
    /\ catchAllCount = Count(Counted, <<"others", 0>>)
    /\ \A k \in EphemeralKinds : kindRefcounts[k] = Count(Counted, <<"kinds", k>>)

\* The items process has been through
Passed(e) == e \in seen \/ \E n \in 1..(visit - 1) : Visits(event[1])[n] = e.at

Found(e) == DoesMatch(conns[e.mon].filters[e.i], event[1])

\* An item can be ahead of process only since it was installed, with its monitor.
AheadInv == \A e \in DOMAIN lookups : lookups[e] > levId => conns[e.mon].latest >= lookups[e]

Marked(m) == conns[m].latest >= levId

\* While process works: a monitor that was behind is marked as up to date if and
\* only if it is among the recipients, once, and then it matches; and whatever is
\* behind process or marked, and matches, has its monitor marked.
LookInv ==
    ~Idle =>
        /\ visit >= 1
        /\ \A m \in Monitors :
             /\ m \in ahead => Marked(m)
             /\ m \notin ahead /\ Marked(m) <=> \E i \in DOMAIN recipients : recipients[i] = m
             /\ m \notin ahead /\ Marked(m) => GroupMatches(conns[m].filters, event[1])
        /\ \A i, j \in DOMAIN recipients : recipients[i] = recipients[j] => i = j
        /\ \A e \in DOMAIN lookups :
             (Passed(e) \/ lookups[e] >= levId) /\ Found(e) => Marked(e.mon)

MonitorsInv == MonitorsType /\ LookupsExact /\ CountsInv /\ AheadInv /\ LookInv

-----------------------------------------------------------------------------
(* Entries and counts *)

\* What the entries of a group are
LEMMA InEntries ==
    ASSUME NEW m, NEW g, NEW e
    PROVE  e \in Entries(m, g) <=>
             \E i \in DOMAIN g : \E k \in Keys(g[i]) : e = [at |-> k, mon |-> m, i |-> i]
BY DEF Entries

\* An entry names its monitor, its filter and one of the filter's keys.
LEMMA EntryParts ==
    ASSUME NEW m, NEW g, NEW e \in Entries(m, g)
    PROVE  e.mon = m /\ e.i \in DOMAIN g /\ e.at \in Keys(g[e.i])
BY InEntries

\* The filters of a group make finitely many entries.
LEMMA EntriesFinite ==
    ASSUME NEW m, NEW g \in Groups
    PROVE  IsFiniteSet(Entries(m, g))
<1> DEFINE Of(i) == {[at |-> k, mon |-> m, i |-> i] : k \in Keys(g[i])}
           all == {Of(i) : i \in DOMAIN g}
<1>1. ASSUME NEW i \in DOMAIN g PROVE IsFiniteSet(Of(i))
  <2> DEFINE f == [k \in Keys(g[i]) |-> [at |-> k, mon |-> m, i |-> i]]
  <2>1. f \in Surjection(Keys(g[i]), Of(i))
    BY DEF Surjection
  <2>2. IsFiniteSet(Keys(g[i]))
    BY MonitorsAssumption
  <2> HIDE DEF f
  <2> QED
    BY <2>1, <2>2, FS_Surjection
<1>2. IsFiniteSet(all)
  <2> DEFINE f == [i \in DOMAIN g |-> Of(i)]
  <2>1. f \in Surjection(DOMAIN g, all)
    BY DEF Surjection
  <2>2. IsFiniteSet(DOMAIN g)
    BY MonitorsAssumption
  <2> HIDE DEF f, all
  <2> QED
    BY <2>1, <2>2, FS_Surjection
<1>3. IsFiniteSet(UNION all)
  <2> HIDE DEF Of
  <2> QED
    BY <1>1, <1>2, FS_UNION
<1> QED
  BY <1>3 DEF Entries

\* A count of finitely many entries is a number.
LEMMA CountType ==
    ASSUME NEW S, IsFiniteSet(S), NEW key
    PROVE  Count(S, key) \in Nat /\ IsFiniteSet({e \in S : e.at = key})
<1>1. {e \in S : e.at = key} \in SUBSET S
  OBVIOUS
<1>2. IsFiniteSet({e \in S : e.at = key})
  BY <1>1, FS_Subset
<1> QED
  BY <1>2, FS_CardinalityType DEF Count

\* Taking entries away, and adding new ones, changes a count by theirs.
LEMMA CountLess ==
    ASSUME NEW S, IsFiniteSet(S), NEW T \in SUBSET S, NEW key
    PROVE  /\ Count(T, key) \in Nat
           /\ Count(S, key) >= Count(T, key)
           /\ Count(S \ T, key) = Count(S, key) - Count(T, key)
<1> DEFINE A == {e \in S : e.at = key}
           B == {e \in T : e.at = key}
<1>1. IsFiniteSet(A) /\ Count(S, key) \in Nat
  BY CountType
<1>2. IsFiniteSet(T)
  BY FS_Subset
<1>3. Count(T, key) \in Nat
  BY <1>2, CountType
<1>4. B \in SUBSET A /\ A \cap B = B /\ {e \in S \ T : e.at = key} = A \ B
  OBVIOUS
<1>5. Cardinality(B) <= Cardinality(A) /\ Cardinality(A \ B) = Cardinality(A) - Cardinality(B)
  <2> HIDE DEF A, B
  <2>1. B \in SUBSET A /\ A \cap B = B
    BY <1>4
  <2>2. Cardinality(B) <= Cardinality(A)
    BY ONLY <1>1, <2>1, FS_Subset
  <2>3. Cardinality(A \ B) = Cardinality(A) - Cardinality(A \cap B)
    BY ONLY <1>1, FS_Difference
  <2> QED
    BY ONLY <2>1, <2>2, <2>3
<1> QED
  BY <1>1, <1>3, <1>4, <1>5 DEF Count

\* ... and adding new ones does so too.
LEMMA CountMore ==
    ASSUME NEW S, IsFiniteSet(S), NEW T, IsFiniteSet(T), S \cap T = {}, NEW key
    PROVE  Count(S \cup T, key) = Count(S, key) + Count(T, key)
<1> DEFINE A == {e \in S : e.at = key}
           B == {e \in T : e.at = key}
<1>1. IsFiniteSet(A) /\ Cardinality(A) \in Nat /\ IsFiniteSet(B) /\ Cardinality(B) \in Nat
  BY CountType DEF Count
<1>2. A \cap B = {} /\ {e \in S \cup T : e.at = key} = A \cup B
  OBVIOUS
<1>3. Cardinality(A \cup B) = Cardinality(A) + Cardinality(B)
  <2> HIDE DEF A, B
  <2>1. Cardinality(A \cup B) = Cardinality(A) + Cardinality(B) - Cardinality(A \cap B)
    BY ONLY <1>1, FS_Union
  <2>2. Cardinality(A \cap B) = 0
    BY ONLY <1>2, FS_EmptySet
  <2> QED
    BY ONLY <1>1, <2>1, <2>2
<1> QED
  BY <1>2, <1>3 DEF Count

\* An entry counts once, under its own key.
LEMMA CountOne ==
    ASSUME NEW e, NEW key
    PROVE  Count({e}, key) = IF e.at = key THEN 1 ELSE 0
<1>1. CASE e.at = key
  <2>1. {d \in {e} : d.at = key} = {e}
    BY <1>1
  <2> QED
    BY <1>1, <2>1, FS_Singleton DEF Count
<1>2. CASE e.at # key
  <2>1. {d \in {e} : d.at = key} = {}
    BY <1>2
  <2> QED
    BY <1>2, <2>1, FS_EmptySet DEF Count
<1> QED
  BY <1>1, <1>2

\* What is tracked is under an ephemeral kind or in allOthers.
LEMMA TrackedAt ==
    ASSUME NEW S, NEW e \in Tracked(S)
    PROVE  /\ e \in S
           /\ \/ e.at[1] = "others" /\ e.at = <<"others", 0>>
              \/ e.at[1] = "kinds" /\ e.at[2] \in EphemeralKinds /\ e.at = <<"kinds", e.at[2]>>
BY DEF Tracked

-----------------------------------------------------------------------------
(* Looking up *)

\* The keys of an event, position by position
LEMMA VisitsSeq ==
    ASSUME NEW ev \in Events
    PROVE  /\ Len(ev.tags) \in Nat /\ DOMAIN ev.tags = 1..Len(ev.tags)
           /\ Len(Visits(ev)) = Len(ev.tags) + 4
           /\ Visits(ev)[1] = <<"ids", ev.id>>
           /\ Visits(ev)[2] = <<"authors", ev.pubkey>>
           /\ \A i \in 1..Len(ev.tags) :
                Visits(ev)[i + 2] = <<"tags", <<ev.tags[i].name, ev.tags[i].val>>>>
           /\ Visits(ev)[Len(ev.tags) + 3] = <<"kinds", ev.kind>>
           /\ Visits(ev)[Len(ev.tags) + 4] = <<"others", 0>>
<1> DEFINE a == <<<<"ids", ev.id>>, <<"authors", ev.pubkey>>>>
           b == [i \in DOMAIN ev.tags |-> <<"tags", <<ev.tags[i].name, ev.tags[i].val>>>>]
           c == <<<<"kinds", ev.kind>>, <<"others", 0>>>>
           All == {a[1], a[2], c[1], c[2]} \cup {b[i] : i \in DOMAIN ev.tags}
<1>1. ev.tags \in Seq({ev.tags[i] : i \in DOMAIN ev.tags})
  BY MonitorsAssumption
<1>2. Len(ev.tags) \in Nat /\ DOMAIN ev.tags = 1..Len(ev.tags)
  BY <1>1
<1>3. a \in Seq(All) /\ Len(a) = 2 /\ a[1] = <<"ids", ev.id>> /\ a[2] = <<"authors", ev.pubkey>>
  OBVIOUS
<1>4. c \in Seq(All) /\ Len(c) = 2 /\ c[1] = <<"kinds", ev.kind>> /\ c[2] = <<"others", 0>>
  OBVIOUS
<1>5. b \in Seq(All) /\ Len(b) = Len(ev.tags)
  <2>1. \A i \in DOMAIN ev.tags : b[i] \in All
    OBVIOUS
  <2>2. b = [i \in 1..Len(ev.tags) |-> b[i]]
    BY <1>2
  <2> HIDE DEF b, All
  <2> QED
    BY <1>2, <2>1, <2>2
<1>6. Visits(ev) = (a \o b) \o c
  BY DEF Visits
<1>7. \A i \in 1..Len(ev.tags) : b[i] = <<"tags", <<ev.tags[i].name, ev.tags[i].val>>>>
  BY <1>2
<1> HIDE DEF a, b, c, All
<1>8. /\ a \o b \in Seq(All) /\ Len(a \o b) = Len(ev.tags) + 2
      /\ (a \o b)[1] = a[1] /\ (a \o b)[2] = a[2]
      /\ \A i \in 1..Len(ev.tags) : (a \o b)[i + 2] = b[i]
  <2>1. /\ a \o b \in Seq(All) /\ Len(a \o b) = Len(a) + Len(b)
        /\ \A i \in 1..Len(a) + Len(b) :
             (a \o b)[i] = IF i <= Len(a) THEN a[i] ELSE b[i - Len(a)]
    BY <1>3, <1>5, ConcatProperties, ZenonT(30)
  <2> QED
    BY <2>1, <1>2, <1>3, <1>5
<1> DEFINE d == a \o b
           N == Len(ev.tags)
<1>9. /\ d \in Seq(All) /\ Len(d) = N + 2
      /\ d[1] = <<"ids", ev.id>> /\ d[2] = <<"authors", ev.pubkey>>
      /\ \A i \in 1..N : d[i + 2] = <<"tags", <<ev.tags[i].name, ev.tags[i].val>>>>
  BY <1>3, <1>7, <1>8
<1>10. Visits(ev) = d \o c /\ N \in Nat
  BY <1>2, <1>6
<1> HIDE DEF d, N
<1>11. /\ Len(d \o c) = Len(d) + Len(c)
       /\ \A i \in 1..Len(d) + Len(c) :
              (d \o c)[i] = IF i <= Len(d) THEN d[i] ELSE c[i - Len(d)]
  BY ONLY <1>9, <1>4, ConcatProperties
<1>12. /\ Len(d \o c) = N + 4
       /\ \A i \in 1..(N + 2) : (d \o c)[i] = d[i]
       /\ (d \o c)[N + 3] = c[1] /\ (d \o c)[N + 4] = c[2]
  BY ONLY <1>4, <1>9, <1>10, <1>11
<1>13. ASSUME NEW i \in 1..N
       PROVE  (d \o c)[i + 2] = <<"tags", <<ev.tags[i].name, ev.tags[i].val>>>>
  <2>1. i + 2 \in 1..(N + 2)
    BY ONLY <1>10, i \in 1..N
  <2>2. (d \o c)[i + 2] = d[i + 2]
    BY ONLY <1>12, <2>1
  <2> QED
    BY <1>9, <2>2, Zenon
<1>14. (d \o c)[1] = <<"ids", ev.id>> /\ (d \o c)[2] = <<"authors", ev.pubkey>>
  <2>1. 1 \in 1..(N + 2) /\ 2 \in 1..(N + 2)
    BY ONLY <1>10
  <2>2. (d \o c)[1] = d[1] /\ (d \o c)[2] = d[2]
    BY ONLY <1>12, <2>1, Zenon
  <2> QED
    BY ONLY <1>9, <2>2, Zenon
<1>15. (d \o c)[N + 3] = <<"kinds", ev.kind>> /\ (d \o c)[N + 4] = <<"others", 0>>
  BY ONLY <1>4, <1>12
<1> QED
  BY <1>2, <1>10, <1>12, <1>13, <1>14, <1>15, Zenon DEF N

\* An event that a filter matches is looked up under one of the filter's keys.
LEMMA MatchIsVisited ==
    ASSUME NEW ev \in Events, NEW f, DoesMatch(f, ev)
    PROVE  \E n \in 1..Len(Visits(ev)) : Visits(ev)[n] \in Keys(f)
<1> DEFINE N == Len(ev.tags)
<1>0. N \in Nat /\ {1, 2, N + 3, N + 4} \subseteq 1..Len(Visits(ev))
  BY VisitsSeq
<1>1. CASE f.ids # {}
  <2>1. <<"ids", ev.id>> \in Keys(f)
    BY <1>1 DEF Keys, DoesMatch
  <2> QED
    BY <1>0, <2>1, VisitsSeq
<1>2. CASE f.ids = {} /\ f.authors # {}
  <2>1. <<"authors", ev.pubkey>> \in Keys(f)
    BY <1>2 DEF Keys, DoesMatch
  <2> QED
    BY <1>0, <2>1, VisitsSeq
<1>3. CASE f.ids = {} /\ f.authors = {} /\ DOMAIN f.tags # {}
  <2>1. PICK name \in DOMAIN f.tags : TRUE
    BY <1>3
  <2>2. PICK i \in DOMAIN ev.tags : ev.tags[i].name = name /\ ev.tags[i].val \in f.tags[name]
    BY DEF DoesMatch
  <2>3. Keys(f) = UNION {{<<"tags", <<n, v>>>> : v \in f.tags[n]} : n \in DOMAIN f.tags}
    BY <1>3 DEF Keys
  <2>4. <<"tags", <<ev.tags[i].name, ev.tags[i].val>>>> \in Keys(f)
    BY <2>2, <2>3
  <2>5. i \in 1..N /\ N \in Nat /\ i + 2 \in 1..Len(Visits(ev))
    BY VisitsSeq
  <2> QED
    BY <2>4, <2>5, VisitsSeq
<1>4. CASE f.ids = {} /\ f.authors = {} /\ DOMAIN f.tags = {} /\ f.kinds # {}
  <2>1. <<"kinds", ev.kind>> \in Keys(f)
    BY <1>4 DEF Keys, DoesMatch
  <2> QED
    BY <1>0, <2>1, VisitsSeq
<1>5. CASE f.ids = {} /\ f.authors = {} /\ DOMAIN f.tags = {} /\ f.kinds = {}
  <2>1. <<"others", 0>> \in Keys(f)
    BY <1>5 DEF Keys
  <2> QED
    BY <1>0, <2>1, VisitsSeq
<1> QED
  BY <1>1, <1>2, <1>3, <1>4, <1>5

-----------------------------------------------------------------------------
(* The invariant *)

\* It holds in the beginning.
LEMMA MonitorsInit == Init => MonitorsInv
<1> SUFFICES ASSUME Init PROVE MonitorsInv
  OBVIOUS
<1>1. MonitorsType
  BY DEF Init, MonitorsType, Monitors, Idle
<1>2. LookupsExact
  BY DEF Init, LookupsExact, Monitors
<1>3. CountsInv
  <2>1. DOMAIN lookups = {}
    BY DEF Init
  <2>2. \A key : Count(DOMAIN lookups, key) = 0
    BY <2>1, FS_EmptySet DEF Count
  <2> QED
    BY <2>1, <2>2, FS_EmptySet DEF CountsInv, Init, Counted, Tracked
<1>4. LookInv
  BY DEF Init, LookInv, Idle
<1>5. AheadInv
  BY DEF Init, AheadInv
<1> QED
  BY <1>1, <1>2, <1>3, <1>4, <1>5 DEF MonitorsInv

\* Entries of different monitors are different, so that taking some monitors'
\* entries away leaves those of the others.
LEMMA ErasedExact ==
    ASSUME MonitorsInv, NEW gone \in SUBSET Monitors
    PROVE  /\ Erased(gone) \subseteq DOMAIN lookups
           /\ IsFiniteSet(DOMAIN lookups) /\ IsFiniteSet(Erased(gone))
           /\ DOMAIN lookups \ Erased(gone)
                = UNION {Entries(m, conns[m].filters) : m \in Monitors \ gone}
           /\ \A e \in DOMAIN lookups \ Erased(gone) : e.mon \in Monitors \ gone
<1> DEFINE Of(m) == Entries(m, conns[m].filters)
<1>1. DOMAIN lookups = UNION {Of(m) : m \in Monitors}
  BY DEF MonitorsInv, LookupsExact
<1>2. Erased(gone) = UNION {Of(m) : m \in gone}
  BY DEF Erased
<1>3. \A m : \A e \in Of(m) : e.mon = m
  BY EntryParts
<1> HIDE DEF Of
<1>4. Erased(gone) \subseteq DOMAIN lookups
  BY <1>1, <1>2
<1>5. IsFiniteSet(DOMAIN lookups)
  BY DEF MonitorsInv, CountsInv
<1>6. IsFiniteSet(Erased(gone))
  BY <1>4, <1>5, FS_Subset
<1>7. DOMAIN lookups \ Erased(gone) = UNION {Of(m) : m \in Monitors \ gone}
  <2>1. ASSUME NEW e \in DOMAIN lookups \ Erased(gone)
        PROVE  e \in UNION {Of(m) : m \in Monitors \ gone}
    BY <1>1, <1>2
  <2>2. ASSUME NEW m \in Monitors \ gone, NEW e \in Of(m)
        PROVE  e \in DOMAIN lookups \ Erased(gone)
    <3>1. e \in DOMAIN lookups
      BY <1>1
    <3>2. \A n \in gone : e \notin Of(n)
      BY <1>3
    <3> QED
      BY <1>2, <3>1, <3>2
  <2> QED
    BY <2>1, <2>2
<1>8. \A e \in DOMAIN lookups \ Erased(gone) : e.mon \in Monitors \ gone
  BY <1>3, <1>7
<1> QED
  BY <1>4, <1>5, <1>6, <1>7, <1>8 DEF Of

\* Between the calls of the thread what is counted is what the indices hold.
LEMMA FreeCounted ==
    ASSUME MonitorsInv, Free
    PROVE  Counted = DOMAIN lookups
BY DEF Free, Counted

\* A step that keeps what is counted under the keys that are keeps the counts.
LEMMA SameCounts ==
    ASSUME MonitorsInv, kindRefcounts' = kindRefcounts, catchAllCount' = catchAllCount,
           \A key \in {<<"kinds", k>> : k \in EphemeralKinds} \cup {<<"others", 0>>} :
              {e \in Counted' : e.at = key} = {e \in Counted : e.at = key}
    PROVE  /\ catchAllCount' = Count(Counted', <<"others", 0>>)
           /\ \A k \in EphemeralKinds : kindRefcounts'[k] = Count(Counted', <<"kinds", k>>)
BY DEF MonitorsInv, CountsInv, Count

\* removeSub, closeConn and a refused addSub keep it.
LEMMA UninstallStep ==
    ASSUME MonitorsInv, NEW gone \in SUBSET Monitors, Uninstall(gone)
    PROVE  MonitorsInv'
<1> DEFINE left == DOMAIN lookups \ Erased(gone)
<1>1. DOMAIN conns' = Monitors \ gone /\ DOMAIN lookups' = left
  BY DEF Uninstall
<1>2. \A m \in Monitors \ gone : conns'[m] = conns[m]
  BY DEF Uninstall
<1>3. levId' = levId /\ latestEventId' = latestEventId /\ visit' = visit /\ event' = event /\ recipients' = recipients
      /\ event = <<>> /\ recipients = <<>>
      /\ kindRefcounts' = kindRefcounts /\ catchAllCount' = catchAllCount
      /\ adding = {} /\ adding' = {} /\ removing' = Tracked(Erased(gone))
  BY DEF Uninstall, looking, Free, Idle, MonitorsInv, MonitorsType
<1>4. MonitorsType'
  <2>1. conns' \in [Monitors' -> [filters : Groups, latest : 0..latestEventId']]
    BY <1>1, <1>3 DEF Uninstall, MonitorsInv, MonitorsType, Monitors
  <2>2. lookups' \in [DOMAIN lookups' -> 0..latestEventId']
    BY <1>1, <1>3 DEF Uninstall, MonitorsInv, MonitorsType
  <2>3. kindRefcounts' \in [EphemeralKinds -> Nat]
    BY <1>3 DEF MonitorsInv, MonitorsType
  <2>4. catchAllCount' \in Nat
    BY <1>3 DEF MonitorsInv, MonitorsType
  <2>5. recipients' \in Seq(Monitors')
    BY <1>3
  <2>6. latestEventId' \in Nat /\ levId' \in 0..latestEventId' /\ visit' \in Nat
    BY <1>3 DEF MonitorsInv, MonitorsType
  <2> QED
    BY <1>3, <2>1, <2>2, <2>3, <2>4, <2>5, <2>6 DEF MonitorsType
<1>5. LookupsExact'
  <2>1. left = UNION {Entries(m, conns[m].filters) : m \in Monitors \ gone}
    BY ErasedExact
  <2>2. UNION {Entries(m, conns[m].filters) : m \in Monitors \ gone}
          = UNION {Entries(m, conns'[m].filters) : m \in Monitors \ gone}
    BY <1>2
  <2> QED
    BY <1>1, <2>1, <2>2 DEF LookupsExact, Monitors
<1>6. CountsInv'
  <2>1. IsFiniteSet(left)
    BY ErasedExact, FS_Difference
  <2>2. Tracked(Erased(gone)) \in SUBSET Erased(gone) /\ Erased(gone) \subseteq DOMAIN lookups
    BY ErasedExact DEF Tracked
  <2>3. IsFiniteSet(removing')
    BY <1>3, <2>2, ErasedExact, FS_Subset
  <2>4. Counted = DOMAIN lookups
    BY FreeCounted DEF Uninstall
  <2>5. Counted' = left \cup Tracked(Erased(gone))
    BY <1>1, <1>3 DEF Counted
  <2>6. ASSUME NEW key \in {<<"kinds", k>> : k \in EphemeralKinds} \cup {<<"others", 0>>}
        PROVE  {e \in Counted' : e.at = key} = {e \in Counted : e.at = key}
    BY <2>2, <2>4, <2>5 DEF Tracked
  <2>7. /\ catchAllCount' = Count(Counted', <<"others", 0>>)
        /\ \A k \in EphemeralKinds : kindRefcounts'[k] = Count(Counted', <<"kinds", k>>)
    BY <1>3, <2>6, SameCounts
  <2>8. removing' = Tracked(removing') /\ adding' = Tracked(adding') /\ removing' \cap left = {}
    BY <1>3, <2>2 DEF Tracked
  <2> HIDE DEF left
  <2> QED
    BY <1>1, <1>3, <2>1, <2>3, <2>7, <2>8 DEF CountsInv
<1>7. LookInv'
  BY <1>3 DEF LookInv, Idle
<1>8. AheadInv'
  <2>1. \A e \in left : e.mon \in Monitors \ gone
    BY ErasedExact
  <2>2. \A e \in left : e \in DOMAIN lookups /\ lookups'[e] = lookups[e]
    BY DEF Uninstall
  <2> HIDE DEF left
  <2> QED
    BY <1>1, <1>2, <1>3, <2>1, <2>2 DEF MonitorsInv, AheadInv
<1> QED
  BY <1>4, <1>5, <1>6, <1>7, <1>8 DEF MonitorsInv

\* addSub keeps it.
LEMMA AddSubStep ==
    ASSUME MonitorsInv, NEW c, NEW s, NEW filters \in Groups, AddSub(c, s, filters)
    PROVE  MonitorsInv'
<1> DEFINE m == <<c, s>>
           gone == Replaced(m)
           left == DOMAIN lookups \ Erased(gone)
           new == Entries(m, filters)
<1>0. gone \in SUBSET Monitors /\ Monitors \ gone = Monitors \ {m}
  BY DEF Replaced
<1>1. DOMAIN conns' = Monitors \cup {m} /\ DOMAIN lookups' = left \cup new
  BY DEF AddSub
<1>2. /\ \A n \in Monitors \ {m} : conns'[n] = conns[n]
      /\ conns'[m] = [filters |-> filters, latest |-> latestEventId]
  BY DEF AddSub
<1>3. levId' = levId /\ latestEventId' = latestEventId /\ visit' = visit /\ event' = event /\ recipients' = recipients
      /\ event = <<>> /\ recipients = <<>>
      /\ kindRefcounts' = kindRefcounts /\ catchAllCount' = catchAllCount
      /\ adding' = Tracked(new) /\ removing' = Tracked(Erased(gone))
  BY DEF AddSub, looking, Free, Idle, MonitorsInv, MonitorsType
<1>4. IsFiniteSet(left) /\ IsFiniteSet(new)
  BY <1>0, ErasedExact, FS_Difference, EntriesFinite
<1>5. left \cap new = {}
  <2>1. \A e \in left : e.mon \in Monitors \ {m}
    BY <1>0, ErasedExact
  <2>2. \A e \in new : e.mon = m
    BY EntryParts
  <2> HIDE DEF left, new
  <2> QED
    BY <2>1, <2>2
<1>9. CountsInv'
  <2>1. IsFiniteSet(left \cup new)
    BY <1>4, FS_Union
  <2>2. /\ Tracked(Erased(gone)) \in SUBSET Erased(gone) /\ Erased(gone) \subseteq DOMAIN lookups
        /\ Tracked(new) \subseteq new
    BY <1>0, ErasedExact DEF Tracked
  <2>3. IsFiniteSet(removing')
    BY <1>0, <1>3, <2>2, ErasedExact, FS_Subset
  <2>4. Counted = DOMAIN lookups
    BY FreeCounted DEF AddSub
  <2>5. Counted' = ((left \cup new) \ Tracked(new)) \cup Tracked(Erased(gone))
    BY <1>1, <1>3 DEF Counted
  <2> HIDE DEF new, m, gone
  <2>6. ASSUME NEW key \in {<<"kinds", k>> : k \in EphemeralKinds} \cup {<<"others", 0>>}
        PROVE  {e \in Counted' : e.at = key} = {e \in Counted : e.at = key}
    BY <1>5, <2>2, <2>4, <2>5 DEF Tracked
  <2>7. /\ catchAllCount' = Count(Counted', <<"others", 0>>)
        /\ \A k \in EphemeralKinds : kindRefcounts'[k] = Count(Counted', <<"kinds", k>>)
    BY <1>3, <2>6, SameCounts
  <2>8. removing' = Tracked(removing') /\ adding' = Tracked(adding')
    BY <1>3 DEF Tracked
  <2>9. removing' \cap ((left \cup new) \ adding') = {}
    BY <1>3, <2>2 DEF Tracked
  <2>10. adding' \subseteq left \cup new
    BY <1>3, <2>2
  <2> HIDE DEF left
  <2> QED
    BY <1>1, <2>1, <2>3, <2>7, <2>8, <2>9, <2>10 DEF CountsInv
<1>10. MonitorsType'
  <2>0. latestEventId \in Nat /\ conns \in [Monitors -> [filters : Groups, latest : 0..latestEventId]]
        /\ lookups \in [DOMAIN lookups -> 0..latestEventId]
    BY DEF MonitorsInv, MonitorsType
  <2>1. conns' \in [Monitors' -> [filters : Groups, latest : 0..latestEventId']]
    <3>1. conns' = [n \in Monitors \cup {m} |->
                      IF n = m THEN [filters |-> filters, latest |-> latestEventId] ELSE conns[n]]
      BY DEF AddSub
    <3>2. [filters |-> filters, latest |-> latestEventId] \in [filters : Groups, latest : 0..latestEventId]
      BY <2>0
    <3> HIDE DEF m
    <3> QED
      BY <1>1, <1>3, <2>0, <3>1, <3>2 DEF Monitors
  <2>2. lookups' \in [DOMAIN lookups' -> 0..latestEventId']
    <3>1. lookups' = [e \in left \cup new |-> IF e \in left THEN lookups[e] ELSE latestEventId]
      BY DEF AddSub
    <3>2. \A e \in left : lookups[e] \in 0..latestEventId
      BY <2>0
    <3> HIDE DEF left, new
    <3> QED
      BY <1>3, <2>0, <3>1, <3>2
  <2>3. kindRefcounts' \in [EphemeralKinds -> Nat]
    BY <1>3 DEF MonitorsInv, MonitorsType
  <2>4. catchAllCount' \in Nat
    BY <1>3 DEF MonitorsInv, MonitorsType
  <2>5. recipients' \in Seq(Monitors')
    BY <1>3
  <2>6. latestEventId' \in Nat /\ levId' \in 0..latestEventId' /\ visit' \in Nat
    BY <1>3 DEF MonitorsInv, MonitorsType
  <2> QED
    BY <1>3, <2>1, <2>2, <2>3, <2>4, <2>5, <2>6 DEF MonitorsType
<1>11. LookupsExact'
  <2>1. left = UNION {Entries(n, conns[n].filters) : n \in Monitors \ {m}}
    BY <1>0, ErasedExact
  <2>2. UNION {Entries(n, conns[n].filters) : n \in Monitors \ {m}}
          = UNION {Entries(n, conns'[n].filters) : n \in Monitors \ {m}}
    BY <1>2
  <2>3. new = Entries(m, conns'[m].filters)
    BY <1>2
  <2>4. DOMAIN lookups' = UNION {Entries(n, conns'[n].filters) : n \in Monitors \cup {m}}
    <3> HIDE DEF m, new, left
    <3> QED
      BY <1>1, <2>1, <2>2, <2>3
  <2> QED
    BY <1>1, <2>4 DEF LookupsExact, Monitors
<1>12. LookInv'
  BY <1>3 DEF LookInv, Idle
<1>13. AheadInv'
  <2>1. \A e \in left : e.mon \in Monitors \ {m}
    BY <1>0, ErasedExact
  <2>2. \A e \in new : e.mon = m
    BY EntryParts
  <2>3. lookups' = [e \in left \cup new |-> IF e \in left THEN lookups[e] ELSE latestEventId]
    BY DEF AddSub
  <2>4. \A e \in left : e \in DOMAIN lookups
    OBVIOUS
  <2> HIDE DEF left, new, m
  <2>5. ASSUME NEW e \in left, lookups'[e] > levId PROVE conns'[e.mon].latest >= lookups'[e]
    BY <1>2, <2>1, <2>3, <2>4, <2>5 DEF MonitorsInv, AheadInv
  <2>6. ASSUME NEW e \in new, e \notin left, lookups'[e] > levId
        PROVE  conns'[e.mon].latest >= lookups'[e]
    BY <1>2, <2>2, <2>3, <2>6 DEF MonitorsInv, MonitorsType
  <2> QED
    BY <1>1, <1>3, <2>5, <2>6 DEF AheadInv
<1> QED
  BY <1>9, <1>10, <1>11, <1>12, <1>13 DEF MonitorsInv

\* What the steps on the tracker leave alone keeps the rest of the invariant.
LEMMA TrackerStep ==
    ASSUME MonitorsInv, UNCHANGED <<conns, lookups, levId, latestEventId, looking>>,
           kindRefcounts' \in [EphemeralKinds -> Nat], catchAllCount' \in Nat
    PROVE  MonitorsType' /\ LookupsExact' /\ AheadInv' /\ LookInv'
<1>1. MonitorsType' /\ LookupsExact' /\ AheadInv'
  BY DEF MonitorsInv, MonitorsType, LookupsExact, AheadInv, Monitors, Idle, looking
<1>2. LookInv'
  BY DEF MonitorsInv, LookInv, Passed, Found, Marked, Monitors, Idle, looking
<1> QED
  BY <1>1, <1>2

\* Counts that follow what is counted, entry by entry, stay exact.
LEMMA CountsFollow ==
    ASSUME MonitorsInv, NEW e, e \in Tracked({e}), NEW d \in {-1, 1},
           kindRefcounts' = IF e.at[1] = "others" THEN kindRefcounts
                            ELSE [kindRefcounts EXCEPT ![e.at[2]] = @ + d],
           catchAllCount' = IF e.at[1] = "others" THEN catchAllCount + d ELSE catchAllCount,
           \A key : /\ Count(Counted', key) \in Nat
                    /\ Count(Counted', key) = Count(Counted, key) + IF e.at = key THEN d ELSE 0
    PROVE  /\ kindRefcounts' \in [EphemeralKinds -> Nat] /\ catchAllCount' \in Nat
           /\ catchAllCount' = Count(Counted', <<"others", 0>>)
           /\ \A k \in EphemeralKinds : kindRefcounts'[k] = Count(Counted', <<"kinds", k>>)
<1>1. /\ kindRefcounts \in [EphemeralKinds -> Nat] /\ catchAllCount \in Nat
      /\ catchAllCount = Count(Counted, <<"others", 0>>)
      /\ \A k \in EphemeralKinds : kindRefcounts[k] = Count(Counted, <<"kinds", k>>)
  BY DEF MonitorsInv, MonitorsType, CountsInv
<1>2. \A key : Count(Counted', key) \in Nat
  OBVIOUS
<1>3. CASE e.at[1] = "others" /\ e.at = <<"others", 0>>
  <2>1. catchAllCount' = Count(Counted', <<"others", 0>>)
    BY <1>1, <1>3
  <2>2. \A k \in EphemeralKinds : e.at # <<"kinds", k>>
    BY <1>3
  <2>3. ASSUME NEW k \in EphemeralKinds
        PROVE  kindRefcounts'[k] = Count(Counted', <<"kinds", k>>)
    <3>1. Count(Counted', <<"kinds", k>>) = Count(Counted, <<"kinds", k>>) + 0
      BY <2>2
    <3> QED
      BY <1>1, <1>3, <3>1
  <2> QED
    BY <1>1, <1>2, <1>3, <2>1, <2>3
<1>4. CASE e.at[1] = "kinds" /\ e.at[2] \in EphemeralKinds /\ e.at = <<"kinds", e.at[2]>>
  <2> DEFINE kind == e.at[2]
  <2>1. e.at # <<"others", 0>> /\ \A k \in EphemeralKinds : e.at = <<"kinds", k>> <=> k = kind
    BY <1>4
  <2>2. catchAllCount' = catchAllCount /\ kindRefcounts' = [kindRefcounts EXCEPT ![kind] = @ + d]
    BY <1>4
  <2>3. Count(Counted', <<"others", 0>>) = Count(Counted, <<"others", 0>>) + 0
    BY <2>1
  <2>4. \A k \in EphemeralKinds :
           Count(Counted', <<"kinds", k>>)
             = Count(Counted, <<"kinds", k>>) + IF k = kind THEN d ELSE 0
    BY <2>1
  <2>5. kind \in EphemeralKinds
    BY <1>4
  <2> HIDE DEF kind
  <2>6. ASSUME NEW k \in EphemeralKinds
        PROVE  kindRefcounts'[k] = Count(Counted', <<"kinds", k>>)
    <3>1. kindRefcounts[k] = Count(Counted, <<"kinds", k>>) /\ kindRefcounts[k] \in Nat
      BY <1>1
    <3>2. kindRefcounts'[k] = kindRefcounts[k] + IF k = kind THEN d ELSE 0
      BY <1>1, <2>2, <2>5
    <3>3. Count(Counted', <<"kinds", k>>)
            = Count(Counted, <<"kinds", k>>) + IF k = kind THEN d ELSE 0
      BY <2>4
    <3> QED
      BY ONLY <3>1, <3>2, <3>3
  <2>7. DOMAIN kindRefcounts' = EphemeralKinds /\ kindRefcounts' = [k \in EphemeralKinds |-> kindRefcounts'[k]]
    BY <1>1, <2>2
  <2>8. kindRefcounts' \in [EphemeralKinds -> Nat]
    <3>1. \A k \in EphemeralKinds : kindRefcounts'[k] \in Nat
      BY <1>2, <2>6
    <3> QED
      BY ONLY <2>7, <3>1
  <2> QED
    BY <1>1, <2>2, <2>3, <2>6, <2>8
<1> QED
  BY <1>3, <1>4, TrackedAt

\* What is counted is finite.
LEMMA CountedFinite ==
    ASSUME MonitorsInv
    PROVE  IsFiniteSet(Counted)
<1>1. IsFiniteSet(DOMAIN lookups) /\ IsFiniteSet(removing)
  BY DEF MonitorsInv, CountsInv
<1>2. DOMAIN lookups \ adding \in SUBSET DOMAIN lookups
  OBVIOUS
<1>3. IsFiniteSet(DOMAIN lookups \ adding)
  BY <1>1, <1>2, FS_Subset
<1> QED
  BY <1>1, <1>3, FS_Union DEF Counted

\* removeKind and removeCatchAll keep it: the count is not 0 before.
LEMMA UntrackStep ==
    ASSUME MonitorsInv, NEW e \in removing, Untrack(e)
    PROVE  MonitorsInv'
<1>1. /\ UNCHANGED <<conns, lookups, levId, latestEventId, looking>>
      /\ removing' = removing \ {e} /\ adding' = adding
  BY DEF Untrack
<1>2. /\ IsFiniteSet(DOMAIN lookups) /\ IsFiniteSet(removing) /\ adding \subseteq DOMAIN lookups
      /\ removing = Tracked(removing) /\ adding = Tracked(adding)
      /\ removing \cap (DOMAIN lookups \ adding) = {}
  BY DEF MonitorsInv, CountsInv
<1>3. e \in Tracked({e})
  BY <1>2 DEF Tracked
<1>4. {e} \in SUBSET Counted /\ Counted' = Counted \ {e}
  BY <1>1, <1>2 DEF Counted
<1>5. ASSUME NEW key
      PROVE  /\ Count(Counted', key) \in Nat
             /\ Count(Counted', key) = Count(Counted, key) + IF e.at = key THEN -1 ELSE 0
             /\ e.at = key => Count(Counted, key) > 0
  <2>1. Count(Counted, key) \in Nat
    BY CountedFinite, CountType
  <2>2. /\ Count(Counted, key) >= Count({e}, key)
        /\ Count(Counted \ {e}, key) = Count(Counted, key) - Count({e}, key)
    BY <1>4, CountedFinite, CountLess
  <2>3. Count({e}, key) = IF e.at = key THEN 1 ELSE 0
    BY CountOne
  <2> QED
    BY <1>4, <2>1, <2>2, <2>3
<1>6. /\ e.at = <<"others", 0>> => catchAllCount > 0
      /\ \A k \in EphemeralKinds : e.at = <<"kinds", k>> => kindRefcounts[k] > 0
  BY <1>5 DEF MonitorsInv, CountsInv
<1>7. /\ kindRefcounts \in [EphemeralKinds -> Nat] /\ catchAllCount \in Nat
  BY DEF MonitorsInv, MonitorsType
<1>8. /\ kindRefcounts' = IF e.at[1] = "others" THEN kindRefcounts
                          ELSE [kindRefcounts EXCEPT ![e.at[2]] = @ + (-1)]
      /\ catchAllCount' = IF e.at[1] = "others" THEN catchAllCount + (-1) ELSE catchAllCount
  <2>1. CASE e.at[1] = "others"
    <3>1. e.at = <<"others", 0>>
      BY <1>3, <2>1, TrackedAt
    <3> QED
      BY <1>6, <1>7, <2>1, <3>1 DEF Untrack, Less
  <2>2. CASE e.at[1] # "others"
    <3>1. e.at[2] \in EphemeralKinds /\ e.at = <<"kinds", e.at[2]>>
      BY <1>3, <2>2, TrackedAt
    <3>2. kindRefcounts[e.at[2]] > 0 /\ kindRefcounts[e.at[2]] \in Nat
      BY <1>6, <1>7, <3>1
    <3>3. Less(kindRefcounts[e.at[2]]) = kindRefcounts[e.at[2]] + (-1)
      BY <3>2 DEF Less
    <3> QED
      BY <2>2, <3>3 DEF Untrack
  <2> QED
    BY <2>1, <2>2
<1>9. /\ kindRefcounts' \in [EphemeralKinds -> Nat] /\ catchAllCount' \in Nat
      /\ catchAllCount' = Count(Counted', <<"others", 0>>)
      /\ \A k \in EphemeralKinds : kindRefcounts'[k] = Count(Counted', <<"kinds", k>>)
  BY <1>3, <1>5, <1>8, CountsFollow
<1>10. CountsInv'
  <2>1. IsFiniteSet(removing')
    BY <1>1, <1>2, FS_RemoveElement
  <2>2. removing' = Tracked(removing') /\ adding' = Tracked(adding')
    BY <1>1, <1>2 DEF Tracked
  <2> QED
    BY <1>1, <1>2, <1>9, <2>1, <2>2 DEF CountsInv
<1> QED
  BY <1>1, <1>9, <1>10, TrackerStep DEF MonitorsInv

\* addKind and addCatchAll keep it: the entry was not counted before.
LEMMA TrackStep ==
    ASSUME MonitorsInv, NEW e \in adding, Track(e)
    PROVE  MonitorsInv'
<1>1. /\ UNCHANGED <<conns, lookups, levId, latestEventId, looking>>
      /\ removing = {} /\ removing' = {} /\ adding' = adding \ {e}
  BY DEF Track
<1>2. /\ IsFiniteSet(DOMAIN lookups) /\ adding \subseteq DOMAIN lookups /\ adding = Tracked(adding)
  BY DEF MonitorsInv, CountsInv
<1>3. e \in Tracked({e})
  BY <1>2 DEF Tracked
<1>4. Counted \cap {e} = {} /\ Counted' = Counted \cup {e}
  BY <1>1, <1>2 DEF Counted
<1>5. ASSUME NEW key
      PROVE  /\ Count(Counted', key) \in Nat
             /\ Count(Counted', key) = Count(Counted, key) + IF e.at = key THEN 1 ELSE 0
  <2>1. Count(Counted, key) \in Nat
    BY CountedFinite, CountType
  <2>2. Count(Counted \cup {e}, key) = Count(Counted, key) + Count({e}, key)
    <3>1. IsFiniteSet(Counted) /\ IsFiniteSet({e})
      BY CountedFinite, FS_Singleton
    <3> QED
      BY <1>4, <3>1, CountMore
  <2>3. Count({e}, key) = IF e.at = key THEN 1 ELSE 0
    BY CountOne
  <2> QED
    BY <1>4, <2>1, <2>2, <2>3
<1>6. /\ kindRefcounts' = IF e.at[1] = "others" THEN kindRefcounts
                          ELSE [kindRefcounts EXCEPT ![e.at[2]] = @ + 1]
      /\ catchAllCount' = IF e.at[1] = "others" THEN catchAllCount + 1 ELSE catchAllCount
  BY DEF Track
<1>7. /\ kindRefcounts' \in [EphemeralKinds -> Nat] /\ catchAllCount' \in Nat
      /\ catchAllCount' = Count(Counted', <<"others", 0>>)
      /\ \A k \in EphemeralKinds : kindRefcounts'[k] = Count(Counted', <<"kinds", k>>)
  BY <1>3, <1>5, <1>6, CountsFollow
<1>8. CountsInv'
  <2>1. removing' = Tracked(removing') /\ adding' = Tracked(adding')
    BY <1>1, <1>2 DEF Tracked
  <2> QED
    BY <1>1, <1>2, <1>7, <2>1, FS_EmptySet DEF CountsInv
<1> QED
  BY <1>1, <1>7, <1>8, TrackerStep DEF MonitorsInv

\* No entry dangles.
LEMMA LiveEntry ==
    ASSUME LookupsExact, NEW e \in DOMAIN lookups
    PROVE  e.mon \in Monitors /\ e.i \in DOMAIN conns[e.mon].filters
<1>1. PICK m \in Monitors : e \in Entries(m, conns[m].filters)
  BY DEF LookupsExact
<1> QED
  BY <1>1, EntryParts

\* A new snapshot keeps it.
LEMMA SnapshotStep ==
    ASSUME MonitorsInv, Snapshot
    PROVE  MonitorsInv'
<1>1. /\ latestEventId \in Nat /\ levId \in 0..latestEventId
      /\ latestEventId' = latestEventId + 1 /\ levId' = levId /\ event' = event /\ event = <<>>
      /\ visit' = visit /\ recipients' = recipients /\ conns' = conns /\ lookups' = lookups
      /\ kindRefcounts' = kindRefcounts /\ catchAllCount' = catchAllCount
      /\ removing' = removing /\ adding' = adding
  BY DEF Snapshot, tracker, looking, Free, Idle, MonitorsInv, MonitorsType
<1>2. /\ conns \in [Monitors -> [filters : Groups, latest : 0..latestEventId]]
      /\ lookups \in [DOMAIN lookups -> 0..latestEventId]
  BY DEF MonitorsInv, MonitorsType
<1>3. 0..latestEventId \subseteq 0..(latestEventId + 1)
  BY <1>1
<1>4. MonitorsType'
  <2>1. conns' \in [Monitors' -> [filters : Groups, latest : 0..latestEventId']]
    BY <1>1, <1>2, <1>3 DEF Monitors
  <2>2. lookups' \in [DOMAIN lookups' -> 0..latestEventId']
    BY <1>1, <1>2, <1>3
  <2>3. latestEventId' \in Nat /\ levId' \in 0..latestEventId'
    BY <1>1
  <2> QED
    BY <1>1, <2>1, <2>2, <2>3 DEF MonitorsInv, MonitorsType, Monitors, Idle
<1>5. LookupsExact' /\ CountsInv' /\ AheadInv'
  BY <1>1 DEF MonitorsInv, LookupsExact, CountsInv, Counted, AheadInv, Monitors
<1>6. LookInv'
  BY <1>1 DEF LookInv, Idle
<1> QED
  BY <1>4, <1>5, <1>6 DEF MonitorsInv

\* The start of process keeps it: only monitors that were ahead are marked.
LEMMA ProcessStep ==
    ASSUME MonitorsInv, NEW ev \in Events, Process(ev)
    PROVE  MonitorsInv'
<1>1. /\ levId' = levId + 1 /\ levId \in Nat /\ event' = <<ev>> /\ visit' = 1
      /\ seen' = {} /\ recipients' = <<>> /\ conns' = conns /\ lookups' = lookups
      /\ kindRefcounts' = kindRefcounts /\ catchAllCount' = catchAllCount
      /\ removing' = removing /\ adding' = adding
      /\ latestEventId \in Nat /\ latestEventId' = latestEventId /\ levId < latestEventId
      /\ ahead' = {m \in Monitors : conns[m].latest > levId}
  BY DEF Process, tracker, MonitorsInv, MonitorsType
<1>2. /\ conns \in [Monitors -> [filters : Groups, latest : 0..latestEventId]]
      /\ lookups \in [DOMAIN lookups -> 0..latestEventId]
  BY DEF MonitorsInv, MonitorsType
<1>3. MonitorsType'
  <2>1. levId' \in 0..latestEventId' /\ visit' \in Nat
    BY <1>1
  <2>2. event' # <<>> /\ recipients' \in Seq(Monitors')
    BY <1>1
  <2> QED
    BY <1>1, <2>1, <2>2 DEF MonitorsInv, MonitorsType, Monitors, Idle
<1>4. LookupsExact' /\ CountsInv'
  BY <1>1 DEF MonitorsInv, LookupsExact, CountsInv, Counted, Monitors
<1>5. ASSUME NEW e \in DOMAIN lookups, lookups[e] > levId
      PROVE  e.mon \in Monitors /\ conns[e.mon].latest > levId
  <2>1. e.mon \in Monitors /\ conns[e.mon].latest >= lookups[e]
    BY <1>5, LiveEntry DEF MonitorsInv, AheadInv
  <2> QED
    BY <1>1, <1>2, <1>5, <2>1
<1>6. \A m \in Monitors : conns[m].latest > levId <=> conns[m].latest >= levId + 1
  BY <1>1, <1>2
<1>7. \A e \in DOMAIN lookups : lookups[e] >= levId + 1 => lookups[e] > levId
  BY <1>1, <1>2
<1>8. AheadInv'
  <2>1. ASSUME NEW e \in DOMAIN lookups, lookups[e] > levId + 1
        PROVE  lookups[e] > levId
    BY <1>1, <1>2, <2>1
  <2> QED
    BY <1>1, <2>1 DEF MonitorsInv, AheadInv
<1>9. LookInv'
  <2>1. \A m \in Monitors' : m \in ahead' <=> Marked(m)'
    BY <1>1, <1>6 DEF Monitors, Marked
  <2>2. \A e \in DOMAIN lookups' : lookups'[e] >= levId' => Marked(e.mon)'
    BY <1>1, <1>5, <1>6, <1>7 DEF Marked
  <2>3. \A e : ~Passed(e)'
    BY <1>1 DEF Passed
  <2>4. DOMAIN recipients' = {}
    BY <1>1
  <2>5. visit' >= 1
    BY <1>1
  <2> QED
    BY <2>1, <2>2, <2>3, <2>4, <2>5 DEF LookInv
<1> QED
  BY <1>3, <1>4, <1>8, <1>9 DEF MonitorsInv

\* Going on to the next key keeps it: all items under this one are seen.
LEMMA NextSetStep ==
    ASSUME MonitorsInv, NextSet
    PROVE  MonitorsInv'
<1>1. /\ ~Idle /\ event' = event /\ conns' = conns /\ lookups' = lookups
      /\ kindRefcounts' = kindRefcounts /\ catchAllCount' = catchAllCount
      /\ removing' = removing /\ adding' = adding
      /\ levId' = levId /\ latestEventId' = latestEventId /\ recipients' = recipients /\ ahead' = ahead
      /\ visit' = visit + 1 /\ seen' = {} /\ visit \in Nat
      /\ MonitorSet(event[1]) \subseteq seen
  BY DEF NextSet, tracker, MonitorsInv, MonitorsType
<1>2. MonitorsType'
  <2>1. visit' \in Nat
    BY <1>1
  <2> QED
    BY <1>1, <2>1 DEF MonitorsInv, MonitorsType, Monitors, Idle
<1>3. LookupsExact' /\ CountsInv' /\ AheadInv'
  BY <1>1 DEF MonitorsInv, LookupsExact, CountsInv, Counted, AheadInv, Monitors
<1>4. ASSUME NEW e \in DOMAIN lookups, Passed(e)'
      PROVE  Passed(e)
  <2>1. PICK n \in 1..visit : Visits(event[1])[n] = e.at
    BY <1>1, <1>4 DEF Passed
  <2>2. CASE n = visit
    <3>1. e \in MonitorSet(event[1])
      BY <2>1, <2>2 DEF MonitorSet
    <3> QED
      BY <1>1, <3>1 DEF Passed
  <2>3. CASE n # visit
    <3>1. n \in 1..(visit - 1)
      BY <1>1, <2>3
    <3> QED
      BY <2>1, <3>1 DEF Passed
  <2> QED
    BY <2>2, <2>3
<1>5. LookInv'
  <2>1. LookInv /\ visit' >= 1
    BY <1>1 DEF MonitorsInv, LookInv
  <2>2. \A e : Found(e)' <=> Found(e)
    BY <1>1 DEF Found
  <2>3. \A m : Marked(m)' <=> Marked(m)
    BY <1>1 DEF Marked
  <2> QED
    BY <1>1, <1>4, <2>1, <2>2, <2>3 DEF LookInv, Monitors, Idle
<1> QED
  BY <1>2, <1>3, <1>5 DEF MonitorsInv

\* The end of process keeps it.
LEMMA NotifyStep ==
    ASSUME MonitorsInv, Notify
    PROVE  MonitorsInv'
<1>1. /\ event' = <<>> /\ conns' = conns /\ lookups' = lookups
      /\ kindRefcounts' = kindRefcounts /\ catchAllCount' = catchAllCount
      /\ removing' = removing /\ adding' = adding
      /\ levId' = levId /\ latestEventId' = latestEventId /\ recipients' = <<>> /\ visit' = 0
  BY DEF Notify, tracker
<1>2. MonitorsType'
  <2>1. visit' \in Nat /\ recipients' \in Seq(Monitors')
    BY <1>1
  <2> QED
    BY <1>1, <2>1 DEF MonitorsInv, MonitorsType, Monitors, Idle
<1>3. LookupsExact' /\ CountsInv' /\ AheadInv'
  BY <1>1 DEF MonitorsInv, LookupsExact, CountsInv, Counted, AheadInv, Monitors
<1>4. LookInv'
  BY <1>1 DEF LookInv, Idle
<1> QED
  BY <1>2, <1>3, <1>4 DEF MonitorsInv

\* One item of a MonitorSet keeps it: the first item that matches marks the monitor.
LEMMA ProcessMonitorSetStep ==
    ASSUME MonitorsInv, NEW e \in DOMAIN lookups, ProcessMonitorSet(e)
    PROVE  MonitorsInv'
<1> DEFINE ev == event[1]
           m == e.mon
           matches == ~UpToDate(e) /\ DoesMatch(conns[m].filters[e.i], ev)
<1>1. /\ ~Idle /\ event' = event /\ visit' = visit /\ levId' = levId
      /\ latestEventId' = latestEventId /\ ahead' = ahead
      /\ kindRefcounts' = kindRefcounts /\ catchAllCount' = catchAllCount
      /\ removing' = removing /\ adding' = adding
      /\ seen' = seen \cup {e}
      /\ lookups' = IF UpToDate(e) THEN lookups ELSE [lookups EXCEPT ![e] = levId]
      /\ recipients' = IF matches THEN Append(recipients, m) ELSE recipients
      /\ conns' = IF matches THEN [conns EXCEPT ![m].latest = levId] ELSE conns
  BY DEF ProcessMonitorSet, tracker
<1>2. /\ latestEventId \in Nat /\ levId \in 0..latestEventId /\ visit \in Nat
      /\ conns \in [Monitors -> [filters : Groups, latest : 0..latestEventId]]
      /\ lookups \in [DOMAIN lookups -> 0..latestEventId]
      /\ recipients \in Seq(Monitors)
  BY DEF MonitorsInv, MonitorsType
<1>3. m \in Monitors /\ e.i \in DOMAIN conns[m].filters
  BY LiveEntry DEF MonitorsInv
<1>4. matches <=> ~UpToDate(e) /\ Found(e)
  BY DEF Found
<1>5. LookInv
  BY DEF MonitorsInv
<1> HIDE DEF matches
<1>6. /\ DOMAIN conns' = Monitors /\ Monitors' = Monitors
      /\ \A n \in Monitors : conns'[n].filters = conns[n].filters
      /\ \A n \in Monitors : n # m => conns'[n] = conns[n]
      /\ conns'[m].latest = IF matches THEN levId ELSE conns[m].latest
      /\ conns' \in [Monitors -> [filters : Groups, latest : 0..latestEventId]]
  <2>1. CASE matches
    <3>1. conns' = [conns EXCEPT ![m].latest = levId]
      BY <1>1, <2>1
    <3> HIDE DEF m
    <3>2. conns' = [conns EXCEPT ![m] = [conns[m] EXCEPT !.latest = levId]]
      BY <3>1
    <3> DEFINE r == [conns[m] EXCEPT !.latest = levId]
    <3>3. r \in [filters : Groups, latest : 0..latestEventId] /\ r.filters = conns[m].filters
          /\ r.latest = levId
      <4>1. conns[m] \in [filters : Groups, latest : 0..latestEventId] /\ levId \in 0..latestEventId
        BY <1>2, <1>3
      <4> QED
        BY ONLY <4>1
    <3> HIDE DEF r
    <3>4. /\ DOMAIN conns' = Monitors /\ conns'[m] = r
          /\ \A n \in Monitors : n # m => conns'[n] = conns[n]
          /\ conns' \in [Monitors -> [filters : Groups, latest : 0..latestEventId]]
      BY <1>2, <1>3, <3>2, <3>3 DEF r
    <3> QED
      BY <2>1, <3>3, <3>4 DEF Monitors
  <2>2. CASE ~matches
    BY <1>1, <1>2, <2>2 DEF Monitors
  <2> QED
    BY <2>1, <2>2
<1>7. /\ DOMAIN lookups' = DOMAIN lookups
      /\ lookups' \in [DOMAIN lookups -> 0..latestEventId]
      /\ \A d \in DOMAIN lookups : d # e => lookups'[d] = lookups[d]
  BY <1>1, <1>2
<1>8. MonitorsType'
  <2>1. recipients' \in Seq(Monitors)
    BY <1>1, <1>2, <1>3
  <2> QED
    BY <1>1, <1>2, <1>6, <1>7, <2>1 DEF MonitorsInv, MonitorsType, Idle
<1>9. LookupsExact'
  <2>1. UNION {Entries(n, conns'[n].filters) : n \in Monitors}
          = UNION {Entries(n, conns[n].filters) : n \in Monitors}
    BY <1>6
  <2> QED
    BY <1>6, <1>7, <2>1 DEF MonitorsInv, LookupsExact
<1>10. CountsInv'
  BY <1>1, <1>7 DEF MonitorsInv, CountsInv, Counted
<1>11. ~matches \/ ~Marked(m)
  <2>1. UpToDate(e) <=> lookups[e] >= levId \/ Marked(m)
    BY DEF UpToDate, Marked
  <2> QED
    BY <1>4, <2>1
<1>12. /\ \A n \in Monitors : n # m => (Marked(n)' <=> Marked(n))
       /\ Marked(m)' <=> matches \/ Marked(m)
  <2>1. \A n \in Monitors : n # m => (Marked(n)' <=> Marked(n))
    BY <1>1, <1>6 DEF Marked
  <2>2. Marked(m)' <=> matches \/ Marked(m)
    <3>1. CASE matches
      BY <1>1, <1>2, <1>6, <3>1 DEF Marked
    <3>2. CASE ~matches
      BY <1>1, <1>6, <3>2 DEF Marked
    <3> QED
      BY <3>1, <3>2
  <2> QED
    BY <2>1, <2>2
<1>13. DOMAIN recipients = 1..Len(recipients) /\ Len(recipients) \in Nat
  BY <1>2
<1>14. ASSUME matches
       PROVE  /\ DOMAIN recipients' = 1..(Len(recipients) + 1)
              /\ recipients'[Len(recipients) + 1] = m
              /\ \A i \in 1..Len(recipients) : recipients'[i] = recipients[i]
  <2>1. recipients' = Append(recipients, m)
    BY <1>1, <1>14
  <2> QED
    BY <1>2, <1>3, <2>1
<1> DEFINE Told(n) == \E i \in DOMAIN recipients : recipients[i] = n
<1>15. /\ \A n : n # m => (Told(n)' <=> Told(n))
       /\ Told(m)' <=> matches \/ Told(m)
  <2>1. CASE ~matches
    BY <1>1, <2>1
  <2>2. CASE matches
    <3>1. Len(recipients) + 1 \in DOMAIN recipients'
      BY <1>13, <1>14, <2>2
    <3>2. \A i \in DOMAIN recipients' : i \in DOMAIN recipients \/ i = Len(recipients) + 1
      BY <1>13, <1>14, <2>2
    <3>3. DOMAIN recipients \subseteq DOMAIN recipients'
      BY <1>13, <1>14, <2>2
    <3> QED
      BY <1>13, <1>14, <2>2, <3>1, <3>2, <3>3
  <2> QED
    BY <2>1, <2>2
<1>16. ASSUME NEW n \in Monitors
       PROVE  /\ n \in ahead => Marked(n)
              /\ n \notin ahead /\ Marked(n) <=> Told(n)
              /\ n \notin ahead /\ Marked(n) => GroupMatches(conns[n].filters, ev)
  BY <1>1, <1>5 DEF LookInv
<1> HIDE DEF Told
<1>17. ASSUME NEW n \in Monitors
       PROVE  /\ n \in ahead => Marked(n)'
              /\ n \notin ahead /\ Marked(n)' <=> Told(n)'
              /\ n \notin ahead /\ Marked(n)' => GroupMatches(conns'[n].filters, ev)
  <2>1. CASE n # m
    BY <1>6, <1>12, <1>15, <1>16, <2>1
  <2>2. CASE n = m
    <3>1. matches => GroupMatches(conns[m].filters, ev)
      BY <1>3, <1>4 DEF GroupMatches, Found
    <3>2. matches => m \notin ahead
      BY <1>3, <1>11, <1>16
    <3>3. conns'[m].filters = conns[m].filters
      BY <1>3, <1>6
    <3> HIDE DEF m
    <3> QED
      BY <1>12, <1>15, <1>16, <2>2, <3>1, <3>2, <3>3
  <2> QED
    BY <2>1, <2>2
<1>18. \A i, j \in DOMAIN recipients' : recipients'[i] = recipients'[j] => i = j
  <2>0. \A i, j \in DOMAIN recipients : recipients[i] = recipients[j] => i = j
    BY <1>1, <1>5 DEF LookInv
  <2>1. CASE ~matches
    BY <1>1, <2>0, <2>1
  <2>2. CASE matches
    <3>1. ~Told(m)
      BY <1>3, <1>11, <1>16, <2>2
    <3>2. \A i \in DOMAIN recipients : recipients[i] # m
      BY <3>1 DEF Told
    <3> QED
      BY <1>13, <1>14, <2>0, <2>2, <3>2
  <2> QED
    BY <2>1, <2>2
<1>19. ASSUME NEW d \in DOMAIN lookups, Passed(d)' \/ lookups'[d] >= levId, Found(d)'
       PROVE  Marked(d.mon)'
  <2>1. d.mon \in Monitors
    BY LiveEntry DEF MonitorsInv
  <2>2. Found(d)
    BY <1>1, <1>6, <1>19, <2>1 DEF Found
  <2>3. Marked(d.mon) => Marked(d.mon)'
    BY <1>12, <2>1
  <2>4. (Passed(d) \/ lookups[d] >= levId) => Marked(d.mon)
    BY <1>1, <1>5, <2>2 DEF LookInv
  <2>5. CASE d # e
    <3>1. Passed(d)' => Passed(d)
      BY <1>1, <2>5 DEF Passed
    <3> QED
      BY <1>7, <1>19, <2>3, <2>4, <2>5, <3>1
  <2>6. CASE d = e
    <3>1. CASE matches
      BY <1>12, <2>6, <3>1
    <3>2. CASE ~matches
      <4>1. lookups[e] >= levId \/ Marked(m)
        BY <1>4, <2>2, <2>6, <3>2 DEF UpToDate, Marked
      <4> QED
        BY <2>3, <2>4, <2>6, <4>1
    <3> QED
      BY <3>1, <3>2
  <2> QED
    BY <2>5, <2>6
<1>20. LookInv'
  <2>1. visit' >= 1
    BY <1>1, <1>5 DEF LookInv
  <2> QED
    BY <1>1, <1>6, <1>7, <1>17, <1>18, <1>19, <2>1 DEF LookInv, Told
<1>21. AheadInv'
  <2>1. ASSUME NEW d \in DOMAIN lookups, lookups'[d] > levId
        PROVE  conns'[d.mon].latest >= lookups'[d]
    <3>1. d.mon \in Monitors
      BY LiveEntry DEF MonitorsInv
    <3>2. d # e \/ UpToDate(e)
      BY <1>1, <1>2, <2>1
    <3>3. lookups'[d] = lookups[d] /\ conns[d.mon].latest >= lookups[d]
      BY <1>1, <1>7, <2>1, <3>2 DEF MonitorsInv, AheadInv
    <3>4. CASE d.mon = m /\ matches
      <4>1. conns[m].latest < levId
        BY <1>2, <1>3, <1>11, <3>4 DEF Marked
      <4> QED
        BY <1>2, <1>3, <2>1, <3>3, <3>4, <4>1
    <3>5. CASE ~(d.mon = m /\ matches)
      <4>1. conns'[d.mon].latest = conns[d.mon].latest
        BY <1>6, <3>1, <3>5
      <4> QED
        BY <3>3, <4>1
    <3> QED
      BY <3>4, <3>5
  <2> QED
    BY <1>1, <1>7, <2>1 DEF AheadInv
<1> QED
  BY <1>8, <1>9, <1>10, <1>20, <1>21 DEF MonitorsInv

\* Every step keeps it.
LEMMA MonitorsNext == MonitorsInv /\ [Next]_vars => MonitorsInv'
<1> SUFFICES ASSUME MonitorsInv, [Next]_vars PROVE MonitorsInv'
  OBVIOUS
<1>1. ASSUME NEW c \in Conns, NEW s \in SubIds, AddSubRefused(c, s) PROVE MonitorsInv'
  BY <1>1, UninstallStep DEF AddSubRefused, Replaced
<1>2. ASSUME NEW c \in Conns, NEW s \in SubIds, RemoveSub(c, s) PROVE MonitorsInv'
  BY <1>2, UninstallStep DEF RemoveSub
<1>3. ASSUME NEW c \in Conns, CloseConn(c) PROVE MonitorsInv'
  BY <1>3, UninstallStep DEF CloseConn, OfConn
<1>4. CASE UNCHANGED vars
  <2>1. /\ UNCHANGED <<conns, lookups, kindRefcounts, catchAllCount, removing, adding>>
        /\ UNCHANGED <<levId, latestEventId>>
        /\ UNCHANGED <<event, visit, seen, recipients, ahead>>
    BY <1>4 DEF vars, tracker, looking
  <2>2. MonitorsType' /\ LookupsExact' /\ CountsInv' /\ AheadInv'
    <3>1. MonitorsType' /\ LookupsExact' /\ AheadInv'
      BY <2>1 DEF MonitorsInv, MonitorsType, LookupsExact, AheadInv, Monitors, Idle
    <3>2. CountsInv'
      BY <2>1 DEF MonitorsInv, CountsInv, Counted
    <3> QED
      BY <3>1, <3>2
  <2>3. LookInv'
    BY <2>1 DEF MonitorsInv, LookInv, Passed, Found, Marked, Monitors, Idle
  <2> QED
    BY <2>2, <2>3 DEF MonitorsInv
<1> QED
  BY <1>1, <1>2, <1>3, <1>4, AddSubStep, UntrackStep, TrackStep, SnapshotStep, ProcessStep,
     ProcessMonitorSetStep, NextSetStep, NotifyStep DEF Next

\* It is an invariant of the specification.
LEMMA MonitorsInvariant == Spec => []MonitorsInv
BY MonitorsInit, MonitorsNext, PTL DEF Spec

-----------------------------------------------------------------------------
(* The theorems *)

\* For all groups and events the indices hold the filters of the live monitors
\* under their keys and nothing else: no filter pointer dangles.
THEOREM LookupsExactTheorem == Spec => []LookupsExact
BY MonitorsInvariant, PTL DEF MonitorsInv

\* The counts an ingester may read at any point are those of the filters in the
\* indices, but for the thread's calls still to come, and not 0 once a filter
\* for the kind, or for everything, has been counted.
THEOREM TrackerExactTheorem == Spec => []TrackerExact
<1>1. MonitorsInv => TrackerExact
  <2> SUFFICES ASSUME MonitorsInv PROVE TrackerExact
    OBVIOUS
  <2>2. /\ catchAllCount = Cardinality({e \in Counted : e.at = <<"others", 0>>})
        /\ \A k \in EphemeralKinds :
             kindRefcounts[k] = Cardinality({e \in Counted : e.at = <<"kinds", k>>})
    BY DEF MonitorsInv, CountsInv, Count
  <2>3. ASSUME NEW key, NEW e \in Counted, e.at = key
        PROVE  Count(Counted, key) > 0
    <3> DEFINE S == {d \in Counted : d.at = key}
    <3>1. IsFiniteSet(S) /\ Count(Counted, key) \in Nat
      BY CountedFinite, CountType
    <3>2. S # {}
      BY <2>3
    <3>3. Count(Counted, key) = Cardinality(S)
      BY DEF Count
    <3> HIDE DEF S
    <3>4. Cardinality(S) # 0
      BY <3>1, <3>2, FS_EmptySet
    <3> QED
      BY <3>1, <3>3, <3>4
  <2>4. ASSUME NEW e \in Counted, NEW k \in EphemeralKinds,
               e.at \in {<<"kinds", k>>, <<"others", 0>>}
        PROVE  HasSubscribersForKind(k)
    <3>1. CASE e.at = <<"kinds", k>>
      <4>1. kindRefcounts[k] > 0
        BY <2>3, <3>1 DEF MonitorsInv, CountsInv
      <4> QED
        BY <4>1 DEF HasSubscribersForKind
    <3>2. CASE e.at = <<"others", 0>>
      <4>1. catchAllCount > 0
        BY <2>3, <3>2 DEF MonitorsInv, CountsInv
      <4> QED
        BY <4>1 DEF HasSubscribersForKind
    <3> QED
      BY <2>4, <3>1, <3>2
  <2> QED
    BY <2>2, <2>4 DEF TrackerExact
<1> QED
  BY <1>1, MonitorsInvariant, PTL

\* Looking an event up by its keys finds every subscription that matches it:
\* each is notified once, and no other is.
THEOREM NotifiesExactlyTheorem == Spec => []NotifiesExactly
<1>1. MonitorsInv => NotifiesExactly
  <2> DEFINE ev == event[1]
  <2> SUFFICES ASSUME MonitorsInv, ~Idle, visit > Len(Visits(ev)), NEW m \in Monitors
               PROVE  Cardinality({i \in DOMAIN recipients : recipients[i] = m})
                      = IF m \notin ahead /\ GroupMatches(conns[m].filters, ev) THEN 1 ELSE 0
    BY DEF NotifiesExactly
  <2> DEFINE At == {i \in DOMAIN recipients : recipients[i] = m}
  <2>1. ev \in Events /\ visit \in Nat
    BY DEF MonitorsInv, MonitorsType, Idle
  <2>2. LookInv
    BY DEF MonitorsInv
  <2>3. CASE m \notin ahead /\ GroupMatches(conns[m].filters, ev)
    <3>1. PICK i \in DOMAIN conns[m].filters : DoesMatch(conns[m].filters[i], ev)
      BY <2>3 DEF GroupMatches
    <3>2. PICK n \in 1..Len(Visits(ev)) : Visits(ev)[n] \in Keys(conns[m].filters[i])
      BY <2>1, <3>1, MatchIsVisited
    <3> DEFINE e == [at |-> Visits(ev)[n], mon |-> m, i |-> i]
    <3>3. e \in Entries(m, conns[m].filters)
      BY <3>2, InEntries
    <3>4. e \in DOMAIN lookups
      BY <3>3 DEF MonitorsInv, LookupsExact
    <3>5. Len(Visits(ev)) \in Nat
      BY <2>1, VisitsSeq
    <3>6. n \in 1..(visit - 1)
      BY <2>1, <3>5
    <3>7. Passed(e) /\ Found(e)
      BY <3>1, <3>6 DEF Passed, Found
    <3>8. Marked(m)
      BY <2>2, <3>4, <3>7 DEF LookInv
    <3>9. PICK k \in DOMAIN recipients : recipients[k] = m
      BY <2>2, <2>3, <3>8 DEF LookInv
    <3>10. At = {k}
      BY <2>2, <3>9 DEF LookInv
    <3> QED
      BY <2>3, <3>10, FS_Singleton
  <2>4. CASE m \in ahead \/ ~GroupMatches(conns[m].filters, ev)
    <3>1. At = {}
      BY <2>2, <2>4 DEF LookInv
    <3> QED
      BY <2>4, <3>1, FS_EmptySet
  <2> QED
    BY <2>3, <2>4
<1> QED
  BY <1>1, MonitorsInvariant, PTL
=============================================================================
