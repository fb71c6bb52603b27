-------------------------- MODULE ReqPipelineProofs --------------------------
(***************************************************************************)
(* Theorems about ReqPipeline, for any number of connections, clients'     *)
(* messages, events and filters, as long as `strfry delete` is not used:   *)
(* no event is sent twice for a subscription, EOSE separates what was      *)
(* stored from what came later, nothing is missed in between, nothing is   *)
(* left of a closed subscription, and a COUNT counts each match once.      *)
(*                                                                         *)
(* The argument follows one subscription through the queues.  At any time  *)
(* it is in one place only (PlaceInv): on its way to the worker, in the    *)
(* scheduler, on its way to the monitor, or monitored.  Each place says    *)
(* what has been sent so far and what has not been missed (GenInv); a      *)
(* snapshot of the database is a prefix of it in the order of levIds       *)
(* (SnapInv), which makes "up to latestEventId" mean the same for the      *)
(* worker and the monitor.                                                 *)
(***************************************************************************)
EXTENDS ReqPipeline, TLAPS, WellFoundedInduction, FiniteSetTheorems

Recs == [levId : 1..(MaxU64 - 1), ev : Evs]

Filter == [match : SUBSET Evs, limit : Nat]

SubType == [conn : Conns, sub : SubIds, count : BOOLEAN, filters : Seq(Filter) \ {<<>>},
            latest : 0..MaxU64, start : 0..MaxU64, fi : Nat,
            full : SUBSET (0..MaxU64), cur : SUBSET (0..MaxU64), buf : SUBSET Recs,
            cut : BOOLEAN, pauses : Nat]

Msg == [type : {"NewSub"}, gen : Nat]
       \cup [type : {"RemoveSub"}, conn : Conns, sub : SubIds]
       \cup [type : {"CloseConn"}, conn : Conns]
       \cup [type : {"DBChange"}]

OutMsg == [type : {"EVENTS", "EOSE", "NOTICE"}, recs : SUBSET Recs]
          \cup [type : {"COUNT"}, recs : {{}}, count : Nat, limited : BOOLEAN]

ReqType ==
  /\ db \subseteq Recs /\ wtxn \subseteq Recs /\ mtxn \subseteq Recs
  /\ dirty \in BOOLEAN
  /\ subs \in Seq(SubType)
  /\ out \in Seq(Seq(OutMsg)) /\ Len(out) = Len(subs)
  /\ wq \in Seq(Msg) /\ wb \in Seq(Msg) /\ mq \in Seq(Msg) /\ mb \in Seq(Msg)
  /\ running \in Seq(Nat)
  /\ wpc \in {"wait", "batch", "slice"} /\ (wpc = "wait" => wb = <<>>)
  /\ mpc \in {"wait", "batch"} /\ (mpc = "wait" <=> mb = <<>>)
  /\ curr \in 0..MaxU64
  /\ reg \subseteq Nat /\ dead \subseteq Nat /\ mons \subseteq Nat /\ over \subseteq Gens

-----------------------------------------------------------------------------
(* Where a subscription is *)

News(s) == {i \in DOMAIN s : s[i].type = "NewSub"}
NewIn(s) == {s[i].gen : i \in News(s)}
UniqNew(s) == \A i, j \in News(s) : s[i].gen = s[j].gen => i = j

NoRepeat(s) == \A i, j \in DOMAIN s : s[i] = s[j] => i = j

Queued == NewIn(wq) \cup NewIn(wb)
Handed == NewIn(mq) \cup NewIn(mb)

PlaceInv ==
  /\ Queued \cup Range(running) \cup Handed \cup mons \subseteq Gens
  /\ UniqNew(wq) /\ UniqNew(wb) /\ UniqNew(mq) /\ UniqNew(mb)
  /\ NoRepeat(running)
  /\ NewIn(wq) \cap NewIn(wb) = {}
  /\ Queued \cap (Range(running) \cup Handed \cup mons) = {}
  /\ Range(running) \cap (Handed \cup mons) = {}
  /\ NewIn(mq) \cap NewIn(mb) = {}
  /\ Handed \cap mons = {}
  /\ reg \cup dead = Range(running) /\ reg \cap dead = {}

-----------------------------------------------------------------------------
(* Snapshots *)

\* d was the database some time before it was e.
Earlier(d, e) ==
  /\ \A r \in d : r.levId <= MostRecentLevId(e)
  /\ \A r \in e : r.levId <= MostRecentLevId(d) => r \in d

\* No levId in d is that of another event in e.
Same(d, e) == \A r \in d, s \in e : r.levId = s.levId => r = s

SnapInv == Earlier(wtxn, db) /\ Earlier(mtxn, db) /\ Same(db, db) /\ Same(wtxn, db)

-----------------------------------------------------------------------------
(* What holds of a subscription, place by place *)

\* What was sent for a subscription, as the properties read it.
RecsOf(s) == UNION {s[i].recs : i \in DOMAIN s}
TypesOf(s) == {s[i].type : i \in DOMAIN s}
OnceIn(s) == \A i, j \in DOMAIN s : i # j => s[i].recs \cap s[j].recs = {}
SplitIn(s, n) ==
  /\ \A i, j \in DOMAIN s :
       s[i].type \in {"EOSE", "COUNT"} /\ s[j].type \in {"EOSE", "COUNT"} => i = j
  /\ \A i \in DOMAIN s : \A r \in s[i].recs :
       r.levId > n <=> \E e \in DOMAIN s : s[e].type = "EOSE" /\ e < i

QueuedOk(g) ==
  /\ out[g] = <<>> /\ subs[g].fi = 1
  /\ subs[g].full = {} /\ subs[g].cur = {} /\ subs[g].buf = {}

\* The query has sent what it has found so far, and found all that the filters
\* before the current one match.
RunningOk(g) ==
  LET q == subs[g] IN
  /\ q.latest = q.start /\ q.start <= MostRecentLevId(db)
  /\ wpc # "wait" => q.start <= MostRecentLevId(wtxn)
  /\ Same(q.buf, db) /\ \A r \in q.buf : r.levId <= MostRecentLevId(db)
  /\ q.fi \in DOMAIN q.filters /\ q.cur \subseteq q.full /\ \A n \in q.full : n <= q.start
  /\ {"EOSE", "COUNT"} \cap TypesOf(out[g]) = {}
  /\ \A r \in RecsOf(out[g]) : r.levId \in q.full
  /\ ~q.count => /\ \A r \in db : r.levId \in q.full => r \in RecsOf(out[g])
                 /\ ~q.cut => \A k \in 1..(q.fi - 1), r \in db :
                      r.levId <= q.start /\ r.ev \in q.filters[k].match => r \in RecsOf(out[g])

\* The query is over: EOSE was sent, and everything stored before the query
\* that matches, unless a limit cut it short.
StoredSent(g) ==
  /\ ~subs[g].count /\ "EOSE" \in TypesOf(out[g])
  /\ \A r \in RecsOf(out[g]) : r.levId <= subs[g].latest
  /\ ~subs[g].cut => \A r \in db :
       r.levId <= subs[g].start /\ Matches(subs[g].filters, r.ev) => r \in RecsOf(out[g])

HandedOk(g) ==
  /\ StoredSent(g)
  /\ subs[g].latest = subs[g].start /\ subs[g].start <= MostRecentLevId(db)
  /\ g \in NewIn(mb) => subs[g].start <= MostRecentLevId(mtxn)

\* The monitor has sent what came later, as far as it has looked.
MonOk(g) ==
  /\ StoredSent(g)
  /\ subs[g].start <= subs[g].latest /\ subs[g].latest <= MostRecentLevId(db)
  /\ \A r \in db :
       /\ r.levId > subs[g].start /\ Matches(subs[g].filters, r.ev)
       /\ r.levId <= subs[g].latest \/ r.levId <= curr
       => r \in RecsOf(out[g])

GenOk(g) ==
  /\ OnceIn(out[g]) /\ SplitIn(out[g], subs[g].start)
  /\ g \in Queued => QueuedOk(g)
  /\ g \in Range(running) => RunningOk(g)
  /\ g \in Handed => HandedOk(g)
  /\ g \in mons => MonOk(g)

GenInv == \A g \in Gens : GenOk(g)

\* currEventId is behind only while a DBChange is to come.
Changes(s) == {i \in DOMAIN s : s[i].type = "DBChange"}
CurrInv ==
  /\ mpc = "batch" => curr <= MostRecentLevId(mtxn)
  /\ mons # {} => curr <= MostRecentLevId(db)
  /\ ~dirty /\ Changes(mq) = {} =>
       /\ mpc = "batch" => MostRecentLevId(mtxn) = MostRecentLevId(db)
       /\ Changes(mb) = {} => curr >= MostRecentLevId(db)

-----------------------------------------------------------------------------
(* What becomes of a closed subscription *)

\* A message that ends the subscription with id s of connection c.
Ends(m, c, s) == \/ m.type = "RemoveSub" /\ m.conn = c /\ m.sub = s
                 \/ m.type = "CloseConn" /\ m.conn = c
EndIn(z, c, s) == \E j \in DOMAIN z : Ends(z[j], c, s)
EndBehind(z, g, c, s) ==
  \A i \in News(z) : z[i].gen = g => \E j \in DOMAIN z : j > i /\ Ends(z[j], c, s)

\* It is behind the subscription on its way to the worker, ahead of which the
\* worker has not got, or on its way to the monitor.
OverOk(g, c, s) ==
  LET atWorker == EndIn(wq, c, s) \/ EndIn(wb, c, s) IN
  /\ EndBehind(wq, g, c, s)
  /\ EndIn(wq, c, s) \/ EndBehind(wb, g, c, s)
  /\ g \in Range(running) => g \in dead \/ atWorker
  /\ atWorker \/ EndBehind(mq, g, c, s)
  /\ atWorker \/ EndIn(mq, c, s) \/ EndBehind(mb, g, c, s)
  /\ g \in mons => atWorker \/ EndIn(mq, c, s) \/ EndIn(mb, c, s)

OverInv == \A g \in over : OverOk(g, subs[g].conn, subs[g].sub)

ReqInv == ReqType /\ PlaceInv /\ SnapInv /\ GenInv /\ CurrInv /\ OverInv

-----------------------------------------------------------------------------
(* Lemmas: levIds, queues *)

\* getMostRecentLevId is the highest levId, 0 for an empty table.
LEMMA MostRecent ==
  ASSUME NEW d \in SUBSET Recs
  PROVE  /\ MostRecentLevId(d) \in 0..(MaxU64 - 1)
         /\ \A r \in d : r.levId <= MostRecentLevId(d)
         /\ MostRecentLevId(d) \in LevIds(d) \cup {0}
<1> DEFINE S == LevIds(d)
           T == {m \in Nat : \A n \in S : n <= m}
           R == {ss \in Nat \X Nat : ss[1] < ss[2]}
<1>1. S \subseteq 1..(MaxU64 - 1) /\ MaxU64 \in Nat \ {0}
  BY ReqAssumption DEF LevIds, Recs
<1> HIDE DEF S
<1>2. IsWellFoundedOn(R, Nat)
  BY NatLessThanWellFounded DEF OpToRel
<1>3. T \in SUBSET Nat /\ MaxU64 - 1 \in T
  BY <1>1
<1>4. PICK m \in T : \A y \in T : ~ (<<y, m>> \in R)
  <2> HIDE DEF T, R
  <2> QED BY <1>2, <1>3, WFMin
<1>5. \A y \in T : ~(y < m)
  BY <1>4
<1>6. m \in Nat /\ (\A n \in S : n <= m) /\ m <= MaxU64 - 1
  BY <1>1, <1>3, <1>5
<1>7. m \in S \cup {0}
  <2> SUFFICES ASSUME m \notin S, m # 0 PROVE FALSE
    OBVIOUS
  <2>1. m - 1 \in T
    BY <1>1, <1>6
  <2> QED BY <2>1, <1>5, <1>6
<1>8. \E x \in S \cup {0} : \A n \in S : n <= x
  BY <1>6, <1>7
<1>9. MostRecentLevId(d) \in S \cup {0} /\ \A n \in S : n <= MostRecentLevId(d)
  BY <1>8 DEF MostRecentLevId, S
<1> QED BY <1>1, <1>9 DEF LevIds, S

\* A message at the end of a queue.
LEMMA AppendMsg ==
  ASSUME NEW s \in Seq(Msg), NEW m \in Msg
  PROVE  /\ Append(s, m) \in Seq(Msg)
         /\ NewIn(Append(s, m)) = NewIn(s) \cup (IF m.type = "NewSub" THEN {m.gen} ELSE {})
         /\ UniqNew(s) /\ (m.type = "NewSub" => m.gen \notin NewIn(s)) => UniqNew(Append(s, m))
         /\ Changes(Append(s, m)) = {} <=> Changes(s) = {} /\ m.type # "DBChange"
<1> DEFINE t == Append(s, m)
<1>1. /\ t \in Seq(Msg) /\ Len(t) = Len(s) + 1
      /\ DOMAIN t = 1..(Len(s) + 1) /\ DOMAIN s = 1..Len(s)
      /\ t[Len(s) + 1] = m /\ \A i \in 1..Len(s) : t[i] = s[i]
  OBVIOUS
<1> HIDE DEF t
<1>2. \A i \in 1..(Len(s) + 1) : i = Len(s) + 1 \/ i \in 1..Len(s)
  OBVIOUS
<1>3. NewIn(t) = NewIn(s) \cup (IF m.type = "NewSub" THEN {m.gen} ELSE {})
  BY <1>1, <1>2 DEF NewIn, News
<1>4. UniqNew(s) /\ (m.type = "NewSub" => m.gen \notin NewIn(s)) => UniqNew(t)
  BY <1>1, <1>2 DEF UniqNew, News, NewIn
<1>5. Changes(t) = {} <=> Changes(s) = {} /\ m.type # "DBChange"
  BY <1>1, <1>2 DEF Changes
<1> QED BY <1>1, <1>3, <1>4, <1>5 DEF t

\* The message at the head of a queue.
LEMMA TailMsg ==
  ASSUME NEW s \in Seq(Msg), s # <<>>
  PROVE  /\ Head(s) \in Msg /\ Tail(s) \in Seq(Msg)
         /\ NewIn(s) = NewIn(Tail(s)) \cup (IF Head(s).type = "NewSub" THEN {Head(s).gen} ELSE {})
         /\ Head(s).type # "NewSub" => NewIn(Tail(s)) = NewIn(s)
         /\ UniqNew(s) => /\ UniqNew(Tail(s))
                          /\ Head(s).type = "NewSub" => Head(s).gen \notin NewIn(Tail(s))
         /\ Changes(s) = {} <=> Changes(Tail(s)) = {} /\ Head(s).type # "DBChange"
<1> DEFINE t == Tail(s)
<1>1. /\ t \in Seq(Msg) /\ Len(t) = Len(s) - 1 /\ Len(s) \in Nat \ {0}
      /\ DOMAIN t = 1..(Len(s) - 1) /\ DOMAIN s = 1..Len(s)
      /\ Head(s) = s[1] /\ Head(s) \in Msg /\ \A i \in 1..(Len(s) - 1) : t[i] = s[i + 1]
  OBVIOUS
<1> HIDE DEF t
<1>2. \A i \in 1..Len(s) : i = 1 \/ \E k \in 1..(Len(s) - 1) : i = k + 1 /\ s[i] = t[k]
  <2> TAKE i \in 1..Len(s)
  <2>1. i = 1 \/ (i - 1 \in 1..(Len(s) - 1) /\ i = (i - 1) + 1)
    BY <1>1
  <2> QED BY <2>1, <1>1
<1>3. \A k \in 1..(Len(s) - 1) : \E i \in 1..Len(s) : i = k + 1 /\ i # 1 /\ s[i] = t[k]
  <2> TAKE k \in 1..(Len(s) - 1)
  <2>1. k + 1 \in 1..Len(s) /\ k + 1 # 1 /\ t[k] = s[k + 1]
    BY <1>1
  <2> QED BY <2>1
<1>4. NewIn(s) = NewIn(t) \cup (IF Head(s).type = "NewSub" THEN {Head(s).gen} ELSE {})
  BY <1>1, <1>2, <1>3, SMTT(30) DEF NewIn, News
<1>5. UniqNew(s) => /\ UniqNew(t)
                    /\ Head(s).type = "NewSub" => Head(s).gen \notin NewIn(t)
  <2> SUFFICES ASSUME UniqNew(s)
               PROVE  /\ UniqNew(t)
                      /\ Head(s).type = "NewSub" => Head(s).gen \notin NewIn(t)
    OBVIOUS
  <2>1. ASSUME NEW k \in News(t), NEW l \in News(t), t[k].gen = t[l].gen PROVE k = l
    <3>1. PICK i \in News(s) : i = k + 1 /\ s[i] = t[k]
      BY <1>1, <1>3 DEF News
    <3>2. PICK j \in News(s) : j = l + 1 /\ s[j] = t[l]
      BY <1>1, <1>3 DEF News
    <3>3. i = j
      BY <2>1, <3>1, <3>2 DEF UniqNew
    <3> QED BY <1>1, <3>1, <3>2, <3>3 DEF News
  <2>2. ASSUME NEW k \in News(t), Head(s).type = "NewSub", Head(s).gen = t[k].gen PROVE FALSE
    <3>1. PICK i \in News(s) : i = k + 1 /\ i # 1 /\ s[i] = t[k]
      BY <1>1, <1>3 DEF News
    <3>2. 1 \in News(s)
      BY <1>1, <2>2 DEF News
    <3> QED BY <1>1, <2>2, <3>1, <3>2 DEF UniqNew
  <2> QED BY <2>1, <2>2 DEF UniqNew, NewIn
<1>6. Changes(s) = {} <=> Changes(t) = {} /\ Head(s).type # "DBChange"
  <2>1. ASSUME NEW i \in Changes(s) PROVE Changes(t) # {} \/ Head(s).type = "DBChange"
    BY <1>1, <1>2, <2>1 DEF Changes
  <2>2. ASSUME NEW k \in Changes(t) PROVE Changes(s) # {}
    BY <1>1, <1>3, <2>2 DEF Changes
  <2>3. Head(s).type = "DBChange" => 1 \in Changes(s)
    BY <1>1 DEF Changes
  <2> QED BY <2>1, <2>2, <2>3
<1>7. Head(s).type # "NewSub" => NewIn(t) = NewIn(s)
  BY <1>4
<1> QED BY <1>1, <1>4, <1>5, <1>6, <1>7 DEF t

-----------------------------------------------------------------------------
(* Types *)

\* The messages and answers the threads make have their types.
LEMMA MadeTypes ==
  /\ \A g \in Nat : NewSub(g) \in Msg
  /\ \A c \in Conns, s \in SubIds : RemoveSub(c, s) \in Msg
  /\ \A c \in Conns : CloseConn(c) \in Msg
  /\ DBChange \in Msg
  /\ \A found \in SUBSET Recs : Sent(found) \in Seq(OutMsg)
  /\ \A t \in {"EOSE", "NOTICE"} : Answer(t) \in Seq(OutMsg)
  /\ \A q \in SubType : \A full \in SUBSET (0..MaxU64) : Ending(q, full) \in Seq(OutMsg)
<1>1. /\ \A g \in Nat : NewSub(g) \in Msg
      /\ \A c \in Conns, s \in SubIds : RemoveSub(c, s) \in Msg
      /\ \A c \in Conns : CloseConn(c) \in Msg
      /\ DBChange \in Msg
  BY DEF NewSub, RemoveSub, CloseConn, DBChange, Msg
<1>2. ASSUME NEW found \in SUBSET Recs PROVE Sent(found) \in Seq(OutMsg)
  <2>1. [type |-> "EVENTS", recs |-> found] \in OutMsg
    BY DEF OutMsg
  <2> QED BY <2>1 DEF Sent
<1>3. ASSUME NEW t \in {"EOSE", "NOTICE"} PROVE Answer(t) \in Seq(OutMsg)
  <2>1. [type |-> t, recs |-> {}] \in OutMsg
    BY DEF OutMsg
  <2> QED BY <2>1 DEF Answer
<1>4. ASSUME NEW q \in SubType, NEW full \in SUBSET (0..MaxU64)
      PROVE  Ending(q, full) \in Seq(OutMsg)
  <2>0. IsFiniteSet(0..MaxU64)
    BY FS_Interval, ReqAssumption
  <2>1. IsFiniteSet(full)
    BY <2>0, FS_Subset
  <2>2. Cardinality(full) \in Nat
    BY <2>1, FS_CardinalityType
  <2>3. [type |-> "COUNT", recs |-> {},
         count |-> IF Cardinality(full) > MaxCount THEN MaxCount ELSE Cardinality(full),
         limited |-> Cardinality(full) > MaxCount] \in OutMsg
    BY <2>2, ReqAssumption DEF OutMsg
  <2> QED BY <2>3, <1>3 DEF Ending
<1> QED BY <1>1, <1>2, <1>3, <1>4

\* What a slice that finds S makes of the query q.
Sliced(q, S) ==
  LET f == q.filters[q.fi]
      cur == q.cur \cup LevIds(S)
      done == \/ f.limit = 0
              \/ Cardinality(cur) >= f.limit
              \/ (Due(q, f) \cap wtxn) \subseteq S
      complete == done /\ q.fi = Len(q.filters)
  IN  [q EXCEPT !.full = q.full \cup LevIds(S),
                !.cur = IF done THEN {} ELSE cur,
                !.fi = IF done /\ ~complete THEN @ + 1 ELSE @,
                !.buf = IF done THEN {} ELSE {r \in Due(q, f) : r.levId \notin cur},
                !.cut = @ \/ (done /\ Cardinality(cur) >= f.limit),
                !.pauses = IF done THEN @ ELSE @ + 1]

\* A slice of a query keeps the record of the query a record.
LEMMA SliceType ==
  ASSUME ReqType, PlaceInv, NEW S, SliceQuery(S)
  PROVE  /\ Head(running) \in DOMAIN subs
         /\ subs' \in Seq(SubType) /\ Len(subs') = Len(subs)
         /\ S \subseteq Recs /\ subs[Head(running)].full \cup LevIds(S) \subseteq 0..MaxU64
         /\ subs' = [subs EXCEPT ![Head(running)] = Sliced(subs[Head(running)], S)]
<1> DEFINE g == Head(running)
           q == subs[g]
           f == q.filters[q.fi]
           cur == q.cur \cup LevIds(S)
           done == \/ f.limit = 0
                   \/ Cardinality(cur) >= f.limit
                   \/ (Due(q, f) \cap wtxn) \subseteq S
           complete == done /\ q.fi = Len(q.filters)
           full == q.full \cup LevIds(S)
           new == Sliced(q, S)
<1>1. running # <<>> /\ g \in Range(running) /\ g \in DOMAIN subs
  <2>1. running # <<>> /\ running \in Seq(Nat)
    BY DEF SliceQuery, ReqType
  <2>2. g = running[1] /\ 1 \in DOMAIN running
    BY <2>1
  <2> QED BY <2>1, <2>2 DEF PlaceInv, Range, Gens
<1>2. q \in SubType
  BY <1>1 DEF ReqType
<1>3. S \subseteq Due(q, f) /\ Due(q, f) \subseteq Recs
  BY <1>2 DEF SliceQuery, Due, ReqType, SubType
<1>4. LevIds(S) \subseteq 0..MaxU64
  BY <1>3, ReqAssumption DEF LevIds, Recs
<1>5. subs' = [subs EXCEPT ![g] = new]
  BY <1>1, <1>2, ZenonT(30) DEF SliceQuery, SubType, Sliced
<1>6. cur \subseteq 0..MaxU64 /\ full \subseteq 0..MaxU64
  BY <1>2, <1>4 DEF SubType
<1>7. new \in SubType
  <2>1. (IF done /\ ~complete THEN q.fi + 1 ELSE q.fi) \in Nat
    BY <1>2 DEF SubType
  <2>2. (IF done THEN q.pauses ELSE q.pauses + 1) \in Nat
    BY <1>2 DEF SubType
  <2>3. (q.cut \/ (done /\ Cardinality(cur) >= f.limit)) \in BOOLEAN
    OBVIOUS
  <2>4. (IF done THEN {} ELSE {r \in Due(q, f) : r.levId \notin cur}) \in SUBSET Recs
    BY <1>3
  <2>5. (IF done THEN {} ELSE cur) \in SUBSET (0..MaxU64)
    BY <1>6
  <2>6. new = [q EXCEPT !.full = full,
                        !.cur = IF done THEN {} ELSE cur,
                        !.fi = IF done /\ ~complete THEN @ + 1 ELSE @,
                        !.buf = IF done THEN {} ELSE {r \in Due(q, f) : r.levId \notin cur},
                        !.cut = @ \/ (done /\ Cardinality(cur) >= f.limit),
                        !.pauses = IF done THEN @ ELSE @ + 1]
    BY DEF Sliced
  <2> HIDE DEF done, complete, f, cur, full, new
  <2> QED BY <1>2, <1>6, <2>1, <2>2, <2>3, <2>4, <2>5, <2>6, ZenonT(30) DEF SubType
<1> HIDE DEF new
<1>8. subs' \in Seq(SubType) /\ Len(subs') = Len(subs)
  BY <1>1, <1>5, <1>7 DEF ReqType
<1> QED BY <1>1, <1>3, <1>5, <1>6, <1>8 DEF new

\* A subscription in a message at the head of a queue.
LEMMA HeadNew ==
  ASSUME NEW s \in Seq(Msg), s # <<>>, Head(s).type = "NewSub"
  PROVE  Head(s).gen \in NewIn(s) /\ Head(s).gen \in Nat
<1>1. Head(s) \in Msg /\ Head(s).gen \in NewIn(s)
  BY TailMsg
<1> QED BY <1>1 DEF Msg

\* Taking the first element of a sequence off, and putting one behind it.
LEMMA TailElem ==
  ASSUME NEW T, NEW s \in Seq(T), s # <<>>
  PROVE  /\ Head(s) \in T /\ Head(s) = s[1] /\ 1 \in DOMAIN s
         /\ Tail(s) \in Seq(T) /\ (Tail(s) = <<>> <=> Len(s) = 1)
         /\ Append(Tail(s), Head(s)) \in Seq(T)
<1>1. Len(s) \in Nat \ {0} /\ Head(s) = s[1] /\ 1 \in DOMAIN s /\ Head(s) \in T
  OBVIOUS
<1>2. Tail(s) \in Seq(T) /\ Len(Tail(s)) = Len(s) - 1
  OBVIOUS
<1>3. Append(Tail(s), Head(s)) \in Seq(T)
  BY <1>1, <1>2
<1>4. Tail(s) = <<>> <=> Len(s) = 1
  BY <1>1, <1>2, SMTT(30)
<1> QED BY <1>1, <1>2, <1>3, <1>4

\* Every step keeps the types.
LEMMA NextType ==
  ASSUME ReqType, PlaceInv, [Next]_vars
  PROVE  ReqType'
<1> USE DEF store, worker, monitor, client
<1>0. /\ MaxU64 \in Nat \ {0}
      /\ MostRecentLevId(db) \in 0..(MaxU64 - 1)
      /\ MostRecentLevId(wtxn) \in 0..MaxU64
      /\ MostRecentLevId(mtxn) \in 0..MaxU64
  BY MostRecent, ReqAssumption DEF ReqType
<1>1. ASSUME NEW c \in Conns, NEW s \in SubIds, NEW req \in Reqs, IngestReq(c, s, req)
      PROVE  ReqType'
  <2>1. req.filters \in Seq(Filter) /\ req.filters # <<>> /\ req.count \in BOOLEAN
    BY ReqAssumption DEF Filter
  <2>2. Capped(req) \in Seq(Filter) \ {<<>>}
    <3>1. ASSUME NEW i \in DOMAIN req.filters PROVE Capped(req)[i] \in Filter
      <4>1. req.filters[i] \in Filter
        BY <2>1
      <4>2. \A n \in Nat : [req.filters[i] EXCEPT !.limit = n] \in Filter
        BY <4>1 DEF Filter
      <4>3. (IF req.count /\ req.filters[i].limit > MaxCount + 1
             THEN MaxCount + 1 ELSE req.filters[i].limit) \in Nat
        BY <4>1, ReqAssumption DEF Filter
      <4> QED BY <4>2, <4>3 DEF Capped
    <3>2. DOMAIN Capped(req) = 1..Len(req.filters) /\ Len(req.filters) \in Nat \ {0}
      BY <2>1 DEF Capped
    <3>3. Capped(req) \in [1..Len(req.filters) -> Filter]
      BY <3>1, <3>2, <2>1 DEF Capped
    <3> QED BY <3>2, <3>3
  <2>3. [conn |-> c, sub |-> s, count |-> req.count, filters |-> Capped(req),
         latest |-> MaxU64, start |-> MaxU64, fi |-> 1, full |-> {}, cur |-> {}, buf |-> {},
         cut |-> FALSE, pauses |-> 0] \in SubType
    BY <2>1, <2>2, <1>0 DEF SubType
  <2>4. subs' \in Seq(SubType) /\ Len(subs') = Len(subs) + 1
    BY <1>1, <2>3 DEF IngestReq, ReqType
  <2>5. out' \in Seq(Seq(OutMsg)) /\ Len(out') = Len(out) + 1
    BY <1>1 DEF IngestReq, ReqType
  <2>6. wq' \in Seq(Msg)
    <3>1. Len(subs) + 1 \in Nat
      BY DEF ReqType
    <3>2. NewSub(Len(subs) + 1) \in Msg
      BY <3>1, MadeTypes
    <3> QED BY <1>1, <3>2, AppendMsg DEF IngestReq, ReqType
  <2>7. over' \subseteq Gens'
    BY <1>1, <2>4 DEF IngestReq, ReqType, Gens
  <2> QED BY <1>1, <2>4, <2>5, <2>6, <2>7 DEF IngestReq, ReqType
<1>2. ASSUME NEW c \in Conns, IngestCloseConn(c) \/ \E s \in SubIds : IngestClose(c, s)
      PROVE  ReqType'
  <2>1. wq' \in Seq(Msg)
    BY <1>2, MadeTypes, AppendMsg, ZenonT(30) DEF IngestClose, IngestCloseConn, ReqType
  <2>2. over' \subseteq Gens
    BY <1>2 DEF IngestClose, IngestCloseConn, ReqType, OfSub, OfConn, Gens
  <2> QED BY <1>2, <2>1, <2>2 DEF IngestClose, IngestCloseConn, ReqType, Gens
<1>3. ASSUME NEW ev \in Evs, Commit(ev) PROVE ReqType'
  <2>1. [levId |-> MostRecentLevId(db) + 1, ev |-> ev] \in Recs
    BY <1>0, <1>3 DEF Commit, Recs
  <2> QED BY <1>3, <2>1 DEF Commit, ReqType, Gens
<1>4. ASSUME NEW r \in db, Remove(r) PROVE ReqType'
  BY <1>4 DEF Remove, ReqType, Gens
<1>5. ASSUME Watcher PROVE ReqType'
  <2>1. mq' \in Seq(Msg)
    BY <1>5, MadeTypes, AppendMsg DEF Watcher, ReqType
  <2> QED BY <1>5, <2>1 DEF Watcher, ReqType, Gens
<1>6. ASSUME WorkerWake PROVE ReqType'
  BY <1>6 DEF WorkerWake, ReqType, Gens
<1>7. ASSUME WorkerAdd PROVE ReqType'
  <2> DEFINE g == Head(wb).gen
             new == [subs[g] EXCEPT !.latest = MostRecentLevId(wtxn),
                                    !.start = MostRecentLevId(wtxn)]
  <2>0. wb \in Seq(Msg) /\ wb # <<>> /\ Head(wb).type = "NewSub" /\ wb' = Tail(wb)
    BY <1>7 DEF WorkerAdd, ReqType
  <2>1. wb' \in Seq(Msg) /\ g \in DOMAIN subs /\ g \in Nat
    BY <2>0, TailElem, HeadNew DEF PlaceInv, Queued, Gens
  <2>2. subs[g] \in SubType /\ new \in SubType
    <3>1. subs[g] \in SubType
      BY <2>1 DEF ReqType
    <3> HIDE DEF g
    <3> QED BY <1>0, <3>1 DEF SubType
  <2>3. subs' = [subs EXCEPT ![g] = new]
    BY <1>7, <2>1, <2>2 DEF WorkerAdd, SubType
  <2>4. subs' \in Seq(SubType) /\ Len(subs') = Len(subs)
    <3> HIDE DEF new
    <3> QED BY <2>1, <2>2, <2>3 DEF ReqType
  <2>5. out' \in Seq(Seq(OutMsg)) /\ Len(out') = Len(out)
    <3>1. out[g] \in Seq(OutMsg)
      BY <2>1 DEF ReqType
    <3>2. out[g] \o Answer("NOTICE") \in Seq(OutMsg)
      BY <3>1, MadeTypes
    <3> QED BY <1>7, <2>1, <3>2 DEF WorkerAdd, ReqType
  <2>6. running' \in Seq(Nat) /\ reg' \subseteq Nat /\ dead' \subseteq Nat
    BY <1>7, <2>1, SMTT(30) DEF WorkerAdd, ReqType, OfSub, OfConn
  <2>7. Gens' = Gens
    BY <2>4 DEF ReqType, Gens
  <2> HIDE DEF g, new
  <2> QED BY <1>7, <2>1, <2>4, <2>5, <2>6, <2>7 DEF WorkerAdd, ReqType
<1>8. ASSUME WorkerRemove \/ WorkerClose PROVE ReqType'
  <2>0. wb \in Seq(Msg) /\ wb # <<>> /\ wb' = Tail(wb) /\ mq \in Seq(Msg)
        /\ mq' = Append(mq, Head(wb))
    BY <1>8 DEF WorkerRemove, WorkerClose, ReqType
  <2>1. wb' \in Seq(Msg) /\ mq' \in Seq(Msg)
    BY <2>0, TailElem
  <2>2. reg' \subseteq Nat /\ dead' \subseteq Nat
    BY <1>8 DEF WorkerRemove, WorkerClose, ReqType, OfSub, OfConn
  <2>3. wpc = "batch" /\ wpc' = "batch"
    BY <1>8 DEF WorkerRemove, WorkerClose
  <2> QED BY <1>8, <2>1, <2>2, <2>3 DEF WorkerRemove, WorkerClose, ReqType, Gens
<1>9. ASSUME SliceIdle \/ SliceDead PROVE ReqType'
  <2>1. /\ wpc' \in {"wait", "batch"} /\ (wpc' = "wait" => wb = <<>>)
        /\ wtxn' \subseteq Recs
    BY <1>9 DEF SliceIdle, SliceDead, SliceDue, SliceDone, ReqType
  <2>2. running' \in Seq(Nat) /\ dead' \subseteq Nat
    <3>1. running \in Seq(Nat) /\ (running' = running \/ (running # <<>> /\ running' = Tail(running)))
      BY <1>9 DEF SliceIdle, SliceDead, ReqType
    <3>2. running' \in Seq(Nat)
      BY <3>1, TailElem
    <3> QED BY <1>9, <3>2 DEF SliceIdle, SliceDead, ReqType
  <2> QED BY <1>9, <2>1, <2>2 DEF SliceIdle, SliceDead, ReqType, Gens
<1>10. ASSUME NEW S, SliceQuery(S) PROVE ReqType'
  <2> DEFINE g == Head(running)
  <2>1. /\ g \in DOMAIN subs /\ S \subseteq Recs
        /\ subs' \in Seq(SubType) /\ Len(subs') = Len(subs)
        /\ subs[g].full \cup LevIds(S) \subseteq 0..MaxU64
    BY <1>10, SliceType
  <2>2. /\ wpc' \in {"wait", "batch", "slice"} /\ (wpc' = "wait" => wb = <<>>)
        /\ wtxn' \subseteq Recs
    BY <1>10 DEF SliceQuery, SliceDue, SliceDone, ReqType
  <2>3. running' \in Seq(Nat) /\ g \in Nat
    <3>1. /\ running \in Seq(Nat) /\ running # <<>>
          /\ running' \in {Tail(running), running, Append(Tail(running), Head(running))}
      BY <1>10 DEF SliceQuery, ReqType
    <3> QED BY <3>1, TailElem
  <2>4. mq' \in Seq(Msg)
    BY <1>10, <2>3, MadeTypes, AppendMsg DEF SliceQuery, ReqType
  <2>5. out' \in Seq(Seq(OutMsg)) /\ Len(out') = Len(out)
    <3> DEFINE fresh == {r \in S \cap wtxn : r.levId \notin subs[g].full}
               full == subs[g].full \cup LevIds(S)
    <3>1. out[g] \in Seq(OutMsg) /\ subs[g] \in SubType /\ g \in DOMAIN out
      <4> HIDE DEF g
      <4> QED BY <2>1 DEF ReqType
    <3>2. Sent(fresh) \in Seq(OutMsg) /\ Ending(subs[g], full) \in Seq(OutMsg)
      BY <2>1, <3>1, MadeTypes
    <3>3. out'[g] \in Seq(OutMsg)
      <4>1. \E x \in {<<>>, Sent(fresh)}, y \in {<<>>, Ending(subs[g], full)} :
              out'[g] = out[g] \o x \o y
        BY <1>10, <3>1 DEF SliceQuery
      <4>2. <<>> \in Seq(OutMsg)
        OBVIOUS
      <4>3. PICK x \in Seq(OutMsg), y \in Seq(OutMsg) : out'[g] = out[g] \o x \o y
        BY <3>2, <4>1, <4>2
      <4> QED BY <3>1, <4>3
    <3>4. \E x : out' = [out EXCEPT ![g] = x]
      BY <1>10 DEF SliceQuery
    <3> QED BY <2>1, <3>3, <3>4 DEF ReqType
  <2>6. Gens' = Gens
    BY <2>1 DEF ReqType, Gens
  <2>7. reg' \subseteq Nat
    BY <1>10 DEF SliceQuery, ReqType
  <2>8. UNCHANGED <<store, monitor, client, wb, dead, wq>>
    BY <1>10 DEF SliceQuery
  <2> QED BY <2>1, <2>2, <2>3, <2>4, <2>5, <2>6, <2>7, <2>8 DEF ReqType
<1>11. ASSUME MonWake PROVE ReqType'
  BY <1>0, <1>11, SMTT(30) DEF MonWake, ReqType, Gens
<1>12. ASSUME mpc = "batch", MonDone
       PROVE  /\ mb' \in Seq(Msg) /\ mpc' \in {"wait", "batch"} /\ (mpc' = "wait" <=> mb' = <<>>)
              /\ mtxn' \subseteq Recs
  <2>1. mb \in Seq(Msg) /\ mb # <<>> /\ mtxn \subseteq Recs
    BY <1>12 DEF ReqType
  <2>2. Tail(mb) \in Seq(Msg) /\ (Tail(mb) = <<>> <=> Len(mb) = 1)
    BY <2>1, TailElem
  <2> QED BY <1>12, <2>1, <2>2 DEF MonDone
<1>13. ASSUME MonAdd PROVE ReqType'
  <2> DEFINE g == Head(mb).gen
             new == [subs[g] EXCEPT !.latest = MostRecentLevId(mtxn)]
             missed == {r \in mtxn : r.levId > subs[g].latest /\ Matches(subs[g].filters, r.ev)}
  <2>0. mb \in Seq(Msg) /\ mb # <<>> /\ Head(mb).type = "NewSub"
    BY <1>13 DEF MonAdd, ReqType
  <2>1. g \in DOMAIN subs /\ g \in Nat
    BY <2>0, HeadNew DEF PlaceInv, Handed, Gens
  <2>2. subs[g] \in SubType /\ new \in SubType
    <3>1. subs[g] \in SubType
      BY <2>1 DEF ReqType
    <3> HIDE DEF g
    <3> QED BY <1>0, <3>1 DEF SubType
  <2>3. subs' = [subs EXCEPT ![g] = new]
    BY <1>13, <2>1, <2>2 DEF MonAdd, SubType
  <2>4. subs' \in Seq(SubType) /\ Len(subs') = Len(subs)
    <3> HIDE DEF new
    <3> QED BY <2>1, <2>2, <2>3 DEF ReqType
  <2>5. out' \in Seq(Seq(OutMsg)) /\ Len(out') = Len(out)
    <3>1. out[g] \in Seq(OutMsg) /\ Sent(missed) \in Seq(OutMsg) /\ Answer("NOTICE") \in Seq(OutMsg)
      BY <2>1, MadeTypes DEF ReqType
    <3> DEFINE x == out[g] \o Sent(missed) \o Answer("NOTICE")
               y == out[g] \o Sent(missed) \o <<>>
    <3>2. x \in Seq(OutMsg) /\ y \in Seq(OutMsg)
      <4> HIDE DEF g, missed
      <4> QED BY <3>1
    <3>3. out' = [out EXCEPT ![g] = x] \/ out' = [out EXCEPT ![g] = y]
      BY <1>13 DEF MonAdd
    <3>4. out \in Seq(Seq(OutMsg))
      BY DEF ReqType
    <3>5. g \in DOMAIN out
      BY <2>1 DEF ReqType
    <3> HIDE DEF x, y, g
    <3>6. ASSUME NEW z \in Seq(OutMsg), out' = [out EXCEPT ![g] = z]
          PROVE  out' \in Seq(Seq(OutMsg)) /\ Len(out') = Len(out)
      BY ONLY <3>4, <3>5, <3>6, z \in Seq(OutMsg)
    <3> QED BY <3>2, <3>3, <3>6
  <2>6. mons' \subseteq Nat
    BY <1>13, <2>1 DEF MonAdd, ReqType
  <2>7. Gens' = Gens
    BY <2>4 DEF ReqType, Gens
  <2>8. UNCHANGED <<store, worker, client, curr, wq, mq>> /\ MonDone /\ mpc = "batch"
    BY <1>13 DEF MonAdd
  <2> QED BY <1>12, <2>4, <2>5, <2>6, <2>7, <2>8 DEF ReqType
<1>14. ASSUME MonRemove \/ MonClose PROVE ReqType'
  BY <1>12, <1>14 DEF MonRemove, MonClose, ReqType, Gens
<1>15. ASSUME MonDBChange PROVE ReqType'
  <2>1. ASSUME NEW g \in DOMAIN subs
        PROVE  /\ Pending(g) \subseteq Recs /\ subs'[g] \in SubType /\ out'[g] \in Seq(OutMsg)
    <3>1. subs[g] \in SubType /\ out[g] \in Seq(OutMsg) /\ g \in DOMAIN out
      BY DEF ReqType
    <3>2. Pending(g) \subseteq Recs
      BY DEF Pending, ReqType
    <3>3. MostRecentLevId(Pending(g)) \in 0..MaxU64
      BY <1>0, <3>2, MostRecent
    <3>4. subs'[g] \in SubType
      BY <1>15, <3>1, <3>3 DEF MonDBChange, SubType
    <3>5. out'[g] \in Seq(OutMsg)
      BY <1>15, <3>1, <3>2, MadeTypes DEF MonDBChange
    <3> QED BY <3>2, <3>4, <3>5
  <2>2. DOMAIN subs' = 1..Len(subs) /\ DOMAIN out' = 1..Len(subs) /\ DOMAIN subs = 1..Len(subs)
        /\ Len(subs) \in Nat
    BY <1>15 DEF MonDBChange, ReqType
  <2>3. subs' \in [1..Len(subs) -> SubType] /\ out' \in [1..Len(subs) -> Seq(OutMsg)]
    BY <1>15, <2>1, <2>2 DEF MonDBChange
  <2>4. /\ subs' \in Seq(SubType) /\ out' \in Seq(Seq(OutMsg))
        /\ Len(out') = Len(subs') /\ Gens' = Gens
    BY <2>2, <2>3 DEF Gens
  <2>5. curr' \in 0..MaxU64
    BY <1>0, <1>15 DEF MonDBChange
  <2>6. UNCHANGED <<store, worker, client, mons, wq, mq>> /\ MonDone /\ mpc = "batch"
    BY <1>15 DEF MonDBChange
  <2> QED BY <1>12, <2>4, <2>5, <2>6 DEF ReqType
<1>16. CASE UNCHANGED vars
  BY <1>16 DEF vars, ReqType, Gens
<1>17. CASE ClientStep
  BY <1>1, <1>2, <1>17 DEF ClientStep
<1>18. CASE WorkerStep
  BY <1>6, <1>7, <1>8, <1>9, <1>10, <1>18 DEF WorkerStep
<1>19. CASE MonitorStep
  BY <1>11, <1>13, <1>14, <1>15, <1>19 DEF MonitorStep
<1> QED BY <1>3, <1>4, <1>5, <1>16, <1>17, <1>18, <1>19 DEF Next

-----------------------------------------------------------------------------
(* A subscription is in one place *)

\* QueryScheduler::running: a query is put in front, taken off, or sent to the
\* back, and is never there twice.
LEMMA RunningMoves ==
  ASSUME NEW s \in Seq(Nat), NoRepeat(s)
  PROVE  /\ \A g \in Nat \ Range(s) :
              Range(<<g>> \o s) = Range(s) \cup {g} /\ NoRepeat(<<g>> \o s)
         /\ s # <<>> =>
              /\ Head(s) \in Range(s)
              /\ Range(Tail(s)) = Range(s) \ {Head(s)} /\ NoRepeat(Tail(s))
              /\ Range(Append(Tail(s), Head(s))) = Range(s) /\ NoRepeat(Append(Tail(s), Head(s)))
<1>1. ASSUME NEW g \in Nat \ Range(s)
      PROVE  Range(<<g>> \o s) = Range(s) \cup {g} /\ NoRepeat(<<g>> \o s)
  <2> DEFINE t == <<g>> \o s
  <2>1. /\ DOMAIN t = 1..(Len(s) + 1) /\ DOMAIN s = 1..Len(s) /\ Len(s) \in Nat
        /\ t[1] = g /\ \A i \in 1..Len(s) : t[i + 1] = s[i]
    OBVIOUS
  <2> HIDE DEF t
  <2>2. \A i \in 1..(Len(s) + 1) : i = 1 \/ \E k \in 1..Len(s) : i = k + 1 /\ t[i] = s[k]
    <3> TAKE i \in 1..(Len(s) + 1)
    <3>1. i = 1 \/ (i - 1 \in 1..Len(s) /\ i = (i - 1) + 1)
      BY <2>1
    <3> QED BY <2>1, <3>1
  <2>3. \A k \in 1..Len(s) : \E i \in 1..(Len(s) + 1) : i = k + 1 /\ t[i] = s[k]
    <3> TAKE k \in 1..Len(s)
    <3>1. k + 1 \in 1..(Len(s) + 1)
      BY <2>1
    <3> QED BY <2>1, <3>1
  <2>4. Range(t) = Range(s) \cup {g}
    <3>1. ASSUME NEW x \in Range(t) PROVE x \in Range(s) \cup {g}
      <4>1. PICK i \in 1..(Len(s) + 1) : x = t[i]
        BY <2>1 DEF Range
      <4> QED BY <2>1, <2>2, <4>1 DEF Range
    <3>2. ASSUME NEW x \in Range(s) PROVE x \in Range(t)
      <4>1. PICK k \in 1..Len(s) : x = s[k]
        BY <2>1 DEF Range
      <4> QED BY <2>1, <2>3, <4>1 DEF Range
    <3>3. g \in Range(t)
      BY <2>1 DEF Range
    <3> QED BY <3>1, <3>2, <3>3
  <2>5. NoRepeat(t)
    <3> SUFFICES ASSUME NEW i \in 1..(Len(s) + 1), NEW j \in 1..(Len(s) + 1), t[i] = t[j]
                 PROVE  i = j
      BY <2>1 DEF NoRepeat
    <3>1. \A k \in 1..Len(s) : s[k] # g
      BY <2>1 DEF Range
    <3>2. CASE i = 1
      BY <2>1, <2>2, <3>1, <3>2
    <3>3. CASE j = 1
      BY <2>1, <2>2, <3>1, <3>3
    <3>4. CASE i # 1 /\ j # 1
      <4>1. PICK k \in 1..Len(s) : i = k + 1 /\ t[i] = s[k]
        BY <2>2, <3>4
      <4>2. PICK l \in 1..Len(s) : j = l + 1 /\ t[j] = s[l]
        BY <2>2, <3>4
      <4>3. k = l
        BY <2>1, <4>1, <4>2 DEF NoRepeat
      <4> QED BY <4>1, <4>2, <4>3
    <3> QED BY <3>2, <3>3, <3>4
  <2> QED BY <2>4, <2>5 DEF t
<1>2. ASSUME s # <<>>
      PROVE  /\ Head(s) \in Range(s)
             /\ Range(Tail(s)) = Range(s) \ {Head(s)} /\ NoRepeat(Tail(s))
             /\ Range(Append(Tail(s), Head(s))) = Range(s) /\ NoRepeat(Append(Tail(s), Head(s)))
  <2> DEFINE t == Tail(s)
             u == Append(Tail(s), Head(s))
             h == Head(s)
             n == Len(s) - 1
  <2>1. /\ n \in Nat /\ DOMAIN s = 1..(n + 1) /\ h = s[1]
        /\ DOMAIN t = 1..n /\ \A k \in 1..n : t[k] = s[k + 1]
        /\ DOMAIN u = 1..(n + 1) /\ u[n + 1] = h /\ \A k \in 1..n : u[k] = t[k]
    BY <1>2
  <2> HIDE DEF t, u, h, n
  <2>2. \A i \in 1..(n + 1) : i = 1 \/ \E k \in 1..n : i = k + 1 /\ s[i] = t[k]
    <3> TAKE i \in 1..(n + 1)
    <3>1. i = 1 \/ (i - 1 \in 1..n /\ i = (i - 1) + 1)
      BY <2>1
    <3> QED BY <2>1, <3>1
  <2>3. \A k \in 1..n : \E i \in 1..(n + 1) : i = k + 1 /\ i # 1 /\ s[i] = t[k]
    <3> TAKE k \in 1..n
    <3>1. k + 1 \in 1..(n + 1) /\ k + 1 # 1
      BY <2>1
    <3> QED BY <2>1, <3>1
  <2>4. \A i \in 1..(n + 1) : i = n + 1 \/ i \in 1..n
    BY <2>1
  <2>5. h \in Range(s) /\ h \notin Range(t)
    <3>1. 1 \in DOMAIN s
      BY <2>1
    <3>2. \A k \in 1..n : t[k] # h
      BY <2>1, <2>3, <3>1, ZenonT(30) DEF NoRepeat
    <3> QED BY <2>1, <3>1, <3>2 DEF Range
  <2>6. Range(s) = Range(t) \cup {h}
    <3>1. ASSUME NEW x \in Range(s) PROVE x \in Range(t) \cup {h}
      <4>1. PICK i \in 1..(n + 1) : x = s[i]
        BY <2>1 DEF Range
      <4> QED BY <2>1, <2>2, <4>1 DEF Range
    <3>2. ASSUME NEW x \in Range(t) PROVE x \in Range(s)
      <4>1. PICK k \in 1..n : x = t[k]
        BY <2>1 DEF Range
      <4> QED BY <2>1, <2>3, <4>1 DEF Range
    <3> QED BY <2>5, <3>1, <3>2
  <2>7. NoRepeat(t)
    <3> SUFFICES ASSUME NEW k \in 1..n, NEW l \in 1..n, t[k] = t[l] PROVE k = l
      BY <2>1 DEF NoRepeat
    <3>1. PICK i \in 1..(n + 1) : i = k + 1 /\ s[i] = t[k]
      BY <2>3
    <3>2. PICK j \in 1..(n + 1) : j = l + 1 /\ s[j] = t[l]
      BY <2>3
    <3>3. i = j
      BY <2>1, <3>1, <3>2 DEF NoRepeat
    <3> QED BY <2>1, <3>1, <3>2, <3>3
  <2>8. Range(u) = Range(t) \cup {h}
    <3>1. ASSUME NEW x \in Range(u) PROVE x \in Range(t) \cup {h}
      <4>1. PICK i \in 1..(n + 1) : x = u[i]
        BY <2>1 DEF Range
      <4> QED BY <2>1, <2>4, <4>1 DEF Range
    <3>2. ASSUME NEW x \in Range(t) PROVE x \in Range(u)
      <4>1. PICK k \in 1..n : x = t[k]
        BY <2>1 DEF Range
      <4>2. k \in 1..(n + 1)
        BY <2>1
      <4> QED BY <2>1, <4>1, <4>2 DEF Range
    <3>3. h \in Range(u)
      <4>1. n + 1 \in 1..(n + 1)
        BY <2>1
      <4> QED BY <2>1, <4>1 DEF Range
    <3> QED BY <3>1, <3>2, <3>3
  <2>9. NoRepeat(u)
    <3> SUFFICES ASSUME NEW k \in 1..(n + 1), NEW l \in 1..(n + 1), u[k] = u[l] PROVE k = l
      BY <2>1 DEF NoRepeat
    <3>0. n \in Nat /\ (k \in 1..n \/ k = n + 1) /\ (l \in 1..n \/ l = n + 1)
      BY <2>1
    <3>1. ASSUME NEW i \in 1..n PROVE u[i] = t[i] /\ t[i] # h
      BY <2>1, <2>4, <2>5 DEF Range
    <3>2. u[n + 1] = h
      BY <2>1
    <3>3. CASE k \in 1..n /\ l \in 1..n
      BY <2>1, <2>7, <3>1, <3>3 DEF NoRepeat
    <3>4. CASE k = n + 1 \/ l = n + 1
      BY <3>0, <3>1, <3>2, <3>4
    <3> QED BY <3>0, <3>3, <3>4
  <2> QED BY <2>5, <2>6, <2>7, <2>8, <2>9 DEF t, u, h
<1> QED BY <1>1, <1>2

\* A REQ makes a subscription that is on its way to the worker.
LEMMA IngestMoves ==
  ASSUME ReqType, PlaceInv, NEW c \in Conns, NEW s \in SubIds, NEW req \in Reqs,
         IngestReq(c, s, req), NEW g, g = Len(subs) + 1
  PROVE  /\ g \notin Gens /\ Gens' = Gens \cup {g}
         /\ g \notin Queued \cup Range(running) \cup Handed \cup mons
         /\ NewIn(wq') = NewIn(wq) \cup {g} /\ UniqNew(wq')
<1>0. wq \in Seq(Msg) /\ subs \in Seq(SubType) /\ Len(subs) \in Nat /\ Gens = 1..Len(subs)
  BY DEF ReqType, Gens
<1>1. g \in Nat /\ g \notin 1..Len(subs) /\ 1..g = 1..Len(subs) \cup {g}
  BY <1>0
<1>2. Gens' = 1..g /\ wq' = Append(wq, NewSub(g))
  BY <1>0 DEF IngestReq, Gens
<1>3. NewSub(g) \in Msg /\ NewSub(g).type = "NewSub" /\ NewSub(g).gen = g
  BY <1>1, MadeTypes DEF NewSub
<1>4. g \notin Gens /\ Gens' = Gens \cup {g}
  BY <1>0, <1>1, <1>2
<1>5. g \notin NewIn(wq) /\ g \notin Queued \cup Range(running) \cup Handed \cup mons
  BY <1>4 DEF PlaceInv, Queued
<1>6. NewIn(wq') = NewIn(wq) \cup {g} /\ UniqNew(wq')
  BY <1>0, <1>2, <1>3, <1>5, AppendMsg DEF PlaceInv
<1> QED BY <1>4, <1>5, <1>6

\* QueryScheduler::addSub takes a subscription off the batch.
LEMMA AddMoves ==
  ASSUME ReqType, PlaceInv, WorkerAdd, NEW g, g = Head(wb).gen
  PROVE  /\ g \in Gens /\ g \in Nat
         /\ NewIn(wb) = NewIn(wb') \cup {g} /\ g \notin NewIn(wb') /\ UniqNew(wb')
         /\ g \in Queued /\ g \notin Range(running) /\ g \notin Handed \cup mons
         /\ Range(<<g>> \o running) = Range(running) \cup {g} /\ NoRepeat(<<g>> \o running)
<1>1. wb \in Seq(Msg) /\ wb # <<>> /\ Head(wb).type = "NewSub" /\ wb' = Tail(wb)
      /\ running \in Seq(Nat)
  BY DEF WorkerAdd, ReqType
<1>2. NewIn(wb) = NewIn(wb') \cup {g} /\ g \notin NewIn(wb') /\ UniqNew(wb') /\ g \in Nat
  BY <1>1, TailMsg, HeadNew DEF PlaceInv
<1>3. g \in Queued /\ g \notin Range(running) /\ g \notin Handed \cup mons /\ g \in Gens
  BY <1>2 DEF PlaceInv, Queued
<1>4. Range(<<g>> \o running) = Range(running) \cup {g} /\ NoRepeat(<<g>> \o running)
  BY <1>1, <1>2, <1>3, RunningMoves DEF PlaceInv
<1> QED BY <1>2, <1>3, <1>4

\* A slice works on a live query, which stays or is handed to the monitor.
LEMMA SliceMoves ==
  ASSUME ReqType, PlaceInv, NEW S, SliceQuery(S), NEW g, g = Head(running)
  PROVE  /\ g \in Nat /\ g \in Gens /\ g \in Range(running) /\ g \in reg
         /\ g \notin Queued \cup Handed \cup mons
         /\ Range(Tail(running)) = Range(running) \ {g} /\ NoRepeat(Tail(running))
         /\ Range(Append(Tail(running), g)) = Range(running)
         /\ NoRepeat(Append(Tail(running), g))
         /\ NewIn(Append(mq, NewSub(g))) = NewIn(mq) \cup {g}
         /\ UniqNew(Append(mq, NewSub(g)))
<1>1. running \in Seq(Nat) /\ running # <<>> /\ g \notin dead /\ mq \in Seq(Msg)
  BY DEF SliceQuery, ReqType
<1>2. g \in Nat /\ g \in Range(running)
  BY <1>1, RunningMoves, TailElem DEF PlaceInv
<1>3. g \in reg /\ g \notin Queued \cup Handed \cup mons /\ g \in Gens
  BY <1>1, <1>2 DEF PlaceInv
<1>4. /\ Range(Tail(running)) = Range(running) \ {g} /\ NoRepeat(Tail(running))
      /\ Range(Append(Tail(running), g)) = Range(running)
      /\ NoRepeat(Append(Tail(running), g))
  BY <1>1, RunningMoves DEF PlaceInv
<1>5. NewSub(g) \in Msg /\ NewSub(g).type = "NewSub" /\ NewSub(g).gen = g
  BY <1>2, MadeTypes DEF NewSub
<1>6. NewIn(Append(mq, NewSub(g))) = NewIn(mq) \cup {g} /\ UniqNew(Append(mq, NewSub(g)))
  BY <1>1, <1>3, <1>5, AppendMsg DEF PlaceInv, Handed
<1> QED BY <1>2, <1>3, <1>4, <1>6

\* The monitor takes a subscription off its batch.
LEMMA MonAddMoves ==
  ASSUME ReqType, PlaceInv, MonAdd, NEW g, g = Head(mb).gen
  PROVE  /\ g \in Nat /\ g \in Gens
         /\ NewIn(mb) = NewIn(mb') \cup {g} /\ g \notin NewIn(mb') /\ UniqNew(mb')
         /\ g \in Handed /\ g \notin Queued \cup Range(running) \cup mons /\ g \notin NewIn(mq)
<1>1. mb \in Seq(Msg) /\ mb # <<>> /\ Head(mb).type = "NewSub" /\ mb' = Tail(mb)
  BY DEF MonAdd, MonDone, ReqType
<1>2. NewIn(mb) = NewIn(mb') \cup {g} /\ g \notin NewIn(mb') /\ UniqNew(mb') /\ g \in Nat
  BY <1>1, TailMsg, HeadNew DEF PlaceInv
<1> QED BY <1>2 DEF PlaceInv, Handed

\* Every step keeps each subscription in at most one place.
LEMMA NextPlace ==
  ASSUME ReqType, PlaceInv, [Next]_vars, ReqType'
  PROVE  PlaceInv'
<1> USE DEF store, worker, monitor, client
<1>0. /\ wq \in Seq(Msg) /\ wb \in Seq(Msg) /\ mq \in Seq(Msg) /\ mb \in Seq(Msg)
      /\ subs \in Seq(SubType) /\ running \in Seq(Nat) /\ Gens = 1..Len(subs) /\ Len(subs) \in Nat
      /\ subs' \in Seq(SubType) /\ Gens' = 1..Len(subs') /\ Gens = DOMAIN subs
  BY DEF ReqType, Gens
<1>e. NewIn(<<>>) = {} /\ UniqNew(<<>>)
  BY DEF NewIn, UniqNew, News
<1>1. ASSUME NEW c \in Conns, NEW s \in SubIds, NEW req \in Reqs, IngestReq(c, s, req)
      PROVE  PlaceInv'
  <2> DEFINE g == Len(subs) + 1
  <2>1. /\ g \notin Gens /\ Gens' = Gens \cup {g}
        /\ g \notin Queued \cup Range(running) \cup Handed \cup mons
        /\ NewIn(wq') = NewIn(wq) \cup {g} /\ UniqNew(wq')
    BY <1>1, IngestMoves
  <2> HIDE DEF g
  <2>4. UNCHANGED <<wb, mq, mb, running, mons, reg, dead>>
    BY <1>1 DEF IngestReq
  <2> QED BY <2>1, <2>4 DEF PlaceInv, Queued, Handed
<1>2. ASSUME NEW c \in Conns, IngestCloseConn(c) \/ \E s \in SubIds : IngestClose(c, s)
      PROVE  PlaceInv'
  <2>1. PICK m \in Msg : m.type # "NewSub" /\ wq' = Append(wq, m)
    BY <1>2, MadeTypes DEF IngestCloseConn, IngestClose, RemoveSub, CloseConn
  <2>2. NewIn(wq') = NewIn(wq) /\ UniqNew(wq')
    BY <1>0, <2>1, AppendMsg DEF PlaceInv
  <2>3. UNCHANGED <<wb, mq, mb, running, mons, reg, dead, subs>>
    BY <1>2 DEF IngestCloseConn, IngestClose
  <2> QED BY <2>2, <2>3 DEF PlaceInv, Queued, Handed, Gens
<1>3. ASSUME Watcher PROVE PlaceInv'
  <2>1. DBChange \in Msg /\ DBChange.type # "NewSub" /\ mq' = Append(mq, DBChange)
    BY <1>3, MadeTypes DEF Watcher, DBChange
  <2>2. NewIn(mq') = NewIn(mq) /\ UniqNew(mq')
    BY <1>0, <2>1, AppendMsg DEF PlaceInv
  <2>3. UNCHANGED <<wb, wq, mb, running, mons, reg, dead, subs>>
    BY <1>3 DEF Watcher
  <2> QED BY <2>2, <2>3 DEF PlaceInv, Queued, Handed, Gens
<1>4. ASSUME WorkerWake PROVE PlaceInv'
  <2>1. wb = <<>> /\ wb' = wq /\ wq' = <<>> /\ UNCHANGED <<mq, mb, running, mons, reg, dead, subs>>
    BY <1>4 DEF WorkerWake, ReqType
  <2>2. NewIn(wb) = {} /\ NewIn(wb') = NewIn(wq) /\ NewIn(wq') = {} /\ UniqNew(wq') /\ UniqNew(wb')
    BY <1>e, <2>1 DEF PlaceInv
  <2> QED BY <2>1, <2>2 DEF PlaceInv, Queued, Handed, Gens
<1>5. ASSUME WorkerAdd PROVE PlaceInv'
  <2> DEFINE g == Head(wb).gen
             old == OfSub(reg, subs[g].conn, subs[g].sub)
  <2>1. UNCHANGED <<wq, mq, mb, mons>>
    BY <1>5 DEF WorkerAdd
  <2>2. /\ g \in Gens /\ NewIn(wb) = NewIn(wb') \cup {g} /\ g \notin NewIn(wb') /\ UniqNew(wb')
        /\ g \in Queued /\ g \notin Range(running) /\ g \notin Handed \cup mons
        /\ Range(<<g>> \o running) = Range(running) \cup {g} /\ NoRepeat(<<g>> \o running)
    BY <1>5, AddMoves
  <2>4. /\ old \subseteq reg /\ dead' = dead \cup old
        /\ \/ reg' = reg \ old /\ running' = running
           \/ reg' = (reg \ old) \cup {g} /\ running' = <<g>> \o running
    BY <1>5 DEF WorkerAdd, OfSub, OfConn
  <2>5. Gens' = Gens
    BY <1>0, <1>5 DEF WorkerAdd
  <2> HIDE DEF g, old
  <2>7. Queued' \cup {g} = Queued /\ Handed' = Handed /\ g \notin Queued'
    BY <2>1, <2>2 DEF Queued, Handed, PlaceInv
  <2>8. CASE reg' = reg \ old /\ running' = running
    BY <2>1, <2>2, <2>4, <2>5, <2>7, <2>8 DEF PlaceInv
  <2>9. CASE reg' = (reg \ old) \cup {g} /\ running' = <<g>> \o running
    BY <2>1, <2>2, <2>4, <2>5, <2>7, <2>9 DEF PlaceInv
  <2> QED BY <2>4, <2>8, <2>9
<1>6. ASSUME WorkerRemove \/ WorkerClose PROVE PlaceInv'
  <2>1. /\ wb # <<>> /\ wb' = Tail(wb) /\ Head(wb).type # "NewSub" /\ mq' = Append(mq, Head(wb))
        /\ UNCHANGED <<wq, mb, mons, running, subs>>
    BY <1>6 DEF WorkerRemove, WorkerClose
  <2>2. NewIn(wb') = NewIn(wb) /\ UniqNew(wb') /\ Head(wb) \in Msg
    BY <1>0, <2>1, TailMsg DEF PlaceInv
  <2>3. NewIn(mq') = NewIn(mq) /\ UniqNew(mq')
    BY <1>0, <2>1, <2>2, AppendMsg DEF PlaceInv
  <2>4. \E old \in SUBSET reg : dead' = dead \cup old /\ reg' = reg \ old
    BY <1>6 DEF WorkerRemove, WorkerClose, OfSub, OfConn
  <2> QED BY <2>1, <2>2, <2>3, <2>4 DEF PlaceInv, Queued, Handed, Gens
<1>7. ASSUME SliceDead PROVE PlaceInv'
  <2>1. /\ running # <<>> /\ Head(running) \in dead /\ running' = Tail(running)
        /\ dead' = dead \ {Head(running)} /\ UNCHANGED <<reg, subs, wb, wq, mq, mb, mons>>
    BY <1>7 DEF SliceDead
  <2>2. Range(running') = Range(running) \ {Head(running)} /\ NoRepeat(running')
    BY <1>0, <2>1, RunningMoves DEF PlaceInv
  <2> QED BY <2>1, <2>2 DEF PlaceInv, Queued, Handed, Gens
<1>8. ASSUME NEW S, SliceQuery(S) PROVE PlaceInv'
  <2> DEFINE g == Head(running)
  <2>1. /\ running # <<>> /\ g \notin dead
        /\ UNCHANGED <<wb, wq, mb, mons, dead>>
    BY <1>8 DEF SliceQuery
  <2>2. /\ g \in Gens /\ g \in Range(running) /\ g \in reg
        /\ g \notin Queued \cup Handed \cup mons
        /\ Range(Tail(running)) = Range(running) \ {g} /\ NoRepeat(Tail(running))
        /\ Range(Append(Tail(running), g)) = Range(running)
        /\ NoRepeat(Append(Tail(running), g))
        /\ NewIn(Append(mq, NewSub(g))) = NewIn(mq) \cup {g}
        /\ UniqNew(Append(mq, NewSub(g)))
    BY <1>8, SliceMoves
  <2>3. Gens' = Gens
    BY <1>0, <1>8, SliceType
  <2>4. \/ running' = Tail(running) /\ reg' = reg \ {g} /\ mq' = Append(mq, NewSub(g))
        \/ running' = Tail(running) /\ reg' = reg \ {g} /\ mq' = mq
        \/ running' \in {running, Append(Tail(running), g)} /\ reg' = reg /\ mq' = mq
    BY <1>8 DEF SliceQuery
  <2> HIDE DEF g
  <2>7. CASE running' = Tail(running) /\ reg' = reg \ {g} /\ mq' = Append(mq, NewSub(g))
    BY <2>1, <2>2, <2>3, <2>7 DEF PlaceInv, Queued, Handed
  <2>8. CASE running' = Tail(running) /\ reg' = reg \ {g} /\ mq' = mq
    BY <2>1, <2>2, <2>3, <2>8 DEF PlaceInv, Queued, Handed
  <2>9. CASE running' \in {running, Append(Tail(running), g)} /\ reg' = reg /\ mq' = mq
    BY <2>1, <2>2, <2>3, <2>9 DEF PlaceInv, Queued, Handed
  <2> QED BY <2>4, <2>7, <2>8, <2>9
<1>9. ASSUME MonWake PROVE PlaceInv'
  <2>1. mb = <<>> /\ mb' = mq /\ mq' = <<>> /\ UNCHANGED <<wq, wb, running, mons, reg, dead, subs>>
    BY <1>9 DEF MonWake, ReqType
  <2>2. NewIn(mb) = {} /\ NewIn(mb') = NewIn(mq) /\ NewIn(mq') = {} /\ UniqNew(mq') /\ UniqNew(mb')
    BY <1>e, <2>1 DEF PlaceInv
  <2> QED BY <2>1, <2>2 DEF PlaceInv, Queued, Handed, Gens
<1>10. ASSUME MonAdd PROVE PlaceInv'
  <2> DEFINE g == Head(mb).gen
  <2>1. UNCHANGED <<wq, wb, mq, running, reg, dead>>
    BY <1>10 DEF MonAdd
  <2>2. /\ g \in Gens /\ NewIn(mb) = NewIn(mb') \cup {g} /\ g \notin NewIn(mb') /\ UniqNew(mb')
        /\ g \notin Queued \cup Range(running) \cup mons /\ g \notin NewIn(mq)
    BY <1>10, MonAddMoves
  <2>3. mons' \subseteq mons \cup {g}
    BY <1>10 DEF MonAdd
  <2>4. Gens' = Gens
    <3>1. DOMAIN subs' = DOMAIN subs
      BY <1>10 DEF MonAdd
    <3> QED BY <3>1 DEF Gens
  <2> HIDE DEF g
  <2> QED BY <2>1, <2>2, <2>3, <2>4 DEF PlaceInv, Queued, Handed
<1>11. ASSUME MonRemove \/ MonClose \/ MonDBChange PROVE PlaceInv'
  <2>1. mb # <<>> /\ Head(mb).type # "NewSub" /\ mb' = Tail(mb) /\ mons' \subseteq mons
        /\ UNCHANGED <<wq, wb, mq, running, reg, dead>>
    BY <1>11 DEF MonRemove, MonClose, MonDBChange, MonDone, ReqType
  <2>2. NewIn(mb) = NewIn(mb') /\ UniqNew(mb')
    BY <1>0, <2>1, TailMsg DEF PlaceInv
  <2>3. Gens' = Gens
    BY <1>11 DEF MonRemove, MonClose, MonDBChange, Gens
  <2> QED BY <2>1, <2>2, <2>3 DEF PlaceInv, Queued, Handed
<1>12. ASSUME NEW ev, NEW r, Commit(ev) \/ Remove(r) \/ SliceIdle \/ UNCHANGED vars
       PROVE  PlaceInv'
  <2>1. UNCHANGED <<wq, wb, mq, mb, mons, running, reg, dead, subs>>
    BY <1>12 DEF Commit, Remove, SliceIdle, vars
  <2> QED BY <2>1 DEF PlaceInv, Queued, Handed, Gens
<1>13. CASE ClientStep
  BY <1>1, <1>2, <1>13 DEF ClientStep
<1>14. CASE WorkerStep
  BY <1>4, <1>5, <1>6, <1>7, <1>8, <1>12, <1>14 DEF WorkerStep
<1>15. CASE MonitorStep
  BY <1>9, <1>10, <1>11, <1>15 DEF MonitorStep
<1> QED BY <1>3, <1>12, <1>13, <1>14, <1>15 DEF Next

-----------------------------------------------------------------------------
(* Snapshots *)

\* The database moves on: a levId above all the others, or a removal that
\* leaves the highest one.
LEMMA DbAdvances ==
  ASSUME ReqType, [Next]_vars, ReqType'
  PROVE  /\ MostRecentLevId(db) <= MostRecentLevId(db')
         /\ \A r \in db' : r \in db \/ r.levId > MostRecentLevId(db)
         /\ Same(db, db) => Same(db', db')
<1> USE DEF store, worker, monitor, client
<1>0. /\ db \in SUBSET Recs /\ db' \in SUBSET Recs
      /\ MostRecentLevId(db) \in Nat /\ MostRecentLevId(db') \in Nat
      /\ \A r \in db : r.levId <= MostRecentLevId(db)
      /\ \A r \in db' : r.levId <= MostRecentLevId(db')
      /\ \A r \in Recs : r.levId \in Nat
      /\ MostRecentLevId(db) \in LevIds(db) \cup {0}
  BY MostRecent, SMTT(30) DEF ReqType, Recs
<1>1. ASSUME NEW ev \in Evs, Commit(ev)
      PROVE  /\ MostRecentLevId(db) <= MostRecentLevId(db')
             /\ \A r \in db' : r \in db \/ r.levId > MostRecentLevId(db)
             /\ Same(db, db) => Same(db', db')
  <2>1. PICK n \in Recs : n.levId = MostRecentLevId(db) + 1 /\ db' = db \cup {n}
    BY <1>0, <1>1 DEF Commit
  <2>2. \A r \in db : r.levId # n.levId /\ n.levId > MostRecentLevId(db)
    BY <1>0, <2>1
  <2>3. MostRecentLevId(db) <= MostRecentLevId(db')
    <3>1. n.levId <= MostRecentLevId(db')
      BY <1>0, <2>1
    <3> QED BY <1>0, <2>1, <3>1
  <2>4. \A r \in db' : r \in db \/ r.levId > MostRecentLevId(db)
    BY <1>0, <2>1
  <2>5. Same(db, db) => Same(db', db')
    BY <2>1, <2>2 DEF Same
  <2> QED BY <2>3, <2>4, <2>5
<1>2. ASSUME NEW x \in db, Remove(x)
      PROVE  /\ MostRecentLevId(db) <= MostRecentLevId(db')
             /\ \A r \in db' : r \in db \/ r.levId > MostRecentLevId(db)
             /\ Same(db, db) => Same(db', db')
  <2>1. db' = db \ {x} /\ x.levId # MostRecentLevId(db)
    BY <1>2 DEF Remove
  <2>2. MostRecentLevId(db) <= MostRecentLevId(db')
    <3>1. CASE MostRecentLevId(db) = 0
      BY <1>0, <3>1
    <3>2. CASE MostRecentLevId(db) # 0
      <4>1. PICK y \in db : y.levId = MostRecentLevId(db)
        BY <1>0, <3>2 DEF LevIds
      <4> QED BY <1>0, <2>1, <4>1
    <3> QED BY <3>1, <3>2
  <2> QED BY <2>1, <2>2 DEF Same
<1>3. CASE db' = db
  BY <1>0, <1>3
<1>4. CASE ClientStep \/ Watcher \/ UNCHANGED vars
  BY <1>3, <1>4 DEF ClientStep, Watcher, vars, IngestReq, IngestClose, IngestCloseConn
<1>5. CASE WorkerStep
  <2>1. ASSUME NEW S, SliceQuery(S) PROVE db' = db
    BY <2>1 DEF SliceQuery
  <2>2. WorkerAdd \/ SliceIdle \/ SliceDead => db' = db
    BY DEF WorkerAdd, SliceIdle, SliceDead
  <2>3. WorkerWake \/ WorkerRemove \/ WorkerClose => db' = db
    BY DEF WorkerWake, WorkerRemove, WorkerClose
  <2> QED BY <1>3, <1>5, <2>1, <2>2, <2>3 DEF WorkerStep
<1>6. CASE MonitorStep
  <2>1. MonAdd \/ MonWake \/ MonDBChange => db' = db
    BY DEF MonAdd, MonWake, MonDBChange
  <2>2. MonRemove \/ MonClose => db' = db
    BY DEF MonRemove, MonClose
  <2> QED BY <1>3, <1>6, <2>1, <2>2 DEF MonitorStep
<1> QED BY <1>1, <1>2, <1>3, <1>4, <1>5, <1>6 DEF Next

\* A snapshot of the database stays one when the database moves on.
LEMMA EarlierKept ==
  ASSUME NEW d \in SUBSET Recs, NEW e \in SUBSET Recs, NEW f \in SUBSET Recs,
         MostRecentLevId(e) <= MostRecentLevId(f),
         \A r \in f : r \in e \/ r.levId > MostRecentLevId(e)
  PROVE  /\ (\A r \in d : r.levId <= MostRecentLevId(e)) /\ Same(d, e) => Same(d, f)
         /\ MostRecentLevId(d) <= MostRecentLevId(e) /\ Earlier(d, e) => Earlier(d, f)
<1>0. /\ MostRecentLevId(d) \in Nat /\ MostRecentLevId(e) \in Nat /\ MostRecentLevId(f) \in Nat
      /\ \A r \in Recs : r.levId \in Nat
  BY MostRecent DEF Recs
<1>1. (\A r \in d : r.levId <= MostRecentLevId(e)) /\ Same(d, e) => Same(d, f)
  BY <1>0 DEF Same
<1>2. MostRecentLevId(d) <= MostRecentLevId(e) /\ Earlier(d, e) => Earlier(d, f)
  BY <1>0 DEF Earlier
<1> QED BY <1>1, <1>2

\* The database is a snapshot of itself, and so is the empty table.
LEMMA EarlierNow ==
  ASSUME NEW e \in SUBSET Recs
  PROVE  /\ Earlier(e, e) /\ Earlier({}, e) /\ Same({}, e)
         /\ \A d \in SUBSET Recs : Earlier(d, e) => MostRecentLevId(d) <= MostRecentLevId(e)
<1>0. /\ MostRecentLevId(e) \in Nat /\ \A r \in e : r.levId <= MostRecentLevId(e)
      /\ \A r \in Recs : r.levId \in Nat \ {0}
  BY MostRecent DEF Recs
<1>1. MostRecentLevId({}) = 0
  BY MostRecent DEF LevIds
<1>2. Earlier(e, e) /\ Earlier({}, e) /\ Same({}, e)
  BY <1>0, <1>1 DEF Earlier, Same
<1>3. ASSUME NEW d \in SUBSET Recs, Earlier(d, e) PROVE MostRecentLevId(d) <= MostRecentLevId(e)
  <2>1. MostRecentLevId(d) \in LevIds(d) \cup {0}
    BY MostRecent
  <2> QED BY <1>0, <1>3, <2>1 DEF Earlier, LevIds
<1> QED BY <1>2, <1>3

\* Every step leaves the snapshots of the worker and the monitor snapshots.
LEMMA NextSnap ==
  ASSUME ReqType, SnapInv, [Next]_vars, ReqType'
  PROVE  SnapInv'
<1> USE DEF store, worker, monitor, client
<1>1. /\ MostRecentLevId(db) <= MostRecentLevId(db')
      /\ \A r \in db' : r \in db \/ r.levId > MostRecentLevId(db)
      /\ Same(db', db')
  BY DbAdvances DEF SnapInv
<1>2. /\ db \in SUBSET Recs /\ db' \in SUBSET Recs
      /\ wtxn \in SUBSET Recs /\ mtxn \in SUBSET Recs
  BY DEF ReqType
<1>3. Earlier(wtxn, db') /\ Earlier(mtxn, db') /\ Same(wtxn, db')
  <2>1. Earlier(wtxn, db) /\ Earlier(mtxn, db) /\ Same(wtxn, db)
    BY DEF SnapInv
  <2>2. MostRecentLevId(wtxn) <= MostRecentLevId(db) /\ MostRecentLevId(mtxn) <= MostRecentLevId(db)
    BY <1>2, <2>1, EarlierNow
  <2>3. \A r \in wtxn : r.levId <= MostRecentLevId(db)
    BY <2>1 DEF Earlier
  <2> QED BY <1>1, <1>2, <2>1, <2>2, <2>3, EarlierKept
<1>4. Earlier({}, db') /\ Same({}, db') /\ Earlier(db', db')
  BY <1>2, EarlierNow
<1>5. /\ wtxn' = wtxn \/ wtxn' = {} \/ (wtxn' = db /\ db' = db)
      /\ mtxn' = mtxn \/ mtxn' = {} \/ (mtxn' = db /\ db' = db)
  <2>1. CASE ClientStep \/ Watcher \/ UNCHANGED vars
    BY <2>1 DEF ClientStep, Watcher, vars, IngestReq, IngestClose, IngestCloseConn
  <2>2. ASSUME NEW ev, NEW r, Commit(ev) \/ Remove(r) PROVE UNCHANGED <<wtxn, mtxn>>
    BY <2>2 DEF Commit, Remove
  <2>3. ASSUME NEW S, SliceQuery(S) PROVE wtxn' \in {wtxn, {}} /\ mtxn' = mtxn
    BY <2>3 DEF SliceQuery, SliceDone
  <2>4. WorkerAdd \/ SliceIdle \/ SliceDead => wtxn' \in {wtxn, {}} /\ mtxn' = mtxn
    BY DEF WorkerAdd, SliceIdle, SliceDead, SliceDone
  <2>5. WorkerRemove \/ WorkerClose => UNCHANGED <<wtxn, mtxn>>
    BY DEF WorkerRemove, WorkerClose
  <2>6. WorkerWake => wtxn' = db /\ UNCHANGED <<db, mtxn>>
    BY DEF WorkerWake
  <2>7. MonAdd \/ MonDBChange => mtxn' \in {mtxn, {}} /\ wtxn' = wtxn
    BY DEF MonAdd, MonDBChange, MonDone
  <2>8. MonRemove \/ MonClose => mtxn' \in {mtxn, {}} /\ wtxn' = wtxn
    BY DEF MonRemove, MonClose, MonDone
  <2>9. MonWake => mtxn' = db /\ UNCHANGED <<db, wtxn>>
    BY DEF MonWake
  <2> QED BY <2>1, <2>2, <2>3, <2>4, <2>5, <2>6, <2>7, <2>8, <2>9
          DEF Next, WorkerStep, MonitorStep
<1> QED BY <1>1, <1>3, <1>4, <1>5 DEF SnapInv

-----------------------------------------------------------------------------
(* What is sent *)

\* One more message for a subscription.
LEMMA OneMore ==
  ASSUME NEW s \in Seq(OutMsg), NEW m \in OutMsg, NEW n, NEW t, t = s \o <<m>>
  PROVE  /\ t \in Seq(OutMsg)
         /\ RecsOf(t) = RecsOf(s) \cup m.recs /\ TypesOf(t) = TypesOf(s) \cup {m.type}
         /\ OnceIn(s) /\ RecsOf(s) \cap m.recs = {} => OnceIn(t)
         /\ /\ SplitIn(s, n)
            /\ m.type \in {"EOSE", "COUNT"} => {"EOSE", "COUNT"} \cap TypesOf(s) = {}
            /\ \A r \in m.recs : r.levId > n <=> "EOSE" \in TypesOf(s)
            => SplitIn(t, n)
<1>1. /\ t \in Seq(OutMsg) /\ Len(t) = Len(s) + 1 /\ Len(s) \in Nat
      /\ DOMAIN t = 1..(Len(s) + 1) /\ DOMAIN s = 1..Len(s)
      /\ t[Len(s) + 1] = m /\ \A i \in 1..Len(s) : t[i] = s[i]
  OBVIOUS
<1> DEFINE l == Len(s) + 1
<1>2. /\ DOMAIN t = DOMAIN s \cup {l} /\ l \notin DOMAIN s /\ t[l] = m
      /\ \A i \in DOMAIN s : t[i] = s[i] /\ i < l /\ ~(l < i) /\ ~(l < l)
  BY <1>1
<1> HIDE DEF l
<1>3. RecsOf(t) = RecsOf(s) \cup m.recs
  BY <1>2 DEF RecsOf
<1>4. TypesOf(t) = TypesOf(s) \cup {m.type}
  BY <1>2 DEF TypesOf
<1>5. OnceIn(s) /\ RecsOf(s) \cap m.recs = {} => OnceIn(t)
  BY <1>2 DEF OnceIn, RecsOf
<1>6. ASSUME SplitIn(s, n),
             m.type \in {"EOSE", "COUNT"} => {"EOSE", "COUNT"} \cap TypesOf(s) = {},
             \A r \in m.recs : r.levId > n <=> "EOSE" \in TypesOf(s)
      PROVE  SplitIn(t, n)
  <2>1. ASSUME NEW i \in DOMAIN t, NEW j \in DOMAIN t,
               t[i].type \in {"EOSE", "COUNT"}, t[j].type \in {"EOSE", "COUNT"}
        PROVE  i = j
    <3>1. CASE i \in DOMAIN s /\ j \in DOMAIN s
      <4>1. s[i].type \in {"EOSE", "COUNT"} /\ s[j].type \in {"EOSE", "COUNT"}
        BY <1>2, <2>1, <3>1
      <4> QED BY <1>6, <3>1, <4>1 DEF SplitIn
    <3>2. CASE i = l /\ j \in DOMAIN s
      BY <1>2, <1>6, <2>1, <3>2 DEF TypesOf
    <3>3. CASE j = l /\ i \in DOMAIN s
      BY <1>2, <1>6, <2>1, <3>3 DEF TypesOf
    <3> QED BY <1>2, <3>1, <3>2, <3>3
  <2>2. ASSUME NEW i \in DOMAIN s, NEW r \in t[i].recs
        PROVE  r.levId > n <=> \E e \in DOMAIN t : t[e].type = "EOSE" /\ e < i
    BY <1>2, <1>6, <2>2 DEF SplitIn
  <2>3. ASSUME NEW r \in m.recs
        PROVE  r.levId > n <=> \E e \in DOMAIN t : t[e].type = "EOSE" /\ e < l
    BY <1>2, <1>6, <2>3 DEF TypesOf
  <2> QED BY <1>2, <2>1, <2>2, <2>3, SMTT(30) DEF SplitIn
<1> QED BY <1>1, <1>3, <1>4, <1>5, <1>6

\* What a step sends: nothing or some events, then nothing or an answer.
LEMMA SentMore ==
  ASSUME NEW s \in Seq(OutMsg), NEW n, NEW found \in SUBSET Recs,
         OnceIn(s), SplitIn(s, n),
         RecsOf(s) \cap found = {}, \A r \in found : r.levId > n <=> "EOSE" \in TypesOf(s),
         NEW t, t = s \o Sent(found)
  PROVE  /\ t \in Seq(OutMsg) /\ OnceIn(t) /\ SplitIn(t, n)
         /\ RecsOf(t) = RecsOf(s) \cup found
         /\ {"EOSE", "COUNT"} \cap TypesOf(t) = {"EOSE", "COUNT"} \cap TypesOf(s)
<1>1. CASE found = {}
  <2>1. t = s
    BY <1>1 DEF Sent
  <2> QED BY <1>1, <2>1
<1>2. CASE found # {}
  <2> DEFINE m == [type |-> "EVENTS", recs |-> found]
  <2>1. t = s \o <<m>>
    BY <1>2 DEF Sent
  <2>2. m \in OutMsg /\ m.type = "EVENTS" /\ m.recs = found
    BY DEF OutMsg
  <2> HIDE DEF m
  <2>3. /\ t \in Seq(OutMsg) /\ OnceIn(t) /\ SplitIn(t, n)
        /\ RecsOf(t) = RecsOf(s) \cup found /\ TypesOf(t) = TypesOf(s) \cup {"EVENTS"}
    BY <2>1, <2>2, OneMore
  <2> QED BY <2>3
<1> QED BY <1>1, <1>2

\* An answer has no events.
LEMMA AnswerMore ==
  ASSUME NEW s \in Seq(OutMsg), NEW n, OnceIn(s), SplitIn(s, n), NEW m \in OutMsg, m.recs = {},
         m.type \in {"EOSE", "COUNT"} => {"EOSE", "COUNT"} \cap TypesOf(s) = {},
         NEW t, t = s \o <<m>>
  PROVE  /\ t \in Seq(OutMsg) /\ OnceIn(t) /\ SplitIn(t, n)
         /\ RecsOf(t) = RecsOf(s) /\ TypesOf(t) = TypesOf(s) \cup {m.type}
<1>1. RecsOf(s) \cap m.recs = {} /\ RecsOf(s) \cup m.recs = RecsOf(s)
      /\ \A r \in m.recs : r.levId > n <=> "EOSE" \in TypesOf(s)
  OBVIOUS
<1> QED BY <1>1, OneMore

-----------------------------------------------------------------------------
(* A subscription a step does not touch *)

\* What holds of it goes on to hold, though the database may move on and a
\* thread may begin or end a batch.
LEMMA Untouched ==
  ASSUME ReqType, CurrInv, [Next]_vars, ReqType',
         NEW g \in Gens, GenOk(g), subs'[g] = subs[g], out'[g] = out[g]
  PROVE  /\ OnceIn(out'[g]) /\ SplitIn(out'[g], subs'[g].start)
         /\ g \in Queued => QueuedOk(g)'
         /\ /\ g \in Range(running)
            /\ wpc' # "wait" => (wpc # "wait" /\ wtxn' = wtxn) \/ wtxn' = db
            => RunningOk(g)'
         /\ /\ g \in Handed
            /\ g \in NewIn(mb') => (g \in NewIn(mb) /\ mtxn' = mtxn) \/ mtxn' = db
            => HandedOk(g)'
         /\ g \in mons /\ curr' <= curr => MonOk(g)'
<1>0. /\ db \subseteq Recs /\ db' \subseteq Recs
      /\ MostRecentLevId(db) \in Nat /\ MostRecentLevId(db') \in Nat
      /\ MostRecentLevId(wtxn) \in Nat /\ MostRecentLevId(mtxn) \in Nat
      /\ \A r \in Recs : r.levId \in Nat
      /\ subs[g] \in SubType
  <2>1. db \in SUBSET Recs /\ db' \in SUBSET Recs /\ wtxn \in SUBSET Recs /\ mtxn \in SUBSET Recs
    BY DEF ReqType
  <2>2. \A r \in Recs : r.levId \in Nat
    BY DEF Recs
  <2>3. subs[g] \in SubType
    BY DEF ReqType, Gens
  <2> QED BY <2>1, <2>2, <2>3, MostRecent
<1>1. /\ MostRecentLevId(db) <= MostRecentLevId(db')
      /\ \A r \in db' : r \in db \/ r.levId > MostRecentLevId(db)
  BY DbAdvances
<1> DEFINE q == subs[g]
           o == out[g]
<1>2. q.latest \in Nat /\ q.start \in Nat /\ q.full \subseteq Nat /\ q.buf \subseteq Recs /\ q.fi \in Nat
  BY <1>0, ReqAssumption DEF SubType
<1>3. ASSUME StoredSent(g), q.start <= MostRecentLevId(db)
      PROVE  StoredSent(g)'
  <2>1. ASSUME ~q.cut, NEW r \in db', r.levId <= q.start, Matches(q.filters, r.ev)
        PROVE  r \in RecsOf(o)
    <3>1. r \in db
      BY <1>0, <1>1, <1>2, <1>3, <2>1
    <3> QED BY <1>3, <2>1, <3>1 DEF StoredSent
  <2> HIDE DEF q, o
  <2>2. ~q.count /\ "EOSE" \in TypesOf(o) /\ \A r \in RecsOf(o) : r.levId <= q.latest
    BY <1>3 DEF StoredSent, q, o
  <2>3. subs'[g] = q /\ out'[g] = o
    BY DEF q, o
  <2> QED BY <2>1, <2>2, <2>3 DEF StoredSent
<1>4. ASSUME g \in Range(running),
             wpc' # "wait" => (wpc # "wait" /\ wtxn' = wtxn) \/ wtxn' = db
      PROVE  RunningOk(g)'
  <2>1. RunningOk(g)
    BY <1>4 DEF GenOk
  <2>2. q.start <= MostRecentLevId(db') /\ (wpc' # "wait" => q.start <= MostRecentLevId(wtxn'))
    BY <1>0, <1>1, <1>2, <1>4, <2>1 DEF RunningOk
  <2>3. Same(q.buf, db') /\ \A r \in q.buf : r.levId <= MostRecentLevId(db')
    <3>1. Same(q.buf, db) /\ \A r \in q.buf : r.levId <= MostRecentLevId(db)
      BY <2>1 DEF RunningOk
    <3>2. Same(q.buf, db')
      BY <1>0, <1>1, <1>2, <3>1, EarlierKept
    <3> QED BY <1>0, <1>1, <1>2, <3>1, <3>2
  <2>4. \A r \in db' : r.levId <= q.start => r \in db
    BY <1>0, <1>1, <1>2, <2>1 DEF RunningOk
  <2>5. \A r \in db' : r.levId \in q.full => r \in db
    BY <1>0, <1>1, <1>2, <2>1, <2>4 DEF RunningOk
  <2>6. /\ q.latest = q.start /\ q.fi \in DOMAIN q.filters /\ q.cur \subseteq q.full
        /\ \A n \in q.full : n <= q.start
        /\ {"EOSE", "COUNT"} \cap TypesOf(o) = {}
        /\ \A r \in RecsOf(o) : r.levId \in q.full
    BY <2>1 DEF RunningOk
  <2>7. ~q.count => /\ \A r \in db : r.levId \in q.full => r \in RecsOf(o)
                    /\ ~q.cut => \A k \in 1..(q.fi - 1), r \in db :
                         r.levId <= q.start /\ r.ev \in q.filters[k].match => r \in RecsOf(o)
    BY <2>1 DEF RunningOk
  <2>8. subs'[g] = q /\ out'[g] = o
    OBVIOUS
  <2> HIDE DEF q, o
  <2>9. ~q.count => /\ \A r \in db' : r.levId \in q.full => r \in RecsOf(o)
                    /\ ~q.cut => \A k \in 1..(q.fi - 1), r \in db' :
                         r.levId <= q.start /\ r.ev \in q.filters[k].match => r \in RecsOf(o)
    BY <2>4, <2>5, <2>7
  <2> QED BY <2>2, <2>3, <2>6, <2>8, <2>9 DEF RunningOk
<1>5. ASSUME g \in Handed,
             g \in NewIn(mb') => (g \in NewIn(mb) /\ mtxn' = mtxn) \/ mtxn' = db
      PROVE  HandedOk(g)'
  <2>1. HandedOk(g)
    BY <1>5 DEF GenOk
  <2>2. StoredSent(g)'
    BY <1>3, <2>1 DEF HandedOk
  <2>3. q.start <= MostRecentLevId(db') /\ (g \in NewIn(mb') => q.start <= MostRecentLevId(mtxn'))
    BY <1>0, <1>1, <1>2, <1>5, <2>1 DEF HandedOk
  <2> QED BY <2>1, <2>2, <2>3 DEF HandedOk
<1>6. ASSUME g \in mons, curr' <= curr PROVE MonOk(g)'
  <2>1. MonOk(g) /\ curr <= MostRecentLevId(db) /\ curr \in Nat /\ curr' \in Nat
    BY <1>6 DEF GenOk, CurrInv, ReqType
  <2>2. StoredSent(g)'
    BY <1>0, <1>2, <1>3, <2>1 DEF MonOk
  <2>3. ASSUME NEW r \in db', r.levId > q.start, Matches(q.filters, r.ev),
               r.levId <= q.latest \/ r.levId <= curr'
        PROVE  r \in RecsOf(o)
    <3>1. r \in db /\ (r.levId <= q.latest \/ r.levId <= curr)
      BY <1>0, <1>1, <1>2, <1>6, <2>1, <2>3 DEF MonOk
    <3> QED BY <2>1, <2>3, <3>1 DEF MonOk
  <2>4. q.start <= q.latest /\ q.latest <= MostRecentLevId(db')
    BY <1>0, <1>1, <1>2, <2>1 DEF MonOk
  <2>8. subs'[g] = q /\ out'[g] = o
    OBVIOUS
  <2> HIDE DEF q, o
  <2> QED BY <2>2, <2>3, <2>4, <2>8 DEF MonOk
<1> QED BY <1>4, <1>5, <1>6 DEF GenOk, QueuedOk

-----------------------------------------------------------------------------
(* The subscription a step is about *)

\* QueryScheduler::addSub: the query begins, and its latestEventId is that of
\* the worker's snapshot.
LEMMA AddEffect ==
  ASSUME ReqType, PlaceInv, SnapInv, GenInv, WorkerAdd, NEW g, g = Head(wb).gen
  PROVE  GenOk(g)' /\ \A h \in Gens \ {g} : subs'[h] = subs[h] /\ out'[h] = out[h]
<1> USE DEF store, worker, monitor, client
<1>1. /\ g \in Gens /\ g \in Nat
      /\ NewIn(wb) = NewIn(wb') \cup {g} /\ g \notin NewIn(wb')
      /\ g \in Queued /\ g \notin Range(running) /\ g \notin Handed \cup mons
      /\ Range(<<g>> \o running) = Range(running) \cup {g}
  BY AddMoves
<1>2. UNCHANGED <<wq, mq, mb, mons, db, wtxn>> /\ wpc' = "slice"
  BY DEF WorkerAdd
<1>3. g \notin Queued' /\ g \notin Handed' /\ g \notin mons'
  BY <1>1, <1>2 DEF Queued, Handed, PlaceInv
<1>4. QueuedOk(g) /\ subs[g] \in SubType /\ g \in DOMAIN subs /\ g \in DOMAIN out
  BY <1>1, SMTT(30) DEF GenInv, GenOk, Gens, ReqType
<1> DEFINE M == MostRecentLevId(wtxn)
           q == subs'[g]
<1>5. /\ q = [subs[g] EXCEPT !.latest = M, !.start = M]
      /\ \A h \in Gens \ {g} : subs'[h] = subs[h]
  BY <1>1, <1>4 DEF WorkerAdd, SubType, ReqType, Gens
<1>6. /\ q.latest = M /\ q.start = M /\ q.fi = 1 /\ q.full = {} /\ q.cur = {} /\ q.buf = {}
      /\ q.filters \in Seq(Filter) /\ q.filters # <<>>
  <2>1. subs[g].fi = 1 /\ subs[g].full = {} /\ subs[g].cur = {} /\ subs[g].buf = {}
    BY <1>4 DEF QueuedOk
  <2> HIDE DEF q, M
  <2> QED BY <1>4, <1>5, <2>1 DEF SubType
<1>7. /\ \A h \in Gens \ {g} : out'[h] = out[h]
      /\ \/ out'[g] = <<>>
         \/ out'[g] = <<>> \o Answer("NOTICE") /\ running' = running
  <2>1. out[g] = <<>> /\ out \in Seq(Seq(OutMsg)) /\ Gens = DOMAIN out /\ g \in DOMAIN out
    BY <1>4 DEF QueuedOk, ReqType, Gens
  <2>2. \/ out' = out
        \/ out' = [out EXCEPT ![g] = @ \o Answer("NOTICE")] /\ running' = running
    BY DEF WorkerAdd
  <2> QED BY <2>1, <2>2
<1>8. /\ OnceIn(<<>>) /\ SplitIn(<<>>, M) /\ RecsOf(<<>>) = {} /\ TypesOf(<<>>) = {}
      /\ <<>> \in Seq(OutMsg)
  BY DEF OnceIn, SplitIn, RecsOf, TypesOf
<1>9. OnceIn(out'[g]) /\ SplitIn(out'[g], q.start)
  <2> DEFINE m == [type |-> "NOTICE", recs |-> {}]
  <2>1. m \in OutMsg /\ m.recs = {} /\ m.type = "NOTICE" /\ Answer("NOTICE") = <<m>>
    BY DEF OutMsg, Answer
  <2> HIDE DEF m, M, q
  <2>2. CASE out'[g] = <<>>
    BY <1>6, <1>8, <2>2
  <2>3. CASE out'[g] = <<>> \o Answer("NOTICE")
    <3>1. PICK s \in Seq(OutMsg) : s = <<>>
      BY <1>8
    <3>2. out'[g] = s \o <<m>> /\ OnceIn(s) /\ SplitIn(s, M)
      BY <1>8, <2>1, <2>3, <3>1
    <3>3. OnceIn(out'[g]) /\ SplitIn(out'[g], M)
      BY <2>1, <3>2, AnswerMore
    <3> QED BY <1>6, <3>3
  <2> QED BY <1>7, <2>2, <2>3
<1>10. ASSUME g \in Range(running') PROVE RunningOk(g)'
  <2>1. out'[g] = <<>>
    BY <1>1, <1>7, <1>10
  <2>2. M <= MostRecentLevId(db)
    BY EarlierNow DEF SnapInv, ReqType
  <2>3. q.fi \in DOMAIN q.filters
    BY <1>6
  <2>4. \A k \in 1..(q.fi - 1) : FALSE
    BY <1>6
  <2>5. Same(q.buf, db) /\ q.start <= MostRecentLevId(wtxn)
    <3>1. M \in Nat
      BY MostRecent DEF ReqType
    <3> QED BY <1>6, <3>1 DEF Same
  <2> HIDE DEF q, M
  <2>6. q = subs'[g] /\ db' = db /\ wtxn' = wtxn
    BY <1>2 DEF q
  <2> QED BY <1>6, <1>8, <2>1, <2>2, <2>3, <2>4, <2>5, <2>6 DEF RunningOk
<1> QED BY <1>3, <1>5, <1>7, <1>9, <1>10 DEF GenOk

\* ReqMonitor's NewSub: what came in since the query began is sent.
LEMMA MonAddEffect ==
  ASSUME ReqType, PlaceInv, SnapInv, GenInv, CurrInv, MonAdd, NEW g, g = Head(mb).gen
  PROVE  GenOk(g)' /\ \A h \in Gens \ {g} : subs'[h] = subs[h] /\ out'[h] = out[h]
<1> USE DEF store, worker, monitor, client
<1>1. /\ g \in Gens /\ g \in Nat
      /\ NewIn(mb) = NewIn(mb') \cup {g} /\ g \notin NewIn(mb')
      /\ g \in Handed /\ g \notin Queued \cup Range(running) \cup mons /\ g \notin NewIn(mq)
  BY MonAddMoves
<1>2. UNCHANGED <<wq, wb, mq, running, db, curr>> /\ mpc = "batch"
  BY DEF MonAdd
<1>3. g \notin Queued' /\ g \notin Handed' /\ g \notin Range(running')
  BY <1>1, <1>2 DEF Queued, Handed
<1>4. HandedOk(g) /\ subs[g] \in SubType /\ out[g] \in Seq(OutMsg)
      /\ g \in DOMAIN subs /\ g \in DOMAIN out
      /\ OnceIn(out[g]) /\ SplitIn(out[g], subs[g].start)
  <2>1. HandedOk(g) /\ OnceIn(out[g]) /\ SplitIn(out[g], subs[g].start)
    BY <1>1 DEF GenInv, GenOk
  <2>2. g \in DOMAIN subs /\ g \in DOMAIN out
    BY <1>1 DEF Gens, ReqType
  <2> QED BY <2>1, <2>2 DEF ReqType
<1> DEFINE M == MostRecentLevId(mtxn)
           q == subs[g]
           missed == {r \in mtxn : r.levId > q.latest /\ Matches(q.filters, r.ev)}
           t == out[g] \o Sent(missed)
           m == [type |-> "NOTICE", recs |-> {}]
<1>5. /\ subs'[g] = [q EXCEPT !.latest = M]
      /\ \A h \in Gens \ {g} : subs'[h] = subs[h]
  BY <1>1, <1>4 DEF MonAdd, SubType, ReqType, Gens
<1>6. /\ \A h \in Gens \ {g} : out'[h] = out[h]
      /\ out'[g] = t \/ out'[g] = t \o <<m>>
  <2>1. t \in Seq(OutMsg) /\ t \o <<>> = t
    <3>1. missed \subseteq Recs
      BY DEF ReqType
    <3>2. Sent(missed) \in Seq(OutMsg)
      BY <3>1, MadeTypes
    <3>3. t \in Seq(OutMsg)
      BY <1>4, <3>2
    <3> HIDE DEF t
    <3> QED BY <3>3
  <2>2. \E x \in {<<>>, <<m>>} : out' = [out EXCEPT ![g] = t \o x]
    BY DEF MonAdd, Answer
  <2>3. out' = [out EXCEPT ![g] = t] \/ out' = [out EXCEPT ![g] = t \o <<m>>]
    BY <2>1, <2>2
  <2>4. Gens = DOMAIN out
    BY DEF Gens, ReqType
  <2> HIDE DEF t, m
  <2> QED BY <1>4, <2>3, <2>4
<1>7. /\ missed \in SUBSET Recs /\ M \in Nat /\ MostRecentLevId(db) \in Nat /\ M <= MostRecentLevId(db)
      /\ q.latest \in Nat /\ q.start \in Nat /\ \A r \in Recs : r.levId \in Nat
      /\ \A r \in mtxn : r.levId <= M
  <2>1. mtxn \in SUBSET Recs /\ db \in SUBSET Recs /\ Earlier(mtxn, db)
    BY DEF ReqType, SnapInv
  <2>2. q.latest \in Nat /\ q.start \in Nat
    BY <1>4, ReqAssumption DEF SubType
  <2>3. \A r \in Recs : r.levId \in Nat
    BY DEF Recs
  <2> QED BY <2>1, <2>2, <2>3, MostRecent, EarlierNow
<1>8. /\ q.latest = q.start /\ q.start <= M /\ "EOSE" \in TypesOf(out[g]) /\ ~q.count
      /\ \A r \in RecsOf(out[g]) : r.levId <= q.latest
      /\ ~q.cut => \A r \in db :
           r.levId <= q.start /\ Matches(q.filters, r.ev) => r \in RecsOf(out[g])
  BY <1>1, <1>4 DEF HandedOk, StoredSent
<1>9. /\ t \in Seq(OutMsg) /\ OnceIn(t) /\ SplitIn(t, q.start) /\ RecsOf(t) = RecsOf(out[g]) \cup missed
      /\ {"EOSE", "COUNT"} \cap TypesOf(t) = {"EOSE", "COUNT"} \cap TypesOf(out[g])
  <2>1. RecsOf(out[g]) \cap missed = {}
    BY <1>7, <1>8
  <2>2. \A r \in missed : r.levId > q.start <=> "EOSE" \in TypesOf(out[g])
    BY <1>8
  <2>3. PICK s \in Seq(OutMsg), n \in {q.start} : s = out[g] /\ n = q.start
    BY <1>4
  <2>4. t = s \o Sent(missed)
    BY <2>3
  <2> HIDE DEF q, missed, t
  <2>5. OnceIn(s) /\ SplitIn(s, n) /\ missed \in SUBSET Recs
    BY <1>4, <1>7, <2>3 DEF q
  <2>6. RecsOf(s) \cap missed = {} /\ \A r \in missed : r.levId > n <=> "EOSE" \in TypesOf(s)
    BY <2>1, <2>2, <2>3
  <2>7. /\ t \in Seq(OutMsg) /\ OnceIn(t) /\ SplitIn(t, n) /\ RecsOf(t) = RecsOf(s) \cup missed
        /\ {"EOSE", "COUNT"} \cap TypesOf(t) = {"EOSE", "COUNT"} \cap TypesOf(s)
    BY <2>4, <2>5, <2>6, SentMore
  <2> QED BY <2>3, <2>7
<1>10. /\ OnceIn(out'[g]) /\ SplitIn(out'[g], q.start)
       /\ RecsOf(out'[g]) = RecsOf(out[g]) \cup missed
       /\ "EOSE" \in TypesOf(out'[g])
  <2>1. m \in OutMsg /\ m.recs = {} /\ m.type = "NOTICE"
    BY DEF OutMsg
  <2>2. "EOSE" \in TypesOf(t)
    BY <1>8, <1>9
  <2> HIDE DEF m, q, missed, t
  <2>3. CASE out'[g] = t
    BY <1>9, <2>2, <2>3
  <2>4. CASE out'[g] = t \o <<m>>
    <3>1. PICK s \in Seq(OutMsg), n \in {q.start} : s = t /\ n = q.start
      BY <1>9
    <3>2. OnceIn(s) /\ SplitIn(s, n) /\ out'[g] = s \o <<m>>
      BY <1>9, <2>4, <3>1
    <3>3. /\ OnceIn(out'[g]) /\ SplitIn(out'[g], n)
          /\ RecsOf(out'[g]) = RecsOf(s) /\ TypesOf(out'[g]) = TypesOf(s) \cup {m.type}
      BY <2>1, <3>2, AnswerMore
    <3> QED BY <1>9, <2>2, <3>1, <3>3
  <2> QED BY <1>6, <2>3, <2>4
<1>11. /\ subs'[g].latest = M /\ subs'[g].start = q.start /\ subs'[g].filters = q.filters
       /\ subs'[g].count = q.count /\ subs'[g].cut = q.cut
  BY <1>4, <1>5 DEF SubType
<1>12. MonOk(g)'
  <2>1. \A r \in RecsOf(out'[g]) : r.levId <= M
    <3>1. \A r \in RecsOf(out[g]) : r.levId \in Nat
      BY <1>4 DEF RecsOf, OutMsg, Recs
    <3> QED BY <1>7, <1>8, <1>10, <3>1
  <2>2. ASSUME NEW r \in db, r.levId > q.start, Matches(q.filters, r.ev),
               r.levId <= M \/ r.levId <= curr
        PROVE  r \in RecsOf(out'[g])
    <3>1. curr <= M /\ curr \in Nat /\ r.levId \in Nat
      BY <1>2, <1>7 DEF CurrInv, ReqType
    <3>2. r.levId <= M
      BY <1>7, <2>2, <3>1
    <3>3. r \in mtxn
      BY <3>2 DEF SnapInv, Earlier
    <3>4. r \in missed
      BY <1>8, <2>2, <3>3
    <3> QED BY <1>10, <3>4
  <2>3. ~q.cut => \A r \in db :
           r.levId <= q.start /\ Matches(q.filters, r.ev) => r \in RecsOf(out'[g])
    BY <1>8, <1>10
  <2> HIDE DEF M, q, missed
  <2>4. StoredSent(g)'
    BY <1>2, <1>8, <1>10, <1>11, <2>1, <2>3 DEF StoredSent
  <2> QED BY <1>2, <1>7, <1>8, <1>11, <2>2, <2>4 DEF MonOk
<1> QED BY <1>3, <1>5, <1>6, <1>10, <1>11, <1>12 DEF GenOk

\* ReqMonitor's DBChange: every monitor is sent what it has not seen.
LEMMA ChangeEffect ==
  ASSUME ReqType, PlaceInv, SnapInv, GenInv, CurrInv, MonDBChange, NEW g \in mons
  PROVE  GenOk(g)'
<1> USE DEF store, worker, monitor, client
<1>1. /\ g \in Gens /\ g \notin Queued \cup Range(running) \cup Handed
      /\ mb \in Seq(Msg) /\ mb # <<>> /\ Head(mb).type = "DBChange" /\ mb' = Tail(mb)
  BY DEF PlaceInv, MonDBChange, MonDone, ReqType
<1>2. /\ UNCHANGED <<wq, wb, mq, running, db, mons>>
      /\ mpc = "batch" /\ curr' = MostRecentLevId(mtxn)
  BY DEF MonDBChange
<1>3. g \notin Queued' /\ g \notin Handed' /\ g \notin Range(running')
  <2>1. NewIn(mb') = NewIn(mb)
    BY <1>1, TailMsg
  <2> QED BY <1>1, <1>2, <2>1 DEF Queued, Handed
<1>4. /\ MonOk(g) /\ OnceIn(out[g]) /\ SplitIn(out[g], subs[g].start)
      /\ subs[g] \in SubType /\ out[g] \in Seq(OutMsg) /\ g \in DOMAIN subs /\ g \in DOMAIN out
  <2>1. MonOk(g) /\ OnceIn(out[g]) /\ SplitIn(out[g], subs[g].start)
    BY <1>1 DEF GenInv, GenOk
  <2>2. g \in DOMAIN subs /\ g \in DOMAIN out
    BY <1>1 DEF Gens, ReqType
  <2> QED BY <2>1, <2>2 DEF ReqType
<1> DEFINE M == MostRecentLevId(mtxn)
           P == Pending(g)
           q == subs[g]
           l == IF P = {} THEN q.latest ELSE MostRecentLevId(P)
           t == out[g] \o Sent(P)
<1>5. /\ subs'[g].latest = l /\ subs'[g].start = q.start /\ subs'[g].filters = q.filters
      /\ subs'[g].count = q.count /\ subs'[g].cut = q.cut
  <2>1. CASE P = {}
    BY <1>4, <2>1 DEF MonDBChange
  <2>2. CASE P # {}
    <3>1. subs'[g] = [q EXCEPT !.latest = MostRecentLevId(P)]
      BY <1>4, <2>2 DEF MonDBChange
    <3> HIDE DEF q
    <3> QED BY <1>4, <2>2, <3>1 DEF SubType, q
  <2> QED BY <2>1, <2>2
<1>6. out'[g] = t
  BY <1>4 DEF MonDBChange
<1>7. /\ mtxn \in SUBSET Recs /\ db \in SUBSET Recs /\ P \in SUBSET Recs /\ P \subseteq mtxn
      /\ M \in Nat /\ MostRecentLevId(db) \in Nat /\ M <= MostRecentLevId(db)
      /\ q.latest \in Nat /\ q.start \in Nat /\ \A r \in Recs : r.levId \in Nat
      /\ \A r \in mtxn : r.levId <= M
  <2>1. mtxn \in SUBSET Recs /\ db \in SUBSET Recs /\ Earlier(mtxn, db) /\ P \subseteq mtxn
    BY DEF ReqType, SnapInv, Pending
  <2>2. q.latest \in Nat /\ q.start \in Nat
    BY <1>4, ReqAssumption DEF SubType
  <2>3. \A r \in Recs : r.levId \in Nat
    BY DEF Recs
  <2> HIDE DEF P
  <2> QED BY <2>1, <2>2, <2>3, MostRecent, EarlierNow
<1>8. /\ q.start <= q.latest /\ q.latest <= MostRecentLevId(db)
      /\ "EOSE" \in TypesOf(out[g]) /\ ~q.count
      /\ \A r \in RecsOf(out[g]) : r.levId <= q.latest
      /\ ~q.cut => \A r \in db :
           r.levId <= q.start /\ Matches(q.filters, r.ev) => r \in RecsOf(out[g])
  BY <1>4 DEF MonOk, StoredSent
<1>9. P = {r \in mtxn : r.levId > curr /\ r.levId > q.latest /\ Matches(q.filters, r.ev)}
  BY DEF Pending
<1>10. /\ l \in Nat /\ q.latest <= l /\ l <= MostRecentLevId(db)
       /\ (\A r \in P : r.levId <= l) /\ (l = q.latest \/ l <= M)
  <2>1. CASE P = {}
    BY <1>7, <1>8, <2>1
  <2>2. CASE P # {}
    <3> HIDE DEF P
    <3>1. /\ l \in Nat /\ (\A r \in P : r.levId <= l) /\ l \in LevIds(P) \cup {0}
      BY <1>7, <2>2, MostRecent
    <3>2. PICK x \in P : TRUE
      BY <2>2
    <3>3. x.levId > q.latest /\ x.levId \in Nat
      BY <1>7, <1>9
    <3>4. l # 0 /\ q.latest <= l
      BY <1>7, <3>1, <3>3
    <3>5. PICK y \in P : l = y.levId
      BY <3>1, <3>4 DEF LevIds
    <3>6. l <= M
      BY <1>7, <3>5
    <3> HIDE DEF l
    <3> QED BY <1>7, <3>1, <3>4, <3>6
  <2> QED BY <2>1, <2>2
<1>11. /\ OnceIn(out'[g]) /\ SplitIn(out'[g], q.start) /\ RecsOf(out'[g]) = RecsOf(out[g]) \cup P
       /\ "EOSE" \in TypesOf(out'[g])
  <2>1. RecsOf(out[g]) \cap P = {}
    BY <1>7, <1>8, <1>9
  <2>2. \A r \in P : r.levId > q.start <=> "EOSE" \in TypesOf(out[g])
    BY <1>7, <1>8, <1>9
  <2>3. PICK s \in Seq(OutMsg), n \in {q.start} : s = out[g] /\ n = q.start
    BY <1>4
  <2>4. t = s \o Sent(P)
    BY <2>3
  <2> HIDE DEF q, P, t
  <2>5. OnceIn(s) /\ SplitIn(s, n) /\ P \in SUBSET Recs
    BY <1>4, <1>7, <2>3 DEF q
  <2>6. RecsOf(s) \cap P = {} /\ \A r \in P : r.levId > n <=> "EOSE" \in TypesOf(s)
    BY <2>1, <2>2, <2>3
  <2>7. /\ t \in Seq(OutMsg) /\ OnceIn(t) /\ SplitIn(t, n) /\ RecsOf(t) = RecsOf(s) \cup P
        /\ {"EOSE", "COUNT"} \cap TypesOf(t) = {"EOSE", "COUNT"} \cap TypesOf(s)
    BY <2>4, <2>5, <2>6, SentMore
  <2> QED BY <1>6, <1>8, <2>3, <2>7
<1>12. MonOk(g)'
  <2>1. \A r \in RecsOf(out'[g]) : r.levId <= l
    <3>1. \A r \in RecsOf(out[g]) : r.levId \in Nat
      BY <1>4 DEF RecsOf, OutMsg, Recs
    <3> HIDE DEF l, P
    <3> QED BY <1>7, <1>8, <1>10, <1>11, <3>1
  <2>2. ASSUME NEW r \in db, r.levId > q.start, Matches(q.filters, r.ev),
               r.levId <= l \/ r.levId <= M
        PROVE  r \in RecsOf(out'[g])
    <3>1. CASE r.levId <= q.latest \/ r.levId <= curr
      <4>1. r \in RecsOf(out[g])
        BY <1>4, <2>2, <3>1 DEF MonOk
      <4> QED BY <1>11, <4>1
    <3>2. CASE ~(r.levId <= q.latest \/ r.levId <= curr)
      <4> HIDE DEF l, P
      <4>1. r.levId \in Nat /\ curr \in Nat
        BY <1>7 DEF ReqType
      <4>2. r.levId <= M /\ r.levId > curr /\ r.levId > q.latest
        BY <1>7, <1>10, <2>2, <3>2, <4>1
      <4>3. r \in mtxn
        BY <4>2 DEF SnapInv, Earlier
      <4>4. r \in P
        BY <1>9, <2>2, <4>2, <4>3
      <4> QED BY <1>11, <4>4
    <3> QED BY <3>1, <3>2
  <2>3. ~q.cut => \A r \in db :
           r.levId <= q.start /\ Matches(q.filters, r.ev) => r \in RecsOf(out'[g])
    BY <1>8, <1>11
  <2>5. q.start <= l
    <3> HIDE DEF l
    <3> QED BY <1>7, <1>8, <1>10
  <2> HIDE DEF M, q, P, l
  <2>4. StoredSent(g)'
    BY <1>2, <1>5, <1>8, <1>11, <2>1, <2>3 DEF StoredSent
  <2>6. curr' = M /\ db' = db
    BY <1>2 DEF M
  <2> QED BY <1>5, <1>10, <2>2, <2>4, <2>5, <2>6 DEF MonOk
<1> QED BY <1>3, <1>5, <1>11, <1>12 DEF GenOk

\* A slice sends what its scan found first; with the last filter EOSE or the
\* count follows and the subscription goes to the monitor.
LEMMA SliceEffect ==
  ASSUME ReqType, PlaceInv, SnapInv, GenInv, NEW S, SliceQuery(S), NEW g, g = Head(running)
  PROVE  GenOk(g)' /\ \A h \in Gens \ {g} : subs'[h] = subs[h] /\ out'[h] = out[h]
<1> USE DEF store, worker, monitor, client
<1>1. /\ g \in Nat /\ g \in Gens /\ g \in Range(running) /\ g \notin Queued \cup Handed \cup mons
      /\ Range(Tail(running)) = Range(running) \ {g}
      /\ NewIn(Append(mq, NewSub(g))) = NewIn(mq) \cup {g}
  BY SliceMoves
<1>2. S \subseteq Recs /\ subs[g].full \cup LevIds(S) \subseteq 0..MaxU64
  BY SliceType
<1>3. /\ UNCHANGED <<wb, wq, mb, mons, db, mtxn>>
      /\ wpc # "wait"
      /\ wpc' # "wait" => wtxn' = wtxn
  BY DEF SliceQuery, SliceDue, SliceDone
<1>4. /\ RunningOk(g) /\ OnceIn(out[g]) /\ SplitIn(out[g], subs[g].start)
      /\ subs[g] \in SubType /\ out[g] \in Seq(OutMsg) /\ g \in DOMAIN subs /\ g \in DOMAIN out
  <2>1. RunningOk(g) /\ OnceIn(out[g]) /\ SplitIn(out[g], subs[g].start)
    BY <1>1 DEF GenInv, GenOk
  <2>2. g \in DOMAIN subs /\ g \in DOMAIN out
    BY <1>1 DEF Gens, ReqType
  <2> QED BY <2>1, <2>2 DEF ReqType
<1> DEFINE q     == subs[g]
           f     == q.filters[q.fi]
           cur   == q.cur \cup LevIds(S)
           done  == \/ f.limit = 0
                    \/ Cardinality(cur) >= f.limit
                    \/ (Due(q, f) \cap wtxn) \subseteq S
           complete == done /\ q.fi = Len(q.filters)
           fresh == {r \in S \cap wtxn : r.levId \notin q.full}
           full  == q.full \cup LevIds(S)
           new   == Sliced(q, S)
           n     == subs'[g]
           sent  == IF q.count THEN {} ELSE fresh
           t     == out[g] \o Sent(sent)
<1>5. /\ \A h \in Gens \ {g} : subs'[h] = subs[h] /\ out'[h] = out[h]
      /\ n = new
  <2>1. subs' = [subs EXCEPT ![g] = new]
    BY SliceType
  <2>2. \E x : out' = [out EXCEPT ![g] = x]
    BY DEF SliceQuery
  <2>3. Gens = DOMAIN subs /\ Gens = DOMAIN out
    BY DEF Gens, ReqType
  <2> HIDE DEF new
  <2> QED BY <1>1, <2>1, <2>2, <2>3
<1>6. /\ n.latest = q.latest /\ n.start = q.start /\ n.filters = q.filters /\ n.count = q.count
      /\ n.full = full
      /\ n.cur = (IF done THEN {} ELSE cur)
      /\ n.fi = (IF done /\ ~complete THEN q.fi + 1 ELSE q.fi)
      /\ n.buf \subseteq Due(q, f)
      /\ n.cut = (q.cut \/ (done /\ Cardinality(cur) >= f.limit))
  <2>1. n = [q EXCEPT !.full = full,
                      !.cur = IF done THEN {} ELSE cur,
                      !.fi = IF done /\ ~complete THEN @ + 1 ELSE @,
                      !.buf = IF done THEN {} ELSE {r \in Due(q, f) : r.levId \notin cur},
                      !.cut = @ \/ (done /\ Cardinality(cur) >= f.limit),
                      !.pauses = IF done THEN @ ELSE @ + 1]
    BY <1>5 DEF Sliced
  <2> HIDE DEF q, f, cur, done, complete, full, n
  <2> QED BY <1>4, <2>1 DEF SubType, q
<1>7. \/ complete /\ out'[g] = t \o Ending(q, full)
      \/ ~complete /\ out'[g] = t
  <2>1. out'[g] = out[g] \o (IF q.count THEN <<>> ELSE Sent(fresh))
                         \o (IF complete THEN Ending(q, full) ELSE <<>>)
    BY <1>4 DEF SliceQuery
  <2>2. (IF q.count THEN <<>> ELSE Sent(fresh)) = Sent(sent)
    BY DEF Sent
  <2>3. t \in Seq(OutMsg)
    <3>1. Sent(sent) \in Seq(OutMsg)
      BY <1>2, MadeTypes
    <3> HIDE DEF sent
    <3> QED BY <1>4, <3>1
  <2>4. out'[g] = t \o (IF complete THEN Ending(q, full) ELSE <<>>)
    BY <2>1, <2>2
  <2> HIDE DEF t, complete
  <2> QED BY <2>3, <2>4
<1>8. /\ complete => /\ g \notin Range(running')
                     /\ NewIn(mq') = NewIn(mq) \cup (IF q.count THEN {} ELSE {g})
      /\ ~complete => mq' = mq
  <2>1. complete => running' = Tail(running) /\ mq' = IF q.count THEN mq ELSE Append(mq, NewSub(g))
    BY DEF SliceQuery
  <2>2. ~complete => mq' = mq
    BY DEF SliceQuery
  <2> HIDE DEF complete
  <2> QED BY <1>1, <2>1, <2>2
<1>9. /\ S \subseteq Due(q, f)
      /\ Due(q, f) = {r \in wtxn \cup q.buf : /\ r.ev \in f.match
                                              /\ r.levId <= q.latest
                                              /\ r.levId \notin q.cur}
  BY DEF SliceQuery, Due
<1>10. /\ db \subseteq Recs /\ wtxn \subseteq Recs /\ q.buf \subseteq Recs
       /\ q.start \in Nat /\ q.latest \in Nat /\ q.fi \in Nat
       /\ MostRecentLevId(wtxn) \in Nat /\ MostRecentLevId(db) \in Nat
       /\ f \in Filter /\ Cardinality(cur) \in Nat
       /\ (\A r \in Recs : r.levId \in Nat)
       /\ \A x \in full : x \in Nat
  <2>1. db \in SUBSET Recs /\ wtxn \in SUBSET Recs
    BY DEF ReqType
  <2>2. q.start \in Nat /\ q.latest \in Nat /\ q.fi \in Nat /\ q.buf \subseteq Recs
    BY <1>4, ReqAssumption DEF SubType
  <2>3. f \in Filter
    BY <1>4 DEF RunningOk, SubType
  <2>4. Cardinality(cur) \in Nat
    <3>1. cur \subseteq 0..MaxU64
      BY <1>2, <1>4 DEF SubType
    <3>2. IsFiniteSet(0..MaxU64)
      BY FS_Interval, ReqAssumption
    <3> HIDE DEF cur
    <3> QED BY <3>1, <3>2, FS_Subset, FS_CardinalityType
  <2>5. \A r \in Recs : r.levId \in Nat
    BY DEF Recs
  <2>6. \A x \in full : x \in Nat
    BY <1>2
  <2>7. MostRecentLevId(wtxn) \in Nat /\ MostRecentLevId(db) \in Nat
    BY <2>1, MostRecent
  <2> QED BY <2>1, <2>2, <2>3, <2>4, <2>5, <2>6, <2>7
<1>11. /\ q.latest = q.start /\ q.start <= MostRecentLevId(db) /\ q.start <= MostRecentLevId(wtxn)
       /\ Same(q.buf, db) /\ \A r \in q.buf : r.levId <= MostRecentLevId(db)
       /\ q.fi \in DOMAIN q.filters /\ q.cur \subseteq q.full /\ \A x \in q.full : x <= q.start
       /\ {"EOSE", "COUNT"} \cap TypesOf(out[g]) = {}
       /\ \A r \in RecsOf(out[g]) : r.levId \in q.full
       /\ ~q.count => /\ \A r \in db : r.levId \in q.full => r \in RecsOf(out[g])
                      /\ ~q.cut => \A k \in 1..(q.fi - 1), r \in db :
                           r.levId <= q.start /\ r.ev \in q.filters[k].match => r \in RecsOf(out[g])
  BY <1>3, <1>4 DEF RunningOk
<1>12. \A r \in db : r.levId <= q.start => r \in wtxn
  BY <1>10, <1>11 DEF SnapInv, Earlier
<1>13. \A x \in full : x <= q.start
  BY <1>9, <1>11 DEF LevIds
<1>14. /\ t \in Seq(OutMsg) /\ OnceIn(t) /\ SplitIn(t, q.start)
       /\ RecsOf(t) = RecsOf(out[g]) \cup sent
       /\ {"EOSE", "COUNT"} \cap TypesOf(t) = {}
  <2>1. RecsOf(out[g]) \cap sent = {}
    BY <1>11
  <2>2. \A r \in sent : r.levId > q.start <=> "EOSE" \in TypesOf(out[g])
    <3>1. \A r \in sent : r.levId <= q.start /\ r.levId \in Nat
      BY <1>2, <1>9, <1>10, <1>11
    <3> QED BY <1>10, <1>11, <3>1
  <2>3. PICK s \in Seq(OutMsg), a \in {q.start} : s = out[g] /\ a = q.start
    BY <1>4
  <2>4. t = s \o Sent(sent) /\ sent \in SUBSET Recs
    BY <1>2, <2>3
  <2> HIDE DEF q, sent, t
  <2>5. OnceIn(s) /\ SplitIn(s, a)
    BY <1>4, <2>3 DEF q
  <2>6. RecsOf(s) \cap sent = {} /\ \A r \in sent : r.levId > a <=> "EOSE" \in TypesOf(s)
    BY <2>1, <2>2, <2>3
  <2>7. /\ t \in Seq(OutMsg) /\ OnceIn(t) /\ SplitIn(t, a) /\ RecsOf(t) = RecsOf(s) \cup sent
        /\ {"EOSE", "COUNT"} \cap TypesOf(t) = {"EOSE", "COUNT"} \cap TypesOf(s)
    BY <2>4, <2>5, <2>6, SentMore
  <2> QED BY <1>11, <2>3, <2>7
<1>15. \A r \in RecsOf(t) : r.levId \in full
  BY <1>11, <1>14 DEF LevIds
<1>16. ASSUME ~q.count, NEW r \in db, r.levId \in full PROVE r \in RecsOf(t)
  <2>1. CASE r.levId \in q.full
    BY <1>11, <1>14, <1>16, <2>1
  <2>2. CASE r.levId \notin q.full
    <3>1. PICK x \in S : x.levId = r.levId
      BY <1>16, <2>2 DEF LevIds
    <3>2. x = r
      BY <1>9, <1>11, <3>1 DEF SnapInv, Same
    <3>3. r \in wtxn
      BY <1>12, <1>13, <1>16
    <3> QED BY <1>14, <1>16, <2>2, <3>2, <3>3
  <2> QED BY <2>1, <2>2
<1>17. ASSUME ~q.count, done, ~n.cut, NEW r \in db, r.levId <= q.start, r.ev \in f.match
       PROVE  r \in RecsOf(t)
  <2>1. (Due(q, f) \cap wtxn) \subseteq S
    <3>1. ~(Cardinality(cur) >= f.limit)
      <4> HIDE DEF q, cur, f, n, done
      <4> QED BY <1>6, <1>17
    <3>2. f.limit \in Nat /\ Cardinality(cur) \in Nat
      BY <1>10 DEF Filter
    <3> HIDE DEF q, cur, f, n
    <3> QED BY <1>17, <3>1, <3>2
  <2>2. r \in wtxn
    BY <1>12, <1>17
  <2>3. r.levId \in full
    <3>1. CASE r.levId \in q.cur
      BY <1>11, <3>1
    <3>2. CASE r.levId \notin q.cur
      BY <1>9, <1>11, <1>17, <2>1, <2>2, <3>2 DEF LevIds
    <3> QED BY <3>1, <3>2
  <2> QED BY <1>16, <1>17, <2>3
<1>18. ASSUME ~q.count, ~n.cut, NEW k \in 1..q.fi, k = q.fi => done,
              NEW r \in db, r.levId <= q.start, r.ev \in q.filters[k].match
       PROVE  r \in RecsOf(t)
  <2>1. CASE k = q.fi
    BY <1>17, <1>18, <2>1
  <2>2. CASE k # q.fi
    <3>1. k \in 1..(q.fi - 1) /\ ~q.cut
      <4> HIDE DEF q, n, done, f, cur
      <4>1. ~q.cut
        BY <1>6, <1>18
      <4>2. k \in 1..(q.fi - 1)
        BY <1>10, <1>18, <2>2
      <4> QED BY <4>1, <4>2
    <3> QED BY <1>11, <1>14, <1>18, <3>1
  <2> QED BY <2>1, <2>2
<1>19. CASE ~complete
  <2>1. out'[g] = t /\ mq' = mq
    BY <1>7, <1>8, <1>19
  <2>2. g \notin Queued' /\ g \notin Handed' /\ g \notin mons'
    BY <1>1, <1>3, <2>1 DEF Queued, Handed
  <2>3. n.fi \in DOMAIN n.filters
    <3>1. q.filters \in Seq(Filter)
      BY <1>4 DEF SubType
    <3>2. q.fi \in 1..Len(q.filters) /\ Len(q.filters) \in Nat
      BY <1>11, <3>1
    <3>3. DOMAIN n.filters = 1..Len(q.filters)
      <4> HIDE DEF q, n, done, f, cur, full, complete
      <4> QED BY <1>6, <3>1
    <3> HIDE DEF q, n, done, f, cur
    <3> QED BY <1>6, <1>10, <1>19, <3>2, <3>3
  <2>4. n.cur \subseteq n.full /\ \A x \in n.full : x <= n.start
    BY <1>6, <1>11, <1>13
  <2>5. Same(n.buf, db) /\ \A r \in n.buf : r.levId <= MostRecentLevId(db)
    <3>1. \A r \in wtxn \cup q.buf : r.levId <= MostRecentLevId(db)
      BY <1>11 DEF SnapInv, Earlier
    <3>2. Same(wtxn \cup q.buf, db)
      BY <1>11 DEF SnapInv, Same
    <3>3. n.buf \subseteq wtxn \cup q.buf
      BY <1>6, <1>9
    <3> QED BY <3>1, <3>2, <3>3 DEF Same
  <2>6. ASSUME ~n.count, ~n.cut, NEW k \in 1..(n.fi - 1), NEW r \in db,
               r.levId <= n.start, r.ev \in n.filters[k].match
        PROVE  r \in RecsOf(t)
    <3>1. k \in 1..q.fi /\ (k = q.fi => done)
      <4> HIDE DEF q, n, done, f, cur
      <4> QED BY <1>6, <1>10, <2>6
    <3> QED BY <1>6, <1>18, <2>6, <3>1
  <2>7. ASSUME ~n.count, NEW r \in db, r.levId \in n.full PROVE r \in RecsOf(t)
    BY <1>6, <1>16, <2>7
  <2>8. RunningOk(g)'
    <3>1. db' = db /\ subs'[g] = n /\ out'[g] = t /\ (wpc' # "wait" => wtxn' = wtxn)
      BY <1>3, <2>1
    <3>2. n.latest = n.start /\ n.start <= MostRecentLevId(db) /\ n.start <= MostRecentLevId(wtxn)
      BY <1>6, <1>11
    <3>3. \A r \in RecsOf(t) : r.levId \in n.full
      BY <1>6, <1>15
    <3> HIDE DEF q, n, done, f, cur, full, t
    <3> QED BY <1>14, <2>3, <2>4, <2>5, <2>6, <2>7, <3>1, <3>2, <3>3 DEF RunningOk
  <2> HIDE DEF q, n, done, f, cur, full, t, complete
  <2>9. OnceIn(out'[g]) /\ SplitIn(out'[g], subs'[g].start)
    BY <1>6, <1>14, <2>1 DEF n
  <2> QED BY <1>5, <2>2, <2>8, <2>9 DEF GenOk
<1>20. CASE complete
  <2>1. g \notin Queued' /\ g \notin Range(running') /\ g \notin mons'
    BY <1>1, <1>3, <1>8, <1>20 DEF Queued
  <2>2. g \in Handed' => ~q.count
    BY <1>1, <1>3, <1>8, <1>20 DEF Handed
  <2>3. PICK m \in OutMsg : /\ Ending(q, full) = <<m>> /\ m.recs = {}
                            /\ m.type = (IF q.count THEN "COUNT" ELSE "EOSE")
    <3>1. Ending(q, full) \in Seq(OutMsg)
      BY <1>2, <1>4, MadeTypes
    <3>2. \E m : /\ Ending(q, full) = <<m>> /\ m.recs = {}
                 /\ m.type = (IF q.count THEN "COUNT" ELSE "EOSE")
      BY DEF Ending, Answer
    <3> HIDE DEF q, full
    <3> QED BY <3>1, <3>2
  <2>4. out'[g] = t \o <<m>>
    BY <1>7, <1>20, <2>3
  <2>5. /\ OnceIn(out'[g]) /\ SplitIn(out'[g], q.start)
        /\ RecsOf(out'[g]) = RecsOf(t) /\ m.type \in TypesOf(out'[g])
    <3> HIDE DEF q, full, done, f, cur, t, complete
    <3>1. PICK s \in Seq(OutMsg), a \in {q.start} : s = t /\ a = q.start
      BY <1>14
    <3>2. OnceIn(s) /\ SplitIn(s, a) /\ out'[g] = s \o <<m>> /\ {"EOSE", "COUNT"} \cap TypesOf(s) = {}
      BY <1>14, <2>4, <3>1
    <3>3. /\ OnceIn(out'[g]) /\ SplitIn(out'[g], a)
          /\ RecsOf(out'[g]) = RecsOf(s) /\ TypesOf(out'[g]) = TypesOf(s) \cup {m.type}
      BY <2>3, <3>2, AnswerMore
    <3> QED BY <3>1, <3>3
  <2>6. ASSUME ~q.count PROVE HandedOk(g)'
    <3>1. db' = db /\ mb' = mb /\ mtxn' = mtxn /\ g \notin NewIn(mb)
      BY <1>1, <1>3 DEF Handed
    <3>2. \A r \in RecsOf(t) : r.levId <= q.start
      BY <1>13, <1>15
    <3>3. ASSUME ~n.cut, NEW r \in db, r.levId <= q.start, Matches(q.filters, r.ev)
          PROVE  r \in RecsOf(t)
      <4>1. PICK k \in DOMAIN q.filters : r.ev \in q.filters[k].match
        BY <3>3 DEF Matches
      <4>2. q.filters \in Seq(Filter) /\ q.fi = Len(q.filters) /\ done
        BY <1>4, <1>20 DEF SubType
      <4>3. k \in 1..q.fi
        BY <4>1, <4>2
      <4> QED BY <1>18, <2>6, <3>3, <4>1, <4>2, <4>3
    <3>4. "EOSE" \in TypesOf(out'[g]) /\ RecsOf(out'[g]) = RecsOf(t)
      BY <2>3, <2>5, <2>6
    <3>5. n = subs'[g] /\ n.latest = q.start /\ n.start = q.start /\ n.filters = q.filters
          /\ n.count = q.count
      BY <1>6, <1>11
    <3>6. q.start <= MostRecentLevId(db)
      BY <1>11
    <3> HIDE DEF q, n, done, f, cur, full, t, complete
    <3>7. StoredSent(g)'
      BY <2>6, <3>1, <3>2, <3>3, <3>4, <3>5 DEF StoredSent
    <3> QED BY <3>1, <3>5, <3>6, <3>7 DEF HandedOk
  <2> HIDE DEF q, n, done, f, cur, full, t, complete
  <2>7. OnceIn(out'[g]) /\ SplitIn(out'[g], subs'[g].start)
    BY <1>6, <2>5 DEF n
  <2> QED BY <1>5, <2>1, <2>2, <2>6, <2>7 DEF GenOk
<1> QED BY <1>19, <1>20

\* A step that touches no subscription but g, when the others stay where they
\* are.
LEMMA OthersKept ==
  ASSUME ReqType, CurrInv, GenInv, [Next]_vars, ReqType', NEW g, GenOk(g)',
         Gens' \subseteq Gens \cup {g},
         \A h \in Gens \ {g} : subs'[h] = subs[h] /\ out'[h] = out[h],
         Queued' \subseteq Queued \cup {g}, Range(running') \subseteq Range(running) \cup {g},
         Handed' \subseteq Handed \cup {g}, mons' \subseteq mons \cup {g},
         wpc' # "wait" => (wpc # "wait" /\ wtxn' = wtxn) \/ wtxn' = db,
         \A h \in NewIn(mb') : (h \in NewIn(mb) /\ mtxn' = mtxn) \/ mtxn' = db,
         curr' <= curr
  PROVE  GenInv'
<1> SUFFICES ASSUME NEW h \in Gens', h # g PROVE GenOk(h)'
  BY DEF GenInv
<1>1. h \in Gens /\ GenOk(h) /\ subs'[h] = subs[h] /\ out'[h] = out[h]
  BY DEF GenInv
<1>2. /\ OnceIn(out'[h]) /\ SplitIn(out'[h], subs'[h].start)
      /\ h \in Queued => QueuedOk(h)'
      /\ h \in Range(running) => RunningOk(h)'
      /\ h \in Handed => HandedOk(h)'
      /\ h \in mons => MonOk(h)'
  BY <1>1, Untouched
<1> QED BY <1>2 DEF GenOk

\* Every step keeps, for every subscription, what its place promises.
LEMMA NextGen ==
  ASSUME ReqType, PlaceInv, SnapInv, GenInv, CurrInv, [Next]_vars, ReqType', PlaceInv'
  PROVE  GenInv'
<1> USE DEF store, worker, monitor, client
<1>0. /\ wq \in Seq(Msg) /\ wb \in Seq(Msg) /\ mq \in Seq(Msg) /\ mb \in Seq(Msg)
      /\ running \in Seq(Nat) /\ Gens = 1..Len(subs) /\ Len(subs) \in Nat
      /\ subs' \in Seq(SubType) /\ Gens' = 1..Len(subs') /\ Gens = DOMAIN subs
      /\ curr \in Nat /\ 0 \notin Gens /\ 0 \notin Gens'
  BY DEF ReqType, Gens
<1>e. NewIn(<<>>) = {}
  BY DEF NewIn, News
<1>n. \* The steps that touch no subscription.
      ASSUME subs' = subs, out' = out,
             Queued' \subseteq Queued, Range(running') \subseteq Range(running),
             Handed' \subseteq Handed, mons' \subseteq mons,
             wpc' # "wait" => (wpc # "wait" /\ wtxn' = wtxn) \/ wtxn' = db,
             \A h \in NewIn(mb') : (h \in NewIn(mb) /\ mtxn' = mtxn) \/ mtxn' = db,
             curr' <= curr
      PROVE  GenInv'
  <2> SUFFICES ASSUME NEW h \in Gens' PROVE GenOk(h)'
    BY DEF GenInv
  <2>1. h \in Gens /\ GenOk(h) /\ subs'[h] = subs[h] /\ out'[h] = out[h]
    BY <1>n DEF GenInv, Gens
  <2>2. /\ OnceIn(out'[h]) /\ SplitIn(out'[h], subs'[h].start)
        /\ h \in Queued => QueuedOk(h)'
        /\ h \in Range(running) => RunningOk(h)'
        /\ h \in Handed => HandedOk(h)'
        /\ h \in mons => MonOk(h)'
    BY <1>n, <2>1, Untouched
  <2> QED BY <1>n, <2>2 DEF GenOk
<1>m. ASSUME mpc = "batch", MonDone PROVE \A h \in NewIn(mb') : h \in NewIn(mb) /\ mtxn' = mtxn
  <2>1. mb # <<>> /\ mb' = Tail(mb) /\ (mtxn' = mtxn \/ Len(mb) = 1)
    BY <1>m DEF MonDone, ReqType
  <2>2. NewIn(mb') \subseteq NewIn(mb) /\ (Len(mb) = 1 => mb' = <<>>)
    BY <1>0, <2>1, TailMsg, TailElem
  <2> QED BY <1>e, <2>1, <2>2
<1>1. ASSUME NEW c \in Conns, NEW s \in SubIds, NEW req \in Reqs, IngestReq(c, s, req)
      PROVE  GenInv'
  <2>1. PICK g : g = Len(subs) + 1
    OBVIOUS
  <2>2. /\ g \notin Gens /\ Gens' = Gens \cup {g}
        /\ g \notin Queued \cup Range(running) \cup Handed \cup mons
        /\ NewIn(wq') = NewIn(wq) \cup {g}
    BY <1>1, <2>1, IngestMoves
  <2>3. UNCHANGED <<wb, mq, mb, running, mons, wpc, wtxn, mtxn, curr>>
    BY <1>1 DEF IngestReq
  <2>4. /\ Queued' = Queued \cup {g} /\ Handed' = Handed
        /\ g \notin Range(running') /\ g \notin Handed' /\ g \notin mons'
    BY <2>2, <2>3 DEF Queued, Handed
  <2>5. /\ \A h \in Gens \ {g} : subs'[h] = subs[h] /\ out'[h] = out[h]
        /\ out'[g] = <<>> /\ subs'[g].fi = 1 /\ subs'[g].start = MaxU64
        /\ subs'[g].full = {} /\ subs'[g].cur = {} /\ subs'[g].buf = {}
    <3>1. PICK x : /\ x.fi = 1 /\ x.start = MaxU64 /\ x.full = {} /\ x.cur = {} /\ x.buf = {}
                   /\ subs' = Append(subs, x)
      BY <1>1 DEF IngestReq
    <3>2. out' = Append(out, <<>>) /\ Len(out) = Len(subs) /\ out \in Seq(Seq(OutMsg))
          /\ subs \in Seq(SubType)
      BY <1>1 DEF IngestReq, ReqType
    <3>3. subs'[g] = x /\ \A h \in Gens : subs'[h] = subs[h]
      BY <1>0, <2>1, <3>1, <3>2
    <3>4. out'[g] = <<>> /\ \A h \in Gens : out'[h] = out[h]
      BY <1>0, <2>1, <3>2
    <3> QED BY <3>1, <3>3, <3>4
  <2>6. GenOk(g)'
    <3>1. OnceIn(<<>>) /\ SplitIn(<<>>, MaxU64)
      BY DEF OnceIn, SplitIn
    <3>2. QueuedOk(g)'
      BY <2>5 DEF QueuedOk
    <3> QED BY <2>4, <2>5, <3>1, <3>2 DEF GenOk
  <2>7. curr' <= curr
    BY <1>0, <2>3
  <2> QED BY <2>2, <2>3, <2>4, <2>5, <2>6, <2>7, OthersKept
<1>2. ASSUME NEW c \in Conns, IngestCloseConn(c) \/ \E s \in SubIds : IngestClose(c, s)
      PROVE  GenInv'
  <2>1. PICK m \in Msg : m.type # "NewSub" /\ wq' = Append(wq, m)
    BY <1>2, MadeTypes DEF IngestCloseConn, IngestClose, RemoveSub, CloseConn
  <2>2. NewIn(wq') = NewIn(wq)
    BY <1>0, <2>1, AppendMsg
  <2>3. UNCHANGED <<wb, mq, mb, running, mons, subs, out, wpc, wtxn, mtxn, curr>>
    BY <1>2 DEF IngestCloseConn, IngestClose
  <2> QED BY <1>0, <1>n, <2>2, <2>3 DEF Queued, Handed
<1>3. ASSUME Watcher PROVE GenInv'
  <2>1. DBChange \in Msg /\ DBChange.type # "NewSub" /\ mq' = Append(mq, DBChange)
    BY <1>3, MadeTypes DEF Watcher, DBChange
  <2>2. NewIn(mq') = NewIn(mq)
    BY <1>0, <2>1, AppendMsg
  <2>3. UNCHANGED <<wb, wq, mb, running, mons, subs, out, wpc, wtxn, mtxn, curr>>
    BY <1>3 DEF Watcher
  <2> QED BY <1>0, <1>n, <2>2, <2>3 DEF Queued, Handed
<1>4. ASSUME WorkerWake PROVE GenInv'
  <2>1. wb = <<>> /\ wb' = wq /\ wq' = <<>> /\ wtxn' = db
        /\ UNCHANGED <<mq, mb, running, mons, subs, out, mtxn, curr>>
    BY <1>4 DEF WorkerWake, ReqType
  <2> QED BY <1>0, <1>e, <1>n, <2>1 DEF Queued, Handed
<1>5. ASSUME WorkerAdd PROVE GenInv'
  <2>1. PICK g : g = Head(wb).gen
    OBVIOUS
  <2>2. /\ g \in Gens /\ NewIn(wb) = NewIn(wb') \cup {g}
        /\ Range(<<g>> \o running) = Range(running) \cup {g}
    BY <1>5, <2>1, AddMoves
  <2>3. /\ UNCHANGED <<wq, mq, mb, mons, wtxn, mtxn, curr>> /\ wpc # "wait"
        /\ running' = running \/ running' = <<g>> \o running
    BY <1>5, <2>1 DEF WorkerAdd
  <2>4. GenOk(g)' /\ \A h \in Gens \ {g} : subs'[h] = subs[h] /\ out'[h] = out[h]
    BY <1>5, <2>1, AddEffect
  <2>5. Gens' = Gens
    BY <1>0, <1>5 DEF WorkerAdd
  <2>6. Queued' \subseteq Queued /\ Handed' = Handed /\ Range(running') \subseteq Range(running) \cup {g}
    BY <2>2, <2>3 DEF Queued, Handed
  <2>7. curr' <= curr
    BY <1>0, <2>3
  <2> QED BY <2>3, <2>4, <2>5, <2>6, <2>7, OthersKept
<1>6. ASSUME WorkerRemove \/ WorkerClose PROVE GenInv'
  <2>1. /\ wb # <<>> /\ wb' = Tail(wb) /\ Head(wb).type # "NewSub" /\ mq' = Append(mq, Head(wb))
        /\ UNCHANGED <<wq, mb, mons, running, subs, out, wpc, wtxn, mtxn, curr>>
    BY <1>6 DEF WorkerRemove, WorkerClose
  <2>2. NewIn(wb') = NewIn(wb) /\ Head(wb) \in Msg
    BY <1>0, <2>1, TailMsg
  <2>3. NewIn(mq') = NewIn(mq)
    BY <1>0, <2>1, <2>2, AppendMsg
  <2> QED BY <1>0, <1>n, <2>1, <2>2, <2>3 DEF Queued, Handed
<1>7. ASSUME SliceDead \/ SliceIdle PROVE GenInv'
  <2>1. /\ running' = running \/ (running # <<>> /\ running' = Tail(running))
        /\ UNCHANGED <<wb, wq, mq, mb, mons, subs, out, mtxn, curr>>
        /\ wpc # "wait" /\ (wpc' # "wait" => wtxn' = wtxn)
    BY <1>7 DEF SliceDead, SliceIdle, SliceDue, SliceDone
  <2>2. Range(running') \subseteq Range(running)
    <3>1. running # <<>> => Range(Tail(running)) = Range(running) \ {Head(running)}
      BY <1>0, RunningMoves DEF PlaceInv
    <3> QED BY <2>1, <3>1
  <2> QED BY <1>0, <1>n, <2>1, <2>2 DEF Queued, Handed
<1>8. ASSUME NEW S, SliceQuery(S) PROVE GenInv'
  <2>1. PICK g : g = Head(running)
    OBVIOUS
  <2>2. /\ g \in Gens /\ g \in Range(running)
        /\ Range(Tail(running)) = Range(running) \ {g}
        /\ Range(Append(Tail(running), g)) = Range(running)
        /\ NewIn(Append(mq, NewSub(g))) = NewIn(mq) \cup {g}
    BY <1>8, <2>1, SliceMoves
  <2>3. /\ UNCHANGED <<wb, wq, mb, mons, mtxn, curr>>
        /\ wpc # "wait" /\ (wpc' # "wait" => wtxn' = wtxn)
    BY <1>8 DEF SliceQuery, SliceDue, SliceDone
  <2>4. /\ running' \in {running, Tail(running), Append(Tail(running), g)}
        /\ mq' \in {mq, Append(mq, NewSub(g))}
    BY <1>8, <2>1 DEF SliceQuery
  <2>5. GenOk(g)' /\ \A h \in Gens \ {g} : subs'[h] = subs[h] /\ out'[h] = out[h]
    BY <1>8, <2>1, SliceEffect
  <2>6. Gens' = Gens
    BY <1>0, <1>8, SliceType
  <2>7. curr' <= curr
    BY <1>0, <2>3
  <2>8. Queued' = Queued /\ Range(running') \subseteq Range(running)
        /\ Handed' \subseteq Handed \cup {g}
    BY <2>2, <2>3, <2>4 DEF Queued, Handed
  <2> QED BY <2>3, <2>5, <2>6, <2>7, <2>8, OthersKept
<1>9. ASSUME MonWake PROVE GenInv'
  <2>1. mb = <<>> /\ mb' = mq /\ mq' = <<>> /\ mtxn' = db
        /\ UNCHANGED <<wq, wb, running, mons, subs, out, wpc, wtxn>>
    BY <1>9 DEF MonWake, ReqType
  <2>2. curr' <= curr
    <3>1. MostRecentLevId(db) \in Nat
      BY MostRecent DEF ReqType
    <3> QED BY <1>0, <1>9, <3>1 DEF MonWake
  <2> QED BY <1>0, <1>e, <1>n, <2>1, <2>2 DEF Queued, Handed
<1>10. ASSUME MonAdd PROVE GenInv'
  <2>1. PICK g : g = Head(mb).gen
    OBVIOUS
  <2>2. g \in Gens /\ NewIn(mb) = NewIn(mb') \cup {g}
    BY <1>10, <2>1, MonAddMoves
  <2>3. /\ UNCHANGED <<wq, wb, mq, running, wpc, wtxn, curr>>
        /\ mons' \subseteq mons \cup {g} /\ mpc = "batch" /\ MonDone
    BY <1>10, <2>1 DEF MonAdd
  <2>4. GenOk(g)' /\ \A h \in Gens \ {g} : subs'[h] = subs[h] /\ out'[h] = out[h]
    BY <1>10, <2>1, MonAddEffect
  <2>5. Gens' = Gens
    <3>1. DOMAIN subs' = DOMAIN subs
      BY <1>10 DEF MonAdd
    <3> QED BY <3>1 DEF Gens
  <2>6. Queued' = Queued /\ Handed' \subseteq Handed
    BY <2>2, <2>3 DEF Queued, Handed
  <2>7. curr' <= curr
    BY <1>0, <2>3
  <2> QED BY <1>m, <2>3, <2>4, <2>5, <2>6, <2>7, OthersKept
<1>11. ASSUME MonRemove \/ MonClose PROVE GenInv'
  <2>1. /\ mons' \subseteq mons /\ mpc = "batch" /\ MonDone
        /\ UNCHANGED <<wq, wb, mq, running, subs, out, wpc, wtxn, curr>>
    BY <1>11 DEF MonRemove, MonClose
  <2> QED BY <1>0, <1>m, <1>n, <2>1 DEF Queued, Handed
<1>12. ASSUME MonDBChange PROVE GenInv'
  <2>1. /\ UNCHANGED <<wq, wb, mq, running, mons, wpc, wtxn>> /\ mpc = "batch" /\ MonDone
    BY <1>12 DEF MonDBChange
  <2>2. SUFFICES ASSUME NEW h \in Gens' PROVE GenOk(h)'
    BY DEF GenInv
  <2>3. CASE h \in mons
    BY <1>12, <2>3, ChangeEffect
  <2>4. CASE h \notin mons
    <3>1. h \in Gens /\ subs'[h] = subs[h] /\ out'[h] = out[h]
      <4>1. h \in DOMAIN subs /\ h \in DOMAIN out
        BY <1>12, <2>2 DEF MonDBChange, Gens, ReqType
      <4> QED BY <1>12, <2>4, <4>1 DEF MonDBChange, Gens
    <3>2. GenOk(h)
      BY <3>1 DEF GenInv
    <3>3. h \in NewIn(mb') => h \in NewIn(mb) /\ mtxn' = mtxn
      BY <1>m, <2>1
    <3>4. /\ OnceIn(out'[h]) /\ SplitIn(out'[h], subs'[h].start)
          /\ h \in Queued => QueuedOk(h)'
          /\ h \in Range(running) => RunningOk(h)'
          /\ h \in Handed => HandedOk(h)'
      BY <2>1, <3>1, <3>2, <3>3, Untouched
    <3> QED BY <2>1, <2>4, <3>3, <3>4 DEF GenOk, Queued, Handed
  <2> QED BY <2>3, <2>4
<1>13. ASSUME NEW ev, NEW r, Commit(ev) \/ Remove(r) \/ UNCHANGED vars PROVE GenInv'
  <2>1. UNCHANGED <<wq, wb, mq, mb, mons, running, subs, out, wpc, wtxn, mtxn, curr>>
    BY <1>13 DEF Commit, Remove, vars
  <2> QED BY <1>0, <1>n, <2>1 DEF Queued, Handed
<1>14. CASE ClientStep
  BY <1>1, <1>2, <1>14 DEF ClientStep
<1>15. CASE WorkerStep
  BY <1>4, <1>5, <1>6, <1>7, <1>8, <1>15 DEF WorkerStep
<1>16. CASE MonitorStep
  BY <1>9, <1>10, <1>11, <1>12, <1>16 DEF MonitorStep
<1> QED BY <1>3, <1>13, <1>14, <1>15, <1>16 DEF Next

-----------------------------------------------------------------------------
(* currEventId *)

\* Every step: the monitor is behind the database only while a change is to be
\* reported or handled.
LEMMA NextCurr ==
  ASSUME ReqType, SnapInv, CurrInv, [Next]_vars, ReqType'
  PROVE  CurrInv'
<1> USE DEF store, worker, monitor, client
<1>0. /\ mq \in Seq(Msg) /\ mb \in Seq(Msg) /\ curr \in Nat
      /\ mpc \in {"wait", "batch"} /\ (mpc = "wait" <=> mb = <<>>)
      /\ MostRecentLevId(db) \in Nat /\ MostRecentLevId(db') \in Nat /\ MostRecentLevId(mtxn) \in Nat
  <2>1. db \in SUBSET Recs /\ db' \in SUBSET Recs /\ mtxn \in SUBSET Recs
    BY DEF ReqType
  <2>2. mq \in Seq(Msg) /\ mb \in Seq(Msg) /\ curr \in Nat
        /\ mpc \in {"wait", "batch"} /\ (mpc = "wait" <=> mb = <<>>)
    BY DEF ReqType
  <2> QED BY <2>1, <2>2, MostRecent
<1>1. MostRecentLevId(db) <= MostRecentLevId(db')
  BY DbAdvances
<1>2. MostRecentLevId(mtxn) <= MostRecentLevId(db)
  BY EarlierNow DEF SnapInv, ReqType
<1>3. Changes(<<>>) = {}
  BY DEF Changes
<1>4. ASSUME UNCHANGED <<db, dirty, mq, mpc, mb, mtxn, curr, mons>> PROVE CurrInv'
  BY <1>4 DEF CurrInv
<1>5. ASSUME NEW ev, NEW r, Commit(ev) \/ Remove(r) PROVE CurrInv'
  <2>1. dirty' /\ UNCHANGED <<mpc, mtxn, curr, mons>>
    BY <1>5 DEF Commit, Remove
  <2> QED BY <1>0, <1>1, <2>1 DEF CurrInv
<1>6. ASSUME Watcher PROVE CurrInv'
  <2>1. mq' = Append(mq, DBChange) /\ UNCHANGED <<db, mpc, mb, mtxn, curr, mons>>
    BY <1>6 DEF Watcher
  <2>2. Changes(mq') # {}
    <3>1. DBChange \in Msg /\ DBChange.type = "DBChange"
      BY MadeTypes DEF DBChange
    <3> QED BY <1>0, <2>1, <3>1, AppendMsg
  <2> QED BY <2>1, <2>2 DEF CurrInv
<1>7. ASSUME WorkerRemove \/ WorkerClose PROVE CurrInv'
  <2>1. /\ wb \in Seq(Msg) /\ wb # <<>> /\ Head(wb).type # "DBChange" /\ mq' = Append(mq, Head(wb))
        /\ UNCHANGED <<db, dirty, mpc, mb, mtxn, curr, mons>>
    BY <1>7 DEF WorkerRemove, WorkerClose, ReqType
  <2>2. Changes(mq') = {} <=> Changes(mq) = {}
    BY <1>0, <2>1, AppendMsg, TailElem
  <2> QED BY <2>1, <2>2 DEF CurrInv
<1>8. ASSUME NEW S, SliceQuery(S) PROVE CurrInv'
  <2>1. /\ running \in Seq(Nat) /\ running # <<>>
        /\ mq' \in {mq, Append(mq, NewSub(Head(running)))}
        /\ UNCHANGED <<db, dirty, mpc, mb, mtxn, curr, mons>>
    BY <1>8 DEF SliceQuery, ReqType
  <2>2. NewSub(Head(running)) \in Msg /\ NewSub(Head(running)).type # "DBChange"
    BY <2>1, TailElem, MadeTypes DEF NewSub
  <2>3. Changes(mq') = {} <=> Changes(mq) = {}
    BY <1>0, <2>1, <2>2, AppendMsg
  <2> QED BY <2>1, <2>3 DEF CurrInv
<1>9. ASSUME MonWake PROVE CurrInv'
  <2>1. /\ mb = <<>> /\ mb' = mq /\ mtxn' = db /\ mpc' = "batch" /\ UNCHANGED <<db, dirty, mons>>
        /\ curr' = (IF curr > MostRecentLevId(db) THEN MostRecentLevId(db) ELSE curr)
    BY <1>9 DEF MonWake, ReqType
  <2>2. curr' <= MostRecentLevId(db) /\ curr' \in Nat
    BY <1>0, <2>1
  <2>3. ~dirty /\ Changes(mq) = {} => curr' >= MostRecentLevId(db)
    BY <1>0, <1>3, <2>1 DEF CurrInv
  <2> QED BY <1>0, <2>1, <2>2, <2>3 DEF CurrInv
<1>10. ASSUME MonDone, mpc = "batch", Head(mb).type # "DBChange", UNCHANGED <<db, dirty, mq, curr>>
       PROVE  CurrInv'
  <2>1. mb # <<>> /\ mb' = Tail(mb) /\ (mpc' = "batch" => mtxn' = mtxn)
    BY <1>0, <1>10 DEF MonDone
  <2>2. Changes(mb) = {} <=> Changes(mb') = {}
    BY <1>0, <1>10, <2>1, TailMsg
  <2>3. curr <= MostRecentLevId(mtxn)
    BY <1>10 DEF CurrInv
  <2> QED BY <1>0, <1>2, <1>10, <2>1, <2>2, <2>3 DEF CurrInv
<1>11. ASSUME MonDBChange PROVE CurrInv'
  <2>1. /\ MonDone /\ mpc = "batch" /\ UNCHANGED <<db, dirty, mq, mons>>
        /\ curr' = MostRecentLevId(mtxn)
    BY <1>11 DEF MonDBChange
  <2>2. mpc' = "batch" => mtxn' = mtxn
    BY <2>1 DEF MonDone
  <2> QED BY <1>0, <1>2, <2>1, <2>2 DEF CurrInv
<1>12. CASE ClientStep \/ UNCHANGED vars
  BY <1>4, <1>12 DEF ClientStep, IngestReq, IngestClose, IngestCloseConn, vars
<1>13. CASE WorkerStep
  <2>1. WorkerWake \/ WorkerAdd => UNCHANGED <<db, dirty, mq, mpc, mb, mtxn, curr, mons>>
    BY DEF WorkerWake, WorkerAdd
  <2>2. SliceIdle \/ SliceDead => UNCHANGED <<db, dirty, mq, mpc, mb, mtxn, curr, mons>>
    BY DEF SliceIdle, SliceDead
  <2> QED BY <1>4, <1>7, <1>8, <1>13, <2>1, <2>2 DEF WorkerStep
<1>14. CASE MonitorStep
  <2>1. MonAdd => MonDone /\ mpc = "batch" /\ Head(mb).type # "DBChange" /\ UNCHANGED <<db, dirty, mq, curr>>
    BY DEF MonAdd
  <2>2. MonRemove \/ MonClose =>
          MonDone /\ mpc = "batch" /\ Head(mb).type # "DBChange" /\ UNCHANGED <<db, dirty, mq, curr>>
    BY DEF MonRemove, MonClose
  <2> QED BY <1>9, <1>10, <1>11, <1>14, <2>1, <2>2 DEF MonitorStep
<1> QED BY <1>5, <1>6, <1>12, <1>13, <1>14 DEF Next

-----------------------------------------------------------------------------
(* Closed subscriptions *)

\* No step changes whose subscription it is, nor its id.
LEMMA IdsKept ==
  ASSUME ReqType, PlaceInv, [Next]_vars, NEW g \in Gens
  PROVE  subs'[g].conn = subs[g].conn /\ subs'[g].sub = subs[g].sub
<1> USE DEF store, worker, monitor, client
<1>0. g \in DOMAIN subs /\ subs[g] \in SubType /\ subs \in Seq(SubType)
  BY DEF Gens, ReqType
<1>1. CASE UNCHANGED subs
  BY <1>1
<1>2. ASSUME NEW x, subs' = Append(subs, x)
      PROVE  subs'[g].conn = subs[g].conn /\ subs'[g].sub = subs[g].sub
  BY <1>0, <1>2
<1>3. CASE WorkerAdd
  BY <1>0, <1>3 DEF WorkerAdd, SubType
<1>4. ASSUME NEW S, SliceQuery(S)
      PROVE  subs'[g].conn = subs[g].conn /\ subs'[g].sub = subs[g].sub
  <2>1. /\ Head(running) \in DOMAIN subs
        /\ subs' = [subs EXCEPT ![Head(running)] = Sliced(subs[Head(running)], S)]
    BY <1>4, SliceType
  <2>2. \A q \in SubType : Sliced(q, S).conn = q.conn /\ Sliced(q, S).sub = q.sub
    BY DEF Sliced, SubType
  <2> QED BY <1>0, <2>1, <2>2
<1>5. CASE MonAdd
  BY <1>0, <1>5 DEF MonAdd, SubType
<1>6. CASE MonDBChange
  BY <1>0, <1>6 DEF MonDBChange, SubType
<1>7. ClientStep => UNCHANGED subs \/ \E x : subs' = Append(subs, x)
  BY DEF ClientStep, IngestReq, IngestClose, IngestCloseConn
<1>8. ASSUME NEW ev, NEW r, Commit(ev) \/ Remove(r) \/ Watcher \/ UNCHANGED vars
      PROVE  UNCHANGED subs
  BY <1>8 DEF Commit, Remove, Watcher, vars
<1>9. WorkerWake \/ WorkerRemove \/ WorkerClose => UNCHANGED subs
  BY DEF WorkerWake, WorkerRemove, WorkerClose
<1>10. SliceIdle \/ SliceDead \/ MonWake \/ MonRemove \/ MonClose => UNCHANGED subs
  BY DEF SliceIdle, SliceDead, MonWake, MonRemove, MonClose
<1>11. CASE WorkerStep
  BY <1>1, <1>3, <1>4, <1>9, <1>10, <1>11 DEF WorkerStep
<1>12. CASE MonitorStep
  BY <1>1, <1>5, <1>6, <1>10, <1>12 DEF MonitorStep
<1> QED BY <1>1, <1>2, <1>7, <1>8, <1>11, <1>12 DEF Next

\* The end of a subscription in a queue.
LEMMA EndAppend ==
  ASSUME NEW z \in Seq(Msg), NEW m \in Msg, NEW g, NEW c, NEW s
  PROVE  /\ EndIn(Append(z, m), c, s) <=> EndIn(z, c, s) \/ Ends(m, c, s)
         /\ /\ EndBehind(z, g, c, s)
            /\ ~(m.type = "NewSub" /\ m.gen = g)
            => EndBehind(Append(z, m), g, c, s)
         /\ Ends(m, c, s) => EndBehind(Append(z, m), g, c, s)
<1> DEFINE t == Append(z, m)
           l == Len(z) + 1
<1>1. /\ DOMAIN t = DOMAIN z \cup {l} /\ l \notin DOMAIN z /\ t[l] = m
      /\ \A i \in DOMAIN z : t[i] = z[i] /\ l > i
  <2>1. /\ Len(z) \in Nat /\ DOMAIN t = 1..(Len(z) + 1) /\ DOMAIN z = 1..Len(z)
        /\ t[Len(z) + 1] = m /\ \A i \in 1..Len(z) : t[i] = z[i]
    OBVIOUS
  <2> QED BY <2>1
<1>2. Ends(m, c, s) => m.type # "NewSub"
  BY DEF Ends
<1> HIDE DEF t, l
<1>3. EndIn(t, c, s) <=> EndIn(z, c, s) \/ Ends(m, c, s)
  BY <1>1 DEF EndIn
<1>4. ASSUME EndBehind(z, g, c, s), ~(m.type = "NewSub" /\ m.gen = g)
      PROVE  EndBehind(t, g, c, s)
  BY <1>1, <1>4 DEF EndBehind, News
<1>5. ASSUME Ends(m, c, s) PROVE EndBehind(t, g, c, s)
  BY <1>1, <1>2, <1>5 DEF EndBehind, News
<1> QED BY <1>3, <1>4, <1>5 DEF t

\* Taking a message off the queue.
LEMMA EndTail ==
  ASSUME NEW z \in Seq(Msg), z # <<>>, NEW g, NEW c, NEW s
  PROVE  /\ EndIn(z, c, s) <=> EndIn(Tail(z), c, s) \/ Ends(Head(z), c, s)
         /\ EndBehind(z, g, c, s) => EndBehind(Tail(z), g, c, s)
         /\ EndBehind(z, g, c, s) /\ Head(z).type = "NewSub" /\ Head(z).gen = g
            => EndIn(Tail(z), c, s)
<1> DEFINE t == Tail(z)
<1>1. /\ Len(z) \in Nat \ {0} /\ DOMAIN t = 1..(Len(z) - 1) /\ DOMAIN z = 1..Len(z)
      /\ Head(z) = z[1] /\ \A i \in 1..(Len(z) - 1) : t[i] = z[i + 1]
  OBVIOUS
<1> HIDE DEF t
<1>2. \A i \in DOMAIN z : i = 1 \/ \E k \in DOMAIN t : i = k + 1 /\ z[i] = t[k]
  <2> TAKE i \in DOMAIN z
  <2>1. i = 1 \/ (i - 1 \in DOMAIN t /\ i = (i - 1) + 1)
    BY <1>1
  <2> QED BY <1>1, <2>1
<1>3. \A k \in DOMAIN t : \E i \in DOMAIN z : i = k + 1 /\ i # 1 /\ z[i] = t[k]
  <2> TAKE k \in DOMAIN t
  <2>1. k + 1 \in DOMAIN z /\ k + 1 # 1
    BY <1>1
  <2> QED BY <1>1, <2>1
<1>4. EndIn(z, c, s) <=> EndIn(t, c, s) \/ Ends(Head(z), c, s)
  <2>1. ASSUME NEW i \in DOMAIN z, Ends(z[i], c, s) PROVE EndIn(t, c, s) \/ Ends(Head(z), c, s)
    BY <1>1, <1>2, <2>1 DEF EndIn
  <2>2. ASSUME NEW k \in DOMAIN t, Ends(t[k], c, s) PROVE EndIn(z, c, s)
    BY <1>3, <2>2 DEF EndIn
  <2>3. Ends(Head(z), c, s) => EndIn(z, c, s)
    BY <1>1 DEF EndIn
  <2> QED BY <2>1, <2>2, <2>3 DEF EndIn
<1>5. ASSUME EndBehind(z, g, c, s), NEW k \in News(t), t[k].gen = g
      PROVE  \E l \in DOMAIN t : l > k /\ Ends(t[l], c, s)
  <2>1. PICK i \in News(z) : i = k + 1 /\ z[i] = t[k] /\ i \in DOMAIN z
    BY <1>3 DEF News
  <2>2. PICK j \in DOMAIN z : j > i /\ Ends(z[j], c, s)
    BY <1>5, <2>1 DEF EndBehind
  <2>3. k \in Nat \ {0} /\ j # 1
    BY <1>1, <2>1, <2>2 DEF News
  <2>4. PICK l \in DOMAIN t : j = l + 1 /\ z[j] = t[l]
    BY <1>2, <2>2, <2>3
  <2>5. l > k
    BY <1>1, <2>1, <2>2, <2>3, <2>4
  <2> QED BY <2>2, <2>4, <2>5
<1>6. ASSUME EndBehind(z, g, c, s), Head(z).type = "NewSub", Head(z).gen = g
      PROVE  EndIn(t, c, s)
  <2>1. 1 \in News(z) /\ z[1].gen = g
    BY <1>1, <1>6 DEF News
  <2>2. PICK j \in DOMAIN z : j > 1 /\ Ends(z[j], c, s)
    BY <1>6, <2>1 DEF EndBehind
  <2>3. j # 1
    BY <1>1, <2>2
  <2> QED BY <1>2, <2>2, <2>3 DEF EndIn
<1> QED BY <1>4, <1>5, <1>6 DEF EndBehind, t

\* Every step: what ends a closed subscription stays behind it until it has
\* ended it.
LEMMA NextOver ==
  ASSUME ReqType, PlaceInv, OverInv, [Next]_vars, ReqType', PlaceInv'
  PROVE  OverInv'
<1> USE DEF store, worker, monitor, client
<1>0. /\ wq \in Seq(Msg) /\ wb \in Seq(Msg) /\ mq \in Seq(Msg) /\ mb \in Seq(Msg)
      /\ running \in Seq(Nat) /\ over \subseteq Gens /\ over' \subseteq Gens'
  BY DEF ReqType
<1>e. \A g, c, s : EndBehind(<<>>, g, c, s) /\ ~EndIn(<<>>, c, s)
  BY DEF EndBehind, EndIn, News
<1> SUFFICES ASSUME NEW g \in over', NEW c, NEW s, c = subs'[g].conn, s = subs'[g].sub
             PROVE  OverOk(g, c, s)'
  BY DEF OverInv, OverOk
<1>o. g \in over => OverOk(g, c, s) /\ c = subs[g].conn /\ s = subs[g].sub
  <2> SUFFICES ASSUME g \in over PROVE OverOk(g, c, s) /\ c = subs[g].conn /\ s = subs[g].sub
    OBVIOUS
  <2>1. c = subs[g].conn /\ s = subs[g].sub
    BY <1>0, IdsKept
  <2> QED BY <2>1 DEF OverInv
<1>1. ASSUME NEW c1 \in Conns, NEW s1 \in SubIds, NEW req \in Reqs, IngestReq(c1, s1, req)
      PROVE  OverOk(g, c, s)'
  <2>1. UNCHANGED <<over, wb, mq, mb, running, dead, mons>>
    BY <1>1 DEF IngestReq
  <2>2. PICK h : h = Len(subs) + 1
    OBVIOUS
  <2>3. h \notin Gens /\ NewSub(h) \in Msg /\ wq' = Append(wq, NewSub(h))
    <3>1. h \in Nat
      BY <2>2 DEF ReqType
    <3> QED BY <1>1, <2>2, <3>1, IngestMoves, MadeTypes DEF IngestReq
  <2>4. g # h /\ NewSub(h).type = "NewSub" /\ NewSub(h).gen = h /\ ~Ends(NewSub(h), c, s)
    BY <1>0, <2>1, <2>3 DEF NewSub, Ends
  <2>5. OverOk(g, c, s)
    BY <1>o, <2>1
  <2>6. EndBehind(wq, g, c, s) => EndBehind(wq', g, c, s)
    BY <1>0, <2>3, <2>4, EndAppend
  <2>7. EndIn(wq', c, s) <=> EndIn(wq, c, s)
    BY <1>0, <2>3, <2>4, EndAppend
  <2> QED BY <2>1, <2>5, <2>6, <2>7 DEF OverOk
<1>2. ASSUME NEW m \in Msg, wq' = Append(wq, m), m.type # "NewSub",
             UNCHANGED <<wb, mq, mb, running, dead, mons>>,
             g \in over \/ Ends(m, c, s)
      PROVE  OverOk(g, c, s)'
  <2>1. CASE Ends(m, c, s)
    <3>1. EndIn(wq', c, s) /\ EndBehind(wq', g, c, s)
      BY <1>0, <1>2, <2>1, EndAppend
    <3> QED BY <3>1 DEF OverOk
  <2>2. CASE g \in over
    <3>1. /\ EndIn(wq, c, s) => EndIn(wq', c, s)
          /\ EndBehind(wq, g, c, s) => EndBehind(wq', g, c, s)
      BY <1>0, <1>2, EndAppend
    <3>2. OverOk(g, c, s)
      BY <1>o, <2>2
    <3> QED BY <1>2, <3>1, <3>2 DEF OverOk
  <2> QED BY <1>2, <2>1, <2>2
<1>3. ASSUME NEW c1 \in Conns, NEW s1 \in SubIds, IngestClose(c1, s1)
      PROVE  OverOk(g, c, s)'
  <2>1. RemoveSub(c1, s1) \in Msg /\ wq' = Append(wq, RemoveSub(c1, s1))
        /\ UNCHANGED <<wb, mq, mb, running, dead, mons, subs>>
        /\ over' = over \cup OfSub(DOMAIN subs, c1, s1)
    BY <1>3, MadeTypes DEF IngestClose
  <2>2. g \in over \/ Ends(RemoveSub(c1, s1), c, s)
    BY <2>1 DEF OfSub, OfConn, Ends, RemoveSub
  <2>3. RemoveSub(c1, s1).type # "NewSub"
    BY DEF RemoveSub
  <2> QED BY <1>2, <2>1, <2>2, <2>3
<1>4. ASSUME NEW c1 \in Conns, IngestCloseConn(c1) PROVE OverOk(g, c, s)'
  <2>1. CloseConn(c1) \in Msg /\ wq' = Append(wq, CloseConn(c1))
        /\ UNCHANGED <<wb, mq, mb, running, dead, mons, subs>>
        /\ over' = over \cup OfConn(DOMAIN subs, c1)
    BY <1>4, MadeTypes DEF IngestCloseConn
  <2>2. g \in over \/ Ends(CloseConn(c1), c, s)
    BY <2>1 DEF OfConn, Ends, CloseConn
  <2>3. CloseConn(c1).type # "NewSub"
    BY DEF CloseConn
  <2> QED BY <1>2, <2>1, <2>2, <2>3
<1>5. ASSUME UNCHANGED over PROVE OverOk(g, c, s) /\ c = subs[g].conn /\ s = subs[g].sub
  BY <1>o, <1>5
<1>6. ASSUME WorkerWake PROVE OverOk(g, c, s)'
  <2>1. wb = <<>> /\ wb' = wq /\ wq' = <<>> /\ UNCHANGED <<over, mq, mb, running, dead, mons>>
    BY <1>6 DEF WorkerWake, ReqType
  <2> QED BY <1>5, <1>e, <2>1 DEF OverOk
<1>7. ASSUME WorkerAdd PROVE OverOk(g, c, s)'
  <2>1. PICK h : h = Head(wb).gen
    OBVIOUS
  <2>2. /\ wb # <<>> /\ Head(wb).type = "NewSub" /\ wb' = Tail(wb)
        /\ running' = running \/ running' = <<h>> \o running
        /\ dead \subseteq dead' /\ UNCHANGED <<over, wq, mq, mb, mons>>
    BY <1>7, <2>1 DEF WorkerAdd
  <2>3. Range(<<h>> \o running) = Range(running) \cup {h}
    BY <1>7, <2>1, AddMoves
  <2>4. /\ EndIn(wb, c, s) => EndIn(wb', c, s)
        /\ EndBehind(wb, g, c, s) => EndBehind(wb', g, c, s)
        /\ EndBehind(wb, g, c, s) /\ g = h => EndIn(wb', c, s)
    <3>1. ~Ends(Head(wb), c, s)
      BY <2>2 DEF Ends
    <3> QED BY <1>0, <2>1, <2>2, <3>1, EndTail
  <2>5. g \in Range(running') => g \in Range(running) \/ g = h
    BY <2>2, <2>3
  <2> QED BY <1>5, <2>2, <2>4, <2>5 DEF OverOk
<1>8. ASSUME WorkerRemove \/ WorkerClose PROVE OverOk(g, c, s)'
  <2>1. /\ wb # <<>> /\ Head(wb).type # "NewSub" /\ wb' = Tail(wb) /\ mq' = Append(mq, Head(wb))
        /\ dead \subseteq dead' /\ UNCHANGED <<over, wq, mb, mons, running>>
    BY <1>8 DEF WorkerRemove, WorkerClose
  <2>2. Head(wb) \in Msg
    BY <1>0, <2>1, TailElem
  <2>3. /\ EndIn(wb, c, s) => EndIn(wb', c, s) \/ Ends(Head(wb), c, s)
        /\ EndBehind(wb, g, c, s) => EndBehind(wb', g, c, s)
    BY <1>0, <2>1, EndTail
  <2>4. /\ EndIn(mq, c, s) => EndIn(mq', c, s)
        /\ EndBehind(mq, g, c, s) => EndBehind(mq', g, c, s)
        /\ Ends(Head(wb), c, s) => EndIn(mq', c, s) /\ EndBehind(mq', g, c, s)
    BY <1>0, <2>1, <2>2, EndAppend
  <2>5. ASSUME Ends(Head(wb), c, s), g \in Range(running) PROVE g \in dead'
    <3>1. g \in reg \/ g \in dead
      BY <2>5 DEF PlaceInv
    <3>2. c = subs[g].conn /\ s = subs[g].sub
      BY <1>5, <2>1
    <3>3. CASE WorkerRemove
      BY <2>5, <3>1, <3>2, <3>3 DEF WorkerRemove, Ends, OfSub, OfConn
    <3>4. CASE WorkerClose
      BY <2>5, <3>1, <3>2, <3>4 DEF WorkerClose, Ends, OfConn
    <3> QED BY <1>8, <3>3, <3>4
  <2> QED BY <1>5, <2>1, <2>3, <2>4, <2>5 DEF OverOk
<1>9. ASSUME SliceDead PROVE OverOk(g, c, s)'
  <2>1. /\ running # <<>> /\ running' = Tail(running) /\ dead' = dead \ {Head(running)}
        /\ UNCHANGED <<over, wq, wb, mq, mb, mons>>
    BY <1>9 DEF SliceDead
  <2>2. Range(running') = Range(running) \ {Head(running)}
    BY <1>0, <2>1, RunningMoves DEF PlaceInv
  <2> QED BY <1>5, <2>1, <2>2 DEF OverOk
<1>10. ASSUME NEW S, SliceQuery(S) PROVE OverOk(g, c, s)'
  <2>1. PICK h : h = Head(running)
    OBVIOUS
  <2>2. /\ h \in Nat /\ h \in Range(running)
        /\ Range(Tail(running)) = Range(running) \ {h}
        /\ Range(Append(Tail(running), h)) = Range(running)
    BY <1>10, <2>1, SliceMoves
  <2>3. /\ UNCHANGED <<over, wb, wq, mb, mons, dead>> /\ h \notin dead
        /\ running' \in {running, Tail(running), Append(Tail(running), h)}
        /\ mq' \in {mq, Append(mq, NewSub(h))}
    BY <1>10, <2>1 DEF SliceQuery
  <2>4. Range(running') \subseteq Range(running)
    BY <2>2, <2>3
  <2>5. NewSub(h) \in Msg /\ NewSub(h).type = "NewSub" /\ NewSub(h).gen = h
    BY <2>2, MadeTypes DEF NewSub
  <2>6. /\ EndIn(mq, c, s) => EndIn(mq', c, s)
        /\ EndBehind(mq, g, c, s) => g = h \/ EndBehind(mq', g, c, s)
    BY <1>0, <2>3, <2>5, EndAppend
  <2> QED BY <1>5, <2>2, <2>3, <2>4, <2>6 DEF OverOk
<1>11. ASSUME MonWake PROVE OverOk(g, c, s)'
  <2>1. mb = <<>> /\ mb' = mq /\ mq' = <<>> /\ UNCHANGED <<over, wq, wb, running, dead, mons>>
    BY <1>11 DEF MonWake, ReqType
  <2> QED BY <1>5, <1>e, <2>1 DEF OverOk
<1>12. ASSUME MonAdd \/ MonRemove \/ MonClose \/ MonDBChange PROVE OverOk(g, c, s)'
  <2>1. /\ mb # <<>> /\ mb' = Tail(mb) /\ UNCHANGED <<over, wq, wb, mq, running, dead>>
    <3>1. mpc = "batch" /\ MonDone /\ UNCHANGED <<over, wq, wb, mq, running, dead>>
      <4>1. MonAdd \/ MonDBChange => mpc = "batch" /\ MonDone /\ UNCHANGED <<over, wq, wb, mq, running, dead>>
        BY DEF MonAdd, MonDBChange
      <4>2. MonRemove \/ MonClose => mpc = "batch" /\ MonDone /\ UNCHANGED <<over, wq, wb, mq, running, dead>>
        BY DEF MonRemove, MonClose
      <4> QED BY <1>12, <4>1, <4>2
    <3> QED BY <3>1 DEF MonDone, ReqType
  <2>2. /\ EndIn(mb, c, s) => EndIn(mb', c, s) \/ Ends(Head(mb), c, s)
        /\ EndBehind(mb, g, c, s) => EndBehind(mb', g, c, s)
        /\ EndBehind(mb, g, c, s) /\ Head(mb).type = "NewSub" /\ Head(mb).gen = g
             => EndIn(mb', c, s)
    BY <1>0, <2>1, EndTail
  <2>3. CASE MonAdd
    <3>1. mons' \subseteq mons \cup {Head(mb).gen} /\ Head(mb).type = "NewSub"
      BY <2>3 DEF MonAdd
    <3>2. ~Ends(Head(mb), c, s)
      BY <3>1 DEF Ends
    <3> QED BY <1>5, <2>1, <2>2, <3>1, <3>2 DEF OverOk
  <2>4. CASE MonDBChange
    <3>1. mons' = mons /\ ~Ends(Head(mb), c, s)
      BY <2>4 DEF MonDBChange, Ends
    <3> QED BY <1>5, <2>1, <2>2, <3>1 DEF OverOk
  <2>5. CASE MonRemove \/ MonClose
    <3>1. mons' \subseteq mons
      BY <2>5 DEF MonRemove, MonClose
    <3>2. ASSUME Ends(Head(mb), c, s) PROVE g \notin mons'
      BY <1>5, <2>1, <2>5, <3>2 DEF MonRemove, MonClose, Ends, OfSub, OfConn
    <3> QED BY <1>5, <2>1, <2>2, <3>1, <3>2 DEF OverOk
  <2> QED BY <1>12, <2>3, <2>4, <2>5
<1>13. ASSUME NEW ev, NEW r, Commit(ev) \/ Remove(r) \/ SliceIdle \/ UNCHANGED vars
       PROVE  OverOk(g, c, s)'
  <2>1. UNCHANGED <<over, wq, wb, mq, mb, mons, running, dead>>
    BY <1>13 DEF Commit, Remove, SliceIdle, vars
  <2> QED BY <1>5, <2>1 DEF OverOk
<1>14. ASSUME Watcher PROVE OverOk(g, c, s)'
  <2>1. /\ DBChange \in Msg /\ DBChange.type # "NewSub" /\ mq' = Append(mq, DBChange)
        /\ UNCHANGED <<over, wb, wq, mb, running, dead, mons>>
    BY <1>14, MadeTypes DEF Watcher, DBChange
  <2>2. /\ EndIn(mq, c, s) => EndIn(mq', c, s)
        /\ EndBehind(mq, g, c, s) => EndBehind(mq', g, c, s)
    BY <1>0, <2>1, EndAppend
  <2> QED BY <1>5, <2>1, <2>2 DEF OverOk
<1>15. CASE ClientStep
  BY <1>1, <1>3, <1>4, <1>15 DEF ClientStep
<1>16. CASE WorkerStep
  BY <1>6, <1>7, <1>8, <1>9, <1>10, <1>13, <1>16 DEF WorkerStep
<1>17. CASE MonitorStep
  BY <1>11, <1>12, <1>17 DEF MonitorStep
<1> QED BY <1>13, <1>14, <1>15, <1>16, <1>17 DEF Next

-----------------------------------------------------------------------------
(* The theorems *)

\* The inductive invariant of the pipeline.
LEMMA ReqInvariant == Spec => []ReqInv
<1>1. Init => ReqInv
  <2> SUFFICES ASSUME Init PROVE ReqInv
    OBVIOUS
  <2>1. Gens = {} /\ Range(running) = {} /\ Queued = {} /\ Handed = {}
    BY DEF Init, Gens, Range, Queued, Handed, NewIn, News
  <2>2. ReqType
    <3>1. /\ db = {} /\ wtxn = {} /\ mtxn = {} /\ dirty = FALSE /\ over = {}
          /\ reg = {} /\ dead = {} /\ mons = {} /\ curr = MaxU64
          /\ wpc = "wait" /\ mpc = "wait" /\ wb = <<>> /\ mb = <<>>
      BY DEF Init
    <3>2. /\ subs \in Seq(SubType) /\ out \in Seq(Seq(OutMsg)) /\ Len(out) = Len(subs)
          /\ wq \in Seq(Msg) /\ wb \in Seq(Msg) /\ mq \in Seq(Msg) /\ mb \in Seq(Msg)
          /\ running \in Seq(Nat)
      BY DEF Init
    <3>3. curr \in 0..MaxU64
      BY <3>1, ReqAssumption
    <3> QED BY <3>1, <3>2, <3>3 DEF ReqType
  <2>3. PlaceInv
    BY <2>1 DEF Init, PlaceInv, UniqNew, News, NoRepeat, Queued, Handed
  <2>4. SnapInv
    BY EarlierNow DEF Init, SnapInv
  <2>5. GenInv /\ OverInv
    BY <2>1 DEF Init, GenInv, OverInv
  <2>6. CurrInv
    <3>1. MostRecentLevId({}) = 0
      BY MostRecent DEF LevIds
    <3> QED BY <3>1, ReqAssumption DEF Init, CurrInv
  <2> QED BY <2>2, <2>3, <2>4, <2>5, <2>6 DEF ReqInv
<1>2. ReqInv /\ [Next]_vars => ReqInv'
  BY NextType, NextPlace, NextSnap, NextGen, NextCurr, NextOver DEF ReqInv
<1> QED BY <1>1, <1>2, PTL DEF Spec

\* SentOnce: whether the query, the catch-up or the monitor finds an event, it
\* is sent at most once for a subscription.
THEOREM SentOnceTheorem == Spec => []SentOnce
<1>1. ReqInv => SentOnce
  BY DEF ReqInv, GenInv, GenOk, OnceIn, SentOnce
<1> QED BY <1>1, ReqInvariant, PTL

\* EoseSplits: one EOSE or COUNT, before it what was stored when the query
\* began, after it what came later.
THEOREM EoseSplitsTheorem == Spec => []EoseSplits
<1>1. ASSUME ReqInv, NEW g \in Gens PROVE SplitIn(out[g], subs[g].start)
  BY <1>1 DEF ReqInv, GenInv, GenOk
<1>2. ASSUME ReqInv, NEW g \in Gens
      PROVE  Cardinality(At(g, "EOSE") \cup At(g, "COUNT")) <= 1
  <2> DEFINE A == At(g, "EOSE") \cup At(g, "COUNT")
  <2>1. \A i, j \in A : i = j
    BY <1>1, <1>2 DEF SplitIn, At
  <2> HIDE DEF A
  <2>2. A = {} \/ \E i : A = {i}
    BY <2>1
  <2>3. CASE A = {}
    <3>1. Cardinality(A) = 0
      BY <2>3, FS_EmptySet
    <3> QED BY <3>1 DEF A
  <2>4. CASE \E i : A = {i}
    <3>1. Cardinality(A) = 1
      BY <2>4, FS_Singleton
    <3> QED BY <3>1 DEF A
  <2> QED BY <2>2, <2>3, <2>4
<1>3. ReqInv => EoseSplits
  BY <1>1, <1>2 DEF EoseSplits, SplitIn, At
<1> QED BY <1>3, ReqInvariant, PTL

\* NothingMissed: when everything has been handled, a monitored subscription
\* has every stored event that matches, unless a limit cut its query short.
THEOREM NothingMissedTheorem == Spec => []NothingMissed
<1>1. ASSUME ReqInv, Quiet, NEW g \in mons, NEW r \in db, Matches(subs[g].filters, r.ev),
             r.levId > subs[g].start \/ ~subs[g].cut
      PROVE  r \in Delivered(g)
  <2>1. MonOk(g) /\ g \in DOMAIN subs
    BY <1>1 DEF ReqInv, PlaceInv, GenInv, GenOk, Gens
  <2>2. db \in SUBSET Recs /\ subs[g] \in SubType /\ curr \in Nat
    BY <1>1, <2>1 DEF ReqInv, ReqType
  <2>3. r.levId \in Nat /\ subs[g].start \in Nat
    BY <2>2, ReqAssumption DEF SubType, Recs
  <2>4. r.levId <= curr
    <3>1. ~dirty /\ mq = <<>> /\ mb = <<>>
      BY <1>1 DEF Quiet, ReqInv, ReqType
    <3>2. curr >= MostRecentLevId(db)
      BY <1>1, <3>1 DEF ReqInv, CurrInv, Changes
    <3>3. r.levId <= MostRecentLevId(db) /\ MostRecentLevId(db) \in Nat
      BY <2>2, MostRecent
    <3> QED BY <2>2, <2>3, <3>2, <3>3
  <2>5. CASE r.levId > subs[g].start
    BY <1>1, <2>1, <2>4, <2>5 DEF MonOk, RecsOf, Delivered
  <2>6. CASE ~(r.levId > subs[g].start)
    BY <1>1, <2>1, <2>3, <2>6 DEF MonOk, StoredSent, RecsOf, Delivered
  <2> QED BY <2>5, <2>6
<1>2. ReqInv => NothingMissed
  BY <1>1 DEF NothingMissed
<1> QED BY <1>2, ReqInvariant, PTL

\* NoZombies: when everything has been handled, neither a query nor a monitor
\* is left of a subscription the client closed or of a connection that is gone.
THEOREM NoZombiesTheorem == Spec => []NoZombies
<1>1. ASSUME ReqInv, Quiet PROVE mons \cap over = {} /\ reg = {} /\ dead = {}
  <2>1. wq = <<>> /\ wb = <<>> /\ mq = <<>> /\ mb = <<>> /\ running = <<>>
    BY <1>1 DEF Quiet, ReqInv, ReqType
  <2>2. \A c, s : ~EndIn(<<>>, c, s)
    BY DEF EndIn
  <2>3. mons \cap over = {}
    BY <1>1, <2>1, <2>2 DEF ReqInv, OverInv, OverOk
  <2>4. Range(running) = {}
    BY <2>1 DEF Range
  <2> QED BY <1>1, <2>3, <2>4 DEF ReqInv, PlaceInv
<1>2. ReqInv => NoZombies
  BY <1>1 DEF NoZombies
<1> QED BY <1>2, ReqInvariant, PTL
-----------------------------------------------------------------------------
(* COUNT: the levIds in the larger of the two sent sets are what is counted *)

CountsIn(s) == {s[i] : i \in {k \in DOMAIN s : s[k].type = "COUNT"}}

\* The filters the query is through with
Finished(g) == IF CountsIn(out[g]) = {} THEN 1..(subs[g].fi - 1) ELSE DOMAIN subs[g].filters

AllFound(g, k) ==
  \A r \in db : r.levId <= subs[g].start /\ r.ev \in subs[g].filters[k].match
                => r.levId \in subs[g].full

\* The set holds all that the finished filters match, or more than may be
\* reported; as long as nothing is removed it holds nothing else.
FullOk(g) ==
  LET q == subs[g] IN
  /\ q.full \subseteq 1..q.start
  /\ Finished(g) # {} => q.start <= MostRecentLevId(db)
  /\ \A k \in Finished(g) :
       q.filters[k].limit > MaxCount => Cardinality(q.full) > MaxCount \/ AllFound(g, k)
  /\ removals = 0 => /\ q.buf \subseteq db
                     /\ \A n \in q.full : \E r \in db : r.levId = n /\ Matches(q.filters, r.ev)
  /\ \A m \in CountsIn(out[g]) :
       /\ m.limited = (Cardinality(q.full) > MaxCount)
       /\ m.count = IF m.limited THEN MaxCount ELSE Cardinality(q.full)

CountedInv ==
  /\ removals \in Nat /\ (removals = 0 => wtxn \subseteq db)
  /\ \A g \in Gens : FullOk(g)

\* Only an answer of type COUNT adds one.
LEMMA CountsMore ==
  ASSUME NEW s \in Seq(OutMsg)
  PROVE  /\ \A m \in OutMsg : /\ s \o <<m>> \in Seq(OutMsg)
                              /\ CountsIn(s \o <<m>>)
                                   = CountsIn(s) \cup (IF m.type = "COUNT" THEN {m} ELSE {})
         /\ \A found \in SUBSET Recs : /\ s \o Sent(found) \in Seq(OutMsg)
                                       /\ CountsIn(s \o Sent(found)) = CountsIn(s)
         /\ CountsIn(s \o Answer("NOTICE")) = CountsIn(s)
         /\ CountsIn(s \o <<>>) = CountsIn(s)
         /\ CountsIn(<<>>) = {}
<1>1. ASSUME NEW m \in OutMsg
      PROVE  /\ s \o <<m>> \in Seq(OutMsg)
             /\ CountsIn(s \o <<m>>) = CountsIn(s) \cup (IF m.type = "COUNT" THEN {m} ELSE {})
  <2> DEFINE t == s \o <<m>>
  <2>1. /\ t \in Seq(OutMsg) /\ Len(t) = Len(s) + 1 /\ t[Len(s) + 1] = m
        /\ \A i \in 1..Len(s) : t[i] = s[i]
    OBVIOUS
  <2>2. DOMAIN t = DOMAIN s \cup {Len(s) + 1} /\ DOMAIN s = 1..Len(s)
    BY <2>1
  <2> HIDE DEF t
  <2>3. CountsIn(t) = CountsIn(s) \cup (IF m.type = "COUNT" THEN {m} ELSE {})
    BY <2>1, <2>2 DEF CountsIn
  <2> QED BY <2>1, <2>3 DEF t
<1>2. s \o <<>> = s
  OBVIOUS
<1>3. ASSUME NEW found \in SUBSET Recs
      PROVE  s \o Sent(found) \in Seq(OutMsg) /\ CountsIn(s \o Sent(found)) = CountsIn(s)
  <2>1. CASE found = {}
    BY <1>2, <2>1 DEF Sent
  <2>2. CASE found # {}
    <3>1. [type |-> "EVENTS", recs |-> found] \in OutMsg
      BY DEF OutMsg
    <3>2. Sent(found) = <<[type |-> "EVENTS", recs |-> found]>>
      BY <2>2 DEF Sent
    <3> QED BY <1>1, <3>1, <3>2
  <2> QED BY <2>1, <2>2
<1>4. CountsIn(s \o Answer("NOTICE")) = CountsIn(s)
  <2>1. [type |-> "NOTICE", recs |-> {}] \in OutMsg
    BY DEF OutMsg
  <2> QED BY <1>1, <2>1 DEF Answer
<1>5. CountsIn(<<>>) = {}
  BY DEF CountsIn
<1> QED BY <1>1, <1>2, <1>3, <1>4, <1>5

\* As long as nothing was removed, the database has only grown.
LEMMA NoRemovals ==
  ASSUME removals \in Nat, [Next]_vars
  PROVE  removals' \in Nat /\ (removals' = 0 => removals = 0 /\ db \subseteq db')
<1> USE DEF store, worker, monitor, client
<1>1. ASSUME NEW ev, Commit(ev) PROVE removals' = removals /\ db \subseteq db'
  BY <1>1 DEF Commit
<1>2. ASSUME NEW r, Remove(r) PROVE removals' = removals + 1
  BY <1>2 DEF Remove
<1>3. CASE ClientStep \/ Watcher \/ UNCHANGED vars
  BY <1>3 DEF ClientStep, Watcher, vars, IngestReq, IngestClose, IngestCloseConn
<1>4. CASE WorkerStep
  <2>1. ASSUME NEW S, SliceQuery(S) PROVE UNCHANGED <<db, removals>>
    BY <2>1 DEF SliceQuery
  <2>2. WorkerAdd \/ SliceIdle \/ SliceDead => UNCHANGED <<db, removals>>
    BY DEF WorkerAdd, SliceIdle, SliceDead
  <2>3. WorkerWake \/ WorkerRemove \/ WorkerClose => UNCHANGED <<db, removals>>
    BY DEF WorkerWake, WorkerRemove, WorkerClose
  <2> QED BY <1>4, <2>1, <2>2, <2>3 DEF WorkerStep
<1>5. CASE MonitorStep
  <2>1. MonAdd \/ MonWake \/ MonDBChange => UNCHANGED <<db, removals>>
    BY DEF MonAdd, MonWake, MonDBChange
  <2>2. MonRemove \/ MonClose => UNCHANGED <<db, removals>>
    BY DEF MonRemove, MonClose
  <2> QED BY <1>5, <2>1, <2>2 DEF MonitorStep
<1> QED BY <1>1, <1>2, <1>3, <1>4, <1>5 DEF Next

\* What was counted stays right while the database moves on.
LEMMA FullKept ==
  ASSUME ReqType, CountedInv, [Next]_vars, ReqType', NEW g \in Gens,
         subs'[g].full = subs[g].full, subs'[g].start = subs[g].start,
         subs'[g].filters = subs[g].filters, subs'[g].fi = subs[g].fi,
         subs'[g].buf = subs[g].buf, CountsIn(out'[g]) = CountsIn(out[g])
  PROVE  FullOk(g)'
<1> DEFINE q == subs[g]
           n == subs'[g]
<1>1. /\ MostRecentLevId(db) <= MostRecentLevId(db')
      /\ \A r \in db' : r \in db \/ r.levId > MostRecentLevId(db)
  BY DbAdvances
<1>2. removals' = 0 => removals = 0 /\ db \subseteq db'
  BY NoRemovals DEF CountedInv
<1>3. /\ MostRecentLevId(db) \in Nat /\ MostRecentLevId(db') \in Nat
      /\ q.start \in Nat /\ \A r \in db' : r.levId \in Nat
  <2>1. db \in SUBSET Recs /\ db' \in SUBSET Recs
    BY DEF ReqType
  <2>2. \A r \in Recs : r.levId \in Nat
    BY DEF Recs
  <2>3. subs[g] \in SubType
    BY DEF ReqType, Gens
  <2>4. q.start \in Nat
    BY <2>3 DEF SubType
  <2> QED BY <2>1, <2>2, <2>4, MostRecent
<1>4. FullOk(g) /\ Finished(g)' = Finished(g)
  BY DEF CountedInv, Finished
<1>5. n.full \subseteq 1..n.start
  BY <1>4 DEF FullOk
<1>6. Finished(g)' # {} => n.start <= MostRecentLevId(db')
  BY <1>1, <1>3, <1>4 DEF FullOk
<1>7. ASSUME NEW k \in Finished(g)', n.filters[k].limit > MaxCount, ~(Cardinality(n.full) > MaxCount)
      PROVE  AllFound(g, k)'
  <2>1. AllFound(g, k) /\ q.start <= MostRecentLevId(db)
    BY <1>4, <1>7 DEF FullOk
  <2>2. \A r \in db' : r.levId <= q.start => r \in db
    BY <1>1, <1>3, <2>1
  <2> QED BY <2>1, <2>2 DEF AllFound
<1>8. removals' = 0 => /\ n.buf \subseteq db'
                       /\ \A x \in n.full : \E r \in db' : r.levId = x /\ Matches(n.filters, r.ev)
  BY <1>2, <1>4 DEF FullOk
<1>9. \A m \in CountsIn(out'[g]) :
        /\ m.limited = (Cardinality(n.full) > MaxCount)
        /\ m.count = IF m.limited THEN MaxCount ELSE Cardinality(n.full)
  BY <1>4 DEF FullOk
<1> QED BY <1>5, <1>6, <1>7, <1>8, <1>9 DEF FullOk

\* A slice adds what its scan found; a filter is finished when its limit is
\* reached or nothing is left, and with the last one the set is counted.
LEMMA SliceFull ==
  ASSUME ReqInv, CountedInv, NEW S, SliceQuery(S), NEW g, g = Head(running)
  PROVE  /\ g \in Gens /\ FullOk(g)'
         /\ \A h \in Gens \ {g} : subs'[h] = subs[h] /\ out'[h] = out[h]
<1> USE DEF store, worker, monitor, client
<1>0. ReqType /\ PlaceInv /\ SnapInv /\ GenInv
  BY DEF ReqInv
<1>1. g \in Gens /\ g \in Range(running)
  BY <1>0, SliceMoves
<1>2. S \subseteq Recs /\ subs[g].full \cup LevIds(S) \subseteq 0..MaxU64
  BY <1>0, SliceType
<1>3. UNCHANGED <<db, removals>> /\ wpc # "wait"
  BY DEF SliceQuery, SliceDue
<1>4. /\ RunningOk(g) /\ FullOk(g) /\ subs[g] \in SubType /\ out[g] \in Seq(OutMsg)
      /\ g \in DOMAIN subs /\ g \in DOMAIN out
  <2>1. RunningOk(g) /\ FullOk(g)
    BY <1>0, <1>1 DEF GenInv, GenOk, CountedInv
  <2>2. g \in DOMAIN subs /\ g \in DOMAIN out
    BY <1>0, <1>1 DEF Gens, ReqType
  <2> QED BY <1>0, <2>1, <2>2 DEF ReqType
<1> DEFINE q     == subs[g]
           f     == q.filters[q.fi]
           cur   == q.cur \cup LevIds(S)
           done  == \/ f.limit = 0
                    \/ Cardinality(cur) >= f.limit
                    \/ (Due(q, f) \cap wtxn) \subseteq S
           complete == done /\ q.fi = Len(q.filters)
           fresh == {r \in S \cap wtxn : r.levId \notin q.full}
           full  == q.full \cup LevIds(S)
           new   == Sliced(q, S)
           n     == subs'[g]
           sent  == IF q.count THEN {} ELSE fresh
           t     == out[g] \o Sent(sent)
<1>5. /\ \A h \in Gens \ {g} : subs'[h] = subs[h] /\ out'[h] = out[h]
      /\ n = new
  <2>1. subs' = [subs EXCEPT ![g] = new]
    BY <1>0, SliceType
  <2>2. \E x : out' = [out EXCEPT ![g] = x]
    BY DEF SliceQuery
  <2>3. Gens = DOMAIN subs /\ Gens = DOMAIN out
    BY <1>0 DEF Gens, ReqType
  <2> HIDE DEF new
  <2> QED BY <1>1, <2>1, <2>2, <2>3
<1>6. /\ n.start = q.start /\ n.filters = q.filters /\ n.full = full
      /\ n.fi = (IF done /\ ~complete THEN q.fi + 1 ELSE q.fi)
      /\ n.buf \subseteq Due(q, f)
  <2>1. n = [q EXCEPT !.full = full,
                      !.cur = IF done THEN {} ELSE cur,
                      !.fi = IF done /\ ~complete THEN @ + 1 ELSE @,
                      !.buf = IF done THEN {} ELSE {r \in Due(q, f) : r.levId \notin cur},
                      !.cut = @ \/ (done /\ Cardinality(cur) >= f.limit),
                      !.pauses = IF done THEN @ ELSE @ + 1]
    BY <1>5 DEF Sliced
  <2> HIDE DEF q, f, cur, done, complete, full, n
  <2> QED BY <1>4, <2>1 DEF SubType, q
<1>7. /\ q.latest = q.start /\ q.start <= MostRecentLevId(db) /\ q.start <= MostRecentLevId(wtxn)
      /\ q.fi \in DOMAIN q.filters /\ q.cur \subseteq q.full
      /\ {"EOSE", "COUNT"} \cap TypesOf(out[g]) = {}
  BY <1>3, <1>4 DEF RunningOk
<1>8. /\ S \subseteq Due(q, f)
      /\ Due(q, f) = {r \in wtxn \cup q.buf : /\ r.ev \in f.match
                                              /\ r.levId <= q.latest
                                              /\ r.levId \notin q.cur}
  BY DEF SliceQuery, Due
<1>9. /\ q.start \in Nat /\ q.fi \in Nat /\ f.limit \in Nat /\ q.filters \in Seq(Filter)
      /\ (\A r \in Recs : r.levId \in Nat \ {0})
  <2>1. q.start \in Nat /\ q.fi \in Nat /\ q.filters \in Seq(Filter)
    BY <1>4, ReqAssumption DEF SubType
  <2>2. f \in Filter
    BY <1>7, <2>1
  <2>3. f.limit \in Nat
    BY <2>2 DEF Filter
  <2>4. \A r \in Recs : r.levId \in Nat \ {0}
    BY DEF Recs
  <2> HIDE DEF q, f
  <2> QED BY <2>1, <2>3, <2>4
<1>10. /\ IsFiniteSet(full) /\ Cardinality(full) \in Nat
       /\ Cardinality(cur) \in Nat /\ Cardinality(cur) <= Cardinality(full)
       /\ Cardinality(q.full) \in Nat /\ Cardinality(q.full) <= Cardinality(full)
  <2>1. IsFiniteSet(0..MaxU64)
    BY FS_Interval, ReqAssumption
  <2>2. full \in SUBSET (0..MaxU64) /\ cur \in SUBSET full /\ q.full \in SUBSET full
    BY <1>2, <1>7
  <2> HIDE DEF full, cur, q
  <2>3. IsFiniteSet(full)
    BY <2>1, <2>2, FS_Subset
  <2> QED BY <2>2, <2>3, FS_Subset, FS_CardinalityType
<1>11. CountsIn(out[g]) = {} /\ Finished(g) = 1..(q.fi - 1)
  <2>1. CountsIn(out[g]) = {}
    BY <1>7 DEF CountsIn, TypesOf
  <2> QED BY <2>1 DEF Finished
<1>12. /\ complete /\ q.count =>
            \E m : /\ CountsIn(out'[g]) = {m}
                   /\ m.limited = (Cardinality(full) > MaxCount)
                   /\ m.count = IF m.limited THEN MaxCount ELSE Cardinality(full)
       /\ ~(complete /\ q.count) => CountsIn(out'[g]) = {}
  <2>1. out'[g] = out[g] \o (IF q.count THEN <<>> ELSE Sent(fresh))
                         \o (IF complete THEN Ending(q, full) ELSE <<>>)
    BY <1>4 DEF SliceQuery
  <2>2. (IF q.count THEN <<>> ELSE Sent(fresh)) = Sent(sent)
    BY DEF Sent
  <2>3. t \in Seq(OutMsg) /\ CountsIn(t) = {}
    <3>1. sent \in SUBSET Recs
      BY <1>2
    <3> HIDE DEF sent
    <3> QED BY <1>4, <1>11, <3>1, CountsMore
  <2>4. out'[g] = t \o (IF complete THEN Ending(q, full) ELSE <<>>)
    BY <2>1, <2>2
  <2>5. Ending(q, full) \in Seq(OutMsg)
    BY <1>2, <1>4, MadeTypes
  <2> HIDE DEF t, complete, full
  <2>6. CASE ~complete
    <3>1. out'[g] = t \o <<>>
      BY <2>4, <2>6
    <3> QED BY <2>3, <2>6, <3>1, CountsMore
  <2>7. CASE complete /\ ~q.count
    <3> DEFINE m == [type |-> "EOSE", recs |-> {}]
    <3>1. m \in OutMsg /\ m.type # "COUNT"
      BY DEF OutMsg
    <3>2. out'[g] = t \o <<m>>
      BY <2>4, <2>7 DEF Ending, Answer
    <3> HIDE DEF m
    <3>3. CountsIn(t \o <<m>>) = CountsIn(t) \cup (IF m.type = "COUNT" THEN {m} ELSE {})
      BY <2>3, <3>1, CountsMore, Zenon
    <3>4. CountsIn(out'[g]) = {}
      BY <2>3, <3>1, <3>2, <3>3
    <3> QED BY <2>7, <3>4
  <2>8. CASE complete /\ q.count
    <3> DEFINE m == [type |-> "COUNT", recs |-> {},
                     count |-> IF Cardinality(full) > MaxCount THEN MaxCount ELSE Cardinality(full),
                     limited |-> Cardinality(full) > MaxCount]
    <3>1. Ending(q, full) = <<m>>
      BY <2>8 DEF Ending
    <3>2. m \in OutMsg
      BY <1>10, ReqAssumption DEF OutMsg
    <3>3. m.type = "COUNT" /\ m.limited = (Cardinality(full) > MaxCount)
          /\ m.count = IF m.limited THEN MaxCount ELSE Cardinality(full)
      OBVIOUS
    <3>4. out'[g] = t \o <<m>>
      BY <2>4, <2>8, <3>1
    <3> HIDE DEF m
    <3>5. CountsIn(out'[g]) = {m}
      BY <2>3, <3>2, <3>3, <3>4, CountsMore
    <3> QED BY <2>8, <3>3, <3>5
  <2> QED BY <2>6, <2>7, <2>8
<1>13. full \subseteq 1..q.start
  <2>1. LevIds(S) \subseteq 1..q.start
    BY <1>2, <1>7, <1>8, <1>9 DEF LevIds
  <2> QED BY <1>4, <2>1 DEF FullOk
<1>14. ASSUME NEW k \in 1..q.fi, k = q.fi => done, q.filters[k].limit > MaxCount,
              ~(Cardinality(full) > MaxCount),
              NEW r \in db, r.levId <= q.start, r.ev \in q.filters[k].match
       PROVE  r.levId \in full
  <2>1. CASE k = q.fi
    <3>1. f.limit > MaxCount /\ MaxCount \in Nat
      BY <1>14, <2>1, ReqAssumption
    <3>2. (Due(q, f) \cap wtxn) \subseteq S
      <4>1. ~(Cardinality(cur) >= f.limit) /\ f.limit # 0
        <5> HIDE DEF cur, full, f
        <5> QED BY <1>9, <1>10, <1>14, <3>1
      <4>2. done
        BY <1>14, <2>1
      <4> QED BY <4>1, <4>2
    <3>3. r \in wtxn
      <4>1. db \in SUBSET Recs /\ wtxn \in SUBSET Recs
        BY <1>0 DEF ReqType
      <4>2. MostRecentLevId(wtxn) \in Nat /\ r.levId \in Nat
        BY <1>9, <4>1, MostRecent
      <4>3. r.levId <= MostRecentLevId(wtxn)
        BY <1>7, <1>9, <1>14, <4>2
      <4> QED BY <1>0, <4>3 DEF SnapInv, Earlier
    <3>4. CASE r.levId \in q.cur
      BY <1>7, <3>4
    <3>5. CASE r.levId \notin q.cur
      <4>1. r \in Due(q, f)
        BY <1>7, <1>8, <1>14, <2>1, <3>3, <3>5
      <4> QED BY <3>2, <3>3, <4>1 DEF LevIds
    <3> QED BY <3>4, <3>5
  <2>2. CASE k # q.fi
    <3>1. k \in Finished(g)
      BY <1>9, <1>11, <1>14, <2>2
    <3>2. ~(Cardinality(q.full) > MaxCount)
      <4> HIDE DEF full, q
      <4> QED BY <1>10, <1>14, ReqAssumption
    <3>3. AllFound(g, k)
      BY <1>4, <1>14, <3>1, <3>2 DEF FullOk
    <3> QED BY <1>14, <3>3 DEF AllFound
  <2> QED BY <2>1, <2>2
<1>15. \A k \in Finished(g)' : k \in 1..q.fi /\ (k = q.fi => done)
  <2>1. CASE complete /\ q.count
    <3>1. Finished(g)' = DOMAIN n.filters
      BY <1>12, <2>1 DEF Finished
    <3>2. DOMAIN n.filters = 1..q.fi /\ done
      BY <1>6, <1>9, <2>1
    <3> QED BY <3>1, <3>2
  <2>2. CASE ~(complete /\ q.count)
    <3>1. Finished(g)' = 1..(n.fi - 1)
      BY <1>12, <2>2 DEF Finished
    <3> HIDE DEF q, n, done, complete
    <3> QED BY <1>6, <1>9, <3>1
  <2> QED BY <2>1, <2>2
<1>16. ASSUME removals = 0
       PROVE  /\ n.buf \subseteq db
              /\ \A x \in full : \E r \in db : r.levId = x /\ Matches(q.filters, r.ev)
  <2>1. Due(q, f) \subseteq db
    BY <1>4, <1>8, <1>16 DEF FullOk, CountedInv
  <2>2. \A r \in S : r \in db /\ Matches(q.filters, r.ev)
    BY <1>7, <1>8, <2>1 DEF Matches
  <2>3. ASSUME NEW x \in full PROVE \E r \in db : r.levId = x /\ Matches(q.filters, r.ev)
    <3>1. CASE x \in q.full
      BY <1>4, <1>16, <3>1 DEF FullOk
    <3>2. CASE x \in LevIds(S)
      BY <2>2, <3>2 DEF LevIds
    <3> QED BY <3>1, <3>2
  <2> QED BY <1>6, <2>1, <2>3
<1> HIDE DEF q, f, cur, done, complete, fresh, full, new, n, sent, t
<1>17. n = subs'[g]
  BY DEF n
<1>18. ASSUME NEW k \in Finished(g)', n.filters[k].limit > MaxCount, ~(Cardinality(n.full) > MaxCount)
       PROVE  AllFound(g, k)'
  BY <1>3, <1>6, <1>14, <1>15, <1>17, <1>18 DEF AllFound
<1>19. \A m \in CountsIn(out'[g]) : /\ m.limited = (Cardinality(n.full) > MaxCount)
                                    /\ m.count = IF m.limited THEN MaxCount ELSE Cardinality(n.full)
  BY <1>6, <1>12
<1>20. /\ n.full \subseteq 1..n.start /\ n.start <= MostRecentLevId(db')
       /\ removals' = 0 =>
            /\ n.buf \subseteq db'
            /\ \A x \in n.full : \E r \in db' : r.levId = x /\ Matches(n.filters, r.ev)
  BY <1>3, <1>6, <1>7, <1>13, <1>16
<1>21. FullOk(g)'
  BY <1>17, <1>18, <1>19, <1>20 DEF FullOk
<1> QED BY <1>1, <1>5, <1>21

\* A subscription of which a step leaves alone what is counted.
SameCount(g) ==
  /\ subs'[g].full = subs[g].full /\ subs'[g].start = subs[g].start
  /\ subs'[g].filters = subs[g].filters /\ subs'[g].fi = subs[g].fi
  /\ subs'[g].buf = subs[g].buf /\ CountsIn(out'[g]) = CountsIn(out[g])

\* Every step keeps what was counted, or is about the query it counts for.
LEMMA NextCounted ==
  ASSUME ReqInv, CountedInv, [Next]_vars, ReqInv'
  PROVE  CountedInv'
<1> USE DEF store, worker, monitor, client
<1>0. /\ ReqType /\ PlaceInv /\ SnapInv /\ GenInv /\ CurrInv /\ ReqType'
      /\ Gens = 1..Len(subs) /\ Gens = DOMAIN subs /\ Gens = DOMAIN out /\ Len(subs) \in Nat
      /\ \A g \in Gens : subs[g] \in SubType /\ out[g] \in Seq(OutMsg)
  <2>1. ReqType /\ PlaceInv /\ SnapInv /\ GenInv /\ CurrInv /\ ReqType'
    BY DEF ReqInv
  <2>2. /\ Gens = 1..Len(subs) /\ Gens = DOMAIN subs /\ Len(subs) \in Nat
        /\ \A g \in Gens : subs[g] \in SubType
    BY <2>1 DEF ReqType, Gens
  <2>3. Gens = DOMAIN out /\ \A g \in Gens : out[g] \in Seq(OutMsg)
    BY <2>1 DEF ReqType, Gens
  <2> QED BY <2>1, <2>2, <2>3
<1>1. removals' \in Nat /\ (removals' = 0 => removals = 0 /\ db \subseteq db')
  BY NoRemovals DEF CountedInv
<1>2. removals' = 0 => wtxn' \subseteq db'
  <2>1. wtxn' = wtxn \/ wtxn' = {} \/ (wtxn' = db /\ db' = db)
    <3>1. CASE ClientStep \/ Watcher \/ MonitorStep \/ UNCHANGED vars
      <4>1. MonAdd \/ MonDBChange \/ MonWake => wtxn' = wtxn
        BY DEF MonAdd, MonDBChange, MonWake
      <4>2. MonRemove \/ MonClose => wtxn' = wtxn
        BY DEF MonRemove, MonClose
      <4>3. CASE ClientStep \/ Watcher \/ UNCHANGED vars
        BY <4>3 DEF ClientStep, Watcher, vars, IngestReq, IngestClose, IngestCloseConn
      <4> QED BY <3>1, <4>1, <4>2, <4>3 DEF MonitorStep
    <3>2. ASSUME NEW ev, NEW r, Commit(ev) \/ Remove(r) PROVE wtxn' = wtxn
      BY <3>2 DEF Commit, Remove
    <3>3. ASSUME NEW S, SliceQuery(S) PROVE wtxn' \in {wtxn, {}}
      BY <3>3 DEF SliceQuery, SliceDone
    <3>4. WorkerAdd \/ SliceIdle \/ SliceDead => wtxn' \in {wtxn, {}}
      BY DEF WorkerAdd, SliceIdle, SliceDead, SliceDone
    <3>5. WorkerRemove \/ WorkerClose => wtxn' = wtxn
      BY DEF WorkerRemove, WorkerClose
    <3>6. WorkerWake => wtxn' = db /\ db' = db
      BY DEF WorkerWake
    <3> QED BY <3>1, <3>2, <3>3, <3>4, <3>5, <3>6 DEF Next, WorkerStep
  <2> QED BY <1>1, <2>1 DEF CountedInv
<1> SUFFICES ASSUME NEW g \in Gens' PROVE FullOk(g)'
  BY <1>1, <1>2 DEF CountedInv
<1>3. g \in Gens /\ SameCount(g) => FullOk(g)'
  BY <1>0, FullKept DEF SameCount
<1>4. ASSUME subs' = subs, out' = out PROVE FullOk(g)'
  BY <1>3, <1>4 DEF SameCount, Gens
<1>5. ASSUME subs'[g].full = {}, subs'[g].fi = 1, subs'[g].buf = {}, CountsIn(out'[g]) = {}
      PROVE  FullOk(g)'
  <2>1. Finished(g)' = {}
    BY <1>5 DEF Finished
  <2> QED BY <1>5, <2>1 DEF FullOk
<1>6. ASSUME NEW c \in Conns, NEW s \in SubIds, NEW req \in Reqs, IngestReq(c, s, req)
      PROVE  FullOk(g)'
  <2>1. PICK x : x.full = {} /\ x.fi = 1 /\ x.buf = {} /\ subs' = Append(subs, x)
    BY <1>6 DEF IngestReq
  <2>2. out' = Append(out, <<>>) /\ Len(out) = Len(subs) /\ out \in Seq(Seq(OutMsg))
        /\ subs \in Seq(SubType)
    BY <1>0, <1>6 DEF IngestReq, ReqType
  <2>3. g \in 1..(Len(subs) + 1)
    BY <1>0, <2>1, <2>2 DEF Gens
  <2>4. CASE g = Len(subs) + 1
    <3>1. subs'[g] = x /\ out'[g] = <<>>
      BY <1>0, <2>1, <2>2, <2>4
    <3>2. CountsIn(<<>>) = {}
      BY DEF CountsIn
    <3> QED BY <1>5, <2>1, <3>1, <3>2
  <2>5. CASE g # Len(subs) + 1
    <3>1. g \in Gens /\ subs'[g] = subs[g] /\ out'[g] = out[g]
      BY <1>0, <2>1, <2>2, <2>3, <2>5
    <3> QED BY <1>3, <3>1 DEF SameCount
  <2> QED BY <2>4, <2>5
<1>7. ASSUME WorkerAdd PROVE FullOk(g)'
  <2>1. PICK h : h = Head(wb).gen
    OBVIOUS
  <2>2. h \in Gens /\ h \in Queued
    BY <1>0, <1>7, <2>1, AddMoves
  <2>3. \A x \in Gens \ {h} : subs'[x] = subs[x] /\ out'[x] = out[x]
    BY <1>0, <1>7, <2>1, AddEffect
  <2>4. DOMAIN subs' = DOMAIN subs
    BY <1>7 DEF WorkerAdd
  <2>5. g \in Gens
    BY <2>4 DEF Gens
  <2>6. CASE g # h
    BY <1>3, <2>3, <2>5, <2>6 DEF SameCount
  <2>7. CASE g = h
    <3>1. out[g] = <<>> /\ subs[g].fi = 1 /\ subs[g].full = {} /\ subs[g].buf = {}
      BY <1>0, <2>2, <2>7 DEF GenInv, GenOk, QueuedOk
    <3>2. subs'[g] = [subs[g] EXCEPT !.latest = MostRecentLevId(wtxn), !.start = MostRecentLevId(wtxn)]
      BY <1>0, <1>7, <2>1, <2>5, <2>7 DEF WorkerAdd, SubType
    <3>3. subs'[g].fi = 1 /\ subs'[g].full = {} /\ subs'[g].buf = {}
      BY <1>0, <2>5, <3>1, <3>2 DEF SubType
    <3>4. out'[g] = out[g] \/ out'[g] = out[g] \o Answer("NOTICE")
      BY <1>0, <1>7, <2>1, <2>5, <2>7 DEF WorkerAdd
    <3>5. CountsIn(out'[g]) = {}
      <4>1. out[g] \in Seq(OutMsg)
        BY <1>0, <2>5
      <4>2. CountsIn(<<>>) = {} /\ CountsIn(out[g] \o Answer("NOTICE")) = CountsIn(out[g])
        BY <4>1, CountsMore
      <4> QED BY <3>1, <3>4, <4>2
    <3> QED BY <1>5, <3>3, <3>5
  <2> QED BY <2>6, <2>7
<1>8. ASSUME NEW S, SliceQuery(S) PROVE FullOk(g)'
  <2>1. PICK h : h = Head(running)
    OBVIOUS
  <2>2. h \in Gens /\ FullOk(h)' /\ \A x \in Gens \ {h} : subs'[x] = subs[x] /\ out'[x] = out[x]
    BY <1>8, <2>1, SliceFull
  <2>3. Len(subs') = Len(subs) /\ subs' \in Seq(SubType)
    BY <1>0, <1>8, SliceType
  <2>4. g \in Gens
    BY <1>0, <2>3 DEF Gens
  <2> QED BY <1>3, <2>2, <2>4 DEF SameCount
<1>9. ASSUME MonAdd PROVE FullOk(g)'
  <2>1. PICK h : h = Head(mb).gen
    OBVIOUS
  <2>2. h \in Gens /\ \A x \in Gens \ {h} : subs'[x] = subs[x] /\ out'[x] = out[x]
    BY <1>0, <1>9, <2>1, MonAddMoves, MonAddEffect
  <2>3. DOMAIN subs' = DOMAIN subs
    BY <1>9 DEF MonAdd
  <2>4. g \in Gens
    BY <2>3 DEF Gens
  <2>5. CASE g # h
    BY <1>3, <2>2, <2>4, <2>5 DEF SameCount
  <2>6. CASE g = h
    <3>1. subs'[g] = [subs[g] EXCEPT !.latest = MostRecentLevId(mtxn)]
      BY <1>0, <1>9, <2>1, <2>4, <2>6 DEF MonAdd, SubType
    <3>2. PICK missed \in SUBSET mtxn :
            \/ out'[g] = (out[g] \o Sent(missed)) \o Answer("NOTICE")
            \/ out'[g] = (out[g] \o Sent(missed)) \o <<>>
      <4> DEFINE missed == {r \in mtxn : r.levId > subs[g].latest /\ Matches(subs[g].filters, r.ev)}
      <4>1. \/ out'[g] = (out[g] \o Sent(missed)) \o Answer("NOTICE")
            \/ out'[g] = (out[g] \o Sent(missed)) \o <<>>
        BY <1>0, <1>9, <2>1, <2>4, <2>6 DEF MonAdd
      <4>2. missed \in SUBSET mtxn
        OBVIOUS
      <4> HIDE DEF missed
      <4> QED BY <4>1, <4>2
    <3>3. missed \in SUBSET Recs
      BY <1>0 DEF ReqType
    <3>4. CountsIn(out'[g]) = CountsIn(out[g])
      <4>1. out[g] \o Sent(missed) \in Seq(OutMsg) /\ CountsIn(out[g] \o Sent(missed)) = CountsIn(out[g])
        BY <1>0, <2>4, <3>3, CountsMore
      <4>2. /\ CountsIn((out[g] \o Sent(missed)) \o Answer("NOTICE")) = CountsIn(out[g] \o Sent(missed))
            /\ CountsIn((out[g] \o Sent(missed)) \o <<>>) = CountsIn(out[g] \o Sent(missed))
        BY <4>1, CountsMore
      <4> QED BY <3>2, <4>1, <4>2
    <3>5. /\ subs'[g].full = subs[g].full /\ subs'[g].start = subs[g].start
          /\ subs'[g].filters = subs[g].filters /\ subs'[g].fi = subs[g].fi
          /\ subs'[g].buf = subs[g].buf
      BY <1>0, <2>4, <3>1 DEF SubType
    <3> QED BY <1>3, <2>4, <3>4, <3>5 DEF SameCount
  <2> QED BY <2>5, <2>6
<1>10. ASSUME MonDBChange PROVE FullOk(g)'
  <2>1. DOMAIN subs' = DOMAIN subs
    BY <1>10 DEF MonDBChange
  <2>2. g \in Gens
    BY <2>1 DEF Gens
  <2>3. \/ subs'[g] = subs[g]
        \/ subs'[g] = [subs[g] EXCEPT !.latest = MostRecentLevId(Pending(g))]
    BY <1>0, <1>10, <2>2 DEF MonDBChange
  <2>4. out'[g] = out[g] \/ out'[g] = out[g] \o Sent(Pending(g))
    BY <1>0, <1>10, <2>2 DEF MonDBChange
  <2>5. Pending(g) \in SUBSET Recs
    BY <1>0 DEF Pending, ReqType
  <2>6. CountsIn(out'[g]) = CountsIn(out[g])
    <3>1. out[g] \in Seq(OutMsg)
      BY <1>0, <2>2
    <3>2. CountsIn(out[g] \o Sent(Pending(g))) = CountsIn(out[g])
      BY <2>5, <3>1, CountsMore, Zenon
    <3> QED BY <2>4, <3>2, Zenon
  <2>7. /\ subs'[g].full = subs[g].full /\ subs'[g].start = subs[g].start
        /\ subs'[g].filters = subs[g].filters /\ subs'[g].fi = subs[g].fi
        /\ subs'[g].buf = subs[g].buf
    BY <1>0, <2>2, <2>3 DEF SubType
  <2> QED BY <1>3, <2>2, <2>6, <2>7 DEF SameCount
<1>11. CASE ClientStep
  <2>1. ASSUME NEW c, IngestCloseConn(c) \/ \E s \in SubIds : IngestClose(c, s)
        PROVE  UNCHANGED <<subs, out>>
    BY <2>1 DEF IngestCloseConn, IngestClose
  <2> QED BY <1>4, <1>6, <1>11, <2>1 DEF ClientStep
<1>12. ASSUME NEW ev, NEW r, Commit(ev) \/ Remove(r) \/ Watcher \/ UNCHANGED vars
       PROVE  FullOk(g)'
  BY <1>4, <1>12 DEF Commit, Remove, Watcher, vars
<1>13. CASE WorkerStep
  <2>1. WorkerWake \/ WorkerRemove \/ WorkerClose => UNCHANGED <<subs, out>>
    BY DEF WorkerWake, WorkerRemove, WorkerClose
  <2>2. SliceIdle \/ SliceDead => UNCHANGED <<subs, out>>
    BY DEF SliceIdle, SliceDead
  <2> QED BY <1>4, <1>7, <1>8, <1>13, <2>1, <2>2 DEF WorkerStep
<1>14. CASE MonitorStep
  <2>1. MonWake \/ MonRemove \/ MonClose => UNCHANGED <<subs, out>>
    BY DEF MonWake, MonRemove, MonClose
  <2> QED BY <1>4, <1>9, <1>10, <1>14, <2>1 DEF MonitorStep
<1> QED BY <1>11, <1>12, <1>13, <1>14 DEF Next

\* The levId of an event names it, so that counting levIds counts events.
LEMMA ByLevId ==
  ASSUME NEW R \in SUBSET Recs, Same(R, R), NEW N, IsFiniteSet(N), \A r \in R : r.levId \in N
  PROVE  IsFiniteSet(R) /\ Cardinality(R) \in Nat /\ Cardinality(R) <= Cardinality(N)
<1> DEFINE f == [r \in R |-> r.levId]
<1>1. f \in Injection(R, N)
  BY DEF Injection, IsInjective, Same
<1> HIDE DEF f
<1>2. IsFiniteSet(R) /\ Cardinality(R) <= Cardinality(N)
  BY <1>1, FS_Injection
<1> QED BY <1>2, FS_CardinalityType

\* And where each of some levIds has its event, there are as many events.
LEMMA ToLevId ==
  ASSUME NEW R \in SUBSET Recs, IsFiniteSet(R), NEW N, \A n \in N : \E r \in R : r.levId = n
  PROVE  IsFiniteSet(N) /\ Cardinality(N) <= Cardinality(R)
<1> DEFINE f == [n \in N |-> CHOOSE r \in R : r.levId = n]
<1>1. \A n \in N : f[n] \in R /\ f[n].levId = n
  OBVIOUS
<1>2. f \in [N -> R]
  BY <1>1
<1> HIDE DEF f
<1>3. f \in Injection(N, R)
  BY <1>1, <1>2 DEF Injection, IsInjective
<1> QED BY <1>3, FS_Injection

\* CountExact: a COUNT is the number of stored events that match, each counted
\* once, or says that there are more than may be reported.
THEOREM CountExactTheorem == Spec => []CountExact
<1>1. Init => CountedInv
  BY DEF Init, CountedInv, Gens
<1>2. Spec => []CountedInv
  BY <1>1, NextCounted, ReqInvariant, PTL DEF Spec
<1>3. ReqInv /\ CountedInv => CountExact
  <2> SUFFICES ASSUME ReqInv, CountedInv, NEW g \in Gens, NEW i \in At(g, "COUNT")
               PROVE  LET m == out[g][i]
                          filters == subs[g].filters
                          stored == {r \in db : r.levId <= subs[g].start /\ Matches(filters, r.ev)}
                          whole  == {r \in stored : \E k \in DOMAIN filters :
                                       filters[k].limit > MaxCount /\ r.ev \in filters[k].match}
                      IN  /\ m.count <= MaxCount /\ m.count <= subs[g].start
                          /\ m.limited => m.count = MaxCount /\ subs[g].start > MaxCount
                          /\ ~m.limited => m.count >= Cardinality(whole)
                          /\ removals = 0 => IF m.limited THEN Cardinality(stored) > MaxCount
                                             ELSE m.count <= Cardinality(stored)
    BY Zenon DEF CountExact
  <2> DEFINE m == out[g][i]
             q == subs[g]
             stored == {r \in db : r.levId <= q.start /\ Matches(q.filters, r.ev)}
             whole  == {r \in stored : \E k \in DOMAIN q.filters :
                          q.filters[k].limit > MaxCount /\ r.ev \in q.filters[k].match}
  <2>1. ReqType /\ SnapInv /\ FullOk(g) /\ q \in SubType
    BY DEF ReqInv, CountedInv, ReqType, Gens
  <2>2. m \in CountsIn(out[g]) /\ Finished(g) = DOMAIN q.filters
    BY DEF At, CountsIn, Finished
  <2>3. /\ m.limited = (Cardinality(q.full) > MaxCount)
        /\ m.count = IF m.limited THEN MaxCount ELSE Cardinality(q.full)
    BY <2>1, <2>2 DEF FullOk
  <2>4. /\ IsFiniteSet(1..q.start) /\ Cardinality(1..q.start) = q.start /\ q.start \in Nat
        /\ MaxCount \in Nat
    <3>1. q.start \in Nat /\ MaxCount \in Nat
      BY <2>1, ReqAssumption DEF SubType
    <3> HIDE DEF q
    <3> QED BY <3>1, FS_Interval, SMTT(30)
  <2>5. IsFiniteSet(q.full) /\ Cardinality(q.full) \in Nat /\ Cardinality(q.full) <= q.start
    <3>1. q.full \in SUBSET (1..q.start)
      BY <2>1 DEF FullOk
    <3> HIDE DEF q
    <3> QED BY <2>4, <3>1, FS_Subset, FS_CardinalityType
  <2>6. /\ stored \in SUBSET Recs /\ whole \in SUBSET Recs
        /\ Same(stored, stored) /\ Same(whole, whole)
    BY <2>1 DEF ReqType, SnapInv, Same
  <2>7. IsFiniteSet(stored) /\ Cardinality(stored) \in Nat
    <3>1. \A r \in stored : r.levId \in 1..q.start
      BY <2>4, <2>6 DEF Recs
    <3> HIDE DEF stored, q
    <3> QED BY <2>4, <2>6, <3>1, ByLevId
  <2>8. ASSUME ~m.limited PROVE Cardinality(whole) <= Cardinality(q.full) /\ Cardinality(whole) \in Nat
    <3>1. \A r \in whole : r.levId \in q.full
      BY <2>1, <2>2, <2>3, <2>8 DEF FullOk, AllFound
    <3> HIDE DEF whole, q
    <3> QED BY <2>5, <2>6, <3>1, ByLevId
  <2>9. ASSUME removals = 0 PROVE Cardinality(q.full) <= Cardinality(stored)
    <3>1. \A x \in q.full : x <= q.start
      BY <2>1, <2>4 DEF FullOk
    <3>2. \A x \in q.full : \E r \in stored : r.levId = x
      BY <2>1, <2>9, <3>1 DEF FullOk
    <3> HIDE DEF stored, q
    <3> QED BY <2>6, <2>7, <3>2, ToLevId
  <2> DEFINE exact == /\ m.count <= MaxCount /\ m.count <= q.start
                      /\ m.limited => m.count = MaxCount /\ q.start > MaxCount
                      /\ ~m.limited => m.count >= Cardinality(whole)
                      /\ removals = 0 => IF m.limited THEN Cardinality(stored) > MaxCount
                                         ELSE m.count <= Cardinality(stored)
  <2>10. ASSUME Cardinality(q.full) > MaxCount PROVE exact
    <3>1. m.limited /\ m.count = MaxCount
      <4> HIDE DEF m, q
      <4> QED BY <2>3, <2>10
    <3>2. m.count <= MaxCount /\ m.count <= q.start /\ q.start > MaxCount
      <4> HIDE DEF m, q
      <4> QED BY <2>4, <2>5, <2>10, <3>1
    <3>3. removals = 0 => Cardinality(stored) > MaxCount
      <4> HIDE DEF q, stored
      <4> QED BY <2>4, <2>5, <2>7, <2>9, <2>10
    <3> HIDE DEF m, q, stored, whole
    <3> QED BY <3>1, <3>2, <3>3
  <2>11. ASSUME ~(Cardinality(q.full) > MaxCount) PROVE exact
    <3>1. ~m.limited /\ m.count = Cardinality(q.full)
      <4> HIDE DEF m, q
      <4> QED BY <2>3, <2>11
    <3>2. m.count <= MaxCount /\ m.count <= q.start
      <4> HIDE DEF m, q
      <4> QED BY <2>4, <2>5, <2>11, <3>1
    <3>3. m.count >= Cardinality(whole)
      <4> HIDE DEF m, q, whole
      <4> QED BY <2>5, <2>8, <3>1
    <3>4. removals = 0 => m.count <= Cardinality(stored)
      <4> HIDE DEF m, q, stored
      <4> QED BY <2>9, <3>1
    <3> HIDE DEF m, q, stored, whole
    <3> QED BY <3>1, <3>2, <3>3, <3>4
  <2>12. exact
    <3> HIDE DEF exact, q
    <3> QED BY <2>10, <2>11
  <2> QED BY <2>12, Zenon
<1> QED BY <1>2, <1>3, ReqInvariant, PTL
=============================================================================
