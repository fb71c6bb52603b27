----------------------- MODULE NegentropyViewsProofs -----------------------
(***************************************************************************)
(* Theorems about NegentropyViews, for any number of connections, messages *)
(* and events: a query's results end up in the view of its own NEG-OPEN,   *)
(* and a sealed memory view holds what it should, up to the client's limit.*)
(*                                                                         *)
(* The scheduler and the views are two maps with the same keys that are    *)
(* changed by different calls.  The invariant relates them: the registered *)
(* queries are those that may still run (SchedInv), and each of them has   *)
(* its own memory view, or lost it to a tree (ViewInv); the view has       *)
(* collected what the query has delivered (FoundInv), the newest of what   *)
(* it is to deliver (OrderInv).                                            *)
(***************************************************************************)
EXTENDS NegentropyViews, TLAPS

RunSet == {running[k] : k \in DOMAIN running}
NoRepeat(s) == \A i, j \in DOMAIN s : s[i] = s[j] => i = j

IsQuery(q) == q \in [id : {q.id}, filter : {q.filter}, latest : {q.latest}, ok : {q.ok},
                     got : {q.got}, buf : {q.buf}, pauses : {q.pauses}]
IsView(v) == v \in [kind : {v.kind}, gen : {v.gen}, levIds : {v.levIds},
                    sealed : {v.sealed}, found : {v.found}, held : {v.held}]

NegType ==
  /\ handled \in 0..MaxMsgs
  /\ running \in Seq(Msgs)
  /\ queries = [g \in Msgs |-> queries[g]] /\ \A g \in Msgs : IsQuery(queries[g])
  /\ reg = [i \in DOMAIN reg |-> reg[i]]
  /\ views = [i \in DOMAIN views |-> views[i]] /\ \A i \in DOMAIN views : IsView(views[i])

\* A query is registered under its id as long as it may run.
SchedInv ==
  /\ NoRepeat(running) /\ \A g \in RunSet : g <= handled
  /\ dead \subseteq RunSet /\ overtaken \subseteq RunSet
  /\ \A i \in DOMAIN reg : reg[i] \in RunSet \ dead /\ queries[reg[i]].id = i
  /\ \A g \in RunSet \ dead : queries[g].id \in DOMAIN reg /\ reg[queries[g].id] = g

\* A registered query has its own view, incomplete, unless a tree's view took
\* its place; that one may be gone again.
ViewInv ==
  /\ \A i \in DOMAIN reg : reg[i] \notin overtaken =>
       /\ i \in DOMAIN views
       /\ views[i].gen = reg[i] /\ ~views[i].sealed /\ views[i].kind = "memory"
  /\ \A i \in DOMAIN reg : reg[i] \in overtaken /\ i \in DOMAIN views => views[i].kind = "tree"
  /\ pc = "bad_variant" => running # <<>> /\ Head(running) \in overtaken

\* What a query has delivered is in its view; it delivers only what its filter
\* asks for.
FoundInv ==
  \A i \in DOMAIN reg :
    LET q == queries[reg[i]] IN
    /\ reg[i] \notin overtaken => views[i].levIds = q.got
    /\ \A e \in q.got \cup q.buf : e \in q.filter.match /\ e <= q.latest

NegInv == NegType /\ SchedInv /\ ViewInv /\ FoundInv

\* The most recent event stays in the database, so that no query is due an event
\* written after its NEG-OPEN; and what it is still due is not newer than what it
\* has delivered.
InOrder(q, last, due) ==
  /\ q.latest \in Nat /\ q.latest <= last
  /\ \A d \in q.got, e \in due : CreatedAt[e] <= CreatedAt[d]

DueIn(q, stored) == {e \in stored \cap q.filter.match : e <= q.latest} \ q.got

OrderInv ==
  /\ lastLevId \in Nat /\ db \subseteq 1..lastLevId /\ lastLevId \in db \cup {0}
  /\ \A i \in DOMAIN reg : InOrder(queries[reg[i]], lastLevId, DueIn(queries[reg[i]], db))

-----------------------------------------------------------------------------
(* Lemmas: the queue of the scheduler *)

\* The query in front, and the rest.
LEMMA Front ==
  ASSUME NEW s \in Seq(Msgs), s # <<>>, NoRepeat(s)
  PROVE  /\ Head(s) \in Msgs /\ Head(s) \in {s[k] : k \in DOMAIN s}
         /\ Tail(s) \in Seq(Msgs) /\ NoRepeat(Tail(s))
         /\ {Tail(s)[k] : k \in DOMAIN Tail(s)} = {s[k] : k \in DOMAIN s} \ {Head(s)}
<1> DEFINE t == Tail(s)
<1>1. /\ t \in Seq(Msgs) /\ Len(t) = Len(s) - 1 /\ Len(s) \in Nat \ {0}
      /\ DOMAIN t = 1..(Len(s) - 1) /\ DOMAIN s = 1..Len(s)
      /\ Head(s) = s[1] /\ Head(s) \in Msgs /\ \A i \in 1..(Len(s) - 1) : t[i] = s[i + 1]
  OBVIOUS
<1> HIDE DEF t
<1>2. \A i \in 1..Len(s) : i = 1 \/ \E k \in 1..(Len(s) - 1) : i = k + 1 /\ s[i] = t[k]
  <2> TAKE i \in 1..Len(s)
  <2>1. i = 1 \/ (i - 1 \in 1..(Len(s) - 1) /\ i = (i - 1) + 1)
    BY <1>1
  <2> QED BY <2>1, <1>1
<1>3. \A k \in 1..(Len(s) - 1) : \E i \in 1..Len(s) : i = k + 1 /\ i # 1 /\ s[i] = t[k]
  <2> TAKE k \in 1..(Len(s) - 1)
  <2>1. k + 1 \in 1..Len(s) /\ k + 1 # 1 /\ t[k] = s[k + 1]
    BY <1>1
  <2> QED BY <2>1
<1>4. Head(s) \in {s[k] : k \in DOMAIN s}
  BY <1>1
<1>5. NoRepeat(t)
  <2> SUFFICES ASSUME NEW k \in 1..(Len(s) - 1), NEW l \in 1..(Len(s) - 1), t[k] = t[l]
               PROVE  k = l
    BY <1>1 DEF NoRepeat
  <2>1. PICK i \in 1..Len(s) : i = k + 1 /\ s[i] = t[k]
    BY <1>3
  <2>2. PICK j \in 1..Len(s) : j = l + 1 /\ s[j] = t[l]
    BY <1>3
  <2> QED BY <1>1, <2>1, <2>2 DEF NoRepeat
<1>6. ASSUME NEW k \in 1..(Len(s) - 1) PROVE t[k] \in {s[j] : j \in DOMAIN s} \ {Head(s)}
  BY <1>1, <1>3 DEF NoRepeat
<1>7. {t[k] : k \in DOMAIN t} = {s[k] : k \in DOMAIN s} \ {Head(s)}
  <2>1. ASSUME NEW x \in {s[k] : k \in DOMAIN s} \ {Head(s)} PROVE x \in {t[k] : k \in DOMAIN t}
    <3>1. PICK i \in 1..Len(s) : x = s[i] /\ i # 1
      BY <1>1
    <3> QED BY <1>1, <1>2, <3>1
  <2>2. ASSUME NEW x \in {t[k] : k \in DOMAIN t} PROVE x \in {s[k] : k \in DOMAIN s} \ {Head(s)}
    BY <1>1, <1>6
  <2> QED BY <2>1, <2>2, Zenon
<1> QED BY <1>1, <1>4, <1>5, <1>7 DEF t

\* A query back at the end of the queue.
LEMMA Back ==
  ASSUME NEW s \in Seq(Msgs), NEW g \in Msgs, g \notin {s[k] : k \in DOMAIN s}, NoRepeat(s)
  PROVE  /\ Append(s, g) \in Seq(Msgs) /\ NoRepeat(Append(s, g))
         /\ {Append(s, g)[k] : k \in DOMAIN Append(s, g)} = {s[k] : k \in DOMAIN s} \cup {g}
<1> DEFINE t == Append(s, g)
<1>1. /\ t \in Seq(Msgs) /\ Len(s) \in Nat
      /\ DOMAIN t = 1..(Len(s) + 1) /\ DOMAIN s = 1..Len(s)
      /\ t[Len(s) + 1] = g /\ \A i \in 1..Len(s) : t[i] = s[i]
  OBVIOUS
<1> HIDE DEF t
<1>2. \A i \in 1..(Len(s) + 1) : i = Len(s) + 1 \/ i \in 1..Len(s)
  BY <1>1
<1>3. NoRepeat(t)
  BY <1>1, <1>2 DEF NoRepeat
<1>4. {t[k] : k \in DOMAIN t} = {s[k] : k \in DOMAIN s} \cup {g}
  <2>1. \A k \in 1..Len(s) : k \in 1..(Len(s) + 1)
    BY <1>1
  <2> QED BY <1>1, <1>2, <2>1
<1> QED BY <1>1, <1>3, <1>4 DEF t

\* A new query in front of the queue.
LEMMA InFront ==
  ASSUME NEW s \in Seq(Msgs), NEW g \in Msgs, g \notin {s[k] : k \in DOMAIN s}, NoRepeat(s)
  PROVE  /\ <<g>> \o s \in Seq(Msgs) /\ NoRepeat(<<g>> \o s)
         /\ {(<<g>> \o s)[k] : k \in DOMAIN (<<g>> \o s)} = {s[k] : k \in DOMAIN s} \cup {g}
<1> DEFINE t == <<g>> \o s
<1>1. /\ t \in Seq(Msgs) /\ Len(s) \in Nat
      /\ DOMAIN t = 1..(Len(s) + 1) /\ DOMAIN s = 1..Len(s)
      /\ t[1] = g /\ \A i \in 1..Len(s) : t[i + 1] = s[i]
  OBVIOUS
<1> HIDE DEF t
<1>2. \A i \in 1..(Len(s) + 1) : i = 1 \/ \E k \in 1..Len(s) : i = k + 1 /\ t[i] = s[k]
  <2> TAKE i \in 1..(Len(s) + 1)
  <2>1. i = 1 \/ (i - 1 \in 1..Len(s) /\ i = (i - 1) + 1)
    BY <1>1
  <2> QED BY <2>1, <1>1
<1>3. \A k \in 1..Len(s) : \E i \in 1..(Len(s) + 1) : i = k + 1 /\ i # 1 /\ t[i] = s[k]
  <2> TAKE k \in 1..Len(s)
  <2>1. k + 1 \in 1..(Len(s) + 1) /\ k + 1 # 1 /\ t[k + 1] = s[k]
    BY <1>1
  <2> QED BY <2>1
<1>4. NoRepeat(t)
  <2> SUFFICES ASSUME NEW i \in 1..(Len(s) + 1), NEW j \in 1..(Len(s) + 1), t[i] = t[j]
               PROVE  i = j
    BY <1>1 DEF NoRepeat
  <2>1. CASE i = 1 \/ j = 1
    BY <1>1, <1>2, <2>1
  <2>2. CASE i # 1 /\ j # 1
    <3>1. PICK k \in 1..Len(s) : i = k + 1 /\ t[i] = s[k]
      BY <1>2, <2>2
    <3>2. PICK l \in 1..Len(s) : j = l + 1 /\ t[j] = s[l]
      BY <1>2, <2>2
    <3> QED BY <1>1, <3>1, <3>2 DEF NoRepeat
  <2> QED BY <2>1, <2>2
<1>5. {t[k] : k \in DOMAIN t} = {s[k] : k \in DOMAIN s} \cup {g}
  <2>1. 1 \in 1..(Len(s) + 1)
    BY <1>1
  <2>2. ASSUME NEW k \in 1..Len(s) PROVE s[k] \in {t[i] : i \in DOMAIN t}
    BY <1>1, <1>3
  <2>3. ASSUME NEW i \in 1..(Len(s) + 1) PROVE t[i] \in {s[k] : k \in DOMAIN s} \cup {g}
    BY <1>1, <1>2
  <2>4. ASSUME NEW x \in {t[i] : i \in DOMAIN t} PROVE x \in {s[k] : k \in DOMAIN s} \cup {g}
    BY <1>1, <2>3
  <2>5. ASSUME NEW x \in {s[k] : k \in DOMAIN s} \cup {g} PROVE x \in {t[i] : i \in DOMAIN t}
    BY <1>1, <2>1, <2>2
  <2> QED BY <2>4, <2>5, Zenon
<1> QED BY <1>1, <1>4, <1>5 DEF t

-----------------------------------------------------------------------------
(* The invariant *)

\* There is no view and no query at first.
LEMMA InitInv == Init => NegInv
<1> SUFFICES ASSUME Init PROVE NegInv
  OBVIOUS
<1>1. /\ handled = 0 /\ running = <<>> /\ queries = [g \in Msgs |-> NoQuery]
      /\ reg = <<>> /\ views = <<>>
  BY DEF Init
<1>3. IsQuery(NoQuery)
  BY DEF IsQuery, NoQuery
<1>4. NegType
  BY <1>1, <1>3, NegAssumption DEF NegType
<1>2. SchedInv /\ ViewInv /\ FoundInv
  BY DEF Init, SchedInv, ViewInv, FoundInv, NoRepeat, RunSet
<1> QED BY <1>2, <1>4 DEF NegInv

\* Numbers of queries.
LEMMA Numbers ==
  ASSUME NegInv
  PROVE  \A g \in RunSet : g \in Msgs /\ g <= handled /\ g <= handled + 1
<1>1. \A g \in RunSet : g \in Msgs
  BY DEF NegInv, NegType, RunSet
<1>2. handled \in Nat /\ \A g \in RunSet : g <= handled
  BY DEF NegInv, NegType, SchedInv
<1> QED BY <1>1, <1>2 DEF Msgs

\* Steps that leave the scheduler and the views alone.
LEMMA Untouched ==
  ASSUME NegInv, UNCHANGED <<sched, views, overtaken>>,
         handled' = handled \/ handled' = handled + 1, handled' \in 0..MaxMsgs,
         pc' = "bad_variant" => running # <<>> /\ Head(running) \in overtaken
  PROVE  NegInv'
<1>1. NegType'
  BY DEF NegInv, NegType, sched
<1>0. RunSet' = RunSet
  BY DEF RunSet, sched
<1>2. SchedInv'
  BY <1>0, Numbers DEF NegInv, SchedInv, sched
<1>3. ViewInv'
  BY DEF NegInv, ViewInv, sched
<1>4. FoundInv'
  BY DEF NegInv, FoundInv, sched
<1> QED BY <1>1, <1>2, <1>3, <1>4 DEF NegInv

\* The subscriptions in `gone` are closed: their queries are killed and their
\* views dropped.
LEMMA Closes ==
  ASSUME NegInv, NEW gone,
         dead' = dead \cup {reg[i] : i \in DOMAIN reg \cap gone},
         reg' = [i \in DOMAIN reg \ gone |-> reg[i]],
         views' = [i \in DOMAIN views \ gone |-> views[i]],
         UNCHANGED <<running, queries, overtaken>>,
         handled' = handled + 1, handled' \in 0..MaxMsgs, pc' # "bad_variant"
  PROVE  NegInv'
<1>1. NegType'
  BY DEF NegInv, NegType
<1>0. RunSet' = RunSet
  BY DEF RunSet
<1>2. SchedInv'
  <2>1. NoRepeat(running') /\ \A g \in RunSet' : g <= handled'
    BY <1>0, Numbers DEF NegInv, SchedInv
  <2>2. dead' \subseteq RunSet' /\ overtaken' \subseteq RunSet'
    BY <1>0 DEF NegInv, SchedInv
  <2>3. ASSUME NEW i \in DOMAIN reg' PROVE reg'[i] \in RunSet' \ dead' /\ queries'[reg'[i]].id = i
    BY <1>0 DEF NegInv, SchedInv
  <2>4. ASSUME NEW g \in RunSet' \ dead'
        PROVE  queries'[g].id \in DOMAIN reg' /\ reg'[queries'[g].id] = g
    BY <1>0 DEF NegInv, SchedInv
  <2> QED BY <2>1, <2>2, <2>3, <2>4 DEF SchedInv
<1>3. ViewInv'
  BY DEF NegInv, ViewInv
<1>4. FoundInv'
  BY DEF NegInv, FoundInv, ViewInv
<1> QED BY <1>1, <1>2, <1>3, <1>4 DEF NegInv

\* The next message is within the bound, and its number is new.
LEMMA Handled ==
  ASSUME NegInv, NEW c, Handling(c)
  PROVE  /\ handled' = handled + 1 /\ handled' \in 0..MaxMsgs /\ pc = "batch"
         /\ handled + 1 \in Msgs /\ handled + 1 \notin RunSet
         /\ handled + 1 \notin dead /\ handled + 1 \notin overtaken
<1>1. handled \in 0..MaxMsgs /\ MaxMsgs \in Nat /\ handled < MaxMsgs /\ handled' = handled + 1
  BY NegAssumption DEF NegInv, NegType, Handling
<1>2. handled + 1 \notin RunSet
  BY <1>1 DEF NegInv, SchedInv
<1> QED BY <1>1, <1>2 DEF NegInv, SchedInv, Handling, Msgs

\* Removing the view and the query of an id together keeps the two maps in
\* agreement.
LEMMA CloseInv ==
  ASSUME NegInv, NEW id, Handling(id[1]), pc' = pc,
         RemoveSub(id), views' = Remove(views, id), UNCHANGED <<running, queries, overtaken>>
  PROVE  NegInv'
<1>1. dead' = dead \cup {reg[i] : i \in DOMAIN reg \cap {id}}
  BY DEF RemoveSub, Kill
<1>2. reg' = [i \in DOMAIN reg \ {id} |-> reg[i]] /\ views' = [i \in DOMAIN views \ {id} |-> views[i]]
  BY DEF RemoveSub, Remove
<1>3. handled' = handled + 1 /\ handled' \in 0..MaxMsgs /\ pc = "batch"
  BY Handled
<1>4. pc' # "bad_variant"
  BY <1>3
<1> QED BY <1>1, <1>2, <1>3, <1>4, Closes

\* A closed connection loses all its views and queries.
LEMMA CloseConnInv ==
  ASSUME NegInv, NEW c \in Conns, CloseConn(c)
  PROVE  NegInv'
<1> DEFINE gone == {i \in DOMAIN reg \cup DOMAIN views : i[1] = c}
<1>1. dead' = dead \cup {reg[i] : i \in DOMAIN reg \cap gone}
  BY DEF CloseConn, Kill, OfConn
<1>2. /\ reg' = [i \in DOMAIN reg \ gone |-> reg[i]]
      /\ views' = [i \in DOMAIN views \ gone |-> views[i]]
  <2>1. DOMAIN reg \ OfConn(reg, c) = DOMAIN reg \ gone
    BY DEF OfConn
  <2>2. DOMAIN views \ OfConn(views, c) = DOMAIN views \ gone
    BY DEF OfConn
  <2> QED BY <2>1, <2>2 DEF CloseConn
<1>3. handled' = handled + 1 /\ handled' \in 0..MaxMsgs /\ pc = "batch"
  BY Handled DEF CloseConn
<1>4. pc' # "bad_variant" /\ UNCHANGED <<running, queries, overtaken>>
  BY <1>3 DEF CloseConn
<1> HIDE DEF gone
<1> QED BY <1>1, <1>2, <1>3, <1>4, Closes

\* A NEG-MSG may remove a view that is sealed, which no query fills any more.
LEMMA NegMsgInv ==
  ASSUME NegInv, NEW id \in Ids, NEW ok \in BOOLEAN, NegMsg(id, ok)
  PROVE  NegInv'
<1>1. handled' = handled + 1 /\ handled' \in 0..MaxMsgs /\ pc' = "batch"
  BY Handled DEF NegMsg
<1>2. CASE id \in DOMAIN views /\ views[id].sealed /\ ~ok
  <2>1. views' = [i \in DOMAIN views \ {id} |-> views[i]] /\ UNCHANGED <<sched, overtaken>>
    BY <1>2 DEF NegMsg, Remove
  <2>2. NegType'
    BY <1>1, <2>1 DEF NegInv, NegType, sched
  <2>0. RunSet' = RunSet
    BY <2>1 DEF RunSet, sched
  <2>3. SchedInv'
    BY <1>1, <2>0, <2>1, Numbers DEF NegInv, SchedInv, sched
  <2>4. ViewInv'
    BY <1>1, <1>2, <2>1 DEF NegInv, ViewInv, sched
  <2>5. FoundInv'
    BY <1>1, <1>2, <2>1 DEF NegInv, ViewInv, FoundInv, sched
  <2> QED BY <2>2, <2>3, <2>4, <2>5 DEF NegInv
<1>3. CASE ~(id \in DOMAIN views /\ views[id].sealed /\ ~ok)
  BY <1>1, <1>3, Untouched DEF NegMsg
<1> QED BY <1>2, <1>3

\* A tree's view takes the place of what is there; a query that fills it is
\* overtaken.
LEMMA NegOpenTreeInv ==
  ASSUME NegInv, NEW id \in Ids, NEW ok \in BOOLEAN, NegOpenTree(id, ok)
  PROVE  NegInv'
<1>1. CASE ViewsFull(id)
  BY <1>1, CloseInv DEF NegOpenTree
<1>2. CASE ~ViewsFull(id)
  <2>1. /\ handled' = handled + 1 /\ handled' \in 0..MaxMsgs /\ pc' = "batch"
    BY Handled DEF NegOpenTree
  <2> DEFINE v == [kind |-> "tree", gen |-> handled + 1, levIds |-> {}, sealed |-> TRUE, found |-> {},
                 held |-> {}]
  <2>2. /\ views' = [i \in DOMAIN views \cup {id} |-> IF i = id THEN v ELSE views[i]]
        /\ overtaken' = overtaken \cup (Kill(id) \ dead) /\ UNCHANGED sched
    BY <1>2 DEF NegOpenTree, Set, sched
  <2>3. IsView(v) /\ v.kind = "tree"
    BY DEF IsView
  <2> HIDE DEF v
  <2>4. NegType'
    BY <2>1, <2>2, <2>3 DEF NegInv, NegType, sched
  <2>5. \A i \in DOMAIN reg : reg[i] \in RunSet \ dead
    BY DEF NegInv, SchedInv
  <2>0. RunSet' = RunSet
    BY <2>2 DEF RunSet, sched
  <2>6. SchedInv'
    BY <2>0, <2>1, <2>2, <2>5, Numbers DEF NegInv, SchedInv, sched, Kill
  <2>7. \A i \in DOMAIN reg, j \in DOMAIN reg : reg[i] = reg[j] => i = j
    BY DEF NegInv, SchedInv
  <2>8. \A i \in DOMAIN reg : reg[i] \in overtaken' <=> reg[i] \in overtaken \/ i = id
    BY <2>2, <2>5, <2>7 DEF Kill
  <2>9. ViewInv'
    BY <2>1, <2>2, <2>3, <2>8 DEF NegInv, ViewInv, sched
  <2>10. FoundInv'
    BY <2>1, <2>2, <2>8 DEF NegInv, FoundInv, ViewInv, sched
  <2> QED BY <2>4, <2>6, <2>9, <2>10 DEF NegInv
<1> QED BY <1>1, <1>2

\* The new query of a NEG-OPEN is in front of the queue, unless the connection
\* has too many; only with a view of its own does it stay registered.
LEMMA NegOpenMemoryInv ==
  ASSUME NegInv, NEW id \in Ids, NEW f \in MemFilters, NEW ok \in BOOLEAN,
         NegOpenMemory(id, f, ok)
  PROVE  NegInv'
<1> DEFINE g     == handled + 1
           added == ~QueriesFull(id)
           kept  == ~ViewsFull(id)
           q == [id |-> id, filter |-> f, latest |-> MaxOf(db), ok |-> ok,
                 got |-> {}, buf |-> {}, pauses |-> 0]
           v == [kind |-> "memory", gen |-> g, levIds |-> {}, sealed |-> FALSE, found |-> {},
                 held |-> {}]
<1>1. /\ handled' = handled + 1 /\ handled' \in 0..MaxMsgs
      /\ g \in Msgs /\ g \notin RunSet /\ g \notin dead /\ g \notin overtaken
  BY Handled DEF NegOpenMemory
<1>2. /\ dead' = dead \cup Kill(id) \cup (IF added /\ ~kept THEN {g} ELSE {})
      /\ reg' = IF added /\ kept THEN Set(reg, id, g) ELSE Remove(reg, id)
      /\ running' = IF added THEN <<g>> \o running ELSE running
      /\ queries' = [queries EXCEPT ![g] = q]
      /\ views' = IF kept THEN Set(views, id, v) ELSE Remove(views, id)
      /\ pc' = "open" /\ overtaken' = overtaken
  BY DEF NegOpenMemory
<1>3. IsQuery(q) /\ q.id = id /\ q.got = {} /\ q.buf = {}
  BY DEF IsQuery
<1>4. IsView(v) /\ v.gen = g /\ v.kind = "memory" /\ ~v.sealed /\ v.levIds = {}
  BY DEF IsView
<1> HIDE DEF q, v, added, kept
<1>5. running \in Seq(Msgs) /\ NoRepeat(running)
  BY DEF NegInv, NegType, SchedInv
<1>6. /\ running' \in Seq(Msgs) /\ NoRepeat(running')
      /\ RunSet' = IF added THEN RunSet \cup {g} ELSE RunSet
  <2>1. CASE added
    <3>1. running' = <<g>> \o running
      BY <1>2, <2>1
    <3> HIDE DEF g
    <3>2. /\ running' \in Seq(Msgs) /\ NoRepeat(running')
          /\ {running'[k] : k \in DOMAIN running'} = {running[k] : k \in DOMAIN running} \cup {g}
      <4>1. g \in Msgs /\ g \notin {running[k] : k \in DOMAIN running}
        BY <1>1 DEF RunSet
      <4>2. /\ <<g>> \o running \in Seq(Msgs) /\ NoRepeat(<<g>> \o running)
            /\ {(<<g>> \o running)[k] : k \in DOMAIN (<<g>> \o running)}
                = {running[k] : k \in DOMAIN running} \cup {g}
        BY <1>5, <4>1, InFront, Zenon
      <4> QED BY <3>1, <4>2, Zenon
    <3> QED BY <2>1, <3>2 DEF RunSet
  <2>2. CASE ~added
    BY <1>2, <1>5, <2>2 DEF RunSet
  <2> QED BY <2>1, <2>2
<1>7. /\ queries' = [h \in Msgs |-> queries'[h]] /\ queries'[g] = q
      /\ \A h \in Msgs \ {g} : queries'[h] = queries[h]
  BY <1>1, <1>2 DEF NegInv, NegType
<1>8. /\ reg' = [i \in DOMAIN reg' |-> reg'[i]]
      /\ id \in DOMAIN reg' <=> added /\ kept
      /\ id \in DOMAIN reg' => reg'[id] = g
      /\ \A i : i # id => (i \in DOMAIN reg' <=> i \in DOMAIN reg) /\ (i \in DOMAIN reg => reg'[i] = reg[i])
  BY <1>2 DEF Set, Remove
<1>9. /\ views' = [i \in DOMAIN views' |-> views'[i]]
      /\ id \in DOMAIN views' <=> kept
      /\ id \in DOMAIN views' => views'[id] = v
      /\ \A i : i # id => (i \in DOMAIN views' <=> i \in DOMAIN views) /\ (i \in DOMAIN views => views'[i] = views[i])
  BY <1>2 DEF Set, Remove
<1>10. /\ dead \subseteq dead' /\ (g \in dead' <=> added /\ ~kept)
       /\ \A h \in dead' : h \in dead \/ (h = g /\ added /\ ~kept) \/ (id \in DOMAIN reg /\ h = reg[id])
       /\ id \in DOMAIN reg => reg[id] \in dead'
  <2>1. \A h \in Kill(id) : h \in RunSet
    BY DEF Kill, NegInv, SchedInv
  <2> QED BY <1>1, <1>2, <2>1 DEF Kill
<1>11. NegType'
  BY <1>1, <1>3, <1>4, <1>6, <1>7, <1>8, <1>9 DEF NegInv, NegType
<1> HIDE DEF g
<1>12. \A i \in DOMAIN reg : reg[i] \in RunSet \ dead /\ queries[reg[i]].id = i
  BY DEF NegInv, SchedInv
<1>13. \A h \in RunSet : h \in Msgs /\ h # g /\ queries'[h] = queries[h]
  BY <1>1, <1>7, Numbers
<1>14. SchedInv'
  <2>1. \A h \in RunSet' : h <= handled'
    BY <1>1, <1>6, Numbers DEF g, Msgs
  <2>2. dead' \subseteq RunSet' /\ overtaken' \subseteq RunSet'
    BY <1>2, <1>6, <1>10, <1>12 DEF NegInv, SchedInv
  <2>3. ASSUME NEW i \in DOMAIN reg' PROVE reg'[i] \in RunSet' \ dead' /\ queries'[reg'[i]].id = i
    <3>1. CASE i = id
      BY <1>3, <1>6, <1>7, <1>8, <1>10, <2>3, <3>1
    <3>2. CASE i # id
      <4>1. i \in DOMAIN reg /\ reg'[i] = reg[i] /\ reg[i] \in RunSet' /\ reg[i] # g
        BY <1>6, <1>8, <1>12, <1>13, <3>2
      <4>2. id \in DOMAIN reg => reg[id] # reg[i]
        BY <1>12, <3>2, <4>1
      <4> QED BY <1>10, <1>12, <1>13, <4>1, <4>2
    <3> QED BY <3>1, <3>2
  <2>4. ASSUME NEW h \in RunSet' \ dead'
        PROVE  queries'[h].id \in DOMAIN reg' /\ reg'[queries'[h].id] = h
    <3>1. CASE h = g
      BY <1>3, <1>1, <1>6, <1>7, <1>8, <1>10, <2>4, <3>1
    <3>2. CASE h # g
      <4>1. h \in RunSet \ dead
        BY <1>6, <1>10, <3>2
      <4>2. queries[h].id \in DOMAIN reg /\ reg[queries[h].id] = h
        BY <4>1 DEF NegInv, SchedInv
      <4>3. queries[h].id # id
        BY <1>10, <4>2
      <4> QED BY <1>8, <1>13, <4>1, <4>2, <4>3
    <3> QED BY <3>1, <3>2
  <2> QED BY <1>6, <2>1, <2>2, <2>3, <2>4 DEF SchedInv
<1>15. ViewInv'
  <2>1. \A i \in DOMAIN reg' : i # id => i \in DOMAIN reg /\ reg'[i] = reg[i]
    BY <1>8
  <2> QED BY <1>1, <1>2, <1>4, <1>8, <1>9, <2>1 DEF NegInv, ViewInv
<1>16. FoundInv'
  <2> SUFFICES ASSUME NEW i \in DOMAIN reg'
               PROVE  /\ reg'[i] \notin overtaken' => views'[i].levIds = queries'[reg'[i]].got
                      /\ \A e \in queries'[reg'[i]].got \cup queries'[reg'[i]].buf :
                           e \in queries'[reg'[i]].filter.match /\ e <= queries'[reg'[i]].latest
    BY DEF FoundInv
  <2>1. CASE i = id
    BY <1>3, <1>4, <1>7, <1>8, <1>9, <2>1
  <2>2. CASE i # id
    <3>1. /\ i \in DOMAIN reg /\ reg'[i] = reg[i] /\ queries'[reg[i]] = queries[reg[i]]
          /\ reg[i] \notin overtaken => i \in DOMAIN views /\ views'[i] = views[i]
      BY <1>8, <1>9, <1>12, <1>13, <2>2 DEF NegInv, ViewInv
    <3> QED BY <1>2, <3>1 DEF NegInv, FoundInv
  <2> QED BY <2>1, <2>2
<1> QED BY <1>11, <1>14, <1>15, <1>16 DEF NegInv

\* A dead query leaves the queue; it is not registered.
LEMMA ProcessDeadInv ==
  ASSUME NegInv, ProcessDead
  PROVE  NegInv'
<1> DEFINE g == Head(running)
<1>1. /\ running # <<>> /\ g \in dead /\ running' = Tail(running)
      /\ queries' = [queries EXCEPT ![g] = NoQuery] /\ overtaken' = overtaken \ {g}
      /\ dead' = dead \ {g} /\ UNCHANGED <<reg, views, handled>> /\ pc' # "bad_variant"
  BY DEF ProcessDead, Delete, Return
<1>2. running \in Seq(Msgs) /\ NoRepeat(running)
  BY DEF NegInv, NegType, SchedInv
<1>3. /\ g \in Msgs /\ g \in RunSet /\ running' \in Seq(Msgs) /\ NoRepeat(running')
      /\ RunSet' = RunSet \ {g}
  BY <1>1, <1>2, Front DEF RunSet
<1> HIDE DEF g
<1>4. IsQuery(NoQuery)
  BY DEF IsQuery, NoQuery
<1>5. /\ queries' = [h \in Msgs |-> queries'[h]] /\ queries'[g] = NoQuery
      /\ \A h \in Msgs \ {g} : queries'[h] = queries[h]
  BY <1>1, <1>3 DEF NegInv, NegType
<1>6. NegType'
  BY <1>1, <1>3, <1>4, <1>5 DEF NegInv, NegType
<1>7. \A i \in DOMAIN reg : reg[i] \in RunSet \ dead /\ reg[i] # g /\ queries'[reg[i]] = queries[reg[i]]
  BY <1>1, <1>5, Numbers DEF NegInv, SchedInv
<1>8. \A h \in RunSet' \ dead' : h \in RunSet \ dead /\ queries'[h] = queries[h]
  BY <1>1, <1>3, <1>5, Numbers
<1>9. SchedInv'
  BY <1>1, <1>3, <1>7, <1>8 DEF NegInv, SchedInv
<1>10. ViewInv'
  BY <1>1, <1>7 DEF NegInv, ViewInv
<1>11. FoundInv'
  BY <1>1, <1>7 DEF NegInv, FoundInv
<1> QED BY <1>6, <1>9, <1>10, <1>11 DEF NegInv

\* The query in front, when it is to run: it is registered under its id, and
\* the view there is its own or, if it was overtaken, none.
LEMMA InCharge ==
  ASSUME NegInv, NEW S, Slice(S)
  PROVE  LET g == Head(running)  q == queries[g] IN
         /\ running # <<>> /\ g \in Msgs /\ g \in RunSet \ dead
         /\ q.id \in DOMAIN reg /\ reg[q.id] = g
         /\ g \notin overtaken => /\ q.id \in DOMAIN views /\ views[q.id].gen = g
                                  /\ ~views[q.id].sealed /\ views[q.id].kind = "memory"
                                  /\ views[q.id].levIds = q.got
         /\ g \in overtaken => q.id \notin DOMAIN views
<1> DEFINE g == Head(running)  q == queries[g]
<1>1. running # <<>> /\ g \notin dead /\ (q.id \in DOMAIN views => views[q.id].kind = "memory")
  BY DEF Slice, Sliced
<1>2. running \in Seq(Msgs) /\ NoRepeat(running)
  BY DEF NegInv, NegType, SchedInv
<1>3. g \in Msgs /\ g \in RunSet
  BY <1>1, <1>2, Front DEF RunSet
<1> HIDE DEF g
<1>4. q.id \in DOMAIN reg /\ reg[q.id] = g
  BY <1>1, <1>3 DEF NegInv, SchedInv
<1>5. g \notin overtaken => /\ q.id \in DOMAIN views /\ views[q.id].gen = g
                            /\ ~views[q.id].sealed /\ views[q.id].kind = "memory"
                            /\ views[q.id].levIds = q.got
  BY <1>4 DEF NegInv, ViewInv, FoundInv
<1>6. g \in overtaken => q.id \notin DOMAIN views
  BY <1>1, <1>4 DEF NegInv, ViewInv
<1> QED BY <1>1, <1>3, <1>4, <1>5, <1>6 DEF g

\* What a slice delivers is asked for by the filter.
LEMMA Wanted ==
  ASSUME NegInv, NEW S, Slice(S)
  PROVE  LET q == queries[Head(running)] IN
         /\ \A e \in Due(q) : e \in q.filter.match /\ e <= q.latest
         /\ \A e \in S : e \in q.filter.match /\ e <= q.latest
         /\ \A e \in q.got \cup q.buf : e \in q.filter.match /\ e <= q.latest
<1> DEFINE q == queries[Head(running)]
<1>1. q.id \in DOMAIN reg /\ reg[q.id] = Head(running) /\ S \subseteq Due(q) \cup q.buf
  BY InCharge DEF Slice, Delivers
<1>2. \A e \in q.got \cup q.buf : e \in q.filter.match /\ e <= q.latest
  BY <1>1 DEF NegInv, FoundInv
<1>3. \A e \in Due(q) : e \in q.filter.match /\ e <= q.latest
  BY DEF Due
<1> QED BY <1>1, <1>2, <1>3

\* A slice that pauses: the query goes to the end of the queue.
LEMMA SlicePausesInv ==
  ASSUME NegInv, NEW S, Slice(S), SlicePauses(S)
  PROVE  NegInv'
<1> DEFINE g == Head(running)  q == queries[g]
           nq == [q EXCEPT !.got = @ \cup S, !.buf = (@ \cup Due(q)) \ S, !.pauses = @ + 1]
           v == views[q.id]
           nv == [v EXCEPT !.levIds = @ \cup S]
<1>1. /\ running # <<>> /\ g \in Msgs /\ g \in RunSet \ dead
      /\ q.id \in DOMAIN reg /\ reg[q.id] = g
      /\ g \notin overtaken => /\ q.id \in DOMAIN views /\ v.gen = g
                               /\ ~v.sealed /\ v.kind = "memory" /\ v.levIds = q.got
      /\ g \in overtaken => q.id \notin DOMAIN views
  BY InCharge
<1>2. /\ IsQuery(q) /\ queries = [h \in Msgs |-> queries[h]]
      /\ views = [i \in DOMAIN views |-> views[i]]
      /\ q.id \in DOMAIN views => IsView(v)
      /\ running \in Seq(Msgs) /\ NoRepeat(running)
  BY <1>1 DEF NegInv, NegType, SchedInv
<1>3. queries' = [queries EXCEPT ![g] = nq]
  <2>1. queries' = [queries EXCEPT ![g] = [q EXCEPT !.got = @ \cup S,
                                                    !.buf = (@ \cup Due(q)) \ S,
                                                    !.pauses = @ + 1]]
    BY DEF SlicePauses
  <2> HIDE DEF g
  <2> QED BY <1>1, <1>2, <2>1
<1>4. views' = IF q.id \in DOMAIN views THEN [views EXCEPT ![q.id] = nv] ELSE views
  <2>1. views' = IF q.id \in DOMAIN views THEN [views EXCEPT ![q.id].levIds = @ \cup S] ELSE views
    BY DEF SlicePauses
  <2> HIDE DEF g
  <2> QED BY <1>2, <2>1
<1>5. UNCHANGED <<reg, dead, overtaken, handled>> /\ pc' # "bad_variant"
  BY DEF SlicePauses, Slice, Return
<1>6. /\ running' \in Seq(Msgs) /\ NoRepeat(running') /\ RunSet' = RunSet
  <2>1. /\ Tail(running) \in Seq(Msgs) /\ NoRepeat(Tail(running))
        /\ {Tail(running)[k] : k \in DOMAIN Tail(running)} = {running[k] : k \in DOMAIN running} \ {g}
    BY <1>1, <1>2, Front, Zenon
  <2>2. running' = Append(Tail(running), g)
    BY DEF SlicePauses
  <2>3. g \notin {Tail(running)[k] : k \in DOMAIN Tail(running)}
    BY <2>1
  <2> DEFINE t == Tail(running)
  <2>4. t \in Seq(Msgs) /\ NoRepeat(t) /\ g \notin {t[k] : k \in DOMAIN t} /\ g \in Msgs
    BY <1>1, <2>1, <2>3
  <2> HIDE DEF g, t
  <2>5. /\ Append(t, g) \in Seq(Msgs) /\ NoRepeat(Append(t, g))
        /\ {Append(t, g)[k] : k \in DOMAIN Append(t, g)} = {t[k] : k \in DOMAIN t} \cup {g}
    BY <2>4, Back, Zenon
  <2>6. running' = Append(t, g) /\ {t[k] : k \in DOMAIN t} = {running[k] : k \in DOMAIN running} \ {g}
    BY <2>1, <2>2 DEF t
  <2>7. {running'[k] : k \in DOMAIN running'} = ({running[k] : k \in DOMAIN running} \ {g}) \cup {g}
    BY <2>5, <2>6, Zenon
  <2>8. g \in {running[k] : k \in DOMAIN running}
    BY <1>1 DEF RunSet
  <2> QED BY <2>5, <2>6, <2>7, <2>8 DEF RunSet
<1>7. /\ nq.id = q.id /\ nq.filter = q.filter /\ nq.latest = q.latest /\ IsQuery(nq)
      /\ nq.got = q.got \cup S /\ nq.buf \subseteq q.buf \cup Due(q)
  <2> HIDE DEF g
  <2> QED BY <1>2 DEF IsQuery
<1>8. q.id \in DOMAIN views =>
        /\ nv.kind = v.kind /\ nv.gen = v.gen /\ nv.sealed = v.sealed /\ IsView(nv)
        /\ nv.levIds = v.levIds \cup S
  <2> HIDE DEF g
  <2> QED BY <1>2 DEF IsView
<1>w. \A e \in S \cup Due(q) \cup q.got \cup q.buf : e \in q.filter.match /\ e <= q.latest
  BY Wanted
<1> HIDE DEF nq, nv, g
<1>9. /\ queries' = [h \in Msgs |-> queries'[h]] /\ queries'[g] = nq
      /\ \A h \in Msgs \ {g} : queries'[h] = queries[h]
  BY <1>1, <1>2, <1>3
<1>10. /\ views' = [i \in DOMAIN views' |-> views'[i]] /\ DOMAIN views' = DOMAIN views
       /\ q.id \in DOMAIN views => views'[q.id] = nv
       /\ \A i \in DOMAIN views : i # q.id => views'[i] = views[i]
  BY <1>2, <1>4
<1>11. \A i \in DOMAIN reg : i # q.id => reg[i] # g /\ reg[i] \in Msgs /\ reg[i] \in RunSet \ dead
  BY Numbers DEF NegInv, SchedInv
<1>12. \A h \in RunSet : h \in Msgs /\ queries'[h].id = queries[h].id
  BY <1>7, <1>9, Numbers
<1>13. NegType'
  BY <1>5, <1>6, <1>7, <1>8, <1>9, <1>10 DEF NegInv, NegType
<1>14. SchedInv'
  BY <1>5, <1>6, <1>12 DEF NegInv, SchedInv
<1>15. ViewInv'
  BY <1>1, <1>5, <1>8, <1>10 DEF NegInv, ViewInv
<1>16. FoundInv'
  <2> SUFFICES ASSUME NEW i \in DOMAIN reg
               PROVE  /\ reg[i] \notin overtaken => views'[i].levIds = queries'[reg[i]].got
                      /\ \A e \in queries'[reg[i]].got \cup queries'[reg[i]].buf :
                           e \in queries'[reg[i]].filter.match /\ e <= queries'[reg[i]].latest
    BY <1>5 DEF FoundInv
  <2>1. CASE i = q.id
    <3>1. queries'[reg[i]] = nq
      BY <1>1, <1>9, <2>1
    <3>2. reg[i] \notin overtaken => views'[i].levIds = nq.got
      BY <1>1, <1>7, <1>8, <1>10, <2>1
    <3>3. \A e \in nq.got \cup nq.buf : e \in nq.filter.match /\ e <= nq.latest
      BY <1>7, <1>w
    <3> QED BY <3>1, <3>2, <3>3
  <2>2. CASE i # q.id
    <3>1. queries'[reg[i]] = queries[reg[i]] /\ (reg[i] \notin overtaken => views'[i] = views[i])
      BY <1>9, <1>10, <1>11, <2>2 DEF NegInv, ViewInv
    <3> QED BY <3>1 DEF NegInv, FoundInv
  <2> QED BY <2>1, <2>2
<1> QED BY <1>13, <1>14, <1>15, <1>16 DEF NegInv

\* A completed query is gone; only the view under its id changes.
LEMMA SliceCompletesInv ==
  ASSUME NegInv, NEW S, Slice(S), SliceCompletes(S)
  PROVE  NegInv'
<1> DEFINE g == Head(running)  q == queries[g]  id == q.id
           found == views[id].levIds \cup S
           v == views[id]
           nv == [v EXCEPT !.levIds = {}, !.sealed = TRUE, !.found = found,
                !.held = StillThere(found)]
<1>1. /\ running # <<>> /\ g \in Msgs /\ g \in RunSet \ dead /\ id \in DOMAIN reg /\ reg[id] = g
  BY InCharge
<1>2. /\ queries = [h \in Msgs |-> queries[h]]
      /\ views = [i \in DOMAIN views |-> views[i]] /\ \A i \in DOMAIN views : IsView(views[i])
      /\ running \in Seq(Msgs) /\ NoRepeat(running)
  BY <1>1 DEF NegInv, NegType, SchedInv
<1>3. /\ reg' = Remove(reg, id) /\ dead' = dead \cup (Kill(id) \ {g})
      /\ running' = Tail(running) /\ queries' = [queries EXCEPT ![g] = NoQuery]
      /\ overtaken' = overtaken \ {g} /\ handled' = handled /\ pc' # "bad_variant"
  BY DEF SliceCompletes, Slice, Delete, Return
<1>4. /\ views' = [i \in DOMAIN views' |-> views'[i]] /\ \A i \in DOMAIN views' : IsView(views'[i])
      /\ \A i : i # id => (i \in DOMAIN views' <=> i \in DOMAIN views)
                          /\ (i \in DOMAIN views => views'[i] = views[i])
  <2>1. \/ views' = views \/ views' = Remove(views, id)
        \/ id \in DOMAIN views /\ views' = [views EXCEPT ![id] =
             [@ EXCEPT !.levIds = {}, !.sealed = TRUE, !.found = found,
                !.held = StillThere(found)]]
    BY DEF SliceCompletes
  <2> HIDE DEF g
  <2>2. CASE views' = views \/ views' = Remove(views, id)
    BY <1>2, <2>2 DEF Remove
  <2>3. CASE id \in DOMAIN views /\ views' = [views EXCEPT ![id] =
             [@ EXCEPT !.levIds = {}, !.sealed = TRUE, !.found = found,
                !.held = StillThere(found)]]
    <3>1. views' = [views EXCEPT ![id] = nv]
      BY <1>2, <2>3
    <3>2. IsView(nv)
      BY <1>2, <2>3 DEF IsView
    <3> HIDE DEF nv
    <3> QED BY <1>2, <2>3, <3>1, <3>2
  <2> QED BY <2>1, <2>2, <2>3
<1>5. /\ running' \in Seq(Msgs) /\ NoRepeat(running') /\ RunSet' = RunSet \ {g}
  <2>1. /\ Tail(running) \in Seq(Msgs) /\ NoRepeat(Tail(running))
        /\ {Tail(running)[k] : k \in DOMAIN Tail(running)} = {running[k] : k \in DOMAIN running} \ {g}
    BY <1>1, <1>2, Front, Zenon
  <2> QED BY <1>3, <2>1 DEF RunSet
<1> HIDE DEF g
<1>6. dead' = dead
  BY <1>1, <1>3 DEF Kill
<1>7. /\ queries' = [h \in Msgs |-> queries'[h]] /\ queries'[g] = NoQuery
      /\ \A h \in Msgs \ {g} : queries'[h] = queries[h]
  BY <1>1, <1>2, <1>3
<1>8. /\ reg' = [i \in DOMAIN reg' |-> reg'[i]] /\ DOMAIN reg' = DOMAIN reg \ {id}
      /\ \A i \in DOMAIN reg' : reg'[i] = reg[i]
  BY <1>3 DEF Remove
<1>9. IsQuery(NoQuery)
  BY DEF IsQuery, NoQuery
<1>10. \A i \in DOMAIN reg' : /\ i \in DOMAIN reg /\ i # id /\ reg'[i] = reg[i]
                              /\ reg[i] # g /\ reg[i] \in RunSet \ dead
                              /\ queries'[reg[i]] = queries[reg[i]]
  BY <1>7, <1>8, Numbers DEF NegInv, SchedInv
<1>11. \A h \in RunSet' : h \in RunSet /\ h # g /\ queries'[h] = queries[h]
  BY <1>5, <1>7, Numbers
<1>12. NegType'
  BY <1>3, <1>4, <1>5, <1>7, <1>8, <1>9 DEF NegInv, NegType
<1>13. SchedInv'
  <2>1. \A h \in RunSet' : h <= handled'
    BY <1>3, <1>11, Numbers
  <2>2. dead' \subseteq RunSet' /\ overtaken' \subseteq RunSet'
    BY <1>1, <1>3, <1>5, <1>6 DEF NegInv, SchedInv
  <2>3. \A i \in DOMAIN reg' : reg'[i] \in RunSet' \ dead' /\ queries'[reg'[i]].id = i
    BY <1>5, <1>6, <1>10 DEF NegInv, SchedInv
  <2>4. ASSUME NEW h \in RunSet' \ dead'
        PROVE  queries'[h].id \in DOMAIN reg' /\ reg'[queries'[h].id] = h
    <3>1. queries'[h] = queries[h] /\ queries[h].id \in DOMAIN reg /\ reg[queries[h].id] = h /\ h # g
      BY <1>6, <1>11 DEF NegInv, SchedInv
    <3> QED BY <1>1, <1>8, <3>1
  <2> QED BY <1>5, <2>1, <2>2, <2>3, <2>4 DEF SchedInv
<1> HIDE DEF id
<1>14. ViewInv'
  BY <1>3, <1>4, <1>10 DEF NegInv, ViewInv
<1>15. FoundInv'
  <2> SUFFICES ASSUME NEW i \in DOMAIN reg'
               PROVE  /\ reg'[i] \notin overtaken' => views'[i].levIds = queries'[reg'[i]].got
                      /\ \A e \in queries'[reg'[i]].got \cup queries'[reg'[i]].buf :
                           e \in queries'[reg'[i]].filter.match /\ e <= queries'[reg'[i]].latest
    BY DEF FoundInv
  <2>1. /\ i \in DOMAIN reg /\ reg'[i] = reg[i] /\ queries'[reg[i]] = queries[reg[i]]
        /\ reg[i] \notin overtaken => views'[i] = views[i]
        /\ reg[i] \notin overtaken' => reg[i] \notin overtaken
    BY <1>3, <1>4, <1>10 DEF NegInv, ViewInv
  <2> QED BY <2>1 DEF NegInv, FoundInv
<1> QED BY <1>12, <1>13, <1>14, <1>15 DEF NegInv

\* NegInv is inductive: one case per action.
LEMMA NextInv == NegInv /\ [Next]_vars => NegInv'
<1> SUFFICES ASSUME NegInv, [Next]_vars PROVE NegInv'
  OBVIOUS
<1>0. handled \in 0..MaxMsgs
  BY DEF NegInv, NegType
<1>1. CASE UNCHANGED vars
  BY <1>0, <1>1, Untouched DEF vars, NegInv, ViewInv
<1>2. CASE WriteEvent \/ (\E e \in db : RemoveEvent(e)) \/ Wake \/ EndBatch \/ ProcessNothing
  <2>1. UNCHANGED <<sched, views, overtaken, handled>> /\ pc' # "bad_variant"
    BY <1>2 DEF WriteEvent, RemoveEvent, Wake, EndBatch, ProcessNothing, Return
  <2> QED BY <1>0, <2>1, Untouched
<1>3. CASE SliceThrows
  <2> DEFINE g == Head(running)
  <2>1. /\ running # <<>> /\ g \notin dead
        /\ queries[g].id \in DOMAIN views /\ views[queries[g].id].kind = "tree"
        /\ UNCHANGED <<sched, views, overtaken, handled>>
    BY <1>3 DEF SliceThrows, Sliced
  <2>2. running \in Seq(Msgs) /\ NoRepeat(running)
    BY DEF NegInv, NegType, SchedInv
  <2>3. g \in RunSet
    BY <2>1, <2>2, Front DEF RunSet
  <2>4. g \in overtaken
    <3> HIDE DEF g
    <3> QED BY <2>1, <2>3 DEF NegInv, SchedInv, ViewInv
  <2> QED BY <1>0, <2>1, <2>4, Untouched
<1>4. CASE ProcessDead
  BY <1>4, ProcessDeadInv
<1>5. ASSUME NEW S, Slice(S) PROVE NegInv'
  BY <1>5, SlicePausesInv, SliceCompletesInv DEF Slice
<1>6. ASSUME NEW id \in Ids, NegClose(id) PROVE NegInv'
  BY <1>6, CloseInv DEF NegClose
<1>7. CASE Client
  BY <1>6, <1>7, NegOpenTreeInv, NegMsgInv, NegOpenMemoryInv, CloseConnInv DEF Client
<1>8. CASE Thread
  BY <1>2, <1>3, <1>4, <1>5, <1>8 DEF Thread
<1> QED BY <1>1, <1>2, <1>7, <1>8 DEF Next

\* The inductive invariant of the Negentropy thread holds always.
LEMMA NegInvariant == Spec => []NegInv
BY InitInv, NextInv, PTL DEF Spec

-----------------------------------------------------------------------------
(* The order of delivery *)

\* The greatest member of a set that has one.
LEMMA MaxIs ==
  ASSUME NEW S, S \subseteq Nat, NEW m \in S \cup {0}, \A n \in S : n <= m
  PROVE  MaxOf(S) = m
<1> DEFINE P(x) == x \in S \cup {0} /\ \A n \in S : n <= x
<1>1. P(m)
  OBVIOUS
<1>2. P(MaxOf(S))
  BY <1>1 DEF MaxOf
<1>3. ASSUME NEW x, P(x) PROVE x = m
  BY <1>3
<1> HIDE DEF P
<1> QED BY <1>2, <1>3

\* Steps that leave the database and the registered queries alone.
LEMMA OrderKept ==
  ASSUME OrderInv, UNCHANGED database,
         \A i \in DOMAIN reg' :
            i \in DOMAIN reg /\ reg'[i] = reg[i] /\ queries'[reg[i]] = queries[reg[i]]
  PROVE  OrderInv'
BY DEF OrderInv, database

\* No query is due anything at first.
LEMMA OrderInit == Init => OrderInv
<1> SUFFICES ASSUME Init PROVE OrderInv
  OBVIOUS
<1>1. PICK m \in StartDb \cup {0} : \A n \in StartDb : n <= m
  BY NegAssumption
<1>2. StartDb \subseteq Nat /\ m \in Nat
  BY NegAssumption
<1>3. lastLevId = m
  BY <1>1, <1>2, MaxIs DEF Init
<1>4. db \subseteq 1..lastLevId /\ lastLevId \in db \cup {0}
  BY <1>1, <1>2, <1>3, NegAssumption DEF Init
<1>5. DOMAIN reg = {}
  BY DEF Init
<1> QED BY <1>2, <1>3, <1>4, <1>5 DEF OrderInv

\* Every step keeps the order: a new event is due to none of the queries, and a
\* slice delivers the newest.
LEMMA OrderNext == NegInv /\ OrderInv /\ [Next]_vars => OrderInv'
<1> SUFFICES ASSUME NegInv, OrderInv, [Next]_vars PROVE OrderInv'
  OBVIOUS
<1>1. \A i \in DOMAIN reg : reg[i] \in RunSet \ dead /\ reg[i] \in Msgs /\ queries[reg[i]].id = i
  BY Numbers DEF NegInv, SchedInv
<1>2. queries = [h \in Msgs |-> queries[h]]
  BY DEF NegInv, NegType
<1>3. CASE UNCHANGED vars \/ Wake \/ EndBatch \/ ProcessNothing \/ SliceThrows
  <2>1. UNCHANGED <<database, reg, queries>>
    BY <1>3 DEF vars, sched, Wake, EndBatch, ProcessNothing, SliceThrows
  <2> QED BY <2>1, OrderKept
<1>4. CASE ProcessDead
  <2>1. /\ UNCHANGED <<database, reg>> /\ queries' = [queries EXCEPT ![Head(running)] = NoQuery]
        /\ Head(running) \in dead
    BY <1>4 DEF ProcessDead, Delete
  <2> QED BY <1>1, <1>2, <2>1, OrderKept
<1>5. ASSUME NEW S, Slice(S), SliceCompletes(S) PROVE OrderInv'
  <2> DEFINE g == Head(running)
  <2>1. /\ UNCHANGED database /\ reg' = Remove(reg, queries[g].id)
        /\ queries' = [queries EXCEPT ![g] = NoQuery]
    BY <1>5 DEF Slice, SliceCompletes, Delete
  <2> HIDE DEF g
  <2>2. \A i \in DOMAIN reg' : i \in DOMAIN reg /\ reg'[i] = reg[i] /\ i # queries[g].id
    BY <2>1 DEF Remove
  <2>3. \A i \in DOMAIN reg' : reg[i] # g /\ queries'[reg[i]] = queries[reg[i]]
    BY <1>1, <1>2, <2>1, <2>2
  <2> QED BY <2>1, <2>2, <2>3, OrderKept
<1>6. ASSUME NEW S, Slice(S), SlicePauses(S) PROVE OrderInv'
  <2> DEFINE g == Head(running)  q == queries[g]
             nq == [q EXCEPT !.got = @ \cup S, !.buf = (@ \cup Due(q)) \ S, !.pauses = @ + 1]
  <2>1. /\ UNCHANGED <<db, lastLevId, reg>> /\ Delivers(q, S)
        /\ queries' = [queries EXCEPT ![g] = [q EXCEPT !.got = @ \cup S,
                                                       !.buf = (@ \cup Due(q)) \ S,
                                                       !.pauses = @ + 1]]
    BY <1>6 DEF Slice, SlicePauses, database
  <2>2. g \in Msgs /\ q.id \in DOMAIN reg /\ reg[q.id] = g
    BY <1>6, InCharge
  <2>3. IsQuery(q)
    BY <2>2 DEF NegInv, NegType
  <2> HIDE DEF g
  <2>4. nq.latest = q.latest /\ nq.filter = q.filter /\ nq.got = q.got \cup S
    BY <2>3 DEF IsQuery
  <2>5. queries' = [queries EXCEPT ![g] = nq]
    BY <1>2, <2>1, <2>2
  <2> HIDE DEF nq
  <2>6. queries'[g] = nq /\ \A i \in DOMAIN reg : i # q.id => queries'[reg[i]] = queries[reg[i]]
    BY <1>1, <1>2, <2>2, <2>5
  <2>7. /\ q.latest \in Nat /\ q.latest <= lastLevId
        /\ \A d \in q.got, e \in Due(q) : CreatedAt[e] <= CreatedAt[d]
    BY <2>2 DEF OrderInv, InOrder, DueIn, Due
  <2>8. ASSUME NEW d \in nq.got, NEW e \in DueIn(nq, db) PROVE CreatedAt[e] <= CreatedAt[d]
    <3>1. e \in Due(q) \ S
      BY <2>4 DEF Due, DueIn
    <3>2. CASE d \in S
      BY <2>1, <3>1, <3>2 DEF Delivers
    <3>3. CASE d \in q.got
      BY <2>7, <3>1, <3>3
    <3> QED BY <2>4, <3>2, <3>3
  <2>9. InOrder(nq, lastLevId, DueIn(nq, db))
    BY <2>4, <2>7, <2>8 DEF InOrder
  <2>10. ASSUME NEW i \in DOMAIN reg
         PROVE  InOrder(queries'[reg[i]], lastLevId, DueIn(queries'[reg[i]], db))
    <3>1. CASE i = q.id
      BY <2>2, <2>6, <2>9, <3>1
    <3>2. CASE i # q.id
      BY <2>6, <3>2 DEF OrderInv
    <3> QED BY <3>1, <3>2
  <2> QED BY <2>1, <2>10 DEF OrderInv
<1>7. ASSUME NEW id \in Ids, NEW ok \in BOOLEAN, NegOpenTree(id, ok) \/ NegMsg(id, ok)
      PROVE  OrderInv'
  <2>1. UNCHANGED <<database, queries>> /\ (reg' = reg \/ reg' = Remove(reg, id))
    BY <1>7 DEF NegOpenTree, NegMsg, Handling, RemoveSub, sched
  <2> QED BY <2>1, OrderKept DEF Remove
<1>8. ASSUME NEW id \in Ids, NegClose(id) PROVE OrderInv'
  BY <1>8, OrderKept DEF NegClose, Handling, RemoveSub, Remove
<1>9. ASSUME NEW c \in Conns, CloseConn(c) PROVE OrderInv'
  BY <1>9, OrderKept DEF CloseConn, Handling
<1>10. ASSUME NEW id \in Ids, NEW f \in MemFilters, NEW ok \in BOOLEAN, NegOpenMemory(id, f, ok)
       PROVE  OrderInv'
  <2> DEFINE g == handled + 1
             q == [id |-> id, filter |-> f, latest |-> MaxOf(db), ok |-> ok,
                   got |-> {}, buf |-> {}, pauses |-> 0]
  <2>1. /\ UNCHANGED <<db, lastLevId>> /\ queries' = [queries EXCEPT ![g] = q]
        /\ reg' = Set(reg, id, g) \/ reg' = Remove(reg, id)
    BY <1>10 DEF NegOpenMemory, Handling, database
  <2>2. g \in Msgs /\ g \notin RunSet
    BY <1>10, Handled DEF NegOpenMemory
  <2>3. MaxOf(db) = lastLevId
    <3>1. db \subseteq Nat /\ lastLevId \in db \cup {0} /\ \A n \in db : n <= lastLevId
      BY DEF OrderInv
    <3> QED BY <3>1, MaxIs
  <2> HIDE DEF g
  <2>4. ASSUME NEW i \in DOMAIN reg'
        PROVE  \/ i = id /\ reg'[i] = g
               \/ i \in DOMAIN reg /\ reg'[i] = reg[i] /\ reg[i] # g
    BY <1>1, <2>1, <2>2 DEF Set, Remove
  <2>5. queries'[g] = q /\ \A h \in Msgs \ {g} : queries'[h] = queries[h]
    BY <1>2, <2>1, <2>2
  <2>6. q.got = {} /\ q.latest = lastLevId
    BY <2>3
  <2>7. InOrder(q, lastLevId, DueIn(q, db))
    <3> HIDE DEF q
    <3> QED BY <2>6 DEF InOrder, OrderInv
  <2> HIDE DEF q
  <2>8. ASSUME NEW i \in DOMAIN reg'
        PROVE  InOrder(queries'[reg'[i]], lastLevId, DueIn(queries'[reg'[i]], db))
    <3>1. CASE i = id /\ reg'[i] = g
      BY <2>5, <2>7, <3>1
    <3>2. CASE i \in DOMAIN reg /\ reg'[i] = reg[i] /\ reg[i] # g
      <4>1. queries'[reg'[i]] = queries[reg[i]]
        BY <1>1, <2>5, <3>2
      <4> QED BY <3>2, <4>1 DEF OrderInv
    <3> QED BY <2>4, <3>1, <3>2
  <2> QED BY <2>1, <2>8 DEF OrderInv
<1>11. CASE WriteEvent
  <2>1. /\ UNCHANGED <<reg, queries>> /\ lastLevId' = lastLevId + 1
        /\ db' = db \cup {lastLevId + 1}
    BY <1>11 DEF WriteEvent, sched
  <2>0. lastLevId \in Nat /\ db \subseteq 1..lastLevId
    BY DEF OrderInv
  <2>2. lastLevId' \in Nat /\ db' \subseteq 1..lastLevId' /\ lastLevId' \in db' \cup {0}
    BY <2>0, <2>1
  <2>3. ASSUME NEW i \in DOMAIN reg
        PROVE  InOrder(queries[reg[i]], lastLevId', DueIn(queries[reg[i]], db'))
    <3> DEFINE q == queries[reg[i]]
    <3>1. InOrder(q, lastLevId, DueIn(q, db))
      BY DEF OrderInv
    <3> HIDE DEF q
    <3>2. q.latest \in Nat /\ q.latest <= lastLevId /\ ~(lastLevId + 1 <= q.latest)
      BY <2>0, <3>1 DEF InOrder
    <3>3. DueIn(q, db') \subseteq DueIn(q, db)
      BY <2>1, <3>2 DEF DueIn
    <3>4. q.latest <= lastLevId'
      BY <2>0, <2>1, <3>2
    <3>5. InOrder(q, lastLevId', DueIn(q, db'))
      BY <3>1, <3>2, <3>3, <3>4 DEF InOrder
    <3> QED BY <3>5 DEF q
  <2> QED BY <2>1, <2>2, <2>3 DEF OrderInv
<1>12. ASSUME NEW x \in db, RemoveEvent(x) PROVE OrderInv'
  <2>1. /\ UNCHANGED <<reg, queries, lastLevId>> /\ db' = db \ {x} /\ x # lastLevId
    BY <1>12 DEF RemoveEvent, sched
  <2>2. \A q : DueIn(q, db') \subseteq DueIn(q, db)
    BY <2>1 DEF DueIn
  <2> QED BY <2>1, <2>2 DEF OrderInv, InOrder
<1>13. CASE Client
  BY <1>7, <1>8, <1>9, <1>10, <1>13 DEF Client
<1>14. CASE Thread
  BY <1>3, <1>4, <1>5, <1>6, <1>14 DEF Thread, Slice
<1> QED BY <1>3, <1>11, <1>12, <1>13, <1>14 DEF Next

\* The order of delivery holds always.
LEMMA OrderInvariant == Spec => []OrderInv
BY NegInvariant, OrderInit, OrderNext, PTL DEF Spec

-----------------------------------------------------------------------------
(* The theorems *)

\* A query that may still run is registered under its id and its view is the
\* one its own NEG-OPEN made, unless a tree's NEG-OPEN took it away; and the
\* exception of onEventBatch has no other cause.
THEOREM QueryOwnsViewTheorem == Spec => []QueryOwnsView
<1>1. NegInv => QueryOwnsView
  <2> SUFFICES ASSUME NegInv PROVE QueryOwnsView
    OBVIOUS
  <2>1. ASSUME NEW g \in Live \ overtaken
        PROVE  LET id == queries[g].id IN
               /\ id \in DOMAIN reg /\ reg[id] = g
               /\ id \in DOMAIN views /\ views[id].gen = g /\ ~views[id].sealed
    <3>1. g \in RunSet \ dead
      BY DEF Live, RunSet
    <3>2. queries[g].id \in DOMAIN reg /\ reg[queries[g].id] = g
      BY <3>1 DEF NegInv, SchedInv
    <3> QED BY <3>2 DEF NegInv, ViewInv
  <2>2. pc = "bad_variant" => Head(running) \in overtaken
    BY DEF NegInv, ViewInv
  <2> QED BY <2>1, <2>2 DEF QueryOwnsView
<1> QED BY <1>1, NegInvariant, PTL

\* A memory view that is being sealed holds what its filter matched when the
\* NEG-OPEN was handled, and that still exists, or the newest of it when the
\* client asked for fewer: neither the slices it was collected in nor the events
\* that came and went between them show.
THEOREM SealedExactTheorem == Spec => SealedExact
<1> DEFINE matching(q) == {e \in q.filter.match \cap db : e <= q.latest}
           Exact ==
      \A id \in DOMAIN views \cap DOMAIN views' :
         ~views[id].sealed /\ views'[id].sealed /\ views'[id].kind = "memory"
         => LET q == queries[views[id].gen]
                v == views'[id]
            IN  /\ v.held \subseteq matching(q)
                /\ \A e \in matching(q) \ v.held :
                     /\ Cardinality(v.found) = q.filter.limit
                     /\ \A d \in v.found : CreatedAt[e] <= CreatedAt[d]
<1>1. NegInv /\ OrderInv /\ [Next]_vars => [Exact]_vars
  <2> SUFFICES ASSUME NegInv, OrderInv, Next,
                      NEW id \in DOMAIN views \cap DOMAIN views', ~views[id].sealed,
                      views'[id].sealed, views'[id].kind = "memory"
               PROVE  LET q == queries[views[id].gen]
                          v == views'[id]
                      IN  /\ v.held \subseteq matching(q)
                          /\ \A e \in matching(q) \ v.held :
                               /\ Cardinality(v.found) = q.filter.limit
                               /\ \A d \in v.found : CreatedAt[e] <= CreatedAt[d]
    BY Zenon
  <2>1. PICK S : Slice(S) /\ SliceCompletes(S)
    <3>1. CASE views' = views
      BY <3>1
    <3>2. ASSUME NEW j \in Ids, NEW ok \in BOOLEAN, NegOpenTree(j, ok) PROVE FALSE
      BY <3>2 DEF NegOpenTree, Remove, Set
    <3>3. ASSUME NEW j \in Ids, NEW ok \in BOOLEAN, NegMsg(j, ok) PROVE FALSE
      BY <3>3 DEF NegMsg, Remove
    <3>4. ASSUME NEW j \in Ids, NEW ok \in BOOLEAN, NEW f \in MemFilters, NegOpenMemory(j, f, ok)
          PROVE FALSE
      BY <3>4 DEF NegOpenMemory, Remove, Set
    <3>5. ASSUME NEW j \in Ids, NegClose(j) PROVE FALSE
      BY <3>5 DEF NegClose, Remove
    <3>6. ASSUME NEW c \in Conns, CloseConn(c) PROVE FALSE
      BY <3>6 DEF CloseConn
    <3>7. ASSUME NEW S, Slice(S) PROVE SliceCompletes(S)
      <4>1. SUFFICES ASSUME SlicePauses(S) PROVE FALSE
        BY <3>7 DEF Slice
      <4>2. IsView(views[id]) /\ views = [i \in DOMAIN views |-> views[i]]
        BY DEF NegInv, NegType
      <4> QED BY <4>1, <4>2 DEF SlicePauses, IsView
    <3>8. CASE Client
      BY <3>2, <3>3, <3>4, <3>5, <3>6, <3>8 DEF Client
    <3>9. CASE Thread
      BY <3>1, <3>7, <3>9 DEF Thread, Wake, EndBatch, ProcessNothing, ProcessDead, SliceThrows
    <3>10. CASE WriteEvent \/ \E e \in db : RemoveEvent(e)
      BY <3>1, <3>10 DEF WriteEvent, RemoveEvent
    <3> QED BY <3>8, <3>9, <3>10 DEF Next
  <2> DEFINE g == Head(running)  q == queries[g]  found == views[q.id].levIds \cup S
  <2>2. /\ q.id \in DOMAIN views => /\ views[q.id].gen = g /\ views[q.id].levIds = q.got
    BY <2>1, InCharge
  <2>3. /\ id = q.id /\ Cardinality(found) <= MaxSyncEvents
        /\ views'[id].held = StillThere(found) /\ views'[id].found = found
    <3>1. \/ views' = views \/ views' = Remove(views, q.id)
          \/ /\ q.id \in DOMAIN views /\ Cardinality(found) <= MaxSyncEvents
             /\ views' = [views EXCEPT ![q.id] =
                  [@ EXCEPT !.levIds = {}, !.sealed = TRUE, !.found = found,
                !.held = StillThere(found)]]
      BY <2>1 DEF SliceCompletes
    <3>2. views = [i \in DOMAIN views |-> views[i]] /\ \A i \in DOMAIN views : IsView(views[i])
      BY DEF NegInv, NegType
    <3> HIDE DEF g, found
    <3>3. CASE views' = views \/ views' = Remove(views, q.id)
      BY <3>3 DEF Remove
    <3>4. CASE /\ q.id \in DOMAIN views /\ Cardinality(found) <= MaxSyncEvents
               /\ views' = [views EXCEPT ![q.id] =
                    [@ EXCEPT !.levIds = {}, !.sealed = TRUE, !.found = found,
                !.held = StillThere(found)]]
      BY <3>2, <3>4 DEF IsView
    <3> QED BY <3>1, <3>3, <3>4
  <2>4. views[id].gen = g /\ found = q.got \cup S
    BY <2>2, <2>3
  <2>5. Due(q) \subseteq S \/ Cardinality(found) = q.filter.limit
    <3>1. Completes(q, S)
      BY <2>1 DEF SliceCompletes
    <3>2. Cardinality(q.got \cup S) = Cardinality(found)
      BY <2>4, Zenon
    <3> HIDE DEF g, found
    <3>3. Cardinality(found) # MaxSyncEvents + 1
      BY <2>3, NegAssumption
    <3> QED BY <3>1, <3>2, <3>3 DEF Completes, Limit
  <2>6. \A e \in S \cup q.got : e \in q.filter.match /\ e <= q.latest
    BY <2>1, Wanted
  <2>7. \A d \in q.got, e \in Due(q) : CreatedAt[e] <= CreatedAt[d]
    <3>1. InOrder(q, lastLevId, DueIn(q, db))
      BY <2>1, InCharge DEF OrderInv
    <3> QED BY <3>1 DEF InOrder, DueIn, Due
  <2>8. \A d \in S, e \in Due(q) \ S : CreatedAt[e] <= CreatedAt[d]
    BY <2>1 DEF Slice, Delivers
  <2> HIDE DEF g, found
  <2>9. (q.got \cup S) \cap db \subseteq matching(q)
    BY <2>6
  <2>10. ASSUME NEW e \in matching(q) \ ((q.got \cup S) \cap db)
         PROVE  /\ Cardinality(found) = q.filter.limit
                /\ \A d \in q.got \cup S : CreatedAt[e] <= CreatedAt[d]
    <3>1. e \in Due(q) \ S
      BY DEF Due
    <3> QED BY <2>5, <2>7, <2>8, <3>1
  <2> QED BY <2>3, <2>4, <2>9, <2>10 DEF StillThere
<1> QED BY <1>1, NegInvariant, OrderInvariant, PTL DEF Spec, SealedExact
=============================================================================
