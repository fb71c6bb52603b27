----------------------------- MODULE RouterProofs -----------------------------
(***************************************************************************)
(* Theorems about Router, for any groups, urls, files, events and numbers  *)
(* of sockets: a socket its group does not hold was never subscribed nor   *)
(* sent anything, one it holds is subscribed with the filter of the group, *)
(* and has been sent what the group uploads, once and in order.            *)
(*                                                                         *)
(* The invariant says this of each socket (SockInv) and, of each group,    *)
(* that its compiled filter is the one its filterStr stands for, unless    *)
(* that one does not compile (GroupInv): configure compares filterStr to   *)
(* find out whether the connections have the right REQ.                    *)
(***************************************************************************)
EXTENDS Router, TLAPS, WellFoundedInduction, FiniteSetTheorems

Dirs == {"", "down", "up", "both"}
Conn == [sock : 0..MaxSockets, age : -1..LongAgo]
Group == [dir : Dirs, filterStr : SUBSET Kinds, filter : SUBSET Kinds, urls : SUBSET Urls,
          conns : [Urls -> Conn]]
OpenSocket == [state : {"open"}, req : SUBSET Kinds, from : Nat, sent : Seq(Nat)]
Socket == {NoSocket} \cup [state : {"connecting"}, age : {0, 1}] \cup OpenSocket

RouterType ==
  /\ file \in Configs
  /\ groups \in [Groups -> {NoGroup} \cup Group]
  /\ socks \in [Sockets -> Socket]
  /\ log \in Seq(Kinds) /\ currEventId \in 0..Len(log)

Coherent(r) == r.filter = r.filterStr \/ r.filterStr \in BadFilters

GroupInv == \A g \in Groups : Exists(g) => Coherent(groups[g])

\* What group r uploads between two events of log l
ToUpload(r, l, a, b) == {i \in (a + 1)..b : Uploads(r, l[i])}

\* A socket s its group r holds, up to event n of log l
Served(r, s, l, n) ==
  /\ s.req = IF r.dir # "up" THEN r.filter ELSE NoReq
  /\ s.from <= n
  /\ InOrder(s.sent, ToUpload(r, l, s.from, n))

\* Socket k, when gs are the groups, ss the sockets and st the stale ones
GoodSocket(gs, ss, st, k) ==
  /\ Holds(gs, k) => ss[k].state = "open"
  /\ Holds(gs, k) /\ k \notin st => Served(gs[k[1]], ss[k], log, currEventId)
  /\ ~Holds(gs, k) /\ ss[k].state = "open" => ss[k].req = NoReq /\ ss[k].sent = <<>>

SockInv == \A k \in Sockets : GoodSocket(groups, socks, stale, k)

RouterInv == RouterType /\ GroupInv /\ SockInv

-----------------------------------------------------------------------------
(* Lemmas: numbers in ascending order *)

\* Every finite set of numbers can be put in order: the least bound below
\* which one could not is impossible.
LEMMA CanOrder ==
  ASSUME NEW n \in Nat, NEW S \in SUBSET (1..n)
  PROVE  \E s \in [1..Cardinality(S) -> S] : InOrder(s, S)
<1> DEFINE Ordered(T) == \E s \in [1..Cardinality(T) -> T] : InOrder(s, T)
           D == {m \in Nat : \E T \in SUBSET (1..m) : ~Ordered(T)}
           R == {ss \in Nat \X Nat : ss[1] < ss[2]}
<1>1. IsWellFoundedOn(R, Nat)
  BY NatLessThanWellFounded DEF OpToRel
<1>2. SUFFICES ASSUME D # {} PROVE FALSE
  BY DEF D
<1>3. PICK m \in D : \A y \in D : ~ (<<y, m>> \in R)
  <2>1. D \subseteq Nat
    OBVIOUS
  <2> HIDE DEF D, R
  <2> QED BY <1>1, <1>2, <2>1, WFMin
<1>4. m \in Nat /\ \A y \in D : ~(y < m)
  BY <1>3
<1>5. PICK T \in SUBSET (1..m) : ~Ordered(T)
  BY <1>3
<1>6. CASE m \notin T
  <2>1. m # 0
    <3>1. SUFFICES ASSUME m = 0 PROVE FALSE
      OBVIOUS
    <3>2. T = {}
      BY <1>5, <3>1
    <3>3. Cardinality(T) = 0
      BY <3>2, FS_EmptySet
    <3>4. <<>> \in [1..0 -> {}] /\ InOrder(<<>>, {})
      BY DEF InOrder
    <3> QED BY <1>5, <3>2, <3>3, <3>4
  <2>2. m - 1 \in Nat /\ m - 1 < m /\ T \in SUBSET (1..(m - 1))
    BY <1>4, <1>5, <1>6, <2>1
  <2>3. m - 1 \in D
    BY <1>5, <2>2
  <2> QED BY <1>4, <2>2, <2>3
<1>7. CASE m \in T
  <2> DEFINE U == T \ {m}
  <2>1. m \in 1..m /\ m - 1 \in Nat /\ m - 1 < m /\ U \in SUBSET (1..(m - 1))
    BY <1>4, <1>5, <1>7
  <2>2. m - 1 \notin D
    BY <1>4, <2>1
  <2>3. Ordered(U)
    BY <2>1, <2>2
  <2>4. PICK t \in [1..Cardinality(U) -> U] : InOrder(t, U)
    BY <2>3
  <2>5. IsFiniteSet(T) /\ IsFiniteSet(U)
    <3>1. IsFiniteSet(1..m)
      BY <1>4, FS_Interval
    <3> QED BY <1>5, <3>1, FS_Subset
  <2>6. PICK c \in Nat : c = Cardinality(U) /\ Cardinality(T) = c + 1
    <3>1. Cardinality(U) \in Nat /\ Cardinality(T) \in Nat
      BY <2>5, FS_CardinalityType
    <3>2. Cardinality(U) = Cardinality(T) - 1
      BY <1>7, <2>5, FS_RemoveElement
    <3> QED BY <3>1, <3>2
  <2> HIDE DEF U
  <2> DEFINE s == [i \in 1..(c + 1) |-> IF i = c + 1 THEN m ELSE t[i]]
  <2>7. /\ \A i \in 1..c : t[i] \in U
        /\ \A i, j \in 1..c : i < j => t[i] < t[j]
        /\ \A x \in U : \E i \in 1..c : t[i] = x
    BY <2>4, <2>6 DEF InOrder
  <2>8. /\ DOMAIN s = 1..(c + 1) /\ s[c + 1] = m /\ c + 1 \in 1..(c + 1)
        /\ \A i \in 1..c : s[i] = t[i] /\ i \in 1..(c + 1)
        /\ \A i \in 1..(c + 1) : i = c + 1 \/ i \in 1..c
    BY <2>6
  <2>9. U \subseteq T /\ \A x \in U : x < m
    BY <2>1, <1>4 DEF U
  <2>10. s \in [1..(c + 1) -> T]
    BY <1>7, <2>7, <2>8, <2>9
  <2> HIDE DEF s
  <2>11. \A i, j \in 1..(c + 1) : i < j => s[i] < s[j]
    <3> TAKE i, j \in 1..(c + 1)
    <3>1. CASE i = c + 1
      BY <3>1, <2>6
    <3>2. CASE i \in 1..c /\ j = c + 1
      BY <3>2, <2>7, <2>8, <2>9
    <3>3. CASE i \in 1..c /\ j \in 1..c
      BY <3>3, <2>7, <2>8
    <3> QED BY <2>8, <3>1, <3>2, <3>3
  <2>12. {s[i] : i \in DOMAIN s} = T
    <3>1. \A i \in DOMAIN s : s[i] \in T
      BY <2>8, <2>10
    <3>2. \A x \in T : \E i \in DOMAIN s : s[i] = x
      <4> TAKE x \in T
      <4>1. x = m \/ x \in U
        BY <1>7 DEF U
      <4> QED BY <4>1, <2>7, <2>8
    <3> QED BY <3>1, <3>2
  <2>13. InOrder(s, T)
    BY <2>8, <2>11, <2>12 DEF InOrder
  <2>14. s \in [1..Cardinality(T) -> T]
    BY <2>6, <2>10, Zenon
  <2> QED BY <1>5, <2>13, <2>14
<1> QED BY <1>6, <1>7

\* Ascending lists a finite set of levIds in increasing order, each once.
LEMMA AscendingOrders ==
  ASSUME NEW n \in Nat, NEW S \in SUBSET (1..n)
  PROVE  Ascending(S) \in Seq(Nat) /\ InOrder(Ascending(S), S)
<1>1. Ascending(S) \in [1..Cardinality(S) -> S] /\ InOrder(Ascending(S), S)
  BY CanOrder DEF Ascending
<1>2. Cardinality(S) \in Nat
  <2>1. IsFiniteSet(1..n)
    BY FS_Interval
  <2> QED BY <2>1, FS_Subset, FS_CardinalityType
<1>3. Ascending(S) \in [1..Cardinality(S) -> Nat]
  <2>1. S \subseteq Nat
    OBVIOUS
  <2> QED BY <1>1, <2>1
<1> QED BY <1>1, <1>2, <1>3

\* Uploads of later events behind those of earlier ones stay in order.
LEMMA JoinOrdered ==
  ASSUME NEW s \in Seq(Nat), NEW t \in Seq(Nat), NEW S, NEW T,
         InOrder(s, S), InOrder(t, T), \A x \in S, y \in T : x < y
  PROVE  s \o t \in Seq(Nat) /\ InOrder(s \o t, S \cup T)
<1> DEFINE q == s \o t
<1>1. /\ q \in Seq(Nat) /\ Len(s) \in Nat /\ Len(t) \in Nat
      /\ DOMAIN s = 1..Len(s) /\ DOMAIN t = 1..Len(t) /\ DOMAIN q = 1..(Len(s) + Len(t))
      /\ \A i \in 1..Len(s) : q[i] = s[i]
      /\ \A i \in 1..(Len(s) + Len(t)) : i > Len(s) => q[i] = t[i - Len(s)]
  OBVIOUS
<1> HIDE DEF q
<1>2. ASSUME NEW i \in DOMAIN q
      PROVE  \/ i \in DOMAIN s /\ q[i] = s[i]
             \/ \E k \in DOMAIN t : i = Len(s) + k /\ q[i] = t[k]
  <2>1. i \in 1..Len(s) \/ (i > Len(s) /\ i - Len(s) \in 1..Len(t) /\ i = Len(s) + (i - Len(s)))
    BY <1>1
  <2> QED BY <1>1, <2>1
<1>3. /\ \A i \in DOMAIN s : i \in DOMAIN q /\ q[i] = s[i]
      /\ \A k \in DOMAIN t : Len(s) + k \in DOMAIN q /\ q[Len(s) + k] = t[k]
  <2>1. \A i \in DOMAIN s : i \in DOMAIN q /\ q[i] = s[i]
    BY <1>1
  <2>2. ASSUME NEW k \in DOMAIN t PROVE Len(s) + k \in DOMAIN q /\ q[Len(s) + k] = t[k]
    <3>1. Len(s) + k \in 1..(Len(s) + Len(t)) /\ Len(s) + k > Len(s) /\ (Len(s) + k) - Len(s) = k
      BY <1>1
    <3> QED BY <1>1, <3>1
  <2> QED BY <2>1, <2>2
<1>4. /\ \A i \in DOMAIN s : s[i] \in S
      /\ \A i \in DOMAIN t : t[i] \in T
      /\ \A x \in S : \E k \in DOMAIN s : s[k] = x
      /\ \A x \in T : \E k \in DOMAIN t : t[k] = x
      /\ \A i, j \in DOMAIN s : i < j => s[i] < s[j]
      /\ \A i, j \in DOMAIN t : i < j => t[i] < t[j]
  BY DEF InOrder
<1>5. ASSUME NEW i \in DOMAIN q, NEW j \in DOMAIN q, i < j PROVE q[i] < q[j]
  <2>1. CASE i \in DOMAIN s /\ q[i] = s[i] /\ j \in DOMAIN s /\ q[j] = s[j]
    BY <1>4, <1>5, <2>1
  <2>2. ASSUME NEW k \in DOMAIN t, q[j] = t[k], i \in DOMAIN s, q[i] = s[i] PROVE q[i] < q[j]
    BY <1>4, <2>2
  <2>3. ASSUME NEW k \in DOMAIN t, i = Len(s) + k, j \in DOMAIN s PROVE FALSE
    BY <1>1, <1>5, <2>3
  <2>4. ASSUME NEW k \in DOMAIN t, i = Len(s) + k, q[i] = t[k],
               NEW l \in DOMAIN t, j = Len(s) + l, q[j] = t[l]
        PROVE  q[i] < q[j]
    <3>1. k < l
      BY <1>1, <1>5, <2>4
    <3> QED BY <1>4, <2>4, <3>1
  <2> QED BY <1>2, <2>1, <2>2, <2>3, <2>4
<1>6. {q[i] : i \in DOMAIN q} = S \cup T
  <2>1. \A i \in DOMAIN q : q[i] \in S \cup T
    BY <1>2, <1>4
  <2>2. \A x \in S \cup T : \E i \in DOMAIN q : q[i] = x
    BY <1>3, <1>4
  <2> QED BY <2>1, <2>2
<1>7. InOrder(q, S \cup T)
  BY <1>5, <1>6 DEF InOrder
<1> QED BY <1>1, <1>7 DEF q

-----------------------------------------------------------------------------
(* Lemmas: sockets *)

\* A socket is named by its group, its url and a number.
LEMMA Parts ==
  ASSUME NEW k \in Sockets
  PROVE  k[1] \in Groups /\ k[2] \in Urls /\ k[3] \in 1..MaxSockets /\ k = <<k[1], k[2], k[3]>>
BY DEF Sockets

\* The fields of a group that exists.
LEMMA SomeGroup ==
  ASSUME NEW r \in Group
  PROVE  /\ r # NoGroup /\ r.dir \in Dirs /\ r.filterStr \in SUBSET Kinds
         /\ r.filter \in SUBSET Kinds /\ r.urls \in SUBSET Urls /\ r.conns \in [Urls -> Conn]
<1>1. /\ r.dir \in Dirs /\ r.filterStr \in SUBSET Kinds
      /\ r.filter \in SUBSET Kinds /\ r.urls \in SUBSET Urls /\ r.conns \in [Urls -> Conn]
  BY DEF Group
<1>2. r.dir # NoGroup.dir
  BY <1>1 DEF NoGroup, Dirs
<1> QED BY <1>1, <1>2

\* The fields of a socket, by its state.
LEMMA SomeSocket ==
  ASSUME NEW s \in Socket
  PROVE  /\ s.state = "open" => s \in OpenSocket
         /\ s \in OpenSocket => /\ s.state = "open" /\ s.req \in SUBSET Kinds
                                /\ s.from \in Nat /\ s.sent \in Seq(Nat)
         /\ s = NoSocket => s.state = "closed"
         /\ s \in [state : {"connecting"}, age : {0, 1}] => s.state = "connecting"
BY DEF Socket, OpenSocket, NoSocket

\* The values a ConnDesc takes.
LEMMA ConnTypes ==
  /\ NoConn \in Conn /\ NewConn \in Conn /\ [sock |-> 0, age |-> 0] \in Conn
  /\ \A n \in 1..MaxSockets : Holding(n) \in Conn /\ Holding(n).sock = n
  /\ NoConn.sock = 0 /\ NewConn.sock = 0 /\ [sock |-> 0, age |-> 0].sock = 0
<1>1. /\ 0 \in 0..MaxSockets /\ \A n \in 1..MaxSockets : n \in 0..MaxSockets
      /\ -1 \in -1..LongAgo /\ 0 \in -1..LongAgo /\ LongAgo \in -1..LongAgo
  <2>1. MaxSockets \in Nat
    BY RouterAssumption
  <2>2. 0 \in 0..MaxSockets /\ \A n \in 1..MaxSockets : n \in 0..MaxSockets
    BY <2>1
  <2>3. -1 \in -1..3 /\ 0 \in -1..3 /\ 3 \in -1..3
    OBVIOUS
  <2> QED BY <2>2, <2>3 DEF LongAgo
<1>2. NoConn \in Conn /\ NewConn \in Conn /\ [sock |-> 0, age |-> 0] \in Conn
  BY <1>1 DEF Conn, NoConn, NewConn
<1>3. \A n \in 1..MaxSockets : Holding(n) \in Conn /\ Holding(n).sock = n
  BY <1>1 DEF Conn, Holding
<1>4. NoConn.sock = 0 /\ NewConn.sock = 0 /\ [sock |-> 0, age |-> 0].sock = 0
  BY DEF NoConn, NewConn
<1> QED BY <1>2, <1>3, <1>4

\* Settings that are the same serve the same.
LEMMA SameSettings ==
  ASSUME NEW r, NEW q, r.dir = q.dir, r.filter = q.filter, NEW s, NEW l, NEW n, Served(r, s, l, n)
  PROVE  Served(q, s, l, n)
<1>1. ToUpload(r, l, s.from, n) = ToUpload(q, l, s.from, n)
  BY DEF ToUpload, Uploads
<1> QED BY <1>1 DEF Served

\* A new event is not due before it has been looked at.
LEMMA LongerLog ==
  ASSUME NEW l \in Seq(Kinds), NEW kind \in Kinds, NEW n \in 0..Len(l), NEW r, NEW s,
         s.from \in Nat, Served(r, s, l, n)
  PROVE  Served(r, s, Append(l, kind), n)
<1>1. \A i \in (s.from + 1)..n : Append(l, kind)[i] = l[i]
  OBVIOUS
<1>2. ToUpload(r, Append(l, kind), s.from, n) = ToUpload(r, l, s.from, n)
  BY <1>1 DEF ToUpload
<1> QED BY <1>2 DEF Served

\* handleDBChange brings a socket that is served up to date.
LEMMA UploadServes ==
  ASSUME NEW l \in Seq(Kinds), NEW n \in 0..Len(l), NEW r, NEW s \in OpenSocket
  PROVE  LET t == [s EXCEPT !.sent = s.sent \o Ascending(ToUpload(r, l, n, Len(l)))]
         IN  /\ t \in OpenSocket
             /\ Served(r, s, l, n) => Served(r, t, l, Len(l))
<1> DEFINE N == ToUpload(r, l, n, Len(l))
           a == Ascending(N)
           t == [s EXCEPT !.sent = s.sent \o a]
<1>1. Len(l) \in Nat /\ n \in Nat /\ n <= Len(l)
  OBVIOUS
<1>2. N \in SUBSET (1..Len(l))
  BY <1>1 DEF ToUpload
<1>3. a \in Seq(Nat) /\ InOrder(a, N)
  BY <1>1, <1>2, AscendingOrders
<1> HIDE DEF a
<1>4. s.sent \in Seq(Nat) /\ s.from \in Nat /\ s.req \in SUBSET Kinds /\ s.state = "open"
  BY DEF OpenSocket
<1>5. s.sent \o a \in Seq(Nat)
  BY <1>3, <1>4
<1>6. /\ t \in OpenSocket
      /\ t.req = s.req /\ t.from = s.from /\ t.sent = s.sent \o a
  BY <1>5 DEF OpenSocket
<1>7. ASSUME Served(r, s, l, n) PROVE Served(r, t, l, Len(l))
  <2> DEFINE O == ToUpload(r, l, s.from, n)
  <2>1. InOrder(s.sent, O) /\ s.from <= n /\ s.req = IF r.dir # "up" THEN r.filter ELSE NoReq
    BY <1>7 DEF Served
  <2>2. \A x \in O, y \in N : x < y
    BY <1>1, <1>4 DEF ToUpload
  <2>3. O \cup N = ToUpload(r, l, s.from, Len(l))
    BY <1>1, <1>4, <2>1 DEF ToUpload
  <2> HIDE DEF O, N
  <2>4. InOrder(s.sent \o a, O \cup N)
    BY <1>3, <1>4, <2>1, <2>2, JoinOrdered
  <2>5. InOrder(t.sent, ToUpload(r, l, t.from, Len(l)))
    BY <1>6, <2>3, <2>4
  <2>6. t.from <= Len(l)
    BY <1>1, <1>4, <1>6, <2>1
  <2> HIDE DEF t
  <2> QED BY <1>6, <2>1, <2>5, <2>6 DEF Served
<1> QED BY <1>6, <1>7 DEF a, N

-----------------------------------------------------------------------------
(* Lemmas: loading and connecting *)

\* tryConnects leaves the settings and what is held alone, and its attempts
\* use sockets that are free.
LEMMA ConnectStep ==
  ASSUME NEW gs \in [Groups -> {NoGroup} \cup Group], NEW ss \in [Sockets -> Socket],
         NEW who \in SUBSET Groups, Connect(gs, who, ss)
  PROVE  /\ groups' \in [Groups -> {NoGroup} \cup Group] /\ socks' \in [Sockets -> Socket]
         /\ \A g \in Groups :
              /\ groups'[g] = NoGroup <=> gs[g] = NoGroup
              /\ gs[g] # NoGroup => /\ groups'[g].dir = gs[g].dir
                                    /\ groups'[g].filterStr = gs[g].filterStr
                                    /\ groups'[g].filter = gs[g].filter
         /\ \A k \in Sockets : Holds(groups', k) <=> Holds(gs, k)
         /\ \A k \in Sockets : \/ socks'[k] = ss[k]
                               \/ socks'[k].state = "connecting" /\ ss[k] = NoSocket
<1>1. /\ groups' = [g \in Groups |-> IF g \in who /\ gs[g] # NoGroup THEN Started(gs[g]) ELSE gs[g]]
      /\ socks' = Attempted(gs, who, ss)
      /\ \A g \in who : gs[g] # NoGroup => \A u \in Due(gs[g]) : Free(ss, g, u) # {}
  BY DEF Connect
<1>2. ASSUME NEW r \in Group
      PROVE  /\ Started(r) \in Group /\ Started(r).dir = r.dir
             /\ Started(r).filterStr = r.filterStr /\ Started(r).filter = r.filter
             /\ \A u \in Urls : u \notin Due(r) => Started(r).conns[u] = r.conns[u]
             /\ \A u \in Due(r) : u \in Urls /\ Started(r).conns[u].sock = 0 /\ r.conns[u].sock = 0
  <2> DEFINE cs == [u \in Urls |-> IF u \in Due(r) THEN [sock |-> 0, age |-> 0] ELSE r.conns[u]]
  <2>1. r.conns \in [Urls -> Conn] /\ Due(r) \subseteq Urls
    BY SomeGroup DEF Due
  <2>2. cs \in [Urls -> Conn] /\ \A u \in Due(r) : cs[u].sock = 0
    BY <2>1, ConnTypes
  <2>3. \A u \in Due(r) : r.conns[u].sock = 0
    BY ConnTypes DEF Due
  <2>4. Started(r) = [r EXCEPT !.conns = cs]
    BY DEF Started
  <2>5. \A u \in Urls : u \notin Due(r) => cs[u] = r.conns[u]
    OBVIOUS
  <2> HIDE DEF cs
  <2>6. /\ Started(r) \in Group /\ Started(r).dir = r.dir
        /\ Started(r).filterStr = r.filterStr /\ Started(r).filter = r.filter
        /\ Started(r).conns = cs
    BY <2>2, <2>4 DEF Group
  <2> QED BY <2>1, <2>2, <2>3, <2>5, <2>6
<1>3. ASSUME NEW g \in Groups
      PROVE  \/ groups'[g] = gs[g]
             \/ gs[g] \in Group /\ groups'[g] = Started(gs[g]) /\ g \in who
  BY <1>1
<1>4. groups' \in [Groups -> {NoGroup} \cup Group]
  <2>1. \A g \in Groups : groups'[g] \in {NoGroup} \cup Group
    BY <1>2, <1>3
  <2> QED BY <1>1, <2>1
<1>5. ASSUME NEW g \in Groups
      PROVE  /\ groups'[g] = NoGroup <=> gs[g] = NoGroup
             /\ gs[g] # NoGroup => /\ groups'[g].dir = gs[g].dir
                                   /\ groups'[g].filterStr = gs[g].filterStr
                                   /\ groups'[g].filter = gs[g].filter
  BY <1>2, <1>3, SomeGroup
<1>6. ASSUME NEW k \in Sockets PROVE Holds(groups', k) <=> Holds(gs, k)
  <2>1. k[1] \in Groups /\ k[2] \in Urls /\ k[3] # 0
    BY Parts
  <2>2. CASE groups'[k[1]] = gs[k[1]]
    BY <2>2 DEF Holds
  <2>3. CASE gs[k[1]] \in Group /\ groups'[k[1]] = Started(gs[k[1]])
    <3>1. groups'[k[1]] # NoGroup /\ gs[k[1]] # NoGroup
      BY <2>3, <1>2, SomeGroup
    <3> QED BY <2>1, <2>3, <3>1, <1>2 DEF Holds
  <2> QED BY <1>3, <2>1, <2>2, <2>3
<1>7. ASSUME NEW k \in Sockets
      PROVE  socks'[k] = ss[k] \/ (socks'[k] = Connecting /\ ss[k] = NoSocket)
  <2>1. CASE /\ k[1] \in who /\ gs[k[1]] # NoGroup /\ k[2] \in Due(gs[k[1]])
             /\ k[3] = FreeSocket(ss, k[1], k[2])
    <3>1. socks'[k] = Connecting
      BY <1>1, <2>1 DEF Attempted
    <3>2. Free(ss, k[1], k[2]) # {}
      BY <1>1, <2>1
    <3>3. k[3] \in Free(ss, k[1], k[2])
      BY <2>1, <3>2 DEF FreeSocket
    <3>4. ss[<<k[1], k[2], k[3]>>] = NoSocket
      BY <3>3 DEF Free
    <3> QED BY <3>1, <3>4, Parts
  <2>2. CASE ~ (/\ k[1] \in who /\ gs[k[1]] # NoGroup /\ k[2] \in Due(gs[k[1]])
                /\ k[3] = FreeSocket(ss, k[1], k[2]))
    BY <1>1, <2>2 DEF Attempted
  <2> QED BY <2>1, <2>2
<1>8. Connecting \in Socket /\ Connecting.state = "connecting"
  BY DEF Connecting, Socket
<1>9. socks' \in [Sockets -> Socket]
  <2>1. \A k \in Sockets : socks'[k] \in Socket
    BY <1>7, <1>8
  <2>2. socks' = [k \in Sockets |-> socks'[k]]
    BY <1>1 DEF Attempted
  <2> QED BY <2>1, <2>2
<1> QED BY <1>4, <1>5, <1>6, <1>7, <1>8, <1>9

\* A group of the file
LEMMA Specs ==
  ASSUME RouterType, NEW g \in DOMAIN file
  PROVE  /\ g \in Groups /\ file[g].dir \in {"down", "up", "both"}
         /\ file[g].filter \in SUBSET Kinds /\ file[g].urls \in SUBSET Urls
         /\ file[g].error \in {"", "dir", "filter", "urls", "url"}
         /\ file[g].error = "filter" => file[g].filter \in BadFilters
         /\ file[g].error \in {"", "urls", "url"} => file[g].filter \notin BadFilters
<1>1. file \in Configs
  BY DEF RouterType
<1>2. /\ g \in Groups /\ file[g] \in GroupSpec
      /\ file[g].error \in {"", "urls", "url"} => file[g].filter \notin BadFilters
  BY <1>1, RouterAssumption
<1>3. /\ file[g].dir \in {"down", "up", "both"} /\ file[g].filter \in SUBSET Kinds
      /\ file[g].urls \in SUBSET Urls /\ file[g].error \in {"", "dir", "filter", "urls", "url"}
  BY <1>2 DEF GroupSpec
<1>4. file[g].error = "filter" => file[g].filter \in BadFilters
  BY <1>1 DEF BadFilters
<1> QED BY <1>2, <1>3, <1>4

\* What configure makes of a group, whose settings and connections are those
\* of r: a connection stays only under settings that were compared.
Keeps(r, q) == \A u \in Urls : q.conns[u].sock # 0 => q.conns[u] = r.conns[u]

\* A load without error keeps the connections of the urls that stay, unless
\* direction or filter changed: then it holds none.
LEMMA ConfiguredGroup ==
  ASSUME NEW r \in Group, Coherent(r),
         NEW spec, spec.dir \in {"down", "up", "both"}, spec.filter \in SUBSET Kinds,
         spec.urls \in SUBSET Urls, spec.filter \notin BadFilters
  PROVE  /\ Configured(r, spec) \in Group /\ Coherent(Configured(r, spec))
         /\ Keeps(r, Configured(r, spec))
         /\ \A u \in Urls : Configured(r, spec).conns[u].sock # 0 =>
              Configured(r, spec).dir = r.dir /\ Configured(r, spec).filter = r.filter
<1>0. PICK d \in {"down", "up", "both"}, f \in SUBSET Kinds, us \in SUBSET Urls :
        spec.dir = d /\ spec.filter = f /\ spec.urls = us /\ f \notin BadFilters /\ d \in Dirs
  BY DEF Dirs
<1> DEFINE q == Configured(r, spec)
           cs == [u \in Urls |-> IF u \in us /\ ~NeedsReconnect(r, spec) THEN r.conns[u] ELSE NoConn]
<1>1. cs \in [Urls -> Conn] /\ \A u \in Urls : cs[u] = r.conns[u] \/ cs[u].sock = 0
  BY SomeGroup, ConnTypes
<1>2. \A u \in Urls : cs[u].sock # 0 => r.dir = d /\ r.filterStr = f
  BY <1>0, ConnTypes DEF NeedsReconnect
<1>3. q = [dir |-> d, filterStr |-> f, filter |-> f, urls |-> us, conns |-> cs]
  BY <1>0 DEF Configured
<1> HIDE DEF cs
<1>4. q \in Group /\ q.conns = cs /\ q.dir = d /\ q.filter = f /\ q.filterStr = f
  <2>1. [dir |-> d, filterStr |-> f, filter |-> f, urls |-> us, conns |-> cs] \in Group
    BY <1>0, <1>1 DEF Group
  <2> QED BY <1>3, <2>1
<1> HIDE DEF q
<1>5. Coherent(q) /\ Keeps(r, q)
  BY <1>1, <1>4 DEF Coherent, Keeps
<1>6. \A u \in Urls : q.conns[u].sock # 0 => q.dir = r.dir /\ q.filter = r.filter
  BY <1>0, <1>2, <1>4 DEF Coherent
<1> QED BY <1>4, <1>5, <1>6 DEF q

\* A load that throws half-way holds no connection it did not hold before, and
\* leaves a filter that differs from the filter string only if that did not compile.
LEMMA HalfConfiguredGroup ==
  ASSUME NEW r \in Group, Coherent(r),
         NEW spec, spec.dir \in {"down", "up", "both"}, spec.filter \in SUBSET Kinds,
         spec.urls \in SUBSET Urls, spec.error \in {"dir", "filter", "urls", "url"},
         spec.error = "filter" => spec.filter \in BadFilters
  PROVE  /\ HalfConfigured(r, spec) \in Group /\ Coherent(HalfConfigured(r, spec))
         /\ Keeps(r, HalfConfigured(r, spec))
<1>0. PICK d \in {"down", "up", "both"}, f \in SUBSET Kinds, us \in SUBSET Urls :
        spec.dir = d /\ spec.filter = f /\ spec.urls = us
  OBVIOUS
<1> DEFINE q == HalfConfigured(r, spec)
<1>1. CASE spec.error = "dir"
  BY <1>1 DEF HalfConfigured, Keeps
<1>2. CASE spec.error = "filter"
  <2>1. q = [r EXCEPT !.dir = d, !.filterStr = f]
    BY <1>0, <1>2 DEF HalfConfigured
  <2>2. q \in Group /\ q.filterStr = f /\ q.conns = r.conns
    BY <2>1 DEF Group, Dirs
  <2> QED BY <1>0, <1>2, <2>2 DEF Coherent, Keeps
<1>3. CASE spec.error = "urls"
  <2>1. q = [r EXCEPT !.dir = d, !.filterStr = f, !.filter = f]
    BY <1>0, <1>3 DEF HalfConfigured
  <2>2. q \in Group /\ q.filterStr = f /\ q.filter = f /\ q.conns = r.conns
    BY <2>1 DEF Group, Dirs
  <2> QED BY <1>3, <2>2 DEF Coherent, Keeps
<1>4. CASE spec.error = "url"
  <2>1. q = [r EXCEPT !.dir = d, !.filterStr = f, !.filter = f, !.urls = us]
    BY <1>0, <1>4 DEF HalfConfigured
  <2>2. q \in Group /\ q.filterStr = f /\ q.filter = f /\ q.conns = r.conns
    BY <2>1 DEF Group, Dirs
  <2> QED BY <1>4, <2>2 DEF Coherent, Keeps
<1> QED BY <1>1, <1>2, <1>3, <1>4

\* A group that is not there yet counts as one without connections.
LEMMA CurrentGroup ==
  ASSUME RouterType, GroupInv, NEW g \in Groups
  PROVE  /\ Current(g) \in Group /\ Coherent(Current(g))
         /\ \A u \in Urls : Current(g).conns[u].sock # 0 => Exists(g) /\ Current(g) = groups[g]
<1>1. CASE Exists(g)
  BY <1>1 DEF Current, Exists, RouterType, GroupInv, Coherent
<1>2. CASE ~Exists(g)
  <2>1. Current(g) = NewGroup
    BY <1>2 DEF Current
  <2> DEFINE cs == [u \in Urls |-> NoConn]
  <2>2. cs \in [Urls -> Conn] /\ \A u \in Urls : cs[u].sock = 0
    BY ConnTypes
  <2> HIDE DEF cs
  <2>3. /\ [dir |-> "", filterStr |-> {}, filter |-> {}, urls |-> {}, conns |-> cs] \in Group
        /\ [dir |-> "", filterStr |-> {}, filter |-> {}, urls |-> {}, conns |-> cs].conns = cs
        /\ Coherent([dir |-> "", filterStr |-> {}, filter |-> {}, urls |-> {}, conns |-> cs])
    BY <2>2 DEF Group, Dirs, Coherent
  <2>4. NewGroup = [dir |-> "", filterStr |-> {}, filter |-> {}, urls |-> {}, conns |-> cs]
    BY DEF NewGroup, cs
  <2> QED BY <2>1, <2>2, <2>3, <2>4
<1> QED BY <1>1, <1>2

\* Loading: what is still held was held before, and if its group has other
\* settings now, the load has failed at that group.
LEMMA LoadedGroups ==
  ASSUME RouterType, GroupInv
  PROVE  /\ Loaded \in [Groups -> {NoGroup} \cup Group]
         /\ \A g \in Groups : Loaded[g] # NoGroup => Coherent(Loaded[g])
         /\ \A k \in Sockets : Holds(Loaded, k) =>
              /\ Held(k)
              /\ \/ k[1] \in Faulty
                 \/ /\ Loaded[k[1]].dir = groups[k[1]].dir
                    /\ Loaded[k[1]].filter = groups[k[1]].filter
<1>1. ASSUME NEW g \in Groups
      PROVE  \/ Reached(g) /\ Loaded[g] = Configured(Current(g), file[g])
             \/ g \in Faulty /\ Loaded[g] = HalfConfigured(Current(g), file[g])
             \/ Loaded[g] = NoGroup
             \/ Loaded[g] = groups[g]
  BY DEF Loaded
<1>2. ASSUME NEW g \in Groups
      PROVE  \/ Loaded[g] = NoGroup
             \/ Loaded[g] = groups[g] /\ groups[g] \in Group /\ Coherent(groups[g])
             \/ /\ Loaded[g] \in Group /\ Coherent(Loaded[g]) /\ Keeps(Current(g), Loaded[g])
                /\ \/ g \in Faulty
                   \/ \A u \in Urls : Loaded[g].conns[u].sock # 0 =>
                        Loaded[g].dir = Current(g).dir /\ Loaded[g].filter = Current(g).filter
  <2>1. Current(g) \in Group /\ Coherent(Current(g))
    BY CurrentGroup
  <2>2. CASE Reached(g) /\ Loaded[g] = Configured(Current(g), file[g])
    <3>1. g \in DOMAIN file /\ file[g].error = ""
      <4>1. g \in DOMAIN file /\ g \in Nat /\ (g \in Faulty => g < g)
        BY <2>2, RouterAssumption DEF Reached
      <4>2. g \notin Faulty
        BY <4>1
      <4> QED BY <4>1, <4>2 DEF Faulty
    <3>2. /\ file[g].dir \in {"down", "up", "both"} /\ file[g].filter \in SUBSET Kinds
          /\ file[g].urls \in SUBSET Urls /\ file[g].filter \notin BadFilters
      BY <3>1, Specs
    <3>3. /\ Loaded[g] \in Group /\ Coherent(Loaded[g]) /\ Keeps(Current(g), Loaded[g])
          /\ \A u \in Urls : Loaded[g].conns[u].sock # 0 =>
               Loaded[g].dir = Current(g).dir /\ Loaded[g].filter = Current(g).filter
      <4> DEFINE q == Configured(Current(g), file[g])
      <4>1. /\ q \in Group /\ Coherent(q) /\ Keeps(Current(g), q)
            /\ \A u \in Urls : q.conns[u].sock # 0 =>
                 q.dir = Current(g).dir /\ q.filter = Current(g).filter
        BY <2>1, <3>2, ConfiguredGroup
      <4>2. Loaded[g] = q
        BY <2>2
      <4> HIDE DEF q
      <4> QED BY <4>1, <4>2
    <3> QED BY <3>3
  <2>3. CASE g \in Faulty /\ Loaded[g] = HalfConfigured(Current(g), file[g])
    <3>1. g \in DOMAIN file /\ file[g].error # ""
      BY <2>3 DEF Faulty
    <3>2. /\ file[g].dir \in {"down", "up", "both"} /\ file[g].filter \in SUBSET Kinds
          /\ file[g].urls \in SUBSET Urls
          /\ file[g].error \in {"dir", "filter", "urls", "url"}
          /\ file[g].error = "filter" => file[g].filter \in BadFilters
      BY <3>1, Specs
    <3>3. Loaded[g] \in Group /\ Coherent(Loaded[g]) /\ Keeps(Current(g), Loaded[g])
      <4> DEFINE q == HalfConfigured(Current(g), file[g])
      <4>1. q \in Group /\ Coherent(q) /\ Keeps(Current(g), q)
        BY <2>1, <3>2, HalfConfiguredGroup
      <4>2. Loaded[g] = q
        BY <2>3
      <4> HIDE DEF q
      <4> QED BY <4>1, <4>2
    <3> QED BY <2>3, <3>3
  <2>4. CASE Loaded[g] = groups[g]
    BY <2>4 DEF RouterType, GroupInv, Exists, Coherent
  <2> QED BY <1>1, <2>2, <2>3, <2>4
<1>3. Loaded \in [Groups -> {NoGroup} \cup Group]
  <2>1. \A g \in Groups : Loaded[g] \in {NoGroup} \cup Group
    BY <1>2
  <2>2. Loaded = [g \in Groups |-> Loaded[g]]
    BY DEF Loaded
  <2> HIDE DEF Loaded
  <2> QED BY <2>1, <2>2
<1>4. \A g \in Groups : Loaded[g] # NoGroup => Coherent(Loaded[g])
  BY <1>2
<1>5. ASSUME NEW k \in Sockets, Holds(Loaded, k)
      PROVE  /\ Held(k)
             /\ \/ k[1] \in Faulty
                \/ /\ Loaded[k[1]].dir = groups[k[1]].dir
                   /\ Loaded[k[1]].filter = groups[k[1]].filter
  <2>1. PICK g \in Groups, u \in Urls : g = k[1] /\ u = k[2] /\ k[3] # 0
    BY Parts
  <2>2. Loaded[g] # NoGroup /\ Loaded[g].conns[u].sock = k[3]
    BY <1>5, <2>1 DEF Holds
  <2>3. CASE Loaded[g] = groups[g]
    BY <2>1, <2>2, <2>3 DEF Held, Holds
  <2>4. CASE /\ Keeps(Current(g), Loaded[g])
             /\ \/ g \in Faulty
                \/ \A v \in Urls : Loaded[g].conns[v].sock # 0 =>
                     Loaded[g].dir = Current(g).dir /\ Loaded[g].filter = Current(g).filter
    <3>1. Loaded[g].conns[u] = Current(g).conns[u] /\ Current(g).conns[u].sock = k[3]
      BY <2>1, <2>2, <2>4 DEF Keeps
    <3>2. Exists(g) /\ Current(g) = groups[g]
      BY <2>1, <3>1, CurrentGroup
    <3>3. Held(k)
      BY <2>1, <3>1, <3>2 DEF Held, Holds, Exists
    <3> QED BY <2>1, <2>2, <2>4, <3>2, <3>3
  <2> QED BY <1>2, <2>2, <2>3, <2>4
<1> QED BY <1>3, <1>4, <1>5

-----------------------------------------------------------------------------
(* The invariant *)

\* The router starts with no group and no socket.
LEMMA InitInv == Init => RouterInv
<1> SUFFICES ASSUME Init PROVE RouterInv
  OBVIOUS
<1>1. RouterType
  <2>1. file \in Configs
    BY RouterAssumption DEF Init
  <2>2. log = <<>> /\ currEventId = 0
    BY DEF Init
  <2>3. log \in Seq(Kinds) /\ currEventId \in 0..Len(log)
    BY <2>2
  <2> QED BY <2>1, <2>3 DEF Init, RouterType, Socket
<1>2. GroupInv
  BY DEF Init, GroupInv, Exists
<1>3. SockInv
  BY Parts DEF Init, SockInv, GoodSocket, Holds, NoSocket
<1> QED BY <1>1, <1>2, <1>3 DEF RouterInv

\* Changing the file on disk changes nothing the router holds.
LEMMA Untouched ==
  ASSUME RouterInv, file' \in Configs, UNCHANGED <<groups, socks, stale, log, currEventId>>
  PROVE  RouterInv'
BY DEF RouterInv, RouterType, GroupInv, Coherent, Exists, SockInv, GoodSocket, Holds, Served,
       InOrder, ToUpload, Uploads

\* tryConnects: sockets of new attempts are held by nobody until they open.
LEMMA ConnectInv ==
  ASSUME RouterType, NEW gs \in [Groups -> {NoGroup} \cup Group], NEW ss \in [Sockets -> Socket],
         NEW who \in SUBSET Groups, NEW st,
         \A g \in Groups : gs[g] # NoGroup => Coherent(gs[g]),
         \A k \in Sockets : GoodSocket(gs, ss, st, k),
         Connect(gs, who, ss), stale' = st, UNCHANGED <<file, log, currEventId>>
  PROVE  RouterInv'
<1>1. /\ groups' \in [Groups -> {NoGroup} \cup Group] /\ socks' \in [Sockets -> Socket]
      /\ \A g \in Groups :
           /\ groups'[g] = NoGroup <=> gs[g] = NoGroup
           /\ gs[g] # NoGroup => /\ groups'[g].dir = gs[g].dir
                                 /\ groups'[g].filterStr = gs[g].filterStr
                                 /\ groups'[g].filter = gs[g].filter
      /\ \A k \in Sockets : Holds(groups', k) <=> Holds(gs, k)
      /\ \A k \in Sockets : \/ socks'[k] = ss[k]
                            \/ socks'[k].state = "connecting" /\ ss[k] = NoSocket
  BY ConnectStep
<1>2. RouterType'
  BY <1>1 DEF RouterType
<1>3. GroupInv'
  BY <1>1 DEF GroupInv, Exists, Coherent
<1>4. ASSUME NEW k \in Sockets PROVE GoodSocket(groups, socks, stale, k)'
  <2>1. k[1] \in Groups
    BY Parts
  <2>2. NoSocket.state # "open"
    BY DEF NoSocket
  <2>3. Holds(gs, k) => socks'[k] = ss[k] /\ ss[k].state = "open" /\ Holds(groups', k)
    BY <1>1, <2>2 DEF GoodSocket
  <2>4. ASSUME Holds(gs, k), k \notin st PROVE Served(groups'[k[1]], socks'[k], log, currEventId)
    <3>1. Served(gs[k[1]], ss[k], log, currEventId)
      BY <2>4 DEF GoodSocket
    <3>2. groups'[k[1]].dir = gs[k[1]].dir /\ groups'[k[1]].filter = gs[k[1]].filter
      BY <1>1, <2>1, <2>4 DEF Holds
    <3> QED BY <2>3, <2>4, <3>1, <3>2, SameSettings
  <2> QED BY <1>1, <2>3, <2>4 DEF GoodSocket
<1> QED BY <1>2, <1>3, <1>4 DEF RouterInv, SockInv

\* reconcileConfig closes what is dropped, and what it holds on to it has
\* compared, or calls stale.
LEMMA ReconcileInv ==
  ASSUME RouterInv, ReconcileConfig, UNCHANGED <<file, log, currEventId>>
  PROVE  RouterInv'
<1> DEFINE gs == Loaded
           ss == Remaining(Loaded)
           st == Outdated(Loaded)
<1>1. RouterType /\ GroupInv /\ SockInv
  BY DEF RouterInv
<1>2. Connect(gs, {g \in Groups : Reached(g)}, ss) /\ stale' = st
  BY DEF ReconcileConfig
<1>3. /\ gs \in [Groups -> {NoGroup} \cup Group]
      /\ \A g \in Groups : gs[g] # NoGroup => Coherent(gs[g])
      /\ \A k \in Sockets : Holds(gs, k) =>
           /\ Held(k)
           /\ \/ k[1] \in Faulty
              \/ gs[k[1]].dir = groups[k[1]].dir /\ gs[k[1]].filter = groups[k[1]].filter
  BY <1>1, LoadedGroups
<1> HIDE DEF gs
<1>4. ss = [k \in Sockets |-> IF Held(k) /\ ~Holds(gs, k) THEN NoSocket ELSE socks[k]]
  BY DEF gs, Remaining
<1>5. ss \in [Sockets -> Socket]
  BY <1>1, <1>4 DEF RouterType, Socket
<1>6. st = {k \in Sockets : /\ Held(k) /\ Holds(gs, k)
                            /\ k \in stale \/ (k[1] \in Faulty /\ Changed(groups[k[1]], gs[k[1]]))}
  BY DEF gs, Outdated
<1> HIDE DEF ss, st
<1>7. ASSUME NEW k \in Sockets PROVE GoodSocket(gs, ss, st, k)
  <2>1. GoodSocket(groups, socks, stale, k)
    BY <1>1 DEF SockInv
  <2>2. CASE Holds(gs, k)
    <3>1. Held(k) /\ ss[k] = socks[k] /\ ss[k].state = "open"
      BY <1>3, <1>4, <2>1, <2>2 DEF GoodSocket, Held
    <3>2. ASSUME k \notin st PROVE Served(gs[k[1]], ss[k], log, currEventId)
      <4>1. k \notin stale /\ gs[k[1]].dir = groups[k[1]].dir /\ gs[k[1]].filter = groups[k[1]].filter
        BY <1>3, <1>6, <2>2, <3>1, <3>2 DEF Changed
      <4>2. Served(groups[k[1]], socks[k], log, currEventId)
        BY <2>1, <3>1, <4>1 DEF GoodSocket, Held
      <4> QED BY <3>1, <4>1, <4>2, SameSettings
    <3> QED BY <2>2, <3>1, <3>2 DEF GoodSocket
  <2>3. CASE ~Holds(gs, k)
    <3>1. CASE Held(k)
      <4>1. ss[k] = NoSocket
        BY <1>4, <2>3, <3>1
      <4> QED BY <2>3, <4>1 DEF GoodSocket, NoSocket
    <3>2. CASE ~Held(k)
      <4>1. ss[k] = socks[k]
        BY <1>4, <3>2
      <4> QED BY <2>1, <2>3, <3>2, <4>1 DEF GoodSocket, Held
    <3> QED BY <3>1, <3>2
  <2> QED BY <2>2, <2>3
<1> QED BY <1>1, <1>2, <1>3, <1>5, <1>7, ConnectInv

\* An upload sends what is new, in order, to each open connection of an
\* uploading group.
LEMMA HandleDBChangeInv ==
  ASSUME RouterInv, HandleDBChange
  PROVE  RouterInv'
<1>1. /\ currEventId' = Len(log) /\ UNCHANGED <<groups, stale, file, log>>
      /\ socks' = [k \in Sockets |->
           IF Held(k) THEN [socks[k] EXCEPT !.sent = socks[k].sent \o Upload(groups[k[1]])]
                      ELSE socks[k]]
  BY DEF HandleDBChange, Handling
<1>2. /\ RouterType /\ GroupInv /\ SockInv /\ log \in Seq(Kinds) /\ currEventId \in 0..Len(log)
      /\ Len(log) \in 0..Len(log)
  BY DEF RouterInv, RouterType
<1>3. \A r : Upload(r) = Ascending(ToUpload(r, log, currEventId, Len(log)))
  BY DEF Upload, ToUpload, NewIds
<1>4. ASSUME NEW k \in Sockets
      PROVE  socks'[k] \in Socket /\ GoodSocket(groups, socks, stale, k)'
  <2>1. GoodSocket(groups, socks, stale, k) /\ socks[k] \in Socket
    BY <1>2 DEF SockInv, RouterType
  <2>2. CASE Held(k)
    <3>1. socks[k] \in OpenSocket
      BY <2>1, <2>2, SomeSocket DEF GoodSocket, Held
    <3> DEFINE t == [socks[k] EXCEPT !.sent = socks[k].sent
                        \o Ascending(ToUpload(groups[k[1]], log, currEventId, Len(log)))]
    <3>2. socks'[k] = t
      BY <1>1, <1>3, <2>2
    <3>3. /\ t \in OpenSocket
          /\ Served(groups[k[1]], socks[k], log, currEventId) => Served(groups[k[1]], t, log, Len(log))
      BY <1>2, <3>1, UploadServes
    <3> HIDE DEF t
    <3>4. t \in Socket /\ t.state = "open"
      BY <3>3 DEF Socket, OpenSocket
    <3> QED BY <1>1, <2>1, <2>2, <3>2, <3>3, <3>4 DEF GoodSocket, Held
  <2>3. CASE ~Held(k)
    <3>1. socks'[k] = socks[k]
      BY <1>1, <2>3
    <3> QED BY <1>1, <2>1, <2>3, <3>1 DEF GoodSocket, Held
  <2> QED BY <2>2, <2>3
<1>5. RouterType'
  <2>1. socks' = [k \in Sockets |-> socks'[k]]
    BY <1>1
  <2>2. socks' \in [Sockets -> Socket]
    BY <1>4, <2>1
  <2> QED BY <1>1, <1>2, <2>2 DEF RouterType
<1>6. GroupInv'
  BY <1>1, <1>2 DEF GroupInv, Exists, Coherent
<1> QED BY <1>4, <1>5, <1>6 DEF RouterInv, SockInv

\* One socket changes, with the Connection of its url.
LEMMA OneSocket ==
  ASSUME RouterInv, NEW k \in Sockets, NEW s \in Socket, NEW c \in Conn, Exists(k[1]),
         c.sock \in {0, k[3]}, groups[k[1]].conns[k[2]].sock \in {0, k[3]},
         groups' = [groups EXCEPT ![k[1]].conns[k[2]] = c],
         socks' = [socks EXCEPT ![k] = s],
         stale' \subseteq stale, stale \subseteq stale' \cup {k},
         UNCHANGED <<file, log, currEventId>>,
         c.sock = k[3] => s.state = "open" /\ Served(groups[k[1]], s, log, currEventId),
         c.sock = 0 => s.state # "open"
  PROVE  RouterInv'
<1> DEFINE r == groups[k[1]]
           q == [r EXCEPT !.conns = [r.conns EXCEPT ![k[2]] = c]]
<1>1. RouterType /\ GroupInv /\ SockInv
  BY DEF RouterInv
<1>2. k[1] \in Groups /\ k[2] \in Urls /\ k[3] # 0 /\ k = <<k[1], k[2], k[3]>>
  BY Parts
<1>3. groups \in [Groups -> {NoGroup} \cup Group] /\ r \in Group
  BY <1>1, <1>2 DEF RouterType, Exists
<1>4. r.conns \in [Urls -> Conn] /\ r # NoGroup
  BY <1>3, SomeGroup
<1>5. groups' = [groups EXCEPT ![k[1]] = q]
  BY <1>2, <1>3
<1>6. /\ q \in Group /\ q.dir = r.dir /\ q.filter = r.filter /\ q.filterStr = r.filterStr
      /\ q.conns = [r.conns EXCEPT ![k[2]] = c]
  BY <1>3, <1>4 DEF Group
<1>7. q # NoGroup
  BY <1>6, SomeGroup
<1>8. q.conns[k[2]] = c /\ \A u \in Urls : u # k[2] => q.conns[u] = r.conns[u]
  BY <1>2, <1>4, <1>6
<1> HIDE DEF q
<1>9. groups' \in [Groups -> {NoGroup} \cup Group] /\ groups'[k[1]] = q
      /\ \A g \in Groups : g # k[1] => groups'[g] = groups[g]
  BY <1>2, <1>3, <1>5, <1>6
<1>10. RouterType'
  BY <1>1, <1>9 DEF RouterType
<1>11. GroupInv'
  <2> SUFFICES ASSUME NEW g \in Groups, Exists(g)' PROVE Coherent(groups[g])'
    BY DEF GroupInv
  <2>1. CASE g = k[1]
    BY <1>1, <1>2, <1>6, <1>9, <2>1 DEF GroupInv, Coherent
  <2>2. CASE g # k[1]
    BY <1>1, <1>9, <2>2 DEF GroupInv, Coherent, Exists
  <2> QED BY <2>1, <2>2
<1>12. ASSUME NEW j \in Sockets PROVE GoodSocket(groups, socks, stale, j)'
  <2>1. GoodSocket(groups, socks, stale, j)
    BY <1>1 DEF SockInv
  <2>2. j[1] \in Groups /\ j[2] \in Urls /\ j[3] # 0 /\ j = <<j[1], j[2], j[3]>>
    BY Parts
  <2>3. CASE j = k
    <3>1. Holds(groups', k) <=> c.sock = k[3]
      BY <1>7, <1>8, <1>9 DEF Holds
    <3>2. socks'[k] = s
      BY <1>1 DEF RouterType
    <3>3. c.sock = k[3] => Served(groups'[k[1]], s, log, currEventId)
      BY <1>6, <1>9, SameSettings
    <3> QED BY <1>2, <2>3, <3>1, <3>2, <3>3 DEF GoodSocket
  <2>4. CASE j # k
    <3>1. socks'[j] = socks[j] /\ (j \in stale <=> j \in stale')
      BY <1>1, <2>4 DEF RouterType
    <3>2. CASE j[1] # k[1]
      BY <2>1, <2>2, <3>1, <3>2, <1>9 DEF GoodSocket, Holds
    <3>3. CASE j[1] = k[1]
      <4>1. Holds(groups', j) <=> Holds(groups, j)
        <5>1. CASE j[2] = k[2]
          <6>1. j[3] # k[3]
            BY <1>2, <2>2, <2>4, <3>3, <5>1
          <6>2. c.sock # j[3] /\ r.conns[k[2]].sock # j[3]
            BY <1>2, <2>2, <6>1
          <6> QED BY <1>8, <1>9, <3>3, <5>1, <6>2 DEF Holds
        <5>2. CASE j[2] # k[2]
          BY <1>4, <1>7, <1>8, <1>9, <2>2, <3>3, <5>2 DEF Holds
        <5> QED BY <5>1, <5>2
      <4>2. \A t, l, n : Served(groups[j[1]], t, l, n) => Served(groups'[j[1]], t, l, n)
        BY <1>6, <1>9, <3>3, SameSettings
      <4> QED BY <2>1, <3>1, <4>1, <4>2 DEF GoodSocket
    <3> QED BY <3>2, <3>3
  <2> QED BY <2>3, <2>4
<1> QED BY <1>10, <1>11, <1>12 DEF RouterInv, SockInv

\* One socket changes that no group holds.
LEMMA LooseSocket ==
  ASSUME RouterInv, NEW k \in Sockets, ~Held(k), NEW s \in Socket,
         socks' = [socks EXCEPT ![k] = s], groups' = groups,
         stale' \subseteq stale, stale \subseteq stale' \cup {k},
         UNCHANGED <<file, log, currEventId>>,
         s.state = "open" => s.req = NoReq /\ s.sent = <<>>
  PROVE  RouterInv'
<1>1. RouterType /\ GroupInv /\ SockInv
  BY DEF RouterInv
<1>2. RouterType'
  BY <1>1 DEF RouterType
<1>3. GroupInv'
  BY <1>1 DEF GroupInv, Exists, Coherent
<1>4. ASSUME NEW j \in Sockets PROVE GoodSocket(groups, socks, stale, j)'
  <2>1. GoodSocket(groups, socks, stale, j)
    BY <1>1 DEF SockInv
  <2>2. CASE j = k
    <3>1. socks'[k] = s
      BY <1>1 DEF RouterType
    <3> QED BY <2>2, <3>1 DEF GoodSocket, Held
  <2>3. CASE j # k
    <3>1. socks'[j] = socks[j] /\ (j \in stale <=> j \in stale')
      BY <1>1, <2>3 DEF RouterType
    <3> QED BY <2>1, <3>1 DEF GoodSocket
  <2> QED BY <2>2, <2>3
<1> QED BY <1>2, <1>3, <1>4 DEF RouterInv, SockInv

\* A socket that closes is let go by the group that holds it.
LEMMA ClosedInv ==
  ASSUME RouterInv, NEW k \in Sockets, Closed(k), UNCHANGED <<file, log, currEventId>>
  PROVE  RouterInv'
<1>1. /\ socks' = [socks EXCEPT ![k] = NoSocket] /\ stale' = stale \ {k}
      /\ groups' = IF Held(k) THEN [groups EXCEPT ![k[1]].conns[k[2]] = NewConn] ELSE groups
  BY DEF Closed
<1>2. NoSocket \in Socket /\ NoSocket.state # "open"
  BY DEF Socket, NoSocket
<1>3. k[3] # 0 /\ NewConn \in Conn /\ NewConn.sock = 0
  BY Parts, ConnTypes
<1>4. CASE Held(k)
  <2>1. Exists(k[1]) /\ groups[k[1]].conns[k[2]].sock = k[3]
    BY <1>4 DEF Held, Holds, Exists
  <2>2. groups' = [groups EXCEPT ![k[1]].conns[k[2]] = NewConn]
    BY <1>1, <1>4
  <2> QED BY <1>1, <1>2, <1>3, <2>1, <2>2, OneSocket
<1>5. CASE ~Held(k)
  BY <1>1, <1>2, <1>5, LooseSocket
<1> QED BY <1>4, <1>5

\* An attempt that opens is held and subscribed with its group's filter, or
\* by nobody and not subscribed.
LEMMA ConnOpenInv ==
  ASSUME RouterInv, NEW k \in Sockets, ConnOpen(k)
  PROVE  RouterInv'
<1>1. UNCHANGED <<file, log, currEventId>> /\ k[3] # 0 /\ k[1] \in Groups
  BY Parts DEF ConnOpen
<1>2. ASSUME NEW req \in SUBSET Kinds
      PROVE  /\ Opened(req) \in Socket /\ Opened(req).state = "open" /\ Opened(req).req = req
             /\ Opened(req).from = currEventId /\ Opened(req).sent = <<>>
  BY DEF RouterInv, RouterType, Opened, Socket, OpenSocket
<1>3. NoReq \in SUBSET Kinds
  BY DEF NoReq
<1>4. CASE Closed(k)
  BY <1>1, <1>4, ClosedInv
<1>5. CASE /\ Exists(k[1]) /\ groups[k[1]].conns[k[2]] = NoConn
           /\ socks' = [socks EXCEPT ![k] = Opened(NoReq)]
           /\ UNCHANGED <<groups, stale>>
  <2>1. ~Held(k)
    BY <1>1, <1>5, ConnTypes DEF Held, Holds
  <2> QED BY <1>1, <1>2, <1>3, <1>5, <2>1, LooseSocket
<1>6. CASE /\ Exists(k[1]) /\ groups[k[1]].conns[k[2]].sock = 0
           /\ groups' = [groups EXCEPT ![k[1]].conns[k[2]] = Holding(k[3])]
           /\ socks' = [socks EXCEPT ![k] =
                          Opened(IF groups[k[1]].dir # "up" THEN groups[k[1]].filter ELSE NoReq)]
           /\ UNCHANGED stale
  <2> DEFINE req == IF groups[k[1]].dir # "up" THEN groups[k[1]].filter ELSE NoReq
             s == Opened(req)
  <2>1. groups[k[1]] \in Group
    BY <1>1, <1>6 DEF RouterInv, RouterType, Exists
  <2>2. req \in SUBSET Kinds
    BY <1>3, <2>1, SomeGroup
  <2>3. s \in Socket /\ s.state = "open" /\ s.req = req /\ s.from = currEventId /\ s.sent = <<>>
    BY <1>2, <2>2
  <2> HIDE DEF s
  <2>4. currEventId \in Nat
    BY DEF RouterInv, RouterType
  <2>5. ToUpload(groups[k[1]], log, currEventId, currEventId) = {}
    BY <2>4 DEF ToUpload
  <2>6. Served(groups[k[1]], s, log, currEventId)
    <3>1. InOrder(<<>>, {})
      BY DEF InOrder
    <3> QED BY <2>3, <2>4, <2>5, <3>1 DEF Served
  <2>7. Holding(k[3]) \in Conn /\ Holding(k[3]).sock = k[3]
    BY Parts, ConnTypes
  <2>8. socks' = [socks EXCEPT ![k] = s] /\ stale' = stale
    BY <1>6 DEF s
  <2> QED BY <1>1, <1>6, <2>3, <2>6, <2>7, <2>8, OneSocket, ZenonT(30)
<1> QED BY <1>4, <1>5, <1>6 DEF ConnOpen, Wanted

\* A failed attempt is held by nobody.
LEMMA ConnErrorInv ==
  ASSUME RouterInv, NEW k \in Sockets, ConnError(k)
  PROVE  RouterInv'
<1>1. /\ socks[k].state = "connecting" /\ socks' = [socks EXCEPT ![k] = NoSocket]
      /\ UNCHANGED <<file, groups, stale, log, currEventId>>
  BY DEF ConnError
<1>2. NoSocket \in Socket /\ NoSocket.state # "open"
  BY DEF Socket, NoSocket
<1>3. ~Held(k)
  BY <1>1 DEF RouterInv, SockInv, GoodSocket, Held
<1> QED BY <1>1, <1>2, <1>3, LooseSocket

\* An event stored by another process is uploaded to nobody yet.
LEMMA StoreInv ==
  ASSUME RouterInv, NEW kind \in Kinds, Store(kind)
  PROVE  RouterInv'
<1>1. log' = Append(log, kind) /\ UNCHANGED <<file, groups, socks, stale, currEventId>>
  BY DEF Store
<1>2. RouterType /\ GroupInv /\ SockInv /\ log \in Seq(Kinds) /\ currEventId \in 0..Len(log)
  BY DEF RouterInv, RouterType
<1>3. Append(log, kind) \in Seq(Kinds) /\ currEventId \in 0..Len(Append(log, kind))
  BY <1>2
<1>4. RouterType' /\ GroupInv'
  BY <1>1, <1>2, <1>3 DEF RouterType, GroupInv, Exists, Coherent
<1>5. ASSUME NEW k \in Sockets PROVE GoodSocket(groups, socks, stale, k)'
  <2>1. GoodSocket(groups, socks, stale, k) /\ socks[k] \in Socket
    BY <1>2 DEF SockInv, RouterType
  <2>2. ASSUME Holds(groups, k), k \notin stale
        PROVE  Served(groups[k[1]], socks[k], Append(log, kind), currEventId)
    <3>1. Served(groups[k[1]], socks[k], log, currEventId) /\ socks[k].from \in Nat
      BY <2>1, <2>2, SomeSocket DEF GoodSocket
    <3> QED BY <1>2, <3>1, LongerLog
  <2> QED BY <1>1, <2>1, <2>2 DEF GoodSocket
<1> QED BY <1>4, <1>5 DEF RouterInv, SockInv

\* Time passes for attempts and connections; nothing is opened or let go.
LEMMA TickInv ==
  ASSUME RouterInv, Tick
  PROVE  RouterInv'
<1>1. /\ socks' = [k \in Sockets |-> IF socks[k].state = "connecting"
                                     THEN [socks[k] EXCEPT !.age = 1] ELSE socks[k]]
      /\ groups' = [g \in Groups |->
           IF ~Exists(g) THEN NoGroup
           ELSE [groups[g] EXCEPT !.conns = [u \in Urls |-> Older(groups[g].conns[u])]]]
      /\ UNCHANGED <<file, stale, log, currEventId>>
  BY DEF Tick
<1>2. RouterType /\ GroupInv /\ SockInv
  BY DEF RouterInv
<1>3. ASSUME NEW c \in Conn PROVE Older(c) \in Conn /\ Older(c).sock = c.sock
  <2>1. PICK n \in 0..MaxSockets, a \in -1..3 : c.sock = n /\ c.age = a
    BY DEF Conn, LongAgo
  <2>2. CASE a \in 0..2
    <3>1. a + 1 \in -1..3
      BY <2>2
    <3>2. Older(c) = [c EXCEPT !.age = a + 1]
      BY <2>1, <2>2 DEF Older, LongAgo
    <3>3. [c EXCEPT !.age = a + 1] \in Conn /\ [c EXCEPT !.age = a + 1].sock = c.sock
      BY <3>1 DEF Conn, LongAgo
    <3> QED BY <3>2, <3>3
  <2>3. CASE a \notin 0..2
    <3>1. Older(c) = c
      BY <2>1, <2>3 DEF Older, LongAgo
    <3> QED BY <3>1
  <2> QED BY <2>2, <2>3
<1>4. ASSUME NEW g \in Groups, Exists(g)
      PROVE  /\ groups[g] \in Group /\ groups'[g] \in Group /\ groups'[g] # NoGroup
             /\ groups'[g].dir = groups[g].dir /\ groups'[g].filter = groups[g].filter
             /\ groups'[g].filterStr = groups[g].filterStr
             /\ \A u \in Urls : groups'[g].conns[u].sock = groups[g].conns[u].sock
  <2> DEFINE r == groups[g]
             cs == [u \in Urls |-> Older(r.conns[u])]
             q == [r EXCEPT !.conns = cs]
  <2>1. r \in Group /\ r.conns \in [Urls -> Conn]
    BY <1>2, <1>4, SomeGroup DEF RouterType, Exists
  <2>2. cs \in [Urls -> Conn] /\ \A u \in Urls : cs[u].sock = r.conns[u].sock
    BY <1>3, <2>1
  <2>3. groups'[g] = q
    BY <1>1, <1>4
  <2> HIDE DEF cs
  <2>4. q \in Group /\ q.dir = r.dir /\ q.filter = r.filter /\ q.filterStr = r.filterStr /\ q.conns = cs
    BY <2>1, <2>2 DEF Group
  <2>5. q # NoGroup
    BY <2>4, SomeGroup
  <2> HIDE DEF q
  <2> QED BY <2>1, <2>2, <2>3, <2>4, <2>5
<1>5. ASSUME NEW g \in Groups, ~Exists(g) PROVE groups'[g] = NoGroup /\ groups[g] = NoGroup
  BY <1>1, <1>5 DEF Exists
<1>6. ASSUME NEW k \in Sockets
      PROVE  /\ socks'[k] \in Socket
             /\ \/ socks'[k] = socks[k]
                \/ socks'[k].state = "connecting" /\ socks[k].state = "connecting"
  <2>1. CASE socks[k].state = "connecting"
    <3>1. socks[k] \in [state : {"connecting"}, age : {0, 1}]
      BY <1>2, <2>1 DEF RouterType, Socket, NoSocket, OpenSocket
    <3>2. socks'[k] = [socks[k] EXCEPT !.age = 1]
      BY <1>1, <2>1
    <3>3. socks'[k] \in [state : {"connecting"}, age : {0, 1}]
      BY <3>1, <3>2
    <3> QED BY <2>1, <3>3 DEF Socket
  <2>2. CASE socks[k].state # "connecting"
    BY <1>1, <1>2, <2>2 DEF RouterType
  <2> QED BY <2>1, <2>2
<1>7. RouterType'
  <2>1. \A g \in Groups : groups'[g] \in {NoGroup} \cup Group
    BY <1>4, <1>5
  <2>2. groups' = [g \in Groups |-> groups'[g]] /\ socks' = [k \in Sockets |-> socks'[k]]
    BY <1>1
  <2>3. groups' \in [Groups -> {NoGroup} \cup Group] /\ socks' \in [Sockets -> Socket]
    BY <1>6, <2>1, <2>2
  <2> QED BY <1>1, <1>2, <2>3 DEF RouterType
<1>8. GroupInv'
  BY <1>2, <1>4, <1>5 DEF GroupInv, Exists, Coherent
<1>9. ASSUME NEW k \in Sockets PROVE GoodSocket(groups, socks, stale, k)'
  <2>1. GoodSocket(groups, socks, stale, k) /\ k[1] \in Groups /\ k[2] \in Urls
    BY <1>2, Parts DEF SockInv
  <2>2. Holds(groups', k) <=> Holds(groups, k)
    BY <1>4, <1>5, <2>1 DEF Holds, Exists
  <2>3. Holds(groups, k) => socks'[k] = socks[k]
    BY <1>6, <2>1 DEF GoodSocket
  <2>4. ASSUME Holds(groups, k), Served(groups[k[1]], socks[k], log, currEventId)
        PROVE  Served(groups'[k[1]], socks[k], log, currEventId)
    <3>1. groups'[k[1]].dir = groups[k[1]].dir /\ groups'[k[1]].filter = groups[k[1]].filter
      BY <1>4, <2>1, <2>4 DEF Holds, Exists
    <3> QED BY <2>4, <3>1, SameSettings
  <2> QED BY <1>1, <1>6, <2>1, <2>2, <2>3, <2>4 DEF GoodSocket
<1> QED BY <1>7, <1>8, <1>9 DEF RouterInv, SockInv

\* RouterInv is inductive: one case per action.
LEMMA NextInv == RouterInv /\ [Next]_vars => RouterInv'
<1> SUFFICES ASSUME RouterInv, [Next]_vars PROVE RouterInv'
  OBVIOUS
<1>0. file \in Configs
  BY DEF RouterInv, RouterType
<1>1. CASE UNCHANGED vars
  BY <1>0, <1>1, Untouched DEF vars
<1>2. CASE Start
  BY <1>2, ReconcileInv DEF Start
<1>3. CASE HandleConfig
  BY <1>3, ReconcileInv DEF HandleConfig, Handling
<1>4. CASE HandleCron
  <2>1. /\ Connect(groups, Groups, socks) /\ stale' = stale
        /\ UNCHANGED <<file, log, currEventId>>
    BY <1>4 DEF HandleCron, Handling
  <2>2. /\ RouterType /\ groups \in [Groups -> {NoGroup} \cup Group] /\ socks \in [Sockets -> Socket]
        /\ \A g \in Groups : groups[g] # NoGroup => Coherent(groups[g])
        /\ \A k \in Sockets : GoodSocket(groups, socks, stale, k)
    BY DEF RouterInv, RouterType, GroupInv, Exists, SockInv
  <2> QED BY <2>1, <2>2, ConnectInv
<1>5. CASE HandleDBChange
  BY <1>5, HandleDBChangeInv
<1>6. CASE Run \/ Edit
  BY <1>0, <1>6, Untouched DEF Run, Edit
<1>7. CASE Tick
  BY <1>7, TickInv
<1>8. ASSUME NEW k \in Sockets, ConnLost(k) \/ StrayMessage(k) PROVE RouterInv'
  BY <1>8, ClosedInv DEF ConnLost, StrayMessage
<1> QED BY <1>1, <1>2, <1>3, <1>4, <1>5, <1>6, <1>7, <1>8, StoreInv, ConnOpenInv, ConnErrorInv
        DEF Next, Loop

\* The inductive invariant of the router holds always.
LEMMA RouterInvariant == Spec => []RouterInv
<1> QED BY InitInv, NextInv, PTL DEF Spec

-----------------------------------------------------------------------------
(* The theorems *)

\* Whatever is reloaded, lost or half-way connected: what a group holds is
\* open, and a socket it does not hold was not subscribed and got no event.
THEOREM NoOrphansTheorem == Spec => []NoOrphans
<1>1. RouterInv => NoOrphans
  BY DEF RouterInv, SockInv, GoodSocket, NoOrphans, Held, Open
<1> QED BY <1>1, RouterInvariant, PTL

\* The REQ of a connection is for the filter its group has now, unless a load
\* that failed half-way changed the group.
THEOREM SubscribedTheorem == Spec => []Subscribed
<1>1. RouterInv => Subscribed
  BY DEF RouterInv, SockInv, GoodSocket, Served, Subscribed, Wanted, Held
<1> QED BY <1>1, RouterInvariant, PTL

\* A connection has been sent exactly the events its group uploads since it
\* was opened, once each and in the order of the database, unless a load that
\* failed half-way changed the group.
THEOREM UploadsExactTheorem == Spec => []UploadsExact
<1>1. RouterInv => UploadsExact
  BY DEF RouterInv, SockInv, GoodSocket, Served, UploadsExact, Held, ToUpload
<1> QED BY <1>1, RouterInvariant, PTL
=============================================================================
