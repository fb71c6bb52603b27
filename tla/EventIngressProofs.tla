-------------------------- MODULE EventIngressProofs --------------------------
(***************************************************************************)
(* Theorems about EventIngress, for any number of connections, events and  *)
(* messages: an EVENT is answered at most once, and a true OK is the       *)
(* truth.                                                                  *)
(*                                                                         *)
(* Both follow the message on its way: at any time it is in one queue      *)
(* only, once, and not answered yet (PlaceInv, AnsInv); the further it     *)
(* got, the more checks it has passed (PassInv); what was ever stored is    *)
(* accounted for, within a write transaction too (StoreInv); and what a    *)
(* thread answers from, its snapshot or the statuses of its batch, is or   *)
(* was stored, or superseded by what was (PassInv, TrueInv).               *)
(***************************************************************************)
EXTENDS EventIngress, TLAPS, FiniteSetTheorems

IMsg == [type : {"ClientMessage", "CloseConn"}, msg : Nat]
WMsg == [type : {"AddEvent", "CloseConn"}, msg : Nat, conn : Conns]
Whys == {"no subscribers", "NOTICE", "invalid", "protected", "plugin",
         "Written", "Duplicate", "Replaced", "error"}
Reply == [ok : BOOLEAN, why : Whys]

IngType ==
  /\ msgs \in Seq([conn : Conns, ev : Events])
  /\ answers \in Seq(Seq(Reply)) /\ Len(answers) = Len(msgs)
  /\ iq \in [Conns -> Seq(IMsg)] /\ ib \in [Conns -> Seq(IMsg)] /\ iout \in [Conns -> Seq(WMsg)]
  /\ isnap \in [Conns -> SUBSET Events] /\ ipc \in [Conns -> {"wait", "batch"}]
  /\ wq \in Seq(WMsg) /\ wb \in Seq(WMsg) /\ wpc \in {"wait", "plugin", "write", "respond"}
  /\ proc \in Seq(Nat) /\ ever \cup written \subseteq Events
  /\ status \in [DOMAIN status -> Whys] /\ DOMAIN status \subseteq DOMAIN proc
  /\ wpc \in {"wait", "plugin"} => DOMAIN status = {}
  /\ wpc = "respond" => DOMAIN status = DOMAIN proc

-----------------------------------------------------------------------------
(* Where a message is *)

\* The EVENT messages in a queue.
EvIn(s) == {s[i].msg : i \in {j \in DOMAIN s : s[j].type # "CloseConn"}}
Uniq(s) == \A i, j \in DOMAIN s :
             s[i].type # "CloseConn" /\ s[j].type # "CloseConn" /\ s[i].msg = s[j].msg => i = j

NoRepeat(s) == \A i, j \in DOMAIN s : s[i] = s[j] => i = j

InQ(c) == EvIn(iq[c])
InB(c) == EvIn(ib[c])
InO(c) == EvIn(iout[c])
InW == EvIn(wq)
InV == EvIn(wb)
InP == {proc[i] : i \in DOMAIN proc}

PlaceInv ==
  /\ \A c \in Conns : \A m \in InQ(c) \cup InB(c) \cup InO(c) : m \in DOMAIN msgs /\ msgs[m].conn = c
  /\ InW \cup InV \cup InP \subseteq DOMAIN msgs
  /\ \A c \in Conns : /\ Uniq(iq[c]) /\ Uniq(ib[c]) /\ Uniq(iout[c])
                      /\ InQ(c) \cap InB(c) = {}
                      /\ InO(c) \cap (InQ(c) \cup InB(c)) = {}
                      /\ (InQ(c) \cup InB(c) \cup InO(c)) \cap (InW \cup InV \cup InP) = {}
  /\ Uniq(wq) /\ Uniq(wb) /\ NoRepeat(proc)
  /\ InW \cap (InV \cup InP) = {} /\ InV \cap InP = {}

\* No message on its way has been answered.
AnsInv ==
  /\ AnsweredOnce
  /\ \A c \in Conns : \A m \in InQ(c) \cup InB(c) \cup InO(c) : answers[m] = <<>>
  /\ \A m \in InW \cup InV \cup InP : answers[m] = <<>>

\* The checks a message has passed.
Checked(m) == msgs[m].ev \notin Invalid \cup Protected

\* What the events of S supersede or delete, and S itself.
BeatenBy(S) == UNION {Beats[x] : x \in S}
Known(S) == S \cup BeatenBy(S)

\* What was ever stored is accounted for: it is there, was removed by others or
\* is beaten by an event that was stored.  Within a write transaction the same
\* holds of what it sees and has inserted.
StoreInv ==
  /\ db \subseteq ever
  /\ ever \subseteq db \cup removed \cup BeatenBy(ever)
  /\ wpc # "write" => written = {}
  /\ wpc = "write" => /\ wdb \subseteq ever \cup written
                      /\ db \cup written \subseteq wdb \cup BeatenBy(ever \cup written)

PassInv ==
  /\ \A c \in Conns : \A m \in InO(c) : Checked(m)
  /\ \A m \in InW \cup InV \cup InP : Checked(m)
  /\ \A m \in InP : msgs[m].ev \in accepted
  /\ ever \cup written \subseteq accepted \ (Invalid \cup Protected)
  /\ \A c \in Conns : isnap[c] \subseteq ever
  /\ StoreInv

\* A true answer, given or about to be given, is the truth.  (A copy of an event
\* that was beaten is answered as a duplicate.)
AnswersTrue ==
  \A m \in DOMAIN answers : \A i \in DOMAIN answers[m] :
    answers[m][i].ok /\ answers[m][i].why # "plugin" => msgs[m].ev \in Known(ever)

StatusTrue ==
  \A i \in DOMAIN status :
    wpc = "write" \/ status[i] # "error" => Ev(i) \in Known(ever \cup written)

TrueInv == AnswersTrue /\ StatusTrue

IngInv == IngType /\ PlaceInv /\ AnsInv /\ PassInv /\ TrueInv

-----------------------------------------------------------------------------
(* Lemmas: queues *)

\* An empty queue holds no event, and nothing twice.
LEMMA EmptyQueue == EvIn(<<>>) = {} /\ Uniq(<<>>) /\ NoRepeat(<<>>)
BY DEF EvIn, Uniq, NoRepeat

\* A message at the end of a queue.
LEMMA PutLast ==
  ASSUME NEW M, NEW s \in Seq(M), NEW m \in M
  PROVE  /\ Append(s, m) \in Seq(M)
         /\ EvIn(Append(s, m)) = EvIn(s) \cup (IF m.type # "CloseConn" THEN {m.msg} ELSE {})
         /\ Uniq(s) /\ (m.type # "CloseConn" => m.msg \notin EvIn(s)) => Uniq(Append(s, m))
<1> DEFINE t == Append(s, m)
<1>1. /\ t \in Seq(M) /\ Len(s) \in Nat
      /\ DOMAIN t = 1..(Len(s) + 1) /\ DOMAIN s = 1..Len(s)
      /\ t[Len(s) + 1] = m /\ \A i \in 1..Len(s) : t[i] = s[i]
  OBVIOUS
<1> HIDE DEF t
<1>2. \A i \in 1..(Len(s) + 1) : i = Len(s) + 1 \/ i \in 1..Len(s)
  BY <1>1
<1>3. EvIn(t) = EvIn(s) \cup (IF m.type # "CloseConn" THEN {m.msg} ELSE {})
  BY <1>1, <1>2 DEF EvIn
<1>4. Uniq(s) /\ (m.type # "CloseConn" => m.msg \notin EvIn(s)) => Uniq(t)
  BY <1>1, <1>2 DEF Uniq, EvIn
<1> QED BY <1>1, <1>3, <1>4 DEF t

\* The message at the head of a queue.
LEMMA TakeFirst ==
  ASSUME NEW M, NEW s \in Seq(M), s # <<>>
  PROVE  /\ Head(s) \in M /\ Tail(s) \in Seq(M)
         /\ EvIn(s) = EvIn(Tail(s)) \cup (IF Head(s).type # "CloseConn" THEN {Head(s).msg} ELSE {})
         /\ Uniq(s) => /\ Uniq(Tail(s))
                       /\ Head(s).type # "CloseConn" => Head(s).msg \notin EvIn(Tail(s))
<1> DEFINE t == Tail(s)
<1>1. /\ t \in Seq(M) /\ Len(t) = Len(s) - 1 /\ Len(s) \in Nat \ {0}
      /\ DOMAIN t = 1..(Len(s) - 1) /\ DOMAIN s = 1..Len(s)
      /\ Head(s) = s[1] /\ Head(s) \in M /\ \A i \in 1..(Len(s) - 1) : t[i] = s[i + 1]
  OBVIOUS
<1> HIDE DEF t
<1>2. \A i \in 1..Len(s) : i = 1 \/ \E k \in 1..(Len(s) - 1) : i = k + 1 /\ s[i] = t[k]
  <2> TAKE i \in 1..Len(s)
  <2>1. i = 1 \/ (i - 1 \in 1..(Len(s) - 1) /\ i = (i - 1) + 1)
    BY <1>1
  <2> QED BY <2>1, <1>1
<1>3. \A k \in 1..(Len(s) - 1) : \E i \in 1..Len(s) : i = k + 1 /\ i # 1 /\ s[i] = t[k]
  <2> TAKE k \in 1..(Len(s) - 1)
  <2>1. k + 1 \in 1..Len(s) /\ k + 1 # 1 /\ t[k] = s[k + 1]
    BY <1>1
  <2> QED BY <2>1
<1>4. EvIn(s) = EvIn(t) \cup (IF Head(s).type # "CloseConn" THEN {Head(s).msg} ELSE {})
  <2>1. ASSUME NEW x \in EvIn(t) PROVE x \in EvIn(s)
    BY <1>1, <1>3, SMTT(30) DEF EvIn
  <2>2. Head(s).type # "CloseConn" => Head(s).msg \in EvIn(s)
    BY <1>1 DEF EvIn
  <2>3. ASSUME NEW x \in EvIn(s)
        PROVE  x \in EvIn(t) \/ (Head(s).type # "CloseConn" /\ x = Head(s).msg)
    BY <1>1, <1>2 DEF EvIn
  <2> QED BY <2>1, <2>2, <2>3
<1>5. Uniq(s) => /\ Uniq(t)
                 /\ Head(s).type # "CloseConn" => Head(s).msg \notin EvIn(t)
  <2> SUFFICES ASSUME Uniq(s)
               PROVE  /\ Uniq(t)
                      /\ Head(s).type # "CloseConn" => Head(s).msg \notin EvIn(t)
    OBVIOUS
  <2>1. ASSUME NEW k \in DOMAIN t, NEW l \in DOMAIN t, t[k].type # "CloseConn",
               t[l].type # "CloseConn", t[k].msg = t[l].msg
        PROVE  k = l
    <3>1. PICK i \in 1..Len(s) : i = k + 1 /\ s[i] = t[k]
      BY <1>1, <1>3
    <3>2. PICK j \in 1..Len(s) : j = l + 1 /\ s[j] = t[l]
      BY <1>1, <1>3
    <3>3. i = j
      BY <1>1, <2>1, <3>1, <3>2 DEF Uniq
    <3> QED BY <1>1, <3>1, <3>2, <3>3
  <2>2. ASSUME NEW k \in DOMAIN t, t[k].type # "CloseConn", Head(s).type # "CloseConn",
               Head(s).msg = t[k].msg
        PROVE  FALSE
    <3>1. PICK i \in 1..Len(s) : i = k + 1 /\ i # 1 /\ s[i] = t[k]
      BY <1>1, <1>3
    <3> QED BY <1>1, <2>2, <3>1 DEF Uniq
  <2> QED BY <2>1, <2>2 DEF Uniq, EvIn
<1> QED BY <1>1, <1>4, <1>5 DEF t

\* One queue after another.
LEMMA Joined ==
  ASSUME NEW M, NEW s \in Seq(M), NEW u \in Seq(M)
  PROVE  /\ s \o u \in Seq(M)
         /\ EvIn(s \o u) = EvIn(s) \cup EvIn(u)
         /\ Uniq(s) /\ Uniq(u) /\ EvIn(s) \cap EvIn(u) = {} => Uniq(s \o u)
<1> DEFINE t == s \o u
<1>1. /\ t \in Seq(M) /\ Len(s) \in Nat /\ Len(u) \in Nat
      /\ DOMAIN t = 1..(Len(s) + Len(u)) /\ DOMAIN s = 1..Len(s) /\ DOMAIN u = 1..Len(u)
      /\ \A i \in 1..Len(s) : t[i] = s[i]
      /\ \A i \in 1..(Len(s) + Len(u)) : i > Len(s) => t[i] = u[i - Len(s)]
  OBVIOUS
<1> HIDE DEF t
<1>2. \A i \in DOMAIN t : \/ i \in DOMAIN s /\ t[i] = s[i]
                          \/ \E k \in DOMAIN u : i = k + Len(s) /\ t[i] = u[k]
  <2> TAKE i \in DOMAIN t
  <2>1. CASE i <= Len(s)
    BY <1>1, <2>1
  <2>2. CASE i > Len(s)
    <3>1. i - Len(s) \in DOMAIN u /\ i = (i - Len(s)) + Len(s) /\ t[i] = u[i - Len(s)]
      BY <1>1, <2>2
    <3> QED BY <3>1
  <2> QED BY <1>1, <2>1, <2>2
<1>3. \A k \in DOMAIN u : \E i \in DOMAIN t : i = k + Len(s) /\ t[i] = u[k]
  <2> TAKE k \in DOMAIN u
  <2>1. /\ k + Len(s) \in 1..(Len(s) + Len(u)) /\ k + Len(s) > Len(s)
        /\ (k + Len(s)) - Len(s) = k
    BY <1>1
  <2>2. t[k + Len(s)] = u[k]
    BY <1>1, <2>1
  <2> QED BY <1>1, <2>1, <2>2
<1>4. \A i \in DOMAIN s : i \in DOMAIN t /\ t[i] = s[i]
  BY <1>1
<1>5. ASSUME NEW x \in EvIn(t) PROVE x \in EvIn(s) \cup EvIn(u)
  BY <1>2 DEF EvIn
<1>6. ASSUME NEW x \in EvIn(s) \cup EvIn(u) PROVE x \in EvIn(t)
  BY <1>3, <1>4 DEF EvIn
<1>7. ASSUME Uniq(s), Uniq(u), EvIn(s) \cap EvIn(u) = {},
             NEW i \in DOMAIN t, NEW j \in DOMAIN t, t[i].type # "CloseConn",
             t[j].type # "CloseConn", t[i].msg = t[j].msg
      PROVE  i = j
  <2>1. CASE i \in DOMAIN s /\ t[i] = s[i]
    <3>1. t[i].msg \in EvIn(s)
      BY <1>7, <2>1 DEF EvIn
    <3>2. CASE j \in DOMAIN s /\ t[j] = s[j]
      BY <1>7, <2>1, <3>2 DEF Uniq
    <3>3. ASSUME NEW k \in DOMAIN u, t[j] = u[k] PROVE FALSE
      BY <1>7, <3>1, <3>3 DEF EvIn
    <3> QED BY <1>2, <3>2, <3>3
  <2>2. ASSUME NEW k \in DOMAIN u, i = k + Len(s), t[i] = u[k] PROVE i = j
    <3>1. t[i].msg \in EvIn(u)
      BY <1>7, <2>2 DEF EvIn
    <3>2. CASE j \in DOMAIN s /\ t[j] = s[j]
      BY <1>7, <3>1, <3>2 DEF EvIn
    <3>3. ASSUME NEW l \in DOMAIN u, j = l + Len(s), t[j] = u[l] PROVE i = j
      BY <1>7, <2>2, <3>3 DEF Uniq
    <3> QED BY <1>2, <3>2, <3>3
  <2> QED BY <1>2, <2>1, <2>2
<1> QED BY <1>1, <1>5, <1>6, <1>7 DEF t, Uniq

\* The list of messages to be written.
LEMMA PutProc ==
  ASSUME NEW s \in Seq(Nat), NEW m \in Nat
  PROVE  /\ Append(s, m) \in Seq(Nat)
         /\ {Append(s, m)[i] : i \in DOMAIN Append(s, m)} = {s[i] : i \in DOMAIN s} \cup {m}
         /\ NoRepeat(s) /\ m \notin {s[i] : i \in DOMAIN s} => NoRepeat(Append(s, m))
<1> DEFINE t == Append(s, m)
<1>1. /\ t \in Seq(Nat) /\ Len(s) \in Nat
      /\ DOMAIN t = 1..(Len(s) + 1) /\ DOMAIN s = 1..Len(s)
      /\ t[Len(s) + 1] = m /\ \A i \in 1..Len(s) : t[i] = s[i]
  OBVIOUS
<1> HIDE DEF t
<1>2. \A i \in 1..(Len(s) + 1) : i = Len(s) + 1 \/ i \in 1..Len(s)
  BY <1>1
<1>3. \A i \in 1..Len(s) : i \in 1..(Len(s) + 1)
  BY <1>1
<1>4. {t[i] : i \in DOMAIN t} = {s[i] : i \in DOMAIN s} \cup {m}
  BY <1>1, <1>2, <1>3
<1>5. NoRepeat(s) /\ m \notin {s[i] : i \in DOMAIN s} => NoRepeat(t)
  BY <1>1, <1>2 DEF NoRepeat
<1> QED BY <1>1, <1>4, <1>5 DEF t

-----------------------------------------------------------------------------
(* The invariant, step by step *)

\* Nothing has been sent yet, and every queue is empty.
LEMMA InitInv == Init => IngInv
<1> SUFFICES ASSUME Init PROVE IngInv
  OBVIOUS
<1>1. IngType
  <2>1. db \subseteq Events
    BY IngressAssumption DEF Init
  <2>2. status = <<>> /\ <<>> \in [{} -> Whys] /\ DOMAIN <<>> = {}
    BY DEF Init
  <2> QED BY <2>1, <2>2 DEF Init, IngType
<1>2. /\ \A c \in Conns : InQ(c) = {} /\ InB(c) = {} /\ InO(c) = {}
      /\ \A c \in Conns : Uniq(iq[c]) /\ Uniq(ib[c]) /\ Uniq(iout[c])
      /\ InW = {} /\ InV = {} /\ Uniq(wq) /\ Uniq(wb) /\ NoRepeat(proc) /\ InP = {}
  BY EmptyQueue DEF Init, InQ, InB, InO, InW, InV, InP
<1>3. PlaceInv
  BY <1>2 DEF PlaceInv
<1>4. AnsInv /\ PassInv
  BY <1>2, IngressAssumption DEF Init, AnsInv, AnsweredOnce, PassInv, StoreInv
<1>5. TrueInv
  BY <1>1 DEF Init, IngType, TrueInv, AnswersTrue, StatusTrue
<1> QED BY <1>1, <1>3, <1>4, <1>5 DEF IngInv

\* Steps that leave every message where it is.
LEMMA Untouched ==
  ASSUME IngInv, UNCHANGED <<msgs, answers, iq, ib, iout, isnap, ipc, wq, wb, proc>>,
         UNCHANGED <<status, wdb, written, db, ever, removed, accepted>>,
         wpc' = wpc \/ (wpc \in {"wait", "plugin"} /\ wpc' \in {"wait", "plugin"})
  PROVE  IngInv'
<1>1. IngType'
  BY DEF IngInv, IngType
<1>2. /\ \A c \in Conns : InQ(c)' = InQ(c) /\ InB(c)' = InB(c) /\ InO(c)' = InO(c)
      /\ InW' = InW /\ InV' = InV /\ InP' = InP
  BY DEF InQ, InB, InO, InW, InV, InP
<1>3. PlaceInv'
  BY <1>2 DEF IngInv, PlaceInv
<1>4. AnsInv'
  BY <1>2 DEF IngInv, AnsInv, AnsweredOnce
<1>5. PassInv'
  BY <1>2 DEF IngInv, PassInv, StoreInv, Checked
<1>6. TrueInv'
  BY DEF IngInv, TrueInv, AnswersTrue, StatusTrue, Ev
<1> QED BY <1>1, <1>3, <1>4, <1>5, <1>6 DEF IngInv

\* A new message is in no queue yet.
LEMMA ReceiveInv ==
  ASSUME IngInv, NEW c \in Conns, NEW ev \in Events, Receive(c, ev)
  PROVE  IngInv'
<1> USE DEF ingester, writer, txn, store, env
<1> DEFINE n == Len(msgs) + 1
           x == [type |-> "ClientMessage", msg |-> n]
<1>1. /\ msgs' = Append(msgs, [conn |-> c, ev |-> ev]) /\ answers' = Append(answers, <<>>)
      /\ iq' = [iq EXCEPT ![c] = Append(@, x)]
      /\ UNCHANGED <<ib, isnap, ipc, iout, wq, wb, wpc, proc, status, wdb, written, db, ever, removed, accepted>>
  BY DEF Receive
<1>2. x \in IMsg /\ n \in Nat /\ x.msg = n /\ x.type # "CloseConn"
  BY DEF IMsg, IngInv, IngType
<1>3. /\ msgs' \in Seq([conn : Conns, ev : Events]) /\ answers' \in Seq(Seq(Reply))
      /\ DOMAIN msgs' = DOMAIN msgs \cup {n} /\ n \notin DOMAIN msgs
      /\ msgs'[n].conn = c /\ \A m \in DOMAIN msgs : msgs'[m] = msgs[m]
      /\ DOMAIN answers' = DOMAIN msgs' /\ DOMAIN answers = DOMAIN msgs /\ Len(answers') = Len(msgs')
      /\ answers'[n] = <<>> /\ \A m \in DOMAIN msgs : answers'[m] = answers[m]
  <2>1. [conn |-> c, ev |-> ev] \in [conn : Conns, ev : Events] /\ <<>> \in Seq(Reply)
    OBVIOUS
  <2>2. /\ msgs \in Seq([conn : Conns, ev : Events]) /\ answers \in Seq(Seq(Reply))
        /\ Len(answers) = Len(msgs)
    BY DEF IngInv, IngType
  <2> QED BY <1>1, <2>1, <2>2
<1> HIDE DEF n, x
<1>4. /\ iq \in [Conns -> Seq(IMsg)] /\ iq' \in [Conns -> Seq(IMsg)]
      /\ InQ(c)' = InQ(c) \cup {n} /\ (Uniq(iq[c]) /\ n \notin InQ(c) => Uniq(iq'[c]))
      /\ \A d \in Conns \ {c} : iq'[d] = iq[d]
  <2>1. iq \in [Conns -> Seq(IMsg)] /\ iq[c] \in Seq(IMsg)
    BY DEF IngInv, IngType
  <2>2. iq'[c] = Append(iq[c], x) /\ \A d \in Conns \ {c} : iq'[d] = iq[d]
    BY <1>1, <2>1
  <2>3. /\ Append(iq[c], x) \in Seq(IMsg) /\ EvIn(Append(iq[c], x)) = EvIn(iq[c]) \cup {n}
        /\ (Uniq(iq[c]) /\ n \notin EvIn(iq[c]) => Uniq(Append(iq[c], x)))
    BY <1>2, <2>1, PutLast
  <2> QED BY <1>1, <2>1, <2>2, <2>3 DEF InQ
<1>5. /\ \A d \in Conns \ {c} : InQ(d)' = InQ(d)
      /\ \A d \in Conns : InB(d)' = InB(d) /\ InO(d)' = InO(d)
      /\ InW' = InW /\ InV' = InV /\ InP' = InP
  BY <1>1, <1>4 DEF InQ, InB, InO, InW, InV, InP
<1>6. IngType'
  BY <1>1, <1>3, <1>4 DEF IngInv, IngType
<1>7. PlaceInv'
  <2>1. \A d \in Conns : n \notin InQ(d) \cup InB(d) \cup InO(d)
    BY <1>3 DEF IngInv, PlaceInv
  <2>2. n \notin InW \cup InV \cup InP
    BY <1>3 DEF IngInv, PlaceInv
  <2>3. \A d \in Conns : \A m \in InQ(d)' \cup InB(d)' \cup InO(d)' : m \in DOMAIN msgs' /\ msgs'[m].conn = d
    <3> TAKE d \in Conns
    <3>1. \A m \in InQ(d) \cup InB(d) \cup InO(d) : m \in DOMAIN msgs /\ msgs[m].conn = d
      BY DEF IngInv, PlaceInv
    <3>2. InQ(d)' = (IF d = c THEN InQ(d) \cup {n} ELSE InQ(d)) /\ InB(d)' = InB(d) /\ InO(d)' = InO(d)
      BY <1>4, <1>5
    <3> QED BY <1>3, <3>1, <3>2
  <2>4. \A d \in Conns : /\ Uniq(iq'[d]) /\ Uniq(ib'[d]) /\ Uniq(iout'[d])
                         /\ InQ(d)' \cap InB(d)' = {}
                         /\ InO(d)' \cap (InQ(d)' \cup InB(d)') = {}
                         /\ (InQ(d)' \cup InB(d)' \cup InO(d)') \cap (InW' \cup InV' \cup InP') = {}
    BY <1>1, <1>4, <1>5, <2>1, <2>2 DEF IngInv, PlaceInv
  <2> QED BY <1>1, <1>3, <1>5, <2>3, <2>4 DEF IngInv, PlaceInv
<1>8. AnsInv'
  <2>1. AnsweredOnce'
    BY <1>3 DEF IngInv, AnsInv, AnsweredOnce
  <2>2. \A d \in Conns : \A m \in InQ(d)' \cup InB(d)' \cup InO(d)' : answers'[m] = <<>>
    <3> TAKE d \in Conns
    <3>1. \A m \in InQ(d) \cup InB(d) \cup InO(d) : m \in DOMAIN msgs /\ answers[m] = <<>>
      BY DEF IngInv, PlaceInv, AnsInv
    <3>2. InQ(d)' = (IF d = c THEN InQ(d) \cup {n} ELSE InQ(d)) /\ InB(d)' = InB(d) /\ InO(d)' = InO(d)
      BY <1>4, <1>5
    <3> QED BY <1>3, <3>1, <3>2
  <2>3. \A m \in InW' \cup InV' \cup InP' : answers'[m] = <<>>
    BY <1>3, <1>5 DEF IngInv, PlaceInv, AnsInv
  <2> QED BY <2>1, <2>2, <2>3 DEF AnsInv
<1>9. PassInv'
  <2>1. \A d \in Conns : \A m \in InO(d) : msgs'[m] = msgs[m]
    BY <1>3 DEF IngInv, PlaceInv
  <2>2. \A m \in InW \cup InV \cup InP : msgs'[m] = msgs[m]
    BY <1>3 DEF IngInv, PlaceInv
  <2> QED BY <1>1, <1>5, <2>1, <2>2 DEF IngInv, PassInv, StoreInv, Checked
<1>10. TrueInv'
  <2>1. \A i \in DOMAIN proc : msgs'[proc[i]] = msgs[proc[i]]
    BY <1>3 DEF IngInv, PlaceInv, InP
  <2>2. AnswersTrue'
    BY <1>1, <1>3 DEF IngInv, TrueInv, AnswersTrue
  <2>3. StatusTrue'
    BY <1>1, <2>1 DEF IngInv, IngType, TrueInv, StatusTrue, Ev
  <2> QED BY <2>2, <2>3 DEF TrueInv
<1> QED BY <1>6, <1>7, <1>8, <1>9, <1>10 DEF IngInv

\* A disconnection puts CloseConn behind what the connection has sent.
LEMMA DisconnectInv ==
  ASSUME IngInv, NEW c \in Conns, Disconnect(c)
  PROVE  IngInv'
<1> USE DEF ingester, writer, txn, store
<1> DEFINE x == [type |-> "CloseConn", msg |-> 0]
<1>1. /\ iq' = [iq EXCEPT ![c] = Append(@, x)]
      /\ UNCHANGED <<msgs, answers, ib, isnap, ipc, iout, wq, wb, wpc, proc, status, wdb, written, db, ever, removed, accepted>>
  BY DEF Disconnect
<1>2. x \in IMsg /\ x.type = "CloseConn"
  BY DEF IMsg
<1> HIDE DEF x
<1>3. iq \in [Conns -> Seq(IMsg)] /\ iq[c] \in Seq(IMsg)
  BY DEF IngInv, IngType
<1>4. iq'[c] = Append(iq[c], x) /\ \A d \in Conns \ {c} : iq'[d] = iq[d]
  BY <1>1, <1>3
<1>5. /\ iq'[c] \in Seq(IMsg) /\ EvIn(iq'[c]) = EvIn(iq[c]) /\ (Uniq(iq[c]) => Uniq(iq'[c]))
  <2>1. /\ Append(iq[c], x) \in Seq(IMsg) /\ EvIn(Append(iq[c], x)) = EvIn(iq[c]) \cup {}
        /\ (Uniq(iq[c]) => Uniq(Append(iq[c], x)))
    BY <1>2, <1>3, PutLast
  <2> QED BY <1>4, <2>1
<1>6. IngType'
  BY <1>1, <1>3, <1>5 DEF IngInv, IngType
<1>7. /\ \A d \in Conns : InQ(d)' = InQ(d) /\ InB(d)' = InB(d) /\ InO(d)' = InO(d)
      /\ InW' = InW /\ InV' = InV /\ InP' = InP
      /\ \A d \in Conns : Uniq(iq[d]) => Uniq(iq'[d])
  BY <1>1, <1>4, <1>5 DEF InQ, InB, InO, InW, InV, InP
<1>8. PlaceInv'
  BY <1>1, <1>7 DEF IngInv, PlaceInv
<1>9. AnsInv'
  BY <1>1, <1>7 DEF IngInv, AnsInv, AnsweredOnce
<1>10. PassInv'
  BY <1>1, <1>7 DEF IngInv, PassInv, StoreInv, Checked
<1>11. TrueInv'
  BY <1>1 DEF IngInv, TrueInv, AnswersTrue, StatusTrue, Ev
<1> QED BY <1>6, <1>8, <1>9, <1>10, <1>11 DEF IngInv

\* The ingester takes its whole inbox; no message is lost or doubled.
LEMMA IngesterPopInv ==
  ASSUME IngInv, NEW c \in Conns, IngesterPop(c)
  PROVE  IngInv'
<1> USE DEF writer, txn, store
<1>1. /\ ib' = [ib EXCEPT ![c] = iq[c]] /\ iq' = [iq EXCEPT ![c] = <<>>]
      /\ isnap' = [isnap EXCEPT ![c] = db] /\ ipc' = [ipc EXCEPT ![c] = "batch"]
      /\ UNCHANGED <<msgs, answers, iout, wq, wb, wpc, proc, status, wdb, written, db, ever, removed, accepted>>
  BY DEF IngesterPop
<1>2. db \subseteq ever /\ ever \subseteq Events
  BY DEF IngInv, IngType, PassInv, StoreInv
<1>3. IngType'
  BY <1>1, <1>2 DEF IngInv, IngType
<1>4. /\ InQ(c)' = {} /\ InB(c)' = InQ(c) /\ Uniq(iq'[c]) /\ ib'[c] = iq[c]
      /\ \A d \in Conns \ {c} : iq'[d] = iq[d] /\ ib'[d] = ib[d] /\ InQ(d)' = InQ(d) /\ InB(d)' = InB(d)
      /\ \A d \in Conns : InO(d)' = InO(d)
      /\ InW' = InW /\ InV' = InV /\ InP' = InP
  <2>1. /\ ib'[c] = iq[c] /\ iq'[c] = <<>>
        /\ \A d \in Conns \ {c} : iq'[d] = iq[d] /\ ib'[d] = ib[d]
    BY <1>1 DEF IngInv, IngType
  <2> QED BY <1>1, <2>1, EmptyQueue DEF InQ, InB, InO, InW, InV, InP
<1>5. PlaceInv'
  <2>1. \A d \in Conns : \A m \in InQ(d)' \cup InB(d)' \cup InO(d)' : m \in DOMAIN msgs' /\ msgs'[m].conn = d
    BY <1>1, <1>4 DEF IngInv, PlaceInv
  <2>2. \A d \in Conns : /\ Uniq(iq'[d]) /\ Uniq(ib'[d]) /\ Uniq(iout'[d])
                         /\ InQ(d)' \cap InB(d)' = {}
                         /\ InO(d)' \cap (InQ(d)' \cup InB(d)') = {}
                         /\ (InQ(d)' \cup InB(d)' \cup InO(d)') \cap (InW' \cup InV' \cup InP') = {}
    BY <1>1, <1>4 DEF IngInv, PlaceInv
  <2> QED BY <1>1, <1>4, <2>1, <2>2 DEF IngInv, PlaceInv
<1>6. AnsInv'
  BY <1>1, <1>4 DEF IngInv, AnsInv, AnsweredOnce
<1>7. PassInv'
  <2>1. \A d \in Conns : isnap'[d] \subseteq ever'
    BY <1>1, <1>2 DEF IngInv, IngType, PassInv
  <2> QED BY <1>1, <1>4, <2>1 DEF IngInv, PassInv, StoreInv, Checked
<1>8. TrueInv'
  BY <1>1 DEF IngInv, TrueInv, AnswersTrue, StatusTrue, Ev
<1> QED BY <1>3, <1>5, <1>6, <1>7, <1>8 DEF IngInv

\* An answer to a message on its way, which has had none.
LEMMA FirstAnswer ==
  ASSUME IngInv, NEW m \in DOMAIN msgs, answers[m] = <<>>,
         NEW ok \in BOOLEAN, NEW why \in Whys, Answer(m, ok, why), UNCHANGED <<msgs, ever>>,
         ok /\ why # "plugin" => msgs[m].ev \in Known(ever)
  PROVE  /\ answers' \in Seq(Seq(Reply)) /\ Len(answers') = Len(msgs')
         /\ AnsweredOnce' /\ AnswersTrue'
         /\ \A n \in DOMAIN msgs : n # m => answers'[n] = answers[n]
<1>1. answers \in Seq(Seq(Reply)) /\ Len(answers) = Len(msgs) /\ DOMAIN answers = DOMAIN msgs
  BY DEF IngInv, IngType
<1> DEFINE a == [ok |-> ok, why |-> why]
           s == Append(<<>>, a)
<1>2. a \in Reply /\ a.ok = ok /\ a.why = why
  BY DEF Reply
<1> HIDE DEF a
<1>3. s \in Seq(Reply) /\ Len(s) = 1 /\ DOMAIN s = {1} /\ s[1] = a
  BY <1>2
<1> HIDE DEF s
<1>4. answers' = [answers EXCEPT ![m] = s]
  BY DEF Answer, a, s
<1>5. /\ answers' \in Seq(Seq(Reply)) /\ Len(answers') = Len(answers) /\ DOMAIN answers' = DOMAIN answers
      /\ answers'[m] = s /\ \A n \in DOMAIN answers : n # m => answers'[n] = answers[n]
  BY <1>1, <1>3, <1>4
<1>6. AnsweredOnce'
  <2> SUFFICES ASSUME NEW n \in DOMAIN answers' PROVE Len(answers'[n]) <= 1
    BY DEF AnsweredOnce
  <2>1. CASE n = m
    <3>1. Len(answers'[n]) = Len(s)
      BY <1>5, <2>1, Zenon
    <3> QED BY <1>3, <3>1
  <2>2. CASE n # m
    <3>1. answers'[n] = answers[n] /\ Len(answers[n]) <= 1
      BY <1>5, <2>2 DEF IngInv, AnsInv, AnsweredOnce
    <3> QED BY <3>1
  <2> QED BY <2>1, <2>2
<1>7. AnswersTrue'
  BY <1>1, <1>2, <1>3, <1>5 DEF IngInv, TrueInv, AnswersTrue
<1> QED BY <1>1, <1>5, <1>6, <1>7

\* The head of an ingester's batch
LEMMA BatchHead ==
  ASSUME IngInv, NEW c \in Conns, ib[c] # <<>>, ib' = [ib EXCEPT ![c] = Tail(@)]
  PROVE  LET x == Head(ib[c]) IN
         /\ x \in IMsg /\ ib' \in [Conns -> Seq(IMsg)] /\ Uniq(ib'[c])
         /\ \A d \in Conns \ {c} : ib'[d] = ib[d] /\ InB(d)' = InB(d)
         /\ x.type = "CloseConn" => InB(c)' = InB(c)
         /\ x.type # "CloseConn" => InB(c) = InB(c)' \cup {x.msg} /\ x.msg \notin InB(c)'
<1>1. ib \in [Conns -> Seq(IMsg)] /\ ib[c] \in Seq(IMsg) /\ Uniq(ib[c])
  BY DEF IngInv, IngType, PlaceInv
<1>2. ib'[c] = Tail(ib[c]) /\ \A d \in Conns \ {c} : ib'[d] = ib[d]
  BY <1>1
<1>3. /\ Head(ib[c]) \in IMsg /\ Tail(ib[c]) \in Seq(IMsg)
      /\ EvIn(ib[c]) = EvIn(Tail(ib[c])) \cup (IF Head(ib[c]).type # "CloseConn" THEN {Head(ib[c]).msg} ELSE {})
      /\ Uniq(Tail(ib[c]))
      /\ Head(ib[c]).type # "CloseConn" => Head(ib[c]).msg \notin EvIn(Tail(ib[c]))
  BY <1>1, TakeFirst
<1>4. ib' \in [Conns -> Seq(IMsg)]
  BY <1>1, <1>3
<1>5. InB(c)' = EvIn(Tail(ib[c])) /\ InB(c) = EvIn(ib[c]) /\ \A d \in Conns \ {c} : InB(d)' = InB(d)
  BY <1>2 DEF InB
<1> QED BY <1>2, <1>3, <1>4, <1>5

\* A message that is not refused has passed the checks; a true refusal is of an
\* event in the snapshot.
LEMMA Refused ==
  ASSUME NEW ev, NEW snap
  PROVE  /\ Refusals(ev, snap) = {} => ev \notin Invalid \cup Protected
         /\ Refusals(ev, snap) # {} =>
              /\ Refusal(ev, snap) \in Whys /\ Refusal(ev, snap) # "plugin"
              /\ Refusal(ev, snap) = "Duplicate" => ev \in snap
<1> DEFINE A == Refusals(ev, snap)
<1>1. /\ DOMAIN Checks = 1..5 /\ \A i \in 1..5 : Checks[i] \in Whys /\ Checks[i] # "plugin"
      /\ Checks[3] = "invalid" /\ Checks[4] = "protected"
  BY DEF Checks, Whys
<1>2. A = {i \in 1..5 : Fails(Checks[i], ev, snap)}
  BY <1>1 DEF Refusals
<1>3. /\ ev \in Invalid => 3 \in A
      /\ ev \in Protected => 4 \in A
  <2>1. ev \in Invalid => Fails("invalid", ev, snap)
    BY DEF Fails
  <2>2. ev \in Protected => Fails("protected", ev, snap)
    BY DEF Fails
  <2> HIDE DEF A
  <2> QED BY <1>1, <1>2, <2>1, <2>2
<1>4. ASSUME A # {}
      PROVE  /\ Refusal(ev, snap) \in Whys /\ Refusal(ev, snap) # "plugin"
             /\ Refusal(ev, snap) = "Duplicate" => ev \in snap
  <2> HIDE DEF A
  <2>1. \E i \in A : \A j \in A : i <= j
    BY <1>2, <1>4
  <2>2. PICK i \in A : Refusal(ev, snap) = Checks[i]
    BY <2>1 DEF Refusal, A
  <2> QED BY <1>1, <1>2, <2>2 DEF Fails
<1> QED BY <1>3, <1>4

\* An event is answered by the ingester or gathered for the writer, never
\* both.
LEMMA IngestEventInv ==
  ASSUME IngInv, NEW c \in Conns, IngestEvent(c)
  PROVE  IngInv'
<1> USE DEF writer, txn, store
<1> DEFINE m == Head(ib[c]).msg
           ev == msgs[m].ev
           r == Refusal(ev, isnap[c])
<1>1. /\ ib[c] # <<>> /\ Head(ib[c]).type = "ClientMessage" /\ ib' = [ib EXCEPT ![c] = Tail(@)]
      /\ UNCHANGED <<msgs, iq, isnap, ipc, wq, wb, wpc, proc, status, wdb, written, db, ever, removed, accepted>>
  BY DEF IngestEvent
<1>2. /\ ib' \in [Conns -> Seq(IMsg)] /\ Uniq(ib'[c])
      /\ \A d \in Conns \ {c} : ib'[d] = ib[d] /\ InB(d)' = InB(d)
      /\ InB(c) = InB(c)' \cup {m} /\ m \notin InB(c)'
  BY <1>1, BatchHead
<1>3. /\ \A d \in Conns : InQ(d)' = InQ(d)
      /\ InW' = InW /\ InV' = InV /\ InP' = InP
  BY <1>1 DEF InQ, InW, InV, InP
<1>4. /\ m \in DOMAIN msgs /\ msgs[m].conn = c /\ answers[m] = <<>>
      /\ m \notin InQ(c) /\ m \notin InO(c) /\ m \notin InW \cup InV \cup InP
      /\ \A d \in Conns \ {c} : m \notin InQ(d) \cup InB(d) \cup InO(d)
  <2>1. m \in InB(c)
    BY <1>2
  <2>2. m \in DOMAIN msgs /\ msgs[m].conn = c /\ answers[m] = <<>>
    BY <2>1 DEF IngInv, PlaceInv, AnsInv
  <2> QED BY <2>1, <2>2 DEF IngInv, PlaceInv
<1>5. /\ \A d \in Conns : \A n \in InQ(d)' \cup InB(d)' : n \in DOMAIN msgs /\ n # m /\ answers[n] = <<>>
      /\ \A n \in InW \cup InV \cup InP : n \in DOMAIN msgs /\ n # m /\ answers[n] = <<>>
      /\ \A d \in Conns : \A n \in InO(d) : n \in DOMAIN msgs /\ n # m /\ answers[n] = <<>>
  <2>1. \A d \in Conns : \A n \in InQ(d)' \cup InB(d)' : n \in InQ(d) \cup InB(d) /\ n # m
    BY <1>2, <1>3, <1>4
  <2>2. \A d \in Conns : \A n \in InO(d) : n # m
    BY <1>4
  <2> QED BY <1>4, <2>1, <2>2 DEF IngInv, PlaceInv, AnsInv
<1>6. StatusTrue'
  BY <1>1 DEF IngInv, TrueInv, StatusTrue, Ev
<1>7. CASE Refusals(ev, isnap[c]) # {}
  <2>1. Answer(m, r = "Duplicate", r) /\ iout' = iout
    BY <1>7 DEF IngestEvent, Refuse
  <2>2. (r = "Duplicate") \in BOOLEAN /\ r \in Whys /\ (r = "Duplicate" => ev \in Known(ever))
    BY <1>7, Refused DEF IngInv, PassInv, Known
  <2> HIDE DEF r, m
  <2>3. /\ answers' \in Seq(Seq(Reply)) /\ Len(answers') = Len(msgs')
        /\ AnsweredOnce' /\ AnswersTrue'
        /\ \A n \in DOMAIN msgs : n # m => answers'[n] = answers[n]
    BY <1>1, <1>4, <2>1, <2>2, FirstAnswer
  <2>4. \A d \in Conns : InO(d)' = InO(d)
    BY <2>1 DEF InO
  <2>5. IngType'
    BY <1>1, <1>2, <2>1, <2>3 DEF IngInv, IngType
  <2>6. PlaceInv'
    <3>1. \A d \in Conns : InQ(d)' \cup InB(d)' \cup InO(d)' \subseteq InQ(d) \cup InB(d) \cup InO(d)
      BY <1>2, <1>3, <2>4
    <3>2. \A d \in Conns : InQ(d)' = InQ(d) /\ InB(d)' \subseteq InB(d) /\ InO(d)' = InO(d) /\ Uniq(ib'[d])
      BY <1>2, <1>3, <2>4 DEF IngInv, PlaceInv
    <3> QED BY <1>1, <1>3, <2>1, <3>1, <3>2 DEF IngInv, PlaceInv
  <2>7. AnsInv'
    BY <1>3, <1>5, <2>3, <2>4 DEF AnsInv
  <2>8. PassInv'
    BY <1>1, <1>3, <2>4 DEF IngInv, PassInv, StoreInv, Checked
  <2> QED BY <1>6, <2>3, <2>5, <2>6, <2>7, <2>8 DEF IngInv, TrueInv
<1>8. CASE Refusals(ev, isnap[c]) = {}
  <2>1. iout' = [iout EXCEPT ![c] = Append(@, AddEvent(m))] /\ answers' = answers
    BY <1>8 DEF IngestEvent
  <2>2. Checked(m)
    BY <1>8, Refused DEF Checked
  <2> HIDE DEF m
  <2>3. AddEvent(m) \in WMsg /\ AddEvent(m).type # "CloseConn" /\ AddEvent(m).msg = m
    BY <1>4 DEF AddEvent, WMsg, IngInv, IngType
  <2>4. /\ iout' \in [Conns -> Seq(WMsg)] /\ InO(c)' = InO(c) \cup {m} /\ Uniq(iout'[c])
        /\ \A d \in Conns \ {c} : iout'[d] = iout[d] /\ InO(d)' = InO(d)
    <3>1. iout \in [Conns -> Seq(WMsg)] /\ iout[c] \in Seq(WMsg) /\ Uniq(iout[c]) /\ m \notin EvIn(iout[c])
      BY <1>4 DEF IngInv, IngType, PlaceInv, InO
    <3>2. iout'[c] = Append(iout[c], AddEvent(m)) /\ \A d \in Conns \ {c} : iout'[d] = iout[d]
      BY <2>1, <3>1
    <3>3. /\ iout'[c] \in Seq(WMsg) /\ EvIn(iout'[c]) = EvIn(iout[c]) \cup {m} /\ Uniq(iout'[c])
      BY <2>3, <3>1, <3>2, PutLast
    <3> QED BY <2>1, <3>1, <3>2, <3>3 DEF InO
  <2>5. IngType'
    BY <1>1, <1>2, <2>1, <2>4 DEF IngInv, IngType
  <2>6. PlaceInv'
    <3>1. ASSUME NEW d \in Conns
          PROVE  /\ \A n \in InQ(d)' \cup InB(d)' \cup InO(d)' : n \in DOMAIN msgs' /\ msgs'[n].conn = d
                 /\ Uniq(iq'[d]) /\ Uniq(ib'[d]) /\ Uniq(iout'[d])
                 /\ InQ(d)' \cap InB(d)' = {}
                 /\ InO(d)' \cap (InQ(d)' \cup InB(d)') = {}
                 /\ (InQ(d)' \cup InB(d)' \cup InO(d)') \cap (InW' \cup InV' \cup InP') = {}
      <4>1. CASE d = c
        BY <1>1, <1>2, <1>3, <1>4, <2>4, <4>1 DEF IngInv, PlaceInv
      <4>2. CASE d # c
        BY <1>1, <1>2, <1>3, <2>4, <4>2 DEF IngInv, PlaceInv
      <4> QED BY <4>1, <4>2
    <3> QED BY <1>1, <1>3, <3>1 DEF IngInv, PlaceInv
  <2>7. AnsInv'
    <3>1. \A d \in Conns : \A n \in InO(d)' : answers[n] = <<>>
      BY <1>4, <1>5, <2>4
    <3> QED BY <1>3, <1>5, <2>1, <3>1 DEF IngInv, AnsInv, AnsweredOnce
  <2>8. PassInv'
    <3>1. \A d \in Conns : \A n \in InO(d)' : Checked(n)
      BY <2>2, <2>4 DEF IngInv, PassInv
    <3> QED BY <1>1, <1>3, <3>1 DEF IngInv, PassInv, StoreInv, Checked
  <2>9. AnswersTrue'
    BY <1>1, <2>1 DEF IngInv, TrueInv, AnswersTrue
  <2> QED BY <1>6, <2>5, <2>6, <2>7, <2>8, <2>9 DEF IngInv, TrueInv
<1> QED BY <1>7, <1>8

\* CloseConn goes to the writer at once.
LEMMA IngestCloseInv ==
  ASSUME IngInv, NEW c \in Conns, IngestClose(c)
  PROVE  IngInv'
<1> USE DEF writer, txn, store
<1>1. /\ ib[c] # <<>> /\ Head(ib[c]).type = "CloseConn" /\ ib' = [ib EXCEPT ![c] = Tail(@)]
      /\ wq' = Append(wq, CloseConn(c))
      /\ UNCHANGED <<msgs, answers, iq, isnap, ipc, iout, wb, wpc, proc, status, wdb, written, db, ever, removed, accepted>>
  BY DEF IngestClose
<1>2. /\ ib' \in [Conns -> Seq(IMsg)] /\ \A d \in Conns : Uniq(ib'[d]) /\ InB(d)' = InB(d)
  <2>1. /\ ib' \in [Conns -> Seq(IMsg)] /\ Uniq(ib'[c]) /\ InB(c)' = InB(c)
        /\ \A d \in Conns \ {c} : ib'[d] = ib[d] /\ InB(d)' = InB(d)
    BY <1>1, BatchHead
  <2> QED BY <2>1 DEF IngInv, PlaceInv
<1>3. /\ wq' \in Seq(WMsg) /\ InW' = InW /\ Uniq(wq')
  <2>1. CloseConn(c) \in WMsg /\ CloseConn(c).type = "CloseConn"
    BY DEF CloseConn, WMsg
  <2>2. wq \in Seq(WMsg) /\ Uniq(wq)
    BY DEF IngInv, IngType, PlaceInv
  <2>3. /\ Append(wq, CloseConn(c)) \in Seq(WMsg) /\ EvIn(Append(wq, CloseConn(c))) = EvIn(wq) \cup {}
        /\ Uniq(Append(wq, CloseConn(c)))
    BY <2>1, <2>2, PutLast
  <2> QED BY <1>1, <2>3 DEF InW
<1>4. /\ \A d \in Conns : InQ(d)' = InQ(d) /\ InO(d)' = InO(d)
      /\ InV' = InV /\ InP' = InP
  BY <1>1 DEF InQ, InO, InV, InP
<1>5. IngType'
  BY <1>1, <1>2, <1>3 DEF IngInv, IngType
<1>6. PlaceInv'
  BY <1>1, <1>2, <1>3, <1>4 DEF IngInv, PlaceInv
<1>7. AnsInv'
  BY <1>1, <1>2, <1>3, <1>4 DEF IngInv, AnsInv, AnsweredOnce
<1>8. PassInv'
  BY <1>1, <1>3, <1>4 DEF IngInv, PassInv, StoreInv, Checked
<1>9. TrueInv'
  BY <1>1 DEF IngInv, TrueInv, AnswersTrue, StatusTrue, Ev
<1> QED BY <1>5, <1>6, <1>7, <1>8, <1>9 DEF IngInv

\* The events gathered go to the writer at the end of the batch.
LEMMA IngestDispatchInv ==
  ASSUME IngInv, NEW c \in Conns, IngestDispatch(c)
  PROVE  IngInv'
<1> USE DEF writer, txn, store
<1>1. /\ wq' = wq \o iout[c] /\ iout' = [iout EXCEPT ![c] = <<>>]
      /\ isnap' = [isnap EXCEPT ![c] = {}] /\ ipc' = [ipc EXCEPT ![c] = "wait"]
      /\ UNCHANGED <<msgs, answers, iq, ib, wb, wpc, proc, status, wdb, written, db, ever, removed, accepted>>
  BY DEF IngestDispatch
<1>2. /\ wq' \in Seq(WMsg) /\ InW' = InW \cup InO(c) /\ Uniq(wq')
  <2>1. /\ wq \in Seq(WMsg) /\ iout[c] \in Seq(WMsg) /\ Uniq(wq) /\ Uniq(iout[c])
        /\ EvIn(wq) \cap EvIn(iout[c]) = {}
    BY DEF IngInv, IngType, PlaceInv, InW, InO
  <2>2. /\ wq \o iout[c] \in Seq(WMsg) /\ EvIn(wq \o iout[c]) = EvIn(wq) \cup EvIn(iout[c])
        /\ Uniq(wq \o iout[c])
    BY <2>1, Joined
  <2> QED BY <1>1, <2>2 DEF InW, InO
<1>3. /\ InO(c)' = {} /\ Uniq(iout'[c]) /\ iout' \in [Conns -> Seq(WMsg)]
      /\ \A d \in Conns \ {c} : iout'[d] = iout[d] /\ InO(d)' = InO(d)
  <2>1. /\ iout'[c] = <<>> /\ iout' \in [Conns -> Seq(WMsg)]
        /\ \A d \in Conns \ {c} : iout'[d] = iout[d]
    BY <1>1 DEF IngInv, IngType
  <2> QED BY <2>1, EmptyQueue DEF InO
<1>4. /\ \A d \in Conns : InQ(d)' = InQ(d) /\ InB(d)' = InB(d)
      /\ InV' = InV /\ InP' = InP
  BY <1>1 DEF InQ, InB, InV, InP
<1>5. IngType'
  BY <1>1, <1>2, <1>3 DEF IngInv, IngType
<1>6. PlaceInv'
  <2>0. \A d \in Conns \ {c} : \A m \in InO(c) : m \notin InQ(d) \cup InB(d) \cup InO(d)
    BY DEF IngInv, PlaceInv
  <2>1. ASSUME NEW d \in Conns
        PROVE  /\ \A n \in InQ(d)' \cup InB(d)' \cup InO(d)' : n \in DOMAIN msgs' /\ msgs'[n].conn = d
               /\ Uniq(iq'[d]) /\ Uniq(ib'[d]) /\ Uniq(iout'[d])
               /\ InQ(d)' \cap InB(d)' = {}
               /\ InO(d)' \cap (InQ(d)' \cup InB(d)') = {}
               /\ (InQ(d)' \cup InB(d)' \cup InO(d)') \cap (InW' \cup InV' \cup InP') = {}
    <3>1. CASE d = c
      BY <1>1, <1>2, <1>3, <1>4, <3>1 DEF IngInv, PlaceInv
    <3>2. CASE d # c
      BY <1>1, <1>2, <1>3, <1>4, <2>0, <3>2 DEF IngInv, PlaceInv
    <3> QED BY <3>1, <3>2
  <2>2. /\ InW' \cup InV' \cup InP' \subseteq DOMAIN msgs'
        /\ InW' \cap (InV' \cup InP') = {} /\ InV' \cap InP' = {}
    BY <1>1, <1>2, <1>4 DEF IngInv, PlaceInv
  <2> QED BY <1>1, <1>2, <2>1, <2>2 DEF IngInv, PlaceInv
<1>7. AnsInv'
  <2>1. \A m \in InW' \cup InV' \cup InP' : answers[m] = <<>>
    BY <1>2, <1>4 DEF IngInv, AnsInv
  <2>2. \A d \in Conns : InO(d)' \subseteq InO(d)
    BY <1>3
  <2> QED BY <1>1, <1>4, <2>1, <2>2 DEF IngInv, AnsInv, AnsweredOnce
<1>8. PassInv'
  <2>1. \A m \in InW' \cup InV' \cup InP' : Checked(m)
    BY <1>2, <1>4 DEF IngInv, PassInv
  <2>2. \A d \in Conns : InO(d)' \subseteq InO(d) /\ isnap'[d] \subseteq ever
    BY <1>1, <1>3 DEF IngInv, IngType, PassInv
  <2> QED BY <1>1, <1>4, <2>1, <2>2 DEF IngInv, PassInv, StoreInv, Checked
<1>9. TrueInv'
  BY <1>1 DEF IngInv, TrueInv, AnswersTrue, StatusTrue, Ev
<1> QED BY <1>5, <1>6, <1>7, <1>8, <1>9 DEF IngInv

\* The writer takes its inbox and notes the connections closed in it.
LEMMA WriterPopInv ==
  ASSUME IngInv, WriterPop
  PROVE  IngInv'
<1> USE DEF ingester, txn, store
<1>1. /\ wb' = wq /\ wq' = <<>> /\ wpc = "wait" /\ wpc' = "plugin"
      /\ UNCHANGED <<msgs, answers, iq, ib, isnap, ipc, iout, proc, status, wdb, written, db, ever, removed, accepted>>
  BY DEF WriterPop
<1>2. /\ InV' = InW /\ InW' = {} /\ InP' = InP /\ Uniq(wq')
      /\ \A d \in Conns : InQ(d)' = InQ(d) /\ InB(d)' = InB(d) /\ InO(d)' = InO(d)
  BY <1>1, EmptyQueue DEF InQ, InB, InO, InW, InV, InP
<1>3. IngType'
  BY <1>1 DEF IngInv, IngType
<1>4. PlaceInv'
  BY <1>1, <1>2 DEF IngInv, PlaceInv
<1>5. AnsInv'
  BY <1>1, <1>2 DEF IngInv, AnsInv, AnsweredOnce
<1>6. PassInv'
  BY <1>1, <1>2 DEF IngInv, PassInv, StoreInv, Checked
<1>7. TrueInv'
  BY <1>1 DEF IngInv, IngType, TrueInv, AnswersTrue, StatusTrue
<1> QED BY <1>3, <1>4, <1>5, <1>6, <1>7 DEF IngInv

\* The head of the writer's batch.
LEMMA WriterHead ==
  ASSUME IngInv, wb # <<>>, wb' = Tail(wb)
  PROVE  LET x == Head(wb) IN
         /\ x \in WMsg /\ wb' \in Seq(WMsg) /\ Uniq(wb') /\ InV' \subseteq InV
         /\ x.type # "CloseConn" =>
              /\ InV = InV' \cup {x.msg} /\ x.msg \notin InV'
              /\ x.msg \in DOMAIN msgs /\ answers[x.msg] = <<>> /\ Checked(x.msg)
              /\ x.msg \notin InW \cup InP
              /\ \A d \in Conns : x.msg \notin InQ(d) \cup InB(d) \cup InO(d)
<1>1. wb \in Seq(WMsg) /\ Uniq(wb)
  BY DEF IngInv, IngType, PlaceInv
<1>2. /\ Head(wb) \in WMsg /\ Tail(wb) \in Seq(WMsg)
      /\ EvIn(wb) = EvIn(Tail(wb)) \cup (IF Head(wb).type # "CloseConn" THEN {Head(wb).msg} ELSE {})
      /\ Uniq(Tail(wb))
      /\ Head(wb).type # "CloseConn" => Head(wb).msg \notin EvIn(Tail(wb))
  BY <1>1, TakeFirst
<1>3. InV' = EvIn(Tail(wb)) /\ InV = EvIn(wb)
  BY DEF InV
<1>4. ASSUME Head(wb).type # "CloseConn"
      PROVE  /\ InV = InV' \cup {Head(wb).msg} /\ Head(wb).msg \notin InV'
             /\ Head(wb).msg \in DOMAIN msgs /\ answers[Head(wb).msg] = <<>> /\ Checked(Head(wb).msg)
             /\ Head(wb).msg \notin InW \cup InP
             /\ \A d \in Conns : Head(wb).msg \notin InQ(d) \cup InB(d) \cup InO(d)
  <2>1. /\ InV = InV' \cup {Head(wb).msg} /\ Head(wb).msg \notin InV'
    BY <1>2, <1>3, <1>4
  <2>2. PICK m : m = Head(wb).msg
    OBVIOUS
  <2>3. m \in InV
    BY <2>1, <2>2
  <2>4. /\ m \in DOMAIN msgs /\ answers[m] = <<>> /\ Checked(m) /\ m \notin InW \cup InP
        /\ \A d \in Conns : m \notin InQ(d) \cup InB(d) \cup InO(d)
    BY <2>3 DEF IngInv, PlaceInv, AnsInv, PassInv
  <2> QED BY <2>1, <2>2, <2>4
<1> QED BY <1>2, <1>3, <1>4

\* An event of a closed connection is dropped and stays without an answer.
LEMMA SkipInv ==
  ASSUME IngInv, Skip
  PROVE  IngInv'
<1> USE DEF ingester, txn, store
<1>1. /\ wb # <<>> /\ wb' = Tail(wb)
      /\ UNCHANGED <<msgs, answers, iq, ib, isnap, ipc, iout, wq, wpc, proc, status, wdb, written, db, ever, removed, accepted>>
  BY DEF Skip
<1>2. wb' \in Seq(WMsg) /\ Uniq(wb') /\ InV' \subseteq InV
  BY <1>1, WriterHead
<1>3. /\ InW' = InW /\ InP' = InP
      /\ \A d \in Conns : InQ(d)' = InQ(d) /\ InB(d)' = InB(d) /\ InO(d)' = InO(d)
  BY <1>1 DEF InQ, InB, InO, InW, InP
<1>4. IngType'
  BY <1>1, <1>2 DEF IngInv, IngType
<1>5. PlaceInv'
  BY <1>1, <1>2, <1>3 DEF IngInv, PlaceInv
<1>6. AnsInv'
  BY <1>1, <1>2, <1>3 DEF IngInv, AnsInv, AnsweredOnce
<1>7. PassInv'
  BY <1>1, <1>2, <1>3 DEF IngInv, PassInv, StoreInv, Checked
<1>8. TrueInv'
  BY <1>1 DEF IngInv, TrueInv, AnswersTrue, StatusTrue, Ev
<1> QED BY <1>4, <1>5, <1>6, <1>7, <1>8 DEF IngInv

\* An event the policy accepts joins the batch to write.
LEMMA AcceptInv ==
  ASSUME IngInv, Accept
  PROVE  IngInv'
<1> USE DEF ingester, txn, store
<1> DEFINE m == Head(wb).msg
<1>1. /\ wb # <<>> /\ wb' = Tail(wb) /\ proc' = Append(proc, m) /\ wpc = "plugin"
      /\ accepted' = accepted \cup {msgs[m].ev} /\ Head(wb).type # "CloseConn"
      /\ UNCHANGED <<msgs, answers, iq, ib, isnap, ipc, iout, wq, wpc, status, wdb, written, db, ever, removed>>
  BY DEF Accept, Filtered
<1>2. /\ wb' \in Seq(WMsg) /\ Uniq(wb') /\ m \in Nat
      /\ InV = InV' \cup {m} /\ m \notin InV'
      /\ m \in DOMAIN msgs /\ answers[m] = <<>> /\ Checked(m) /\ m \notin InW \cup InP
      /\ \A d \in Conns : m \notin InQ(d) \cup InB(d) \cup InO(d)
  BY <1>1, WriterHead DEF WMsg
<1> HIDE DEF m
<1>3. /\ proc' \in Seq(Nat) /\ NoRepeat(proc') /\ InP' = InP \cup {m}
  <2>1. proc \in Seq(Nat) /\ NoRepeat(proc) /\ m \notin {proc[i] : i \in DOMAIN proc}
    BY <1>2 DEF IngInv, IngType, PlaceInv, InP
  <2>2. /\ Append(proc, m) \in Seq(Nat) /\ NoRepeat(Append(proc, m))
        /\ {Append(proc, m)[i] : i \in DOMAIN Append(proc, m)} = {proc[i] : i \in DOMAIN proc} \cup {m}
    BY <1>2, <2>1, PutProc, Zenon
  <2> QED BY <1>1, <2>2 DEF InP
<1>4. /\ InW' = InW
      /\ \A d \in Conns : InQ(d)' = InQ(d) /\ InB(d)' = InB(d) /\ InO(d)' = InO(d)
  BY <1>1 DEF InQ, InB, InO, InW
<1>5. IngType'
  BY <1>1, <1>2, <1>3 DEF IngInv, IngType
<1>6. PlaceInv'
  <2>1. /\ InW' \cup InV' \cup InP' = InW \cup InV \cup InP
    BY <1>2, <1>3, <1>4
  <2>2. InW' \cap (InV' \cup InP') = {} /\ InV' \cap InP' = {}
    BY <1>2, <1>3, <1>4 DEF IngInv, PlaceInv
  <2> QED BY <1>1, <1>2, <1>3, <1>4, <2>1, <2>2 DEF IngInv, PlaceInv
<1>7. AnsInv'
  BY <1>1, <1>2, <1>3, <1>4 DEF IngInv, AnsInv, AnsweredOnce
<1>8. PassInv'
  <2>1. \A n \in InP' : msgs[n].ev \in accepted'
    BY <1>1, <1>3 DEF IngInv, PassInv
  <2>2. \A n \in InW' \cup InV' \cup InP' : Checked(n)
    BY <1>2, <1>3, <1>4 DEF IngInv, PassInv
  <2> QED BY <1>1, <1>4, <2>1, <2>2 DEF IngInv, PassInv, StoreInv, Checked
<1>9. TrueInv'
  BY <1>1 DEF IngInv, IngType, TrueInv, AnswersTrue, StatusTrue
<1> QED BY <1>5, <1>6, <1>7, <1>8, <1>9 DEF IngInv

\* An event the policy rejects is answered, and not written.
LEMMA RejectInv ==
  ASSUME IngInv, NEW shadow \in BOOLEAN, Reject(shadow)
  PROVE  IngInv'
<1> USE DEF ingester, txn, store
<1> DEFINE m == Head(wb).msg
<1>1. /\ wb # <<>> /\ wb' = Tail(wb) /\ Answer(m, shadow, "plugin") /\ Head(wb).type # "CloseConn"
      /\ UNCHANGED <<msgs, iq, ib, isnap, ipc, iout, wq, wpc, proc, status, wdb, written, db, ever, removed, accepted>>
  BY DEF Reject, Filtered
<1>2. /\ wb' \in Seq(WMsg) /\ Uniq(wb')
      /\ InV = InV' \cup {m} /\ m \notin InV'
      /\ m \in DOMAIN msgs /\ answers[m] = <<>> /\ m \notin InW \cup InP
      /\ \A d \in Conns : m \notin InQ(d) \cup InB(d) \cup InO(d)
  BY <1>1, WriterHead
<1> HIDE DEF m
<1>3. /\ answers' \in Seq(Seq(Reply)) /\ Len(answers') = Len(msgs')
      /\ AnsweredOnce' /\ AnswersTrue'
      /\ \A n \in DOMAIN msgs : n # m => answers'[n] = answers[n]
  BY <1>1, <1>2, FirstAnswer DEF Whys
<1>4. /\ InW' = InW /\ InP' = InP /\ InV' \subseteq InV
      /\ \A d \in Conns : InQ(d)' = InQ(d) /\ InB(d)' = InB(d) /\ InO(d)' = InO(d)
  BY <1>1, <1>2 DEF InQ, InB, InO, InW, InP
<1>5. IngType'
  BY <1>1, <1>2, <1>3 DEF IngInv, IngType
<1>6. PlaceInv'
  BY <1>1, <1>2, <1>4 DEF IngInv, PlaceInv
<1>7. AnsInv'
  <2>1. \A d \in Conns : \A n \in InQ(d) \cup InB(d) \cup InO(d) : n \in DOMAIN msgs /\ n # m /\ answers[n] = <<>>
    BY <1>2 DEF IngInv, PlaceInv, AnsInv
  <2>2. \A n \in InW' \cup InV' \cup InP' : n \in DOMAIN msgs /\ n # m /\ answers[n] = <<>>
    BY <1>2, <1>4 DEF IngInv, PlaceInv, AnsInv
  <2> QED BY <1>3, <1>4, <2>1, <2>2 DEF AnsInv
<1>8. PassInv'
  BY <1>1, <1>4 DEF IngInv, PassInv, StoreInv, Checked
<1>9. StatusTrue'
  BY <1>1 DEF IngInv, TrueInv, StatusTrue, Ev
<1> QED BY <1>3, <1>5, <1>6, <1>7, <1>8, <1>9 DEF IngInv, TrueInv

\* The elements of a sequence over S are in S.
LEMMA InSeq ==
  ASSUME NEW S, NEW s \in Seq(S), NEW i \in DOMAIN s
  PROVE  s[i] \in S
OBVIOUS

\* More events are known when more are stored.
LEMMA KnownGrows ==
  ASSUME NEW S, NEW T, S \subseteq T
  PROVE  BeatenBy(S) \subseteq BeatenBy(T) /\ Known(S) \subseteq Known(T)
BY DEF BeatenBy, Known

\* The events of the batch to write have passed the checks and the plugin.
LEMMA BatchEvents ==
  ASSUME IngInv, NEW i \in DOMAIN proc
  PROVE  Ev(i) \in Events /\ Ev(i) \in accepted \ (Invalid \cup Protected)
<1>1. proc[i] \in InP
  BY DEF InP
<1>2. proc[i] \in DOMAIN msgs /\ Checked(proc[i]) /\ msgs[proc[i]].ev \in accepted
  BY <1>1 DEF IngInv, PlaceInv, PassInv
<1>3. PICK n \in DOMAIN msgs : n = proc[i]
  BY <1>2
<1>4. msgs \in Seq([conn : Conns, ev : Events])
  BY DEF IngInv, IngType
<1>5. PICK r \in [conn : Conns, ev : Events] : r = msgs[n]
  <2>1. msgs[n] \in [conn : Conns, ev : Events]
    BY <1>3, <1>4, InSeq, Zenon
  <2> QED BY <2>1, Zenon
<1>6. r.ev \in Events
  OBVIOUS
<1> QED BY <1>2, <1>3, <1>5, <1>6 DEF Ev, Checked

\* Steps of a transaction leave the messages where they are.
LEMMA Transact ==
  ASSUME IngInv, UNCHANGED <<msgs, answers, iq, ib, isnap, ipc, iout, wq, wb, proc, accepted>>,
         ever \subseteq ever', ever' \cup written' \subseteq Events,
         ever' \cup written' \subseteq accepted \ (Invalid \cup Protected),
         wpc' \in {"wait", "plugin", "write", "respond"},
         status' \in [DOMAIN status' -> Whys], DOMAIN status' \subseteq DOMAIN proc,
         wpc' \in {"wait", "plugin"} => DOMAIN status' = {},
         wpc' = "respond" => DOMAIN status' = DOMAIN proc,
         StoreInv', StatusTrue'
  PROVE  IngInv'
<1>1. IngType'
  BY DEF IngInv, IngType
<1>2. /\ InW' = InW /\ InP' = InP /\ InV' = InV
      /\ \A d \in Conns : InQ(d)' = InQ(d) /\ InB(d)' = InB(d) /\ InO(d)' = InO(d)
  BY DEF InQ, InB, InO, InW, InP, InV
<1>3. PlaceInv'
  BY <1>2 DEF IngInv, PlaceInv
<1>4. AnsInv'
  BY <1>2 DEF IngInv, AnsInv, AnsweredOnce
<1>5. PassInv'
  BY <1>2 DEF IngInv, PassInv, Checked
<1>6. AnswersTrue'
  <2>1. Known(ever) \subseteq Known(ever')
    BY KnownGrows
  <2> QED BY <2>1 DEF IngInv, TrueInv, AnswersTrue
<1> QED BY <1>1, <1>3, <1>4, <1>5, <1>6 DEF IngInv, TrueInv

\* A removal by others is accounted for, and a true answer stays true.
LEMMA RemoveEventInv ==
  ASSUME IngInv, NEW ev \in Events, RemoveEvent(ev)
  PROVE  IngInv'
<1> USE DEF ingester, writer, txn
<1>1. /\ wpc # "write" /\ db' = db \ {ev} /\ removed' = removed \cup {ev}
      /\ UNCHANGED <<msgs, answers, iq, ib, isnap, ipc, iout, wq, wb, wpc, proc, status, wdb,
                     written, ever, accepted>>
  BY DEF RemoveEvent
<1>2. StoreInv'
  BY <1>1 DEF IngInv, PassInv, StoreInv
<1>3. StatusTrue'
  BY <1>1 DEF IngInv, TrueInv, StatusTrue, Ev
<1> QED BY <1>1, <1>2, <1>3, Transact DEF IngInv, IngType, PassInv

\* The transaction sees what is stored.
LEMMA BeginWriteInv ==
  ASSUME IngInv, BeginWrite
  PROVE  IngInv'
<1> USE DEF ingester, store
<1>1. /\ wpc = "plugin" /\ wdb' = db /\ wpc' = "write"
      /\ UNCHANGED <<msgs, answers, iq, ib, isnap, ipc, iout, wq, wb, proc, status, written,
                     db, ever, removed, accepted>>
  BY DEF BeginWrite
<1>2. StoreInv'
  BY <1>1 DEF IngInv, PassInv, StoreInv
<1>3. StatusTrue'
  BY <1>1 DEF IngInv, IngType, StatusTrue
<1> QED BY <1>1, <1>2, <1>3, Transact DEF IngInv, IngType, PassInv

\* One event of the batch: it is there, or beaten by one that is, or inserted,
\* and what it removes is beaten by it.
LEMMA WriteEventInv ==
  ASSUME IngInv, NEW i \in DOMAIN proc, WriteEvent(i)
  PROVE  IngInv'
<1> USE DEF ingester, store
<1> DEFINE e == Ev(i)
           st == StatusOf(i)
<1>1. /\ wpc = "write" /\ wpc' = "write" /\ i \notin DOMAIN status
      /\ UNCHANGED <<msgs, answers, iq, ib, isnap, ipc, iout, wq, wb, proc, db, ever, removed,
                     accepted>>
  BY DEF WriteEvent, NextUp
<1>2. /\ DOMAIN status' = DOMAIN status \cup {i} /\ status'[i] = st
      /\ \A j \in DOMAIN status : status'[j] = status[j]
      /\ status' \in [DOMAIN status' -> Whys]
  <2>1. status' = [j \in DOMAIN status \cup {i} |-> IF j = i THEN st ELSE status[j]]
    BY DEF WriteEvent
  <2>2. st \in Whys /\ \A j \in DOMAIN status : status[j] \in Whys
    BY DEF StatusOf, Whys, IngInv, IngType
  <2> HIDE DEF st
  <2> QED BY <1>1, <2>1, <2>2
<1>3. e \in Events /\ e \in accepted \ (Invalid \cup Protected)
  BY BatchEvents
<1>4. /\ wdb \subseteq ever \cup written
      /\ db \cup written \subseteq wdb \cup BeatenBy(ever \cup written)
      /\ \A j \in DOMAIN status : Ev(j) \in Known(ever \cup written)
  BY <1>1 DEF IngInv, PassInv, StoreInv, TrueInv, StatusTrue
<1>5. IF st = "Written" THEN wdb' = (wdb \cup {e}) \ Beats[e] /\ written' = written \cup {e}
                        ELSE wdb' = wdb /\ written' = written
  BY DEF WriteEvent
<1>6. e \in Known(ever \cup written')
  <2>1. CASE st = "Written"
    BY <1>5, <2>1 DEF Known
  <2>2. CASE st # "Written"
    <3>1. e \in wdb \/ (\E j \in DOMAIN status : Ev(j) = e) \/ (\E x \in wdb : e \in Beats[x])
      BY <2>2 DEF StatusOf
    <3>2. ASSUME NEW x \in wdb, e \in Beats[x] PROVE e \in BeatenBy(ever \cup written)
      BY <1>4, <3>2 DEF BeatenBy
    <3> HIDE DEF e
    <3> QED BY <1>4, <1>5, <2>2, <3>1, <3>2 DEF Known
  <2> QED BY <2>1, <2>2
<1> HIDE DEF e, st
<1>7. written \subseteq written' /\ Known(ever \cup written) \subseteq Known(ever \cup written')
  <2>1. written \subseteq written'
    BY <1>5
  <2> QED BY <2>1, KnownGrows
<1>8. StoreInv'
  <2>1. wdb' \subseteq ever \cup written'
    BY <1>4, <1>5
  <2>2. db \cup written' \subseteq wdb' \cup BeatenBy(ever \cup written')
    <3>1. BeatenBy(ever \cup written) \subseteq BeatenBy(ever \cup written')
      BY <1>7, KnownGrows
    <3>2. CASE st = "Written"
      <4>1. e \notin Beats[e] /\ Beats[e] \subseteq BeatenBy(ever \cup written')
        BY <1>3, <1>5, <3>2, IngressAssumption DEF BeatenBy
      <4> QED BY <1>4, <1>5, <3>1, <3>2, <4>1
    <3>3. CASE st # "Written"
      BY <1>4, <1>5, <3>1, <3>3
    <3> QED BY <3>2, <3>3
  <2> QED BY <1>1, <2>1, <2>2 DEF IngInv, PassInv, StoreInv
<1>9. StatusTrue'
  <2>1. \A j : Ev(j)' = Ev(j)
    BY <1>1 DEF Ev
  <2>2. ASSUME NEW j \in DOMAIN status' PROVE Ev(j) \in Known(ever \cup written')
    BY <1>2, <1>4, <1>6, <1>7 DEF e
  <2> QED BY <1>1, <2>1, <2>2 DEF StatusTrue
<1>10. /\ ever' \cup written' \subseteq Events
       /\ ever' \cup written' \subseteq accepted \ (Invalid \cup Protected)
  BY <1>1, <1>3, <1>5 DEF IngInv, IngType, PassInv
<1> QED BY <1>1, <1>2, <1>8, <1>9, <1>10, Transact DEF IngInv, IngType

\* The commit makes the transaction's view the database.
LEMMA CommitInv ==
  ASSUME IngInv, Commit
  PROVE  IngInv'
<1> USE DEF ingester
<1>1. /\ wpc = "write" /\ wpc' = "respond" /\ DOMAIN status = DOMAIN proc
      /\ db' = wdb /\ ever' = ever \cup written /\ removed' = removed \ written
      /\ written' = {}
      /\ UNCHANGED <<msgs, answers, iq, ib, isnap, ipc, iout, wq, wb, proc, status, accepted>>
  BY DEF Commit
<1>2. /\ wdb \subseteq ever \cup written
      /\ db \cup written \subseteq wdb \cup BeatenBy(ever \cup written)
      /\ ever \subseteq db \cup removed \cup BeatenBy(ever)
      /\ BeatenBy(ever) \subseteq BeatenBy(ever \cup written)
  BY <1>1, KnownGrows DEF IngInv, PassInv, StoreInv
<1>3. StoreInv'
  BY <1>1, <1>2 DEF StoreInv
<1>4. StatusTrue'
  <2>1. ever' \cup written' = ever \cup written
    BY <1>1
  <2>2. \A i \in DOMAIN status : Ev(i) \in Known(ever \cup written)
    BY <1>1 DEF IngInv, TrueInv, StatusTrue
  <2>3. \A i : Ev(i)' = Ev(i)
    BY <1>1 DEF Ev
  <2> QED BY <1>1, <2>1, <2>2, <2>3 DEF StatusTrue
<1>5. /\ ever' \cup written' \subseteq Events
      /\ ever' \cup written' \subseteq accepted \ (Invalid \cup Protected)
  BY <1>1 DEF IngInv, IngType, PassInv
<1> QED BY <1>1, <1>3, <1>4, <1>5, Transact DEF IngInv, IngType

\* A write that throws: each event of the batch is answered false, none is
\* stored.
LEMMA WriteFailsInv ==
  ASSUME IngInv, WriteFails
  PROVE  IngInv'
<1> USE DEF ingester, store
<1>1. /\ status' = [i \in DOMAIN proc |-> "error"] /\ wpc' = "respond" /\ written' = {}
      /\ UNCHANGED <<msgs, answers, iq, ib, isnap, ipc, iout, wq, wb, proc, db, ever, removed,
                     accepted>>
  BY DEF WriteFails
<1>2. /\ status' \in [DOMAIN status' -> Whys] /\ DOMAIN status' = DOMAIN proc
      /\ \A i \in DOMAIN proc : status'[i] = "error"
  BY <1>1 DEF Whys
<1>3. StoreInv'
  BY <1>1 DEF IngInv, PassInv, StoreInv
<1>4. StatusTrue'
  BY <1>1, <1>2 DEF StatusTrue
<1> QED BY <1>1, <1>2, <1>3, <1>4, Transact DEF IngInv, IngType, PassInv

\* Each message of the batch gets one answer, the others none.
LEMMA RespondInv ==
  ASSUME IngInv, Respond
  PROVE  IngInv'
<1> USE DEF ingester, txn, store
<1> DEFINE P(m) == {j \in DOMAIN proc : proc[j] = m}
           A(m) == [i \in 1..Cardinality(P(m)) |->
                      LET why == status[CHOOSE j \in DOMAIN proc : proc[j] = m]
                      IN  [ok |-> why \in {"Written", "Duplicate"}, why |-> why]]
<1>1. /\ answers' = [m \in DOMAIN answers |-> answers[m] \o A(m)]
      /\ proc' = <<>> /\ status' = <<>> /\ wpc' = "wait" /\ wpc = "respond"
      /\ UNCHANGED <<msgs, iq, ib, isnap, ipc, iout, wq, wb, wdb, written, db, ever, removed,
                     accepted>>
  BY DEF Respond
<1>2. /\ answers \in Seq(Seq(Reply)) /\ Len(answers) = Len(msgs) /\ DOMAIN answers = DOMAIN msgs
      /\ NoRepeat(proc) /\ status \in [DOMAIN proc -> Whys] /\ StatusTrue /\ AnswersTrue
      /\ ever \cup written = ever
  BY <1>1 DEF IngInv, IngType, PlaceInv, PassInv, StoreInv, TrueInv
<1>3. ASSUME NEW m \in DOMAIN answers, m \notin InP PROVE answers'[m] = answers[m]
  <2>1. P(m) = {}
    BY <1>3 DEF InP
  <2>2. Cardinality(P(m)) = 0
    BY <2>1, FS_EmptySet
  <2> HIDE DEF P
  <2>3. A(m) = <<>>
    BY <2>2
  <2> HIDE DEF A
  <2> QED BY <1>1, <1>2, <2>3
<1>4. ASSUME NEW m \in DOMAIN answers, m \in InP
      PROVE  /\ answers'[m] \in Seq(Reply) /\ Len(answers'[m]) = 1 /\ DOMAIN answers'[m] = {1}
             /\ answers'[m][1].ok => msgs[m].ev \in Known(ever)
  <2>1. PICK j \in DOMAIN proc : proc[j] = m
    BY <1>4 DEF InP
  <2>2. P(m) = {j} /\ (CHOOSE k \in DOMAIN proc : proc[k] = m) = j
    BY <1>2, <2>1 DEF NoRepeat
  <2>3. Cardinality(P(m)) = 1
    BY <2>2, FS_Singleton
  <2> DEFINE a == [ok |-> status[j] \in {"Written", "Duplicate"}, why |-> status[j]]
  <2>4. A(m) = [i \in 1..1 |-> a]
    BY <2>2, <2>3, Zenon
  <2>5. a \in Reply /\ (a.ok => status[j] \in {"Written", "Duplicate"})
    <3>1. PICK w \in Whys : w = status[j]
      BY <1>2
    <3>2. CASE w \in {"Written", "Duplicate"}
      <4>1. a = [ok |-> TRUE, why |-> w]
        BY <3>1, <3>2, Zenon
      <4>2. [ok |-> TRUE, why |-> w] \in Reply
        BY DEF Reply
      <4> QED BY <3>1, <3>2, <4>1, <4>2, Zenon
    <3>3. CASE w \notin {"Written", "Duplicate"}
      <4>1. a = [ok |-> FALSE, why |-> w]
        <5>1. (status[j] \in {"Written", "Duplicate"}) = FALSE
          BY <3>1, <3>3
        <5> QED BY <3>1, <5>1, Zenon
      <4>2. [ok |-> FALSE, why |-> w] \in Reply /\ [ok |-> FALSE, why |-> w].ok = FALSE
        BY DEF Reply
      <4> QED BY <4>1, <4>2, Zenon
    <3> QED BY <3>2, <3>3
  <2>6. answers[m] = <<>>
    BY <1>4 DEF IngInv, AnsInv
  <2>7. answers'[m] = <<>> \o [i \in 1..1 |-> a]
    BY <1>1, <1>4, <2>4, <2>6, Zenon
  <2>8. a.ok => msgs[m].ev \in Known(ever)
    BY <1>1, <1>2, <2>1, <2>5 DEF StatusTrue, Ev
  <2> HIDE DEF a
  <2>9. /\ <<>> \o [i \in 1..1 |-> a] \in Seq(Reply) /\ Len(<<>> \o [i \in 1..1 |-> a]) = 1
        /\ DOMAIN (<<>> \o [i \in 1..1 |-> a]) = {1} /\ (<<>> \o [i \in 1..1 |-> a])[1] = a
    BY <2>5
  <2> QED BY <2>7, <2>8, <2>9, Zenon
<1> HIDE DEF A
<1>5. /\ InW' = InW /\ InP' = {} /\ InV' = InV /\ NoRepeat(proc')
      /\ \A d \in Conns : InQ(d)' = InQ(d) /\ InB(d)' = InB(d) /\ InO(d)' = InO(d)
  BY <1>1, EmptyQueue DEF InQ, InB, InO, InW, InP, InV
<1>6. DOMAIN answers' = DOMAIN answers /\ \A m \in DOMAIN answers : answers'[m] \in Seq(Reply)
  <2>1. DOMAIN answers' = DOMAIN answers
    BY <1>1
  <2>2. ASSUME NEW m \in DOMAIN answers PROVE answers'[m] \in Seq(Reply)
    <3>1. answers[m] \in Seq(Reply)
      BY <1>2
    <3> QED BY <1>3, <1>4, <3>1, <2>2, Zenon
  <2> QED BY <2>1, <2>2
<1>7. answers' \in Seq(Seq(Reply)) /\ Len(answers') = Len(answers)
  <2>1. PICK n \in Nat : n = Len(answers) /\ DOMAIN answers = 1..n
    <3>1. Len(answers) \in Nat /\ DOMAIN answers = 1..Len(answers)
      BY <1>2
    <3> QED BY <3>1, Zenon
  <2>2. answers' = [m \in 1..n |-> answers'[m]]
    BY <1>1, <2>1
  <2>3. \A m \in 1..n : answers'[m] \in Seq(Reply)
    BY <1>6, <2>1
  <2>4. answers' \in [1..n -> Seq(Reply)]
    BY <2>2, <2>3
  <2>5. answers' \in Seq(Seq(Reply)) /\ Len(answers') = n
    BY <2>4
  <2> QED BY <2>1, <2>5
<1>8. IngType'
  BY <1>1, <1>2, <1>7 DEF IngInv, IngType
<1>9. PlaceInv'
  BY <1>1, <1>5 DEF IngInv, PlaceInv
<1>10. AnsInv'
  <2>1. AnsweredOnce'
    <3> SUFFICES ASSUME NEW m \in DOMAIN answers' PROVE Len(answers'[m]) <= 1
      BY DEF AnsweredOnce
    <3>1. CASE m \in InP
      <4>1. Len(answers'[m]) = 1
        BY <1>4, <1>6, <3>1
      <4> QED BY <4>1
    <3>2. CASE m \notin InP
      <4>1. answers'[m] = answers[m] /\ Len(answers[m]) <= 1
        BY <1>3, <1>6, <3>2 DEF IngInv, AnsInv, AnsweredOnce
      <4> QED BY <4>1
    <3> QED BY <3>1, <3>2
  <2>2. \A d \in Conns : \A m \in InQ(d) \cup InB(d) \cup InO(d) :
          m \in DOMAIN answers /\ m \notin InP /\ answers[m] = <<>>
    BY <1>2 DEF IngInv, PlaceInv, AnsInv
  <2>3. \A m \in InW \cup InV : m \in DOMAIN answers /\ m \notin InP /\ answers[m] = <<>>
    BY <1>2 DEF IngInv, PlaceInv, AnsInv
  <2> QED BY <1>3, <1>5, <2>1, <2>2, <2>3 DEF AnsInv
<1>11. PassInv'
  BY <1>1, <1>5 DEF IngInv, PassInv, StoreInv, Checked
<1>12. AnswersTrue'
  <2> SUFFICES ASSUME NEW m \in DOMAIN answers', NEW i \in DOMAIN answers'[m],
                      answers'[m][i].ok, answers'[m][i].why # "plugin"
               PROVE  msgs[m].ev \in Known(ever)
    BY <1>1 DEF AnswersTrue
  <2>1. CASE m \in InP
    <3>1. i = 1
      BY <1>4, <1>6, <2>1
    <3> QED BY <1>4, <1>6, <2>1, <3>1
  <2>2. CASE m \notin InP
    <3>1. answers'[m] = answers[m]
      BY <1>3, <1>6, <2>2
    <3> QED BY <1>2, <1>6, <3>1 DEF AnswersTrue
  <2> QED BY <2>1, <2>2
<1>13. StatusTrue'
  BY <1>1 DEF StatusTrue
<1> QED BY <1>8, <1>9, <1>10, <1>11, <1>12, <1>13 DEF IngInv, TrueInv

\* IngInv is inductive: one case per action.
LEMMA NextInv == IngInv /\ [Next]_vars => IngInv'
<1> SUFFICES ASSUME IngInv, [Next]_vars PROVE IngInv'
  OBVIOUS
<1> USE DEF ingester, writer, txn, store, env
<1>1. CASE UNCHANGED vars
  BY <1>1, Untouched DEF vars
<1>2. CASE Toggle
  BY <1>2, Untouched DEF Toggle
<1>3. CASE NothingToWrite
  BY <1>3, Untouched DEF NothingToWrite
<1>4. ASSUME NEW c \in Conns, IngesterStep(c) PROVE IngInv'
  BY <1>4, IngesterPopInv, IngestEventInv, IngestCloseInv, IngestDispatchInv DEF IngesterStep
<1>5. CASE WriterStep
  BY <1>3, <1>5, WriterPopInv, SkipInv, AcceptInv, RejectInv, BeginWriteInv,
     WriteEventInv, CommitInv, WriteFailsInv, RespondInv DEF WriterStep
<1> QED BY <1>1, <1>2, <1>4, <1>5, ReceiveInv, DisconnectInv, RemoveEventInv DEF Next

\* The inductive invariant of the path of an EVENT holds always.
LEMMA IngInvariant == Spec => []IngInv
<1>1. Init /\ [][Next]_vars => []IngInv
  BY InitInv, NextInv, PTL
<1> QED BY <1>1, PTL DEF Spec

-----------------------------------------------------------------------------
(* The theorems *)

\* However an EVENT message travels through the ingester, the plugin, the
\* writer's batch and a failing transaction, it is answered at most once.
THEOREM AnsweredOnceTheorem == Spec => []AnsweredOnce
<1>1. IngInv => AnsweredOnce
  BY DEF IngInv, AnsInv
<1> QED BY <1>1, IngInvariant, PTL

\* An OK with true means that the event is stored, unless the plugin asked for
\* that answer, an event that was stored superseded or deleted it, a later one of
\* its own batch included, or others removed it; nothing is ever stored that has
\* not passed every check and the plugin.
THEOREM OkTruthfulTheorem == Spec => []OkTruthful
<1>1. IngInv => OkTruthful
  BY DEF IngInv, TrueInv, AnswersTrue, PassInv, StoreInv, Known, BeatenBy, Beaten, OkTruthful
<1> QED BY <1>1, IngInvariant, PTL
=============================================================================
