---------------------------- MODULE ServerProofs ----------------------------
(***************************************************************************)
(* Proofs about Server for any workers, listeners, callers and             *)
(* connections and any bounds on what goes wrong: an accepted connection   *)
(* is in one place until it is dealt with.                                 *)
(***************************************************************************)
EXTENDS Server, TLAPS, SequenceTheorems, FiniteSetTheorems

USE ServerAssumption DEF ServerAssumption

-----------------------------------------------------------------------------
(* The inductive invariant. *)

RunType ==
  [pc : {"none", "creating", "run", "calling", "recreating", "retrying", "stopping", "ending", "gone"},
   status : {"Available", "Unavailable", "Failed"}, news : BOOLEAN, open : BOOLEAN,
   queue : Seq(Conns), call : Conns \cup {NoConn}, stop : BOOLEAN, ready : BOOLEAN]

CmdType ==
  [op : {"item"}, arg : Conns] \cup [op : {"available", "unavailable"}, arg : Runs]
  \cup [op : {"stop", "notify"}, arg : Callers] \cup [op : {"pause", "resume"}, arg : {NoConn}]

MgrType ==
  [paused : BOOLEAN, available : BOOLEAN, started : BOOLEAN, stopping : BOOLEAN, stopped : BOOLEAN,
   routed : SUBSET Runs, running : SUBSET Runs, backlog : Seq(Conns), cmds : Seq(CmdType),
   open : BOOLEAN, pc : {"loop", "drain", "take", "move", "gone"},
   stage : {"none", "accept", "workers", "done"}, stopper : {"none", "loop", "monitor"},
   notify : SUBSET Callers, blocked : SUBSET Runs, moving : Seq(Conns)]

MonType == [pc : {"check", "wait", "sleep", "stopper", "gone"}, run : 0..MaxRuns]

AccType ==
  [pc : {"accept", "dispatch", "enqueue", "drain", "gone"}, todo : SUBSET Listeners,
   from : {"accept", "drain"}, cur : Conns \cup {NoConn}, bp : BOOLEAN, backlog : Seq(Conns),
   cmds : Seq({"stop", "terminate", "pause", "resume", "timer"}), token : BOOLEAN]

LstType == [armed : BOOLEAN, timeout : BOOLEAN, timers : Nat, pending : SUBSET Conns]

FateType == {"new", "arrived", "accepted", "served", "lost", "dropped"}

TypeOK ==
  /\ wrk \in [Runs -> RunType] /\ fate \in [Conns -> FateType] /\ left \in Scenario
  /\ mgr \in MgrType /\ mon \in [Workers -> MonType]
  /\ asks \in [Callers -> {"idle", "waiting", "answered"}]
  /\ acc \in AccType /\ lst \in [Listeners -> LstType]

\* A worker has an item in hand exactly while its service is called, and the
\* accept loop while it submits one: what is taken next replaces nothing.
InHand ==
  /\ \A i \in Runs : wrk[i].call # NoConn <=> wrk[i].pc = "calling"
  /\ acc.cur # NoConn <=> acc.pc \in {"dispatch", "enqueue"}

\* The runs that are yet to start are as they were made.
Unstarted ==
  \A w \in Workers : \A n \in 0..MaxRuns : n > mon[w].run =>
    /\ wrk[<<w, n>>].pc = "none" /\ ~wrk[<<w, n>>].open
    /\ wrk[<<w, n>>].queue = <<>> /\ wrk[<<w, n>>].call = NoConn

\* A worker ends by a fault, or because the server stops; so there are enough
\* runs for the restarts.
Worn(r) == r.pc \in {"ending", "gone"}

Restarts ==
  /\ \A i \in Runs :
       /\ wrk[i].status = "Failed" => Worn(wrk[i])
       /\ wrk[i].stop \/ wrk[i].pc = "stopping" => mgr.stopping
  /\ mgr.stage # "none" => mgr.stopping
  /\ \A w \in Workers :
       /\ mon[w].run + left.faults <= MaxRuns
       /\ mon[w].pc = "sleep" => Worn(wrk[Watched(w)])
       /\ Worn(wrk[Watched(w)]) => mgr.stopping \/ mon[w].run + left.faults < MaxRuns

\* What a listener has pending has arrived, there and nowhere else.
Arrivals ==
  acc.pc # "gone" =>
    \A l \in Listeners : \A c \in lst[l].pending :
      fate[c] = "arrived" /\ \A k \in Listeners : c \in lst[k].pending => k = l

\* The contents of the places that hold connections, as sets.
Once(q) == \A n, k \in DOMAIN q : q[n] = q[k] => n = k

IsItem(x) == x.op = "item"
Items(q) == {q[n].arg : n \in {n \in DOMAIN q : IsItem(q[n])}}
ItemsOnce(q) == \A n, k \in DOMAIN q : IsItem(q[n]) /\ q[n] = q[k] => n = k

Hand(c) == {c} \ {NoConn}

Slots ==
  ({"queue", "call"} \X Runs) \cup ({"command", "moving", "backlog", "refused", "accept"} \X {0})

Held(ws, m, a) ==
  [s \in Slots |->
     CASE s[1] = "queue" -> ToSet(ws[s[2]].queue)
       [] s[1] = "call" -> Hand(ws[s[2]].call)
       [] s[1] = "command" -> Items(m.cmds)
       [] s[1] = "moving" -> ToSet(m.moving)
       [] s[1] = "backlog" -> ToSet(m.backlog)
       [] s[1] = "refused" -> ToSet(a.backlog)
       [] s[1] = "accept" -> Hand(a.cur)]

\* No connection is in two places, and exactly those that were accepted and not
\* yet dealt with are in one.
Exclusive(F) == \A s, t \in Slots : \A c \in F[s] : c \in F[t] => s = t
Somewhere(F, c) == \E s \in Slots : c \in F[s]
Accounted(F, f) == \A c \in Conns : f[c] = "accepted" <=> Somewhere(F, c)

\* No queue holds a connection twice.
Distinct(ws, m, a) ==
  /\ \A i \in Runs : Once(ws[i].queue)
  /\ ItemsOnce(m.cmds) /\ Once(m.moving) /\ Once(m.backlog) /\ Once(a.backlog)

Placement(ws, m, a, f) ==
  /\ Exclusive(Held(ws, m, a)) /\ Accounted(Held(ws, m, a), f) /\ Distinct(ws, m, a)
Placed == Placement(wrk, mgr, acc, fate)

ServerInv == TypeOK /\ InHand /\ Unstarted /\ Restarts /\ Arrivals /\ Placed

-----------------------------------------------------------------------------
(* Queues and their contents. *)

LEMMA RunsBounded == MaxRuns \in Nat /\ \A t \in Scenarios : t.faults <= MaxRuns
<1> DEFINE S == {t.faults : t \in Scenarios}
<1>1. PICK t \in Scenarios : \A u \in Scenarios : u.faults <= t.faults
  OBVIOUS
<1>2. t.faults \in S /\ (\A n \in S : n <= t.faults) /\ S \subseteq Nat
  BY <1>1 DEF Scenario
<1> HIDE DEF S
<1>3. Max(S) \in S /\ \A n \in S : Max(S) >= n
  BY <1>2 DEF Max
<1>4. MaxRuns = Max(S)
  BY DEF MaxRuns, S
<1>5. \A u \in Scenarios : u.faults \in S
  BY DEF S
<1> QED
  BY <1>2, <1>3, <1>4, <1>5

LEMMA EmptyQueue == ToSet(<<>>) = {} /\ Once(<<>>) /\ Items(<<>>) = {} /\ ItemsOnce(<<>>)
BY DEF ToSet, Once, Items, ItemsOnce

LEMMA Appended ==
  ASSUME NEW S, NEW q \in Seq(S), NEW x \in S
  PROVE  /\ ToSet(Append(q, x)) = ToSet(q) \cup {x}
         /\ Once(q) /\ x \notin ToSet(q) => Once(Append(q, x))
<1> DEFINE r == Append(q, x)
<1>1. /\ Len(q) \in Nat /\ DOMAIN q = 1..Len(q) /\ DOMAIN r = 1..(Len(q) + 1)
      /\ r[Len(q) + 1] = x /\ \A n \in 1..Len(q) : r[n] = q[n]
  BY AppendProperties, LenProperties
<1> HIDE DEF r
<1>2. ToSet(r) = ToSet(q) \cup {x}
  <2>1. ASSUME NEW y \in ToSet(r) PROVE y \in ToSet(q) \cup {x}
    <3>1. PICK n \in DOMAIN r : r[n] = y
      BY <2>1 DEF ToSet
    <3>2. CASE n = Len(q) + 1
      BY <3>1, <3>2, <1>1
    <3>3. CASE n \in DOMAIN q
      BY <3>1, <3>3, <1>1 DEF ToSet
    <3> QED
      BY <3>2, <3>3, <1>1
  <2>2. ASSUME NEW y \in ToSet(q) \cup {x} PROVE y \in ToSet(r)
    <3>1. CASE y = x
      BY <3>1, <1>1 DEF ToSet
    <3>2. CASE y \in ToSet(q)
      <4>1. PICK n \in DOMAIN q : q[n] = y
        BY <3>2 DEF ToSet
      <4> QED
        BY <4>1, <1>1 DEF ToSet
    <3> QED
      BY <2>2, <3>1, <3>2
  <2> QED
    BY <2>1, <2>2
<1>3. ASSUME Once(q), x \notin ToSet(q) PROVE Once(r)
  <2>1. \A n \in 1..Len(q) : r[n] # x
    BY <1>1, <1>3 DEF ToSet
  <2> QED
    BY <1>1, <1>3, <2>1 DEF Once
<1> QED
  BY <1>2, <1>3 DEF r

LEMMA Shortened ==
  ASSUME NEW S, NEW q \in Seq(S), q # <<>>
  PROVE  /\ Head(q) \in S /\ Tail(q) \in Seq(S) /\ Head(q) \in ToSet(q)
         /\ Once(q) => Once(Tail(q)) /\ ToSet(Tail(q)) = ToSet(q) \ {Head(q)}
<1> DEFINE r == Tail(q)
<1>1. /\ Len(q) \in Nat /\ Len(q) > 0 /\ DOMAIN q = 1..Len(q) /\ DOMAIN r = 1..(Len(q) - 1)
      /\ Head(q) = q[1] /\ r \in Seq(S) /\ \A n \in 1..(Len(q) - 1) : r[n] = q[n + 1]
  BY HeadTailProperties, LenProperties, EmptySeq
<1>2. Head(q) \in S /\ Head(q) \in ToSet(q)
  BY <1>1, ElementOfSeq DEF ToSet
<1> HIDE DEF r
<1>3. ASSUME Once(q) PROVE Once(r) /\ ToSet(r) = ToSet(q) \ {Head(q)}
  <2>1. Once(r)
    <3> SUFFICES ASSUME NEW n \in DOMAIN r, NEW k \in DOMAIN r, r[n] = r[k] PROVE n = k
      BY DEF Once
    <3>1. n + 1 \in DOMAIN q /\ k + 1 \in DOMAIN q /\ q[n + 1] = q[k + 1]
      BY <1>1
    <3>2. n + 1 = k + 1
      BY <3>1, <1>3 DEF Once
    <3> QED
      BY <3>2, <1>1
  <2>2. ASSUME NEW y \in ToSet(r) PROVE y \in ToSet(q) \ {Head(q)}
    <3>1. PICK n \in DOMAIN r : r[n] = y
      BY <2>2 DEF ToSet
    <3>2. n + 1 \in DOMAIN q /\ q[n + 1] = y /\ n + 1 # 1 /\ 1 \in DOMAIN q
      BY <3>1, <1>1
    <3> QED
      BY <3>2, <1>1, <1>3 DEF ToSet, Once
  <2>3. ASSUME NEW y \in ToSet(q) \ {Head(q)} PROVE y \in ToSet(r)
    <3>1. PICK n \in DOMAIN q : q[n] = y
      BY <2>3 DEF ToSet
    <3>2. n - 1 \in DOMAIN r /\ r[n - 1] = y
      BY <3>1, <1>1, <2>3
    <3> QED
      BY <3>2 DEF ToSet
  <2> QED
    BY <2>1, <2>2, <2>3
<1> QED
  BY <1>1, <1>2, <1>3 DEF r

LEMMA Joined ==
  ASSUME NEW S, NEW q \in Seq(S), NEW r \in Seq(S)
  PROVE  /\ q \o r \in Seq(S) /\ ToSet(q \o r) = ToSet(q) \cup ToSet(r)
         /\ Once(q) /\ Once(r) /\ ToSet(q) \cap ToSet(r) = {} => Once(q \o r)
<1> DEFINE b == q \o r
<1>1. /\ Len(q) \in Nat /\ Len(r) \in Nat /\ DOMAIN q = 1..Len(q) /\ DOMAIN r = 1..Len(r)
      /\ b \in Seq(S) /\ DOMAIN b = 1..(Len(q) + Len(r))
      /\ \A n \in 1..(Len(q) + Len(r)) : b[n] = IF n <= Len(q) THEN q[n] ELSE r[n - Len(q)]
  BY ConcatProperties, LenProperties
<1> HIDE DEF b
<1>2. ToSet(b) = ToSet(q) \cup ToSet(r)
  <2>1. ASSUME NEW y \in ToSet(b) PROVE y \in ToSet(q) \cup ToSet(r)
    <3>1. PICK n \in DOMAIN b : b[n] = y
      BY <2>1 DEF ToSet
    <3>2. CASE n <= Len(q)
      <4>1. n \in DOMAIN q /\ q[n] = y
        BY <3>1, <3>2, <1>1
      <4> QED
        BY <4>1 DEF ToSet
    <3>3. CASE ~(n <= Len(q))
      <4>1. n - Len(q) \in DOMAIN r /\ r[n - Len(q)] = y
        BY <3>1, <3>3, <1>1
      <4> QED
        BY <4>1 DEF ToSet
    <3> QED
      BY <3>2, <3>3
  <2>2. ASSUME NEW y \in ToSet(q) PROVE y \in ToSet(b)
    <3>1. PICK n \in DOMAIN q : q[n] = y
      BY <2>2 DEF ToSet
    <3>2. n \in DOMAIN b /\ b[n] = y
      BY <3>1, <1>1
    <3> QED
      BY <3>2 DEF ToSet
  <2>3. ASSUME NEW y \in ToSet(r) PROVE y \in ToSet(b)
    <3>1. PICK n \in DOMAIN r : r[n] = y
      BY <2>3 DEF ToSet
    <3>2. n + Len(q) \in DOMAIN b /\ b[n + Len(q)] = y
      BY <3>1, <1>1
    <3> QED
      BY <3>2 DEF ToSet
  <2> QED
    BY <2>1, <2>2, <2>3
<1>3. ASSUME Once(q), Once(r), ToSet(q) \cap ToSet(r) = {} PROVE Once(b)
  <2> SUFFICES ASSUME NEW n \in DOMAIN b, NEW k \in DOMAIN b, b[n] = b[k] PROVE n = k
    BY DEF Once
  <2>1. CASE n <= Len(q) /\ k <= Len(q)
    BY <1>1, <1>3, <2>1 DEF Once
  <2>2. CASE ~(n <= Len(q)) /\ ~(k <= Len(q))
    <3>1. n - Len(q) \in DOMAIN r /\ k - Len(q) \in DOMAIN r /\ r[n - Len(q)] = r[k - Len(q)]
      BY <1>1, <2>2
    <3>2. n - Len(q) = k - Len(q)
      BY <3>1, <1>3 DEF Once
    <3> QED
      BY <3>2, <1>1
  <2>3. CASE n <= Len(q) /\ ~(k <= Len(q))
    <3>1. n \in DOMAIN q /\ k - Len(q) \in DOMAIN r /\ q[n] = r[k - Len(q)]
      BY <1>1, <2>3
    <3> QED
      BY <3>1, <1>3 DEF ToSet
  <2>4. CASE ~(n <= Len(q)) /\ k <= Len(q)
    <3>1. k \in DOMAIN q /\ n - Len(q) \in DOMAIN r /\ q[k] = r[n - Len(q)]
      BY <1>1, <2>4
    <3> QED
      BY <3>1, <1>3 DEF ToSet
  <2> QED
    BY <2>1, <2>2, <2>3, <2>4
<1> QED
  BY <1>1, <1>2, <1>3 DEF b

LEMMA Single ==
  ASSUME NEW S, NEW x \in S
  PROVE  <<x>> \in Seq(S) /\ ToSet(<<x>>) = {x} /\ Once(<<x>>)
BY DEF ToSet, Once

-----------------------------------------------------------------------------
(* The command queue, of which only the items count. *)

LEMMA CommandAppended ==
  ASSUME NEW q \in Seq(CmdType), NEW x \in CmdType
  PROVE  /\ Append(q, x) \in Seq(CmdType)
         /\ ~IsItem(x) => Items(Append(q, x)) = Items(q)
         /\ IsItem(x) => Items(Append(q, x)) = Items(q) \cup {x.arg}
         /\ ItemsOnce(q) /\ (IsItem(x) => x.arg \notin Items(q)) => ItemsOnce(Append(q, x))
<1> DEFINE r == Append(q, x)
<1>1. /\ Len(q) \in Nat /\ DOMAIN q = 1..Len(q) /\ DOMAIN r = 1..(Len(q) + 1) /\ r \in Seq(CmdType)
      /\ r[Len(q) + 1] = x /\ \A n \in 1..Len(q) : r[n] = q[n]
  BY AppendProperties, LenProperties
<1> HIDE DEF r
<1>2. Items(q) \subseteq Items(r)
  <2> SUFFICES ASSUME NEW n \in DOMAIN q, IsItem(q[n]) PROVE q[n].arg \in Items(r)
    BY DEF Items
  <2>1. n \in DOMAIN r /\ r[n] = q[n]
    BY <1>1
  <2> QED
    BY <2>1 DEF Items
<1>3. IsItem(x) => x.arg \in Items(r)
  BY <1>1 DEF Items
<1>4. ASSUME NEW y \in Items(r) PROVE y \in Items(q) \/ (IsItem(x) /\ y = x.arg)
  <2>1. PICK n \in DOMAIN r : IsItem(r[n]) /\ y = r[n].arg
    BY <1>4 DEF Items
  <2>2. CASE n = Len(q) + 1
    BY <2>1, <2>2, <1>1
  <2>3. CASE n \in DOMAIN q
    <3>1. r[n] = q[n]
      BY <2>3, <1>1
    <3> QED
      BY <2>1, <2>3, <3>1 DEF Items
  <2> QED
    BY <2>2, <2>3, <1>1
<1>5. ASSUME ItemsOnce(q), IsItem(x) => x.arg \notin Items(q) PROVE ItemsOnce(r)
  <2> SUFFICES ASSUME NEW n \in DOMAIN r, NEW k \in DOMAIN r, IsItem(r[n]), r[n] = r[k]
               PROVE  n = k
    BY DEF ItemsOnce
  <2>1. ASSUME NEW j \in DOMAIN q, q[j] = x, IsItem(x) PROVE FALSE
    BY <2>1, <1>5 DEF Items
  <2>2. CASE n \in DOMAIN q /\ k \in DOMAIN q
    BY <2>2, <1>1, <1>5 DEF ItemsOnce
  <2>3. CASE n = Len(q) + 1 /\ k \in DOMAIN q
    <3>1. q[k] = x /\ IsItem(x)
      BY <2>3, <1>1
    <3> QED
      BY <3>1, <2>3, <2>1
  <2>4. CASE n \in DOMAIN q /\ k = Len(q) + 1
    <3>1. q[n] = x /\ IsItem(x)
      BY <2>4, <1>1
    <3> QED
      BY <3>1, <2>4, <2>1
  <2> QED
    BY <2>2, <2>3, <2>4, <1>1
<1> QED
  BY <1>1, <1>2, <1>3, <1>4, <1>5 DEF r

LEMMA CommandTaken ==
  ASSUME NEW q \in Seq(CmdType), q # <<>>
  PROVE  /\ Head(q) \in CmdType /\ Tail(q) \in Seq(CmdType)
         /\ IsItem(Head(q)) => Head(q).arg \in Items(q) /\ Head(q).arg \in Conns
         /\ ItemsOnce(q) => ItemsOnce(Tail(q))
         /\ ItemsOnce(q) /\ ~IsItem(Head(q)) => Items(Tail(q)) = Items(q)
         /\ ItemsOnce(q) /\ IsItem(Head(q)) => Items(Tail(q)) = Items(q) \ {Head(q).arg}
<1> DEFINE r == Tail(q)
<1>1. /\ Len(q) \in Nat /\ Len(q) > 0 /\ DOMAIN q = 1..Len(q) /\ DOMAIN r = 1..(Len(q) - 1)
      /\ Head(q) = q[1] /\ r \in Seq(CmdType) /\ \A n \in 1..(Len(q) - 1) : r[n] = q[n + 1]
  BY HeadTailProperties, LenProperties, EmptySeq
<1>2. Head(q) \in CmdType /\ \A n \in DOMAIN q : q[n] \in CmdType
  BY <1>1, ElementOfSeq
<1> HIDE DEF r
<1>3. IsItem(Head(q)) => Head(q).arg \in Items(q)
  BY <1>1 DEF Items
<1>4. \A x, y \in CmdType : IsItem(x) /\ IsItem(y) /\ x.arg = y.arg => x = y
  BY DEF CmdType, IsItem
<1>5. \A x \in CmdType : IsItem(x) => x.arg \in Conns
  BY DEF CmdType, IsItem
<1>6. ASSUME NEW y \in Items(q), ~(IsItem(Head(q)) /\ y = Head(q).arg) PROVE y \in Items(r)
  <2>1. PICK n \in DOMAIN q : IsItem(q[n]) /\ y = q[n].arg
    BY <1>6 DEF Items
  <2>2. n # 1
    BY <2>1, <1>1, <1>6
  <2>3. n - 1 \in DOMAIN r /\ r[n - 1] = q[n]
    BY <2>1, <2>2, <1>1
  <2> QED
    BY <2>1, <2>3 DEF Items
<1>7. ASSUME NEW y \in Items(r) PROVE \E n \in DOMAIN q : n # 1 /\ IsItem(q[n]) /\ y = q[n].arg
  <2>1. PICK n \in DOMAIN r : IsItem(r[n]) /\ y = r[n].arg
    BY <1>7 DEF Items
  <2>2. n + 1 \in DOMAIN q /\ n + 1 # 1 /\ q[n + 1] = r[n]
    BY <2>1, <1>1
  <2> QED
    BY <2>1, <2>2
<1>8. Items(r) \subseteq Items(q)
  BY <1>7 DEF Items
<1>9. ASSUME ItemsOnce(q), IsItem(Head(q)) PROVE Head(q).arg \notin Items(r)
  <2> SUFFICES ASSUME Head(q).arg \in Items(r) PROVE FALSE
    OBVIOUS
  <2>1. PICK n \in DOMAIN q : n # 1 /\ IsItem(q[n]) /\ Head(q).arg = q[n].arg
    BY <1>7
  <2>2. q[n] = q[1] /\ 1 \in DOMAIN q
    BY <2>1, <1>1, <1>2, <1>4, <1>9
  <2> QED
    BY <2>1, <2>2, <1>9, <1>1 DEF ItemsOnce
<1>10. ASSUME ItemsOnce(q) PROVE ItemsOnce(r)
  <2> SUFFICES ASSUME NEW n \in DOMAIN r, NEW k \in DOMAIN r, IsItem(r[n]), r[n] = r[k]
               PROVE  n = k
    BY DEF ItemsOnce
  <2>1. n + 1 \in DOMAIN q /\ k + 1 \in DOMAIN q /\ q[n + 1] = q[k + 1] /\ IsItem(q[n + 1])
    BY <1>1
  <2>2. n + 1 = k + 1
    BY <2>1, <1>10 DEF ItemsOnce
  <2> QED
    BY <2>2, <1>1
<1> QED
  BY <1>1, <1>2, <1>3, <1>5, <1>6, <1>8, <1>9, <1>10 DEF r

-----------------------------------------------------------------------------
(* Places and what they hold. *)

SlotQueue(i) == <<"queue", i>>
SlotCall(i) == <<"call", i>>
SlotOf(x) == <<x, 0>>
Named0 == {"command", "moving", "backlog", "refused", "accept"}

LEMMA SlotFacts ==
  /\ \A i \in Runs : SlotQueue(i) \in Slots /\ SlotCall(i) \in Slots
  /\ \A x \in Named0 : SlotOf(x) \in Slots
  /\ \A s \in Slots : \/ \E i \in Runs : s = SlotQueue(i) \/ s = SlotCall(i)
                      \/ \E x \in Named0 : s = SlotOf(x)
  /\ \A i, j \in Runs : /\ SlotQueue(i) # SlotCall(j)
                        /\ SlotQueue(i) = SlotQueue(j) => i = j
                        /\ SlotCall(i) = SlotCall(j) => i = j
  /\ \A i \in Runs : \A x \in Named0 : SlotQueue(i) # SlotOf(x) /\ SlotCall(i) # SlotOf(x)
  /\ \A x, y \in Named0 : SlotOf(x) = SlotOf(y) => x = y
BY DEF SlotQueue, SlotCall, SlotOf, Slots, Named0

HeldIs(F, ws, m, a) ==
  /\ \A i \in Runs : F[SlotQueue(i)] = ToSet(ws[i].queue)
  /\ \A i \in Runs : F[SlotCall(i)] = Hand(ws[i].call)
  /\ F[SlotOf("command")] = Items(m.cmds)
  /\ F[SlotOf("moving")] = ToSet(m.moving)
  /\ F[SlotOf("backlog")] = ToSet(m.backlog)
  /\ F[SlotOf("refused")] = ToSet(a.backlog)
  /\ F[SlotOf("accept")] = Hand(a.cur)

LEMMA HeldFacts ==
  ASSUME NEW ws, NEW m, NEW a
  PROVE  HeldIs(Held(ws, m, a), ws, m, a)
<1>1. \A s \in Slots :
        Held(ws, m, a)[s] =
          CASE s[1] = "queue" -> ToSet(ws[s[2]].queue)
            [] s[1] = "call" -> Hand(ws[s[2]].call)
            [] s[1] = "command" -> Items(m.cmds)
            [] s[1] = "moving" -> ToSet(m.moving)
            [] s[1] = "backlog" -> ToSet(m.backlog)
            [] s[1] = "refused" -> ToSet(a.backlog)
            [] s[1] = "accept" -> Hand(a.cur)
  BY DEF Held
<1>2. \A i \in Runs : Held(ws, m, a)[SlotQueue(i)] = ToSet(ws[i].queue)
  BY <1>1, SlotFacts DEF SlotQueue
<1>3. \A i \in Runs : Held(ws, m, a)[SlotCall(i)] = Hand(ws[i].call)
  BY <1>1, SlotFacts DEF SlotCall
<1>4. Held(ws, m, a)[SlotOf("command")] = Items(m.cmds)
  BY <1>1, SlotFacts DEF SlotOf, Named0
<1>5. Held(ws, m, a)[SlotOf("moving")] = ToSet(m.moving)
  BY <1>1, SlotFacts DEF SlotOf, Named0
<1>6. Held(ws, m, a)[SlotOf("backlog")] = ToSet(m.backlog)
  BY <1>1, SlotFacts DEF SlotOf, Named0
<1>7. Held(ws, m, a)[SlotOf("refused")] = ToSet(a.backlog)
  BY <1>1, SlotFacts DEF SlotOf, Named0
<1>8. Held(ws, m, a)[SlotOf("accept")] = Hand(a.cur)
  BY <1>1, SlotFacts DEF SlotOf, Named0
<1> QED
  BY <1>2, <1>3, <1>4, <1>5, <1>6, <1>7, <1>8 DEF HeldIs

LEMMA HeldIsFamily ==
  ASSUME NEW ws, NEW m, NEW a
  PROVE  Held(ws, m, a) = [s \in Slots |-> Held(ws, m, a)[s]]
<1> DEFINE e(s) == CASE s[1] = "queue" -> ToSet(ws[s[2]].queue)
                     [] s[1] = "call" -> Hand(ws[s[2]].call)
                     [] s[1] = "command" -> Items(m.cmds)
                     [] s[1] = "moving" -> ToSet(m.moving)
                     [] s[1] = "backlog" -> ToSet(m.backlog)
                     [] s[1] = "refused" -> ToSet(a.backlog)
                     [] s[1] = "accept" -> Hand(a.cur)
<1>1. Held(ws, m, a) = [s \in Slots |-> e(s)]
  BY DEF Held
<1> HIDE DEF e
<1> QED
  BY <1>1

\* What leaves a place is nowhere, what is nowhere may enter one.
Without(F, s, X) == [u \in Slots |-> IF u = s THEN F[u] \ X ELSE F[u]]
With(F, s, X) == [u \in Slots |-> IF u = s THEN F[u] \cup X ELSE F[u]]

LEMMA Leaves ==
  ASSUME NEW F, NEW s \in Slots, NEW X, Exclusive(F), X \subseteq F[s]
  PROVE  /\ Exclusive(Without(F, s, X))
         /\ \A c : Somewhere(Without(F, s, X), c) <=> (Somewhere(F, c) /\ c \notin X)
<1> DEFINE G == Without(F, s, X)
<1>1. G[s] = F[s] \ X /\ \A t \in Slots : t # s => G[t] = F[t]
  BY DEF Without
<1> HIDE DEF G
<1>2. Exclusive(G)
  BY <1>1 DEF Exclusive
<1>3. \A t \in Slots : G[t] \cap X = {}
  BY <1>1 DEF Exclusive
<1>4. \A c : Somewhere(G, c) <=> (Somewhere(F, c) /\ c \notin X)
  BY <1>1, <1>3 DEF Somewhere
<1> QED
  BY <1>2, <1>4 DEF G

LEMMA Enters ==
  ASSUME NEW F, NEW s \in Slots, NEW X, Exclusive(F), \A c \in X : ~Somewhere(F, c)
  PROVE  /\ Exclusive(With(F, s, X))
         /\ \A c : Somewhere(With(F, s, X), c) <=> (Somewhere(F, c) \/ c \in X)
<1> DEFINE G == With(F, s, X)
<1>1. G[s] = F[s] \cup X /\ \A t \in Slots : t # s => G[t] = F[t]
  BY DEF With
<1> HIDE DEF G
<1>2. Exclusive(G)
  <2> SUFFICES ASSUME NEW t \in Slots, NEW u \in Slots, NEW c \in G[t], c \in G[u] PROVE t = u
    BY DEF Exclusive
  <2>1. CASE c \in X
    BY <2>1, <1>1 DEF Somewhere
  <2>2. CASE c \notin X
    <3>1. c \in F[t] /\ c \in F[u]
      BY <2>2, <1>1
    <3> QED
      BY <3>1 DEF Exclusive
  <2> QED
    BY <2>1, <2>2
<1>3. \A c : Somewhere(G, c) <=> (Somewhere(F, c) \/ c \in X)
  BY <1>1 DEF Somewhere
<1> QED
  BY <1>2, <1>3 DEF G

LEMMA Travels ==
  ASSUME NEW F, NEW s \in Slots, NEW t \in Slots, NEW X, Exclusive(F), X \subseteq F[s]
  PROVE  /\ Exclusive(With(Without(F, s, X), t, X))
         /\ \A c : Somewhere(With(Without(F, s, X), t, X), c) <=> Somewhere(F, c)
<1> DEFINE G == Without(F, s, X)
<1>1. Exclusive(G) /\ \A c : Somewhere(G, c) <=> (Somewhere(F, c) /\ c \notin X)
  BY Leaves
<1>2. \A c \in X : Somewhere(F, c)
  BY DEF Somewhere
<1> HIDE DEF G
<1>3. /\ Exclusive(With(G, t, X))
      /\ \A c : Somewhere(With(G, t, X), c) <=> (Somewhere(G, c) \/ c \in X)
  BY <1>1, Enters
<1> QED
  BY <1>1, <1>2, <1>3 DEF G

\* A change of one place.
LEMMA OnePlaceLess ==
  ASSUME NEW F, NEW G, NEW s \in Slots, NEW X,
         F = [u \in Slots |-> F[u]], G = [u \in Slots |-> G[u]],
         \A u \in Slots : u # s => G[u] = F[u], G[s] = F[s] \ X
  PROVE  G = Without(F, s, X)
BY DEF Without

LEMMA OnePlaceMore ==
  ASSUME NEW F, NEW G, NEW s \in Slots, NEW X,
         F = [u \in Slots |-> F[u]], G = [u \in Slots |-> G[u]],
         \A u \in Slots : u # s => G[u] = F[u], G[s] = F[s] \cup X
  PROVE  G = With(F, s, X)
BY DEF With

LEMMA OtherPlaces ==
  ASSUME NEW F, NEW G, NEW s,
         \A j \in Runs : SlotQueue(j) # s => G[SlotQueue(j)] = F[SlotQueue(j)],
         \A j \in Runs : SlotCall(j) # s => G[SlotCall(j)] = F[SlotCall(j)],
         \A x \in Named0 : SlotOf(x) # s => G[SlotOf(x)] = F[SlotOf(x)]
  PROVE  \A u \in Slots : u # s => G[u] = F[u]
<1> SUFFICES ASSUME NEW u \in Slots, u # s PROVE G[u] = F[u]
  OBVIOUS
<1>1. CASE \E j \in Runs : u = SlotQueue(j) \/ u = SlotCall(j)
  BY <1>1
<1>2. CASE \E x \in Named0 : u = SlotOf(x)
  BY <1>2
<1> QED
  BY <1>1, <1>2, SlotFacts

LEMMA QueueChanges ==
  ASSUME NEW ws, NEW wt, NEW m, NEW a, NEW i \in Runs,
         \A j \in Runs : wt[j].call = ws[j].call /\ (j # i => wt[j].queue = ws[j].queue)
  PROVE  \A u \in Slots : u # SlotQueue(i) => Held(wt, m, a)[u] = Held(ws, m, a)[u]
<1> DEFINE F == Held(ws, m, a)
           G == Held(wt, m, a)
<1>0. HeldIs(F, ws, m, a) /\ HeldIs(G, wt, m, a)
  BY HeldFacts
<1> HIDE DEF F, G
<1>1. \A j \in Runs : SlotQueue(j) # SlotQueue(i) => G[SlotQueue(j)] = F[SlotQueue(j)]
  BY <1>0 DEF HeldIs
<1>4. \A j \in Runs : G[SlotCall(j)] = F[SlotCall(j)]
  BY <1>0 DEF HeldIs
<1>2. \A x \in Named0 : G[SlotOf(x)] = F[SlotOf(x)]
  BY <1>0 DEF HeldIs, Named0
<1>3. \A u \in Slots : u # SlotQueue(i) => G[u] = F[u]
  <2> DEFINE s == SlotQueue(i)
  <2>1. \A j \in Runs : SlotQueue(j) # s => G[SlotQueue(j)] = F[SlotQueue(j)]
    BY <1>1
  <2> HIDE DEF s
  <2>2. \A u \in Slots : u # s => G[u] = F[u]
    BY <2>1, <1>2, <1>4, OtherPlaces
  <2> QED
    BY <2>2 DEF s
<1> QED
  BY <1>3 DEF F, G

LEMMA CallChanges ==
  ASSUME NEW ws, NEW wt, NEW m, NEW a, NEW i \in Runs,
         \A j \in Runs : wt[j].queue = ws[j].queue /\ (j # i => wt[j].call = ws[j].call)
  PROVE  \A u \in Slots : u # SlotCall(i) => Held(wt, m, a)[u] = Held(ws, m, a)[u]
<1> DEFINE F == Held(ws, m, a)
           G == Held(wt, m, a)
<1>0. HeldIs(F, ws, m, a) /\ HeldIs(G, wt, m, a)
  BY HeldFacts
<1> HIDE DEF F, G
<1>1. \A j \in Runs : SlotCall(j) # SlotCall(i) => G[SlotCall(j)] = F[SlotCall(j)]
  BY <1>0 DEF HeldIs
<1>4. \A j \in Runs : G[SlotQueue(j)] = F[SlotQueue(j)]
  BY <1>0 DEF HeldIs
<1>2. \A x \in Named0 : G[SlotOf(x)] = F[SlotOf(x)]
  BY <1>0 DEF HeldIs, Named0
<1>3. \A u \in Slots : u # SlotCall(i) => G[u] = F[u]
  BY <1>1, <1>2, <1>4, OtherPlaces, SMTT(60)
<1> QED
  BY <1>3 DEF F, G

LEMMA NamedChanges ==
  ASSUME NEW ws, NEW m, NEW n, NEW a, NEW b, NEW x \in Named0,
         x # "command" => Items(n.cmds) = Items(m.cmds),
         x # "moving" => n.moving = m.moving,
         x # "backlog" => n.backlog = m.backlog,
         x # "refused" => b.backlog = a.backlog,
         x # "accept" => b.cur = a.cur
  PROVE  \A u \in Slots : u # SlotOf(x) => Held(ws, n, b)[u] = Held(ws, m, a)[u]
<1> DEFINE F == Held(ws, m, a)
           G == Held(ws, n, b)
<1>0. HeldIs(F, ws, m, a) /\ HeldIs(G, ws, n, b)
  BY HeldFacts
<1> HIDE DEF F, G
<1>1. \A j \in Runs : G[SlotCall(j)] = F[SlotCall(j)] /\ G[SlotQueue(j)] = F[SlotQueue(j)]
  BY <1>0 DEF HeldIs
<1>2. \A y \in Named0 : SlotOf(y) # SlotOf(x) => G[SlotOf(y)] = F[SlotOf(y)]
  <2> SUFFICES ASSUME NEW y \in Named0, SlotOf(y) # SlotOf(x) PROVE G[SlotOf(y)] = F[SlotOf(y)]
    OBVIOUS
  <2>1. y # x
    OBVIOUS
  <2>2. y \in {"command", "moving", "backlog", "refused", "accept"}
    BY DEF Named0
  <2> QED
    BY <1>0, <2>1, <2>2 DEF HeldIs
<1>3. \A u \in Slots : u # SlotOf(x) => G[u] = F[u]
  BY <1>1, <1>2, OtherPlaces
<1> QED
  BY <1>3 DEF F, G

\* What a step does to the placement of the connections.
LEMMA Unmoved ==
  ASSUME NEW ws, NEW m, NEW a, NEW f, Placement(ws, m, a, f),
         NEW wt, NEW n, NEW b, NEW g,
         \A i \in Runs : wt[i].queue = ws[i].queue /\ wt[i].call = ws[i].call,
         Items(n.cmds) = Items(m.cmds), ItemsOnce(n.cmds),
         n.moving = m.moving, n.backlog = m.backlog, b.backlog = a.backlog, b.cur = a.cur,
         \A c \in Conns : g[c] = "accepted" <=> f[c] = "accepted"
  PROVE  Placement(wt, n, b, g)
<1> DEFINE F == Held(ws, m, a)
           G == Held(wt, n, b)
<1>1. HeldIs(F, ws, m, a) /\ HeldIs(G, wt, n, b)
  BY HeldFacts
<1>2. F = [u \in Slots |-> F[u]] /\ G = [u \in Slots |-> G[u]]
  BY HeldIsFamily
<1>3. Exclusive(F) /\ Accounted(F, f) /\ Distinct(ws, m, a)
  BY DEF Placement
<1> HIDE DEF F, G
<1>4. \A j \in Runs : G[SlotQueue(j)] = F[SlotQueue(j)]
  BY <1>1 DEF HeldIs
<1>5. \A j \in Runs : G[SlotCall(j)] = F[SlotCall(j)]
  BY <1>1 DEF HeldIs
<1>6. \A x \in Named0 : G[SlotOf(x)] = F[SlotOf(x)]
  BY <1>1 DEF HeldIs, Named0
<1>7. \A u \in Slots : G[u] = F[u]
  BY <1>4, <1>5, <1>6, SlotFacts
<1>8. G = F
  BY <1>2, <1>7
<1>9. Distinct(wt, n, b)
  BY <1>3 DEF Distinct
<1>10. Accounted(G, g)
  BY <1>3, <1>8 DEF Accounted
<1> QED
  BY <1>3, <1>8, <1>9, <1>10 DEF Placement, F, G

LEMMA Transfer ==
  ASSUME NEW ws, NEW m, NEW a, NEW f, Placement(ws, m, a, f),
         NEW wt, NEW n, NEW b, NEW s \in Slots, NEW t \in Slots, NEW X,
         X \subseteq Held(ws, m, a)[s],
         Held(wt, n, b) = With(Without(Held(ws, m, a), s, X), t, X),
         Distinct(wt, n, b)
  PROVE  Placement(wt, n, b, f)
<1> DEFINE F == Held(ws, m, a)
           G == Held(wt, n, b)
<1>1. Exclusive(F) /\ Accounted(F, f)
  BY DEF Placement
<1>2. X \subseteq F[s] /\ G = With(Without(F, s, X), t, X)
  OBVIOUS
<1> HIDE DEF F, G
<1>3. Exclusive(G) /\ \A c : Somewhere(G, c) <=> Somewhere(F, c)
  BY <1>1, <1>2, Travels
<1>4. Accounted(G, f)
  BY <1>1, <1>3 DEF Accounted
<1> QED
  BY <1>3, <1>4 DEF Placement, G

LEMMA Departure ==
  ASSUME NEW ws, NEW m, NEW a, NEW f, Placement(ws, m, a, f),
         NEW wt, NEW n, NEW b, NEW g, NEW s \in Slots, NEW X,
         X \subseteq Held(ws, m, a)[s],
         Held(wt, n, b) = Without(Held(ws, m, a), s, X),
         Distinct(wt, n, b),
         \A c \in Conns : g[c] = "accepted" <=> (f[c] = "accepted" /\ c \notin X)
  PROVE  Placement(wt, n, b, g)
<1> DEFINE F == Held(ws, m, a)
           G == Held(wt, n, b)
<1>1. Exclusive(F) /\ Accounted(F, f)
  BY DEF Placement
<1>2. X \subseteq F[s] /\ G = Without(F, s, X)
  OBVIOUS
<1> HIDE DEF F, G
<1>3. Exclusive(G) /\ \A c : Somewhere(G, c) <=> (Somewhere(F, c) /\ c \notin X)
  BY <1>1, <1>2, Leaves
<1>4. Accounted(G, g)
  BY <1>1, <1>3 DEF Accounted
<1> QED
  BY <1>3, <1>4 DEF Placement, G

LEMMA Arrival ==
  ASSUME NEW ws, NEW m, NEW a, NEW f, Placement(ws, m, a, f),
         NEW wt, NEW n, NEW b, NEW g, NEW t \in Slots, NEW x \in Conns,
         f[x] # "accepted",
         Held(wt, n, b) = With(Held(ws, m, a), t, {x}),
         Distinct(wt, n, b),
         \A c \in Conns : g[c] = "accepted" <=> (f[c] = "accepted" \/ c = x)
  PROVE  Placement(wt, n, b, g)
<1> DEFINE F == Held(ws, m, a)
           G == Held(wt, n, b)
<1>1. Exclusive(F) /\ Accounted(F, f)
  BY DEF Placement
<1>2. G = With(F, t, {x})
  OBVIOUS
<1> HIDE DEF F, G
<1>3. \A c \in {x} : ~Somewhere(F, c)
  BY <1>1 DEF Accounted
<1>4. Exclusive(G) /\ \A c : Somewhere(G, c) <=> (Somewhere(F, c) \/ c \in {x})
  BY <1>1, <1>2, <1>3, Enters
<1>5. Accounted(G, g)
  BY <1>1, <1>4 DEF Accounted
<1> QED
  BY <1>4, <1>5 DEF Placement, G

\* A connection in one place is in no other.
LEMMA NotElsewhere ==
  ASSUME NEW ws, NEW m, NEW a, NEW f, Placement(ws, m, a, f),
         NEW s \in Slots, NEW t \in Slots, s # t, NEW c \in Held(ws, m, a)[s]
  PROVE  c \notin Held(ws, m, a)[t]
BY DEF Placement, Exclusive

LEMMA NotAccepted ==
  ASSUME NEW ws, NEW m, NEW a, NEW f, Placement(ws, m, a, f), NEW c \in Conns,
         f[c] # "accepted", NEW s \in Slots
  PROVE  c \notin Held(ws, m, a)[s]
BY DEF Placement, Accounted, Somewhere

\* A place that gives something away, and one that receives it.
QueueGains(ws, wt, i, X) ==
  /\ \A j \in Runs : wt[j].call = ws[j].call /\ (j # i => wt[j].queue = ws[j].queue)
  /\ ToSet(wt[i].queue) = ToSet(ws[i].queue) \cup X
QueueLoses(ws, wt, i, X) ==
  /\ \A j \in Runs : wt[j].call = ws[j].call /\ (j # i => wt[j].queue = ws[j].queue)
  /\ ToSet(wt[i].queue) = ToSet(ws[i].queue) \ X

LEMMA QueueGives ==
  ASSUME NEW ws, NEW wt, NEW m, NEW a, NEW i \in Runs, NEW X,
         QueueLoses(ws, wt, i, X)
  PROVE  Held(wt, m, a) = Without(Held(ws, m, a), SlotQueue(i), X)
<1> DEFINE F == Held(ws, m, a)
           G == Held(wt, m, a)
<1>1. HeldIs(F, ws, m, a) /\ HeldIs(G, wt, m, a)
  BY HeldFacts
<1>2. F = [u \in Slots |-> F[u]] /\ G = [u \in Slots |-> G[u]]
  BY HeldIsFamily
<1>3. \A u \in Slots : u # SlotQueue(i) => G[u] = F[u]
  BY QueueChanges DEF QueueLoses
<1> HIDE DEF F, G
<1>4. G[SlotQueue(i)] = F[SlotQueue(i)] \ X
  BY <1>1 DEF HeldIs, QueueLoses
<1>5. SlotQueue(i) \in Slots
  BY SlotFacts
<1>6. G = Without(F, SlotQueue(i), X)
  BY <1>2, <1>3, <1>4, <1>5, OnePlaceLess
<1> QED
  BY <1>6 DEF F, G

LEMMA QueueGets ==
  ASSUME NEW ws, NEW wt, NEW m, NEW a, NEW i \in Runs, NEW X,
         QueueGains(ws, wt, i, X)
  PROVE  Held(wt, m, a) = With(Held(ws, m, a), SlotQueue(i), X)
<1> DEFINE F == Held(ws, m, a)
           G == Held(wt, m, a)
<1>1. HeldIs(F, ws, m, a) /\ HeldIs(G, wt, m, a)
  BY HeldFacts
<1>2. F = [u \in Slots |-> F[u]] /\ G = [u \in Slots |-> G[u]]
  BY HeldIsFamily
<1>3. \A u \in Slots : u # SlotQueue(i) => G[u] = F[u]
  BY QueueChanges DEF QueueGains
<1> HIDE DEF F, G
<1>4. G[SlotQueue(i)] = F[SlotQueue(i)] \cup X
  BY <1>1 DEF HeldIs, QueueGains
<1>5. SlotQueue(i) \in Slots
  BY SlotFacts
<1>6. G = With(F, SlotQueue(i), X)
  BY <1>2, <1>3, <1>4, <1>5, OnePlaceMore
<1> QED
  BY <1>6 DEF F, G

LEMMA CallGives ==
  ASSUME NEW ws, NEW wt, NEW m, NEW a, NEW i \in Runs, wt[i].call = NoConn,
         \A j \in Runs : wt[j].queue = ws[j].queue /\ (j # i => wt[j].call = ws[j].call)
  PROVE  Held(wt, m, a) = Without(Held(ws, m, a), SlotCall(i), {ws[i].call})
<1> DEFINE F == Held(ws, m, a)
           G == Held(wt, m, a)
<1>1. HeldIs(F, ws, m, a) /\ HeldIs(G, wt, m, a)
  BY HeldFacts
<1>2. F = [u \in Slots |-> F[u]] /\ G = [u \in Slots |-> G[u]]
  BY HeldIsFamily
<1>3. \A u \in Slots : u # SlotCall(i) => G[u] = F[u]
  BY CallChanges
<1> HIDE DEF F, G
<1>4. G[SlotCall(i)] = Hand(NoConn) /\ F[SlotCall(i)] = Hand(ws[i].call)
  BY <1>1 DEF HeldIs
<1>5. G[SlotCall(i)] = F[SlotCall(i)] \ {ws[i].call}
  BY <1>4 DEF Hand
<1>6. SlotCall(i) \in Slots
  BY SlotFacts
<1>7. G = Without(F, SlotCall(i), {ws[i].call})
  BY <1>2, <1>3, <1>5, <1>6, OnePlaceLess
<1> QED
  BY <1>7 DEF F, G

LEMMA CallGets ==
  ASSUME NEW ws, NEW wt, NEW m, NEW a, NEW i \in Runs, ws[i].call = NoConn, wt[i].call \in Conns,
         \A j \in Runs : wt[j].queue = ws[j].queue /\ (j # i => wt[j].call = ws[j].call)
  PROVE  Held(wt, m, a) = With(Held(ws, m, a), SlotCall(i), {wt[i].call})
<1> DEFINE F == Held(ws, m, a)
           G == Held(wt, m, a)
<1>1. HeldIs(F, ws, m, a) /\ HeldIs(G, wt, m, a)
  BY HeldFacts
<1>2. F = [u \in Slots |-> F[u]] /\ G = [u \in Slots |-> G[u]]
  BY HeldIsFamily
<1>3. \A u \in Slots : u # SlotCall(i) => G[u] = F[u]
  BY CallChanges
<1> HIDE DEF F, G
<1>4. F[SlotCall(i)] = Hand(NoConn) /\ G[SlotCall(i)] = Hand(wt[i].call)
  BY <1>1 DEF HeldIs
<1>5. G[SlotCall(i)] = F[SlotCall(i)] \cup {wt[i].call}
  BY <1>4 DEF Hand
<1>6. SlotCall(i) \in Slots
  BY SlotFacts
<1>7. G = With(F, SlotCall(i), {wt[i].call})
  BY <1>2, <1>3, <1>5, <1>6, OnePlaceMore
<1> QED
  BY <1>7 DEF F, G

Content(m, a, x) ==
  CASE x = "command" -> Items(m.cmds)
    [] x = "moving" -> ToSet(m.moving)
    [] x = "backlog" -> ToSet(m.backlog)
    [] x = "refused" -> ToSet(a.backlog)
    [] x = "accept" -> Hand(a.cur)

OnlyChanged(m, a, n, b, x) ==
  /\ x # "command" => Items(n.cmds) = Items(m.cmds)
  /\ x # "moving" => n.moving = m.moving
  /\ x # "backlog" => n.backlog = m.backlog
  /\ x # "refused" => b.backlog = a.backlog
  /\ x # "accept" => b.cur = a.cur

LEMMA ContentHeld ==
  ASSUME NEW ws, NEW m, NEW a, NEW x \in Named0
  PROVE  Held(ws, m, a)[SlotOf(x)] = Content(m, a, x)
<1>1. HeldIs(Held(ws, m, a), ws, m, a)
  BY HeldFacts
<1> QED
  BY <1>1 DEF HeldIs, Content, Named0

LEMMA NamedGives ==
  ASSUME NEW ws, NEW m, NEW n, NEW a, NEW b, NEW x \in Named0, NEW X,
         OnlyChanged(m, a, n, b, x), Content(n, b, x) = Content(m, a, x) \ X
  PROVE  Held(ws, n, b) = Without(Held(ws, m, a), SlotOf(x), X)
<1> DEFINE F == Held(ws, m, a)
           G == Held(ws, n, b)
<1>2. F = [u \in Slots |-> F[u]] /\ G = [u \in Slots |-> G[u]]
  BY HeldIsFamily
<1>3. \A u \in Slots : u # SlotOf(x) => G[u] = F[u]
  BY NamedChanges DEF OnlyChanged
<1>4. G[SlotOf(x)] = F[SlotOf(x)] \ X
  BY ContentHeld
<1> HIDE DEF F, G
<1>5. SlotOf(x) \in Slots
  BY SlotFacts
<1>6. G = Without(F, SlotOf(x), X)
  BY <1>2, <1>3, <1>4, <1>5, OnePlaceLess
<1> QED
  BY <1>6 DEF F, G

LEMMA NamedGets ==
  ASSUME NEW ws, NEW m, NEW n, NEW a, NEW b, NEW x \in Named0, NEW X,
         OnlyChanged(m, a, n, b, x), Content(n, b, x) = Content(m, a, x) \cup X
  PROVE  Held(ws, n, b) = With(Held(ws, m, a), SlotOf(x), X)
<1> DEFINE F == Held(ws, m, a)
           G == Held(ws, n, b)
<1>2. F = [u \in Slots |-> F[u]] /\ G = [u \in Slots |-> G[u]]
  BY HeldIsFamily
<1>3. \A u \in Slots : u # SlotOf(x) => G[u] = F[u]
  BY NamedChanges DEF OnlyChanged
<1>4. G[SlotOf(x)] = F[SlotOf(x)] \cup X
  BY ContentHeld
<1> HIDE DEF F, G
<1>5. SlotOf(x) \in Slots
  BY SlotFacts
<1>6. G = With(F, SlotOf(x), X)
  BY <1>2, <1>3, <1>4, <1>5, OnePlaceMore
<1> QED
  BY <1>6 DEF F, G

-----------------------------------------------------------------------------
(* The steps of the workers. *)

LEMMA RunNames ==
  /\ \A w \in Workers, n \in 0..MaxRuns : <<w, n>> \in Runs
  /\ \A i \in Runs : i[1] \in Workers /\ i[2] \in 0..MaxRuns /\ i = <<i[1], i[2]>>
BY DEF Runs

LEMMA StatusSet ==
  ASSUME NEW r \in RunType, NEW s \in {"Available", "Unavailable", "Failed"}
  PROVE  /\ SetStatus(r, s) \in RunType
         /\ SetStatus(r, s).pc = r.pc /\ SetStatus(r, s).open = r.open
         /\ SetStatus(r, s).queue = r.queue /\ SetStatus(r, s).call = r.call
         /\ SetStatus(r, s).stop = r.stop
         /\ SetStatus(r, s).status \in {s, "Failed"}
         /\ SetStatus(r, s).status = "Failed" => s = "Failed" \/ r.status = "Failed"
BY ZenonT(60) DEF SetStatus, RunType

\* What every step of the run i does to the rest of the invariant.
Progress(i, r) ==
  /\ wrk' = [wrk EXCEPT ![i] = r] /\ r \in RunType
  /\ left' \in Scenario /\ left'.faults <= left.faults
  /\ wrk[i].pc # "none"
  /\ r.call # NoConn <=> r.pc = "calling"
  /\ r.status = "Failed" => Worn(r)
  /\ r.stop => wrk[i].stop
  /\ r.pc = "stopping" => wrk[i].stop \/ wrk[i].pc = "stopping"
  /\ Worn(wrk[i]) => Worn(r)
  /\ Worn(r) => Worn(wrk[i]) \/ left'.faults < left.faults \/ wrk[i].stop \/ wrk[i].pc = "stopping"

LEMMA WorkerKeeps ==
  ASSUME ServerInv, NEW i \in Runs, NEW r, Progress(i, r),
         UNCHANGED <<mgr, mon, asks, acc, lst>>,
         fate' \in [Conns -> FateType], \A c \in Conns : fate[c] = "arrived" => fate'[c] = "arrived",
         Placed'
  PROVE  ServerInv'
<1> USE DEF ServerInv, Progress
<1>1. /\ wrk'[i] = r /\ \A j \in Runs : j # i => wrk'[j] = wrk[j]
      /\ wrk' \in [Runs -> RunType]
  BY DEF TypeOK
<1>2. TypeOK'
  BY <1>1 DEF TypeOK
<1>3. InHand'
  BY <1>1 DEF InHand
<1>4. Unstarted'
  <2> SUFFICES ASSUME NEW w \in Workers, NEW n \in 0..MaxRuns, n > mon[w].run
               PROVE  wrk'[<<w, n>>] = wrk[<<w, n>>]
    BY DEF Unstarted
  <2>1. <<w, n>> \in Runs /\ <<w, n>> # i
    BY RunNames DEF Unstarted
  <2> QED
    BY <1>1, <2>1
<1>5. Restarts'
  <2>1. \A j \in Runs : /\ wrk'[j].status = "Failed" => Worn(wrk'[j])
                        /\ wrk'[j].stop \/ wrk'[j].pc = "stopping" => mgr.stopping
    BY <1>1 DEF Restarts
  <2>2. ASSUME NEW w \in Workers
        PROVE  /\ mon[w].run + left'.faults <= MaxRuns
               /\ mon[w].pc = "sleep" => Worn(wrk'[Watched(w)])
               /\ Worn(wrk'[Watched(w)]) => mgr.stopping \/ mon[w].run + left'.faults < MaxRuns
    <3>1. Watched(w) \in Runs /\ mon[w].run \in Nat
      BY <2>2, RunNames, RunsBounded DEF Watched, TypeOK, MonType
    <3>2. left.faults \in Nat /\ left'.faults \in Nat /\ MaxRuns \in Nat
      BY RunsBounded DEF TypeOK, Scenario
    <3>3. CASE Watched(w) # i
      BY <1>1, <2>2, <3>1, <3>2, <3>3 DEF Restarts
    <3>4. CASE Watched(w) = i
      <4>1. /\ mon[w].run + left.faults <= MaxRuns
            /\ mon[w].pc = "sleep" => Worn(wrk[i])
            /\ Worn(wrk[i]) => mgr.stopping \/ mon[w].run + left.faults < MaxRuns
            /\ wrk[i].stop \/ wrk[i].pc = "stopping" => mgr.stopping
        BY <2>2, <3>4 DEF Restarts
      <4>2. wrk'[Watched(w)] = r
        BY <1>1, <3>4
      <4> QED
        BY <3>1, <3>2, <4>1, <4>2
    <3> QED
      BY <3>3, <3>4
  <2>3. \A w \in Workers : Watched(w)' = Watched(w)
    BY DEF Watched
  <2> QED
    BY <2>1, <2>2, <2>3 DEF Restarts
<1>6. Arrivals'
  BY DEF Arrivals, TypeOK, LstType
<1> QED
  BY <1>2, <1>3, <1>4, <1>5, <1>6

LEMMA SilentWorkerStep ==
  ASSUME ServerInv, NEW i \in Runs, NEW r, Progress(i, r), r.queue = wrk[i].queue, r.call = wrk[i].call,
         UNCHANGED <<fate, mgr, mon, asks, acc, lst>>
  PROVE  ServerInv'
<1>1. \A j \in Runs : wrk'[j].queue = wrk[j].queue /\ wrk'[j].call = wrk[j].call
  BY DEF Progress, ServerInv, TypeOK
<1>2. Placed'
  <2>1. Placement(wrk, mgr, acc, fate) /\ ItemsOnce(mgr.cmds)
    BY DEF ServerInv, Placed, Placement, Distinct
  <2>2. Placement(wrk', mgr', acc', fate')
    BY <1>1, <2>1, Unmoved
  <2> QED
    BY <2>2 DEF Placed
<1>3. fate' \in [Conns -> FateType] /\ \A c \in Conns : fate[c] = "arrived" => fate'[c] = "arrived"
  BY DEF ServerInv, TypeOK
<1> QED
  BY <1>2, <1>3, WorkerKeeps

LEMMA FaultFacts ==
  ASSUME ServerInv, NEW i \in Runs, Fault(i)
  PROVE  left' \in Scenario /\ left'.faults < left.faults /\ left'.faults <= left.faults
<1>1. left \in Scenario /\ left.faults \in Nat /\ left.faults > 0
  BY DEF ServerInv, TypeOK, Scenario, Fault
<1> QED
  BY <1>1 DEF Fault, Scenario

LEMMA NoFaultFacts ==
  ASSUME ServerInv, UNCHANGED left
  PROVE  left' \in Scenario /\ left'.faults <= left.faults
BY DEF ServerInv, TypeOK, Scenario

LEMMA CreateStep ==
  ASSUME ServerInv, NEW i \in Runs, Create(i), UNCHANGED <<mgr, mon, asks, acc, lst>>
  PROVE  ServerInv'
<1> DEFINE q == wrk[i]
<1>1. /\ q \in RunType /\ (q.call # NoConn <=> q.pc = "calling")
      /\ q.status = "Failed" => Worn(q)
  BY DEF ServerInv, TypeOK, InHand, Restarts
<1>2. UNCHANGED fate
  BY DEF Create
<1>3. CASE q.pc = "creating" /\ NoFault /\ wrk' = [wrk EXCEPT ![i] = SetStatus([@ EXCEPT !.pc = "run"], "Available")]
  <2> DEFINE r == SetStatus([q EXCEPT !.pc = "run"], "Available")
  <2>1. left' \in Scenario /\ left'.faults <= left.faults
    BY <1>3, NoFaultFacts DEF Create, NoFault
  <2>2. /\ [q EXCEPT !.pc = "run"] \in RunType /\ [q EXCEPT !.pc = "run"].pc = "run" /\ [q EXCEPT !.pc = "run"].queue = q.queue
        /\ [q EXCEPT !.pc = "run"].call = q.call /\ [q EXCEPT !.pc = "run"].stop = q.stop /\ [q EXCEPT !.pc = "run"].status = q.status
    BY <1>1, <1>3 DEF RunType, Create
  <2>3. wrk' = [wrk EXCEPT ![i] = r]
    BY <1>3 DEF Create
  <2>4. r \in RunType /\ Progress(i, r) /\ r.queue = q.queue /\ r.call = q.call
    BY <1>1, <1>3, <2>1, <2>2, <2>3, StatusSet DEF Progress, Worn
  <2> QED
    BY <1>2, <2>4, SilentWorkerStep
<1>4. CASE q.pc = "creating" /\ Fault(i) /\ wrk' = [wrk EXCEPT ![i].pc = "ending"]
  <2> DEFINE r == [q EXCEPT !.pc = "ending"]
  <2>1. left' \in Scenario /\ left'.faults <= left.faults /\ left'.faults < left.faults
    BY <1>4, FaultFacts DEF Create, NoFault
  <2>2. wrk' = [wrk EXCEPT ![i] = r]
    BY <1>4 DEF Create
  <2>3. r \in RunType
    BY <1>1 DEF RunType
  <2>4. Progress(i, r) /\ r.queue = q.queue /\ r.call = q.call
    BY <1>1, <1>4, <2>1, <2>2, <2>3 DEF Progress, Worn, RunType
  <2> QED
    BY <1>2, <2>4, SilentWorkerStep
<1>5. CASE q.pc = "creating" /\ q.stop /\ NoFault /\ wrk' = [wrk EXCEPT ![i].pc = "ending"]
  <2> DEFINE r == [q EXCEPT !.pc = "ending"]
  <2>1. left' \in Scenario /\ left'.faults <= left.faults
    BY <1>5, NoFaultFacts DEF Create, NoFault
  <2>2. wrk' = [wrk EXCEPT ![i] = r]
    BY <1>5 DEF Create
  <2>3. r \in RunType
    BY <1>1 DEF RunType
  <2>4. Progress(i, r) /\ r.queue = q.queue /\ r.call = q.call
    BY <1>1, <1>5, <2>1, <2>2, <2>3 DEF Progress, Worn, RunType
  <2> QED
    BY <1>2, <2>4, SilentWorkerStep
<1> QED
  BY <1>3, <1>4, <1>5 DEF Create

LEMMA CheckReadyStep ==
  ASSUME ServerInv, NEW i \in Runs, CheckReady(i), UNCHANGED <<mgr, mon, asks, acc, lst>>
  PROVE  ServerInv'
<1> DEFINE q == wrk[i]
<1>1. /\ q \in RunType /\ (q.call # NoConn <=> q.pc = "calling")
      /\ q.status = "Failed" => Worn(q)
  BY DEF ServerInv, TypeOK, InHand, Restarts
<1>2. UNCHANGED fate
  BY DEF CheckReady
<1>3. CASE q.pc = "run"
  <2> DEFINE r == SetStatus(q, IF q.ready THEN "Available" ELSE "Unavailable")
  <2>1. left' \in Scenario /\ left'.faults <= left.faults
    BY <1>3, NoFaultFacts DEF CheckReady, NoFault
  <2>2. q.pc = "run" /\ (IF q.ready THEN "Available" ELSE "Unavailable") \in {"Available", "Unavailable"}
    BY <1>1, <1>3 DEF RunType, CheckReady
  <2>3. wrk' = [wrk EXCEPT ![i] = r]
    BY <1>3 DEF CheckReady
  <2>4. r \in RunType /\ Progress(i, r) /\ r.queue = q.queue /\ r.call = q.call
    BY <1>1, <1>3, <2>1, <2>2, <2>3, StatusSet DEF Progress, Worn
  <2> QED
    BY <1>2, <2>4, SilentWorkerStep
<1> QED
  BY <1>3 DEF CheckReady

LEMMA NotReadyStep ==
  ASSUME ServerInv, NEW i \in Runs, NotReadyAnyMore(i), UNCHANGED <<mgr, mon, asks, acc, lst>>
  PROVE  ServerInv'
<1> DEFINE q == wrk[i]
<1>1. /\ q \in RunType /\ (q.call # NoConn <=> q.pc = "calling")
      /\ q.status = "Failed" => Worn(q)
  BY DEF ServerInv, TypeOK, InHand, Restarts
<1>2. UNCHANGED fate
  BY DEF NotReadyAnyMore
<1>3. CASE q.pc = "run" /\ Fault(i)
  <2> DEFINE r == SetStatus([q EXCEPT !.pc = "recreating"], "Unavailable")
  <2>1. left' \in Scenario /\ left'.faults <= left.faults /\ left'.faults < left.faults
    BY <1>3, FaultFacts DEF NotReadyAnyMore, NoFault
  <2>2. /\ [q EXCEPT !.pc = "recreating"] \in RunType /\ [q EXCEPT !.pc = "recreating"].pc = "recreating" /\ [q EXCEPT !.pc = "recreating"].queue = q.queue
        /\ [q EXCEPT !.pc = "recreating"].call = q.call /\ [q EXCEPT !.pc = "recreating"].stop = q.stop /\ [q EXCEPT !.pc = "recreating"].status = q.status
    BY <1>1, <1>3 DEF RunType, NotReadyAnyMore
  <2>3. wrk' = [wrk EXCEPT ![i] = r]
    BY <1>3 DEF NotReadyAnyMore
  <2>4. r \in RunType /\ Progress(i, r) /\ r.queue = q.queue /\ r.call = q.call
    BY <1>1, <1>3, <2>1, <2>2, <2>3, StatusSet DEF Progress, Worn
  <2> QED
    BY <1>2, <2>4, SilentWorkerStep
<1> QED
  BY <1>3 DEF NotReadyAnyMore

LEMMA SeesStopStep ==
  ASSUME ServerInv, NEW i \in Runs, SeesStop(i), UNCHANGED <<mgr, mon, asks, acc, lst>>
  PROVE  ServerInv'
<1> DEFINE q == wrk[i]
<1>1. /\ q \in RunType /\ (q.call # NoConn <=> q.pc = "calling")
      /\ q.status = "Failed" => Worn(q)
  BY DEF ServerInv, TypeOK, InHand, Restarts
<1>2. UNCHANGED fate
  BY DEF SeesStop
<1>3. CASE q.pc = "run" /\ q.stop
  <2> DEFINE r == SetStatus([q EXCEPT !.pc = "stopping"], "Unavailable")
  <2>1. left' \in Scenario /\ left'.faults <= left.faults
    BY <1>3, NoFaultFacts DEF SeesStop, NoFault
  <2>2. /\ [q EXCEPT !.pc = "stopping"] \in RunType /\ [q EXCEPT !.pc = "stopping"].pc = "stopping" /\ [q EXCEPT !.pc = "stopping"].queue = q.queue
        /\ [q EXCEPT !.pc = "stopping"].call = q.call /\ [q EXCEPT !.pc = "stopping"].stop = q.stop /\ [q EXCEPT !.pc = "stopping"].status = q.status
    BY <1>1, <1>3 DEF RunType, SeesStop
  <2>3. wrk' = [wrk EXCEPT ![i] = r]
    BY <1>3 DEF SeesStop
  <2>4. r \in RunType /\ Progress(i, r) /\ r.queue = q.queue /\ r.call = q.call
    BY <1>1, <1>3, <2>1, <2>2, <2>3, StatusSet, ZenonT(60) DEF Progress, Worn
  <2> QED
    BY <1>2, <2>4, SilentWorkerStep
<1> QED
  BY <1>3 DEF SeesStop

LEMMA RecreateStep ==
  ASSUME ServerInv, NEW i \in Runs, Recreate(i), UNCHANGED <<mgr, mon, asks, acc, lst>>
  PROVE  ServerInv'
<1> DEFINE q == wrk[i]
<1>1. /\ q \in RunType /\ (q.call # NoConn <=> q.pc = "calling")
      /\ q.status = "Failed" => Worn(q)
  BY DEF ServerInv, TypeOK, InHand, Restarts
<1>2. UNCHANGED fate
  BY DEF Recreate
<1>3. CASE q.pc = "recreating" /\ NoFault /\ wrk' = [wrk EXCEPT ![i].pc = "run", ![i].ready = TRUE]
  <2> DEFINE r == [q EXCEPT !.pc = "run", !.ready = TRUE]
  <2>1. left' \in Scenario /\ left'.faults <= left.faults
    BY <1>3, NoFaultFacts DEF Recreate, NoFault
  <2>2. wrk' = [wrk EXCEPT ![i] = r]
    BY <1>3 DEF Recreate
  <2>3. r \in RunType
    BY <1>1 DEF RunType
  <2>4. Progress(i, r) /\ r.queue = q.queue /\ r.call = q.call
    BY <1>1, <1>3, <2>1, <2>2, <2>3 DEF Progress, Worn, RunType
  <2> QED
    BY <1>2, <2>4, SilentWorkerStep
<1>4. CASE q.pc = "recreating" /\ Fault(i) /\ wrk' = [wrk EXCEPT ![i].pc = "retrying"]
  <2> DEFINE r == [q EXCEPT !.pc = "retrying"]
  <2>1. left' \in Scenario /\ left'.faults <= left.faults /\ left'.faults < left.faults
    BY <1>4, FaultFacts DEF Recreate, NoFault
  <2>2. wrk' = [wrk EXCEPT ![i] = r]
    BY <1>4 DEF Recreate
  <2>3. r \in RunType
    BY <1>1 DEF RunType
  <2>4. Progress(i, r) /\ r.queue = q.queue /\ r.call = q.call
    BY <1>1, <1>4, <2>1, <2>2, <2>3 DEF Progress, Worn, RunType
  <2> QED
    BY <1>2, <2>4, SilentWorkerStep
<1>5. CASE q.pc = "recreating" /\ q.stop /\ NoFault /\ wrk' = [wrk EXCEPT ![i].pc = "ending"]
  <2> DEFINE r == [q EXCEPT !.pc = "ending"]
  <2>1. left' \in Scenario /\ left'.faults <= left.faults
    BY <1>5, NoFaultFacts DEF Recreate, NoFault
  <2>2. wrk' = [wrk EXCEPT ![i] = r]
    BY <1>5 DEF Recreate
  <2>3. r \in RunType
    BY <1>1 DEF RunType
  <2>4. Progress(i, r) /\ r.queue = q.queue /\ r.call = q.call
    BY <1>1, <1>5, <2>1, <2>2, <2>3 DEF Progress, Worn, RunType
  <2> QED
    BY <1>2, <2>4, SilentWorkerStep
<1>6. CASE q.pc = "retrying" /\ NoFault /\ wrk' = [wrk EXCEPT ![i].pc = "recreating"]
  <2> DEFINE r == [q EXCEPT !.pc = "recreating"]
  <2>1. left' \in Scenario /\ left'.faults <= left.faults
    BY <1>6, NoFaultFacts DEF Recreate, NoFault
  <2>2. wrk' = [wrk EXCEPT ![i] = r]
    BY <1>6 DEF Recreate
  <2>3. r \in RunType
    BY <1>1 DEF RunType
  <2>4. Progress(i, r) /\ r.queue = q.queue /\ r.call = q.call
    BY <1>1, <1>6, <2>1, <2>2, <2>3 DEF Progress, Worn, RunType
  <2> QED
    BY <1>2, <2>4, SilentWorkerStep
<1> QED
  BY <1>3, <1>4, <1>5, <1>6 DEF Recreate

LEMMA ShutdownStep ==
  ASSUME ServerInv, NEW i \in Runs, Shutdown(i), UNCHANGED <<mgr, mon, asks, acc, lst>>
  PROVE  ServerInv'
<1> DEFINE q == wrk[i]
<1>1. /\ q \in RunType /\ (q.call # NoConn <=> q.pc = "calling")
      /\ q.status = "Failed" => Worn(q)
  BY DEF ServerInv, TypeOK, InHand, Restarts
<1>2. UNCHANGED fate
  BY DEF Shutdown
<1>3. CASE q.pc = "stopping"
  <2> DEFINE r == [q EXCEPT !.pc = "ending"]
  <2>1. left' \in Scenario /\ left'.faults <= left.faults
    BY <1>3, NoFaultFacts DEF Shutdown, NoFault
  <2>2. wrk' = [wrk EXCEPT ![i] = r]
    BY <1>3 DEF Shutdown
  <2>3. r \in RunType
    BY <1>1 DEF RunType
  <2>4. Progress(i, r) /\ r.queue = q.queue /\ r.call = q.call
    BY <1>1, <1>3, <2>1, <2>2, <2>3 DEF Progress, Worn, RunType
  <2> QED
    BY <1>2, <2>4, SilentWorkerStep
<1> QED
  BY <1>3 DEF Shutdown

LEMMA RecoverStep ==
  ASSUME ServerInv, NEW i \in Runs, Recover(i), UNCHANGED <<mgr, mon, asks, acc, lst>>
  PROVE  ServerInv'
<1> DEFINE q == wrk[i]
<1>1. /\ q \in RunType /\ (q.call # NoConn <=> q.pc = "calling")
      /\ q.status = "Failed" => Worn(q)
  BY DEF ServerInv, TypeOK, InHand, Restarts
<1>2. UNCHANGED fate
  BY DEF Recover
<1>3. CASE q.pc \in {"run", "calling"}
  <2> DEFINE r == [q EXCEPT !.ready = TRUE]
  <2>1. left' \in Scenario /\ left'.faults <= left.faults
    BY <1>3, NoFaultFacts DEF Recover, NoFault
  <2>2. wrk' = [wrk EXCEPT ![i] = r]
    BY <1>3 DEF Recover
  <2>3. r \in RunType
    BY <1>1 DEF RunType
  <2>4. Progress(i, r) /\ r.queue = q.queue /\ r.call = q.call
    BY <1>1, <1>3, <2>1, <2>2, <2>3 DEF Progress, Worn, RunType
  <2> QED
    BY <1>2, <2>4, SilentWorkerStep
<1> QED
  BY <1>3 DEF Recover

LEMMA StallStep ==
  ASSUME ServerInv, NEW i \in Runs, Stall(i), UNCHANGED <<mgr, mon, asks, acc, lst>>
  PROVE  ServerInv'
<1> DEFINE q == wrk[i]
           r == [q EXCEPT !.ready = FALSE]
<1>1. /\ q \in RunType /\ (q.call # NoConn <=> q.pc = "calling")
      /\ q.status = "Failed" => Worn(q)
  BY DEF ServerInv, TypeOK, InHand, Restarts
<1>2. left' \in Scenario /\ left'.faults <= left.faults
  BY DEF Stall, ServerInv, TypeOK, Scenario
<1>3. wrk' = [wrk EXCEPT ![i] = r] /\ q.pc \in {"run", "calling"} /\ UNCHANGED fate
  BY DEF Stall
<1>4. r \in RunType
  BY <1>1 DEF RunType
<1>5. Progress(i, r) /\ r.queue = q.queue /\ r.call = q.call
  BY <1>1, <1>2, <1>3, <1>4 DEF Progress, Worn, RunType
<1> QED
  BY <1>3, <1>5, SilentWorkerStep

LEMMA DropStep ==
  ASSUME ServerInv, NEW i \in Runs, Drop(i), UNCHANGED <<mgr, mon, asks, acc, lst>>
  PROVE  ServerInv'
<1> DEFINE q == wrk[i]
           end(r) == IF r.status = "Failed" /\ ~r.open THEN [r EXCEPT !.pc = "gone", !.stop = FALSE] ELSE r
           closed == [q EXCEPT !.open = FALSE]
           failed == SetStatus(q, "Failed")
<1>1. /\ q \in RunType /\ (q.call # NoConn <=> q.pc = "calling")
      /\ q.status = "Failed" => Worn(q)
  BY DEF ServerInv, TypeOK, InHand, Restarts
<1>2. left' \in Scenario /\ left'.faults <= left.faults
  BY NoFaultFacts DEF Drop
<1>3. UNCHANGED fate /\ q.pc = "ending"
  BY DEF Drop
<1>4. wrk' = [wrk EXCEPT ![i] = end(closed)] \/ wrk' = [wrk EXCEPT ![i] = end(failed)]
  BY DEF Drop
<1>5. /\ closed \in RunType /\ closed.pc = q.pc /\ closed.queue = q.queue /\ closed.call = q.call
      /\ closed.stop = q.stop
  BY <1>1 DEF RunType
<1>6. /\ failed \in RunType /\ failed.pc = q.pc /\ failed.queue = q.queue /\ failed.call = q.call
      /\ failed.stop = q.stop
  BY <1>1, StatusSet
<1>7. ASSUME NEW r \in RunType, r.pc = "ending", r.queue = q.queue, r.call = q.call, r.stop = q.stop
      PROVE  /\ end(r) \in RunType /\ Worn(end(r)) /\ end(r).pc # "calling" /\ end(r).pc # "stopping"
             /\ end(r).queue = q.queue /\ end(r).call = q.call /\ (end(r).stop => q.stop)
  BY <1>7 DEF RunType, Worn
<1>8. PICK r : /\ wrk' = [wrk EXCEPT ![i] = r] /\ r \in RunType /\ Worn(r) /\ r.pc # "calling"
               /\ r.pc # "stopping" /\ r.queue = q.queue /\ r.call = q.call /\ (r.stop => q.stop)
  <2> HIDE DEF end, closed, failed
  <2>1. CASE wrk' = [wrk EXCEPT ![i] = end(closed)]
    BY <2>1, <1>3, <1>5, <1>7
  <2>2. CASE wrk' = [wrk EXCEPT ![i] = end(failed)]
    BY <2>2, <1>3, <1>6, <1>7
  <2> QED
    BY <1>4, <2>1, <2>2
<1>9. Progress(i, r)
  BY <1>1, <1>2, <1>3, <1>8 DEF Progress, Worn
<1> QED
  BY <1>3, <1>8, <1>9, SilentWorkerStep

LEMMA ReceiveStep ==
  ASSUME ServerInv, NEW i \in Runs, Receive(i), UNCHANGED <<mgr, mon, asks, acc, lst>>
  PROVE  ServerInv'
<1> DEFINE q == wrk[i]
           c == Head(q.queue)
           p == [q EXCEPT !.pc = "calling", !.call = c, !.queue = Tail(q.queue)]
           r == SetStatus(p, "Available")
           ws == [wrk EXCEPT ![i].queue = Tail(@)]
<1>1. /\ q \in RunType /\ (q.call # NoConn <=> q.pc = "calling")
      /\ q.status = "Failed" => Worn(q)
  BY DEF ServerInv, TypeOK, InHand, Restarts
<1>2. /\ q.pc = "run" /\ q.queue # <<>> /\ UNCHANGED <<fate, left>> /\ q.queue \in Seq(Conns)
      /\ Once(q.queue) /\ Placement(wrk, mgr, acc, fate) /\ Distinct(wrk, mgr, acc)
  BY <1>1 DEF Receive, RunType, ServerInv, Placed, Placement, Distinct
<1>3. wrk' = [wrk EXCEPT ![i] = r]
  BY DEF Receive
<1>4. /\ c \in Conns /\ Tail(q.queue) \in Seq(Conns) /\ c \in ToSet(q.queue)
      /\ Once(Tail(q.queue)) /\ ToSet(Tail(q.queue)) = ToSet(q.queue) \ {c}
  BY <1>2, Shortened
<1> HIDE DEF c
<1>5. /\ p \in RunType /\ p.pc = "calling" /\ p.call = c /\ p.queue = Tail(q.queue) /\ p.stop = q.stop
      /\ p.status = q.status
  BY <1>1, <1>4 DEF RunType
<1> HIDE DEF p
<1>6. /\ r \in RunType /\ r.pc = "calling" /\ r.call = c /\ r.queue = Tail(q.queue) /\ r.stop = q.stop
      /\ r.status = "Failed" => q.status = "Failed"
  BY <1>5, StatusSet
<1> HIDE DEF r
<1>7. left' \in Scenario /\ left'.faults <= left.faults
  BY <1>2, NoFaultFacts
<1>8. Progress(i, r)
  BY <1>1, <1>2, <1>3, <1>4, <1>6, <1>7 DEF Progress, Worn
<1>9. Placed'
  <2>1. wrk \in [Runs -> RunType] /\ q.call = NoConn
    BY <1>1, <1>2 DEF ServerInv, TypeOK
  <2>2. /\ \A j \in Runs : ws[j].call = wrk[j].call /\ (j # i => ws[j].queue = wrk[j].queue)
        /\ ws[i].queue = Tail(q.queue) /\ ws[i].call = NoConn
    BY <2>1 DEF RunType
  <2>3. /\ \A j \in Runs : wrk'[j].queue = ws[j].queue /\ (j # i => wrk'[j].call = ws[j].call)
        /\ wrk'[i].call = c
    BY <1>3, <1>6, <2>1, <2>2
  <2> HIDE DEF ws
  <2>4. Held(ws, mgr, acc) = Without(Held(wrk, mgr, acc), SlotQueue(i), {c})
    <3>1. QueueLoses(wrk, ws, i, {c})
      BY <1>4, <2>2 DEF QueueLoses
    <3> QED
      BY <3>1, QueueGives
  <2>5. Held(wrk', mgr, acc) = With(Held(ws, mgr, acc), SlotCall(i), {c})
    BY <1>4, <2>2, <2>3, CallGets
  <2>6. {c} \subseteq Held(wrk, mgr, acc)[SlotQueue(i)]
    BY <1>4, HeldFacts DEF HeldIs
  <2>7. Distinct(wrk', mgr, acc)
    BY <1>2, <1>4, <2>2, <2>3 DEF Distinct
  <2>8. SlotQueue(i) \in Slots /\ SlotCall(i) \in Slots
    BY SlotFacts
  <2>9. Placement(wrk', mgr, acc, fate)
    BY <1>2, <2>4, <2>5, <2>6, <2>7, <2>8, Transfer
  <2> QED
    BY <1>2, <2>9 DEF Placed
<1> QED
  BY <1>2, <1>8, <1>9, WorkerKeeps DEF ServerInv, TypeOK

\* The call ends, well or not: the connection is served or lost.
CallOver(i, pc, end) ==
  /\ wrk[i].pc = "calling" /\ wrk' = [wrk EXCEPT ![i].pc = pc, ![i].call = NoConn]
  /\ fate' = [fate EXCEPT ![wrk[i].call] = end]
  /\ left' \in Scenario /\ left'.faults <= left.faults
  /\ pc = "ending" => left'.faults < left.faults

LEMMA CallEnds ==
  ASSUME ServerInv, NEW i \in Runs, NEW pc \in {"run", "ending"}, NEW end \in {"served", "lost"},
         CallOver(i, pc, end), UNCHANGED <<mgr, mon, asks, acc, lst>>
  PROVE  ServerInv'
<1> DEFINE q == wrk[i]
           c == wrk[i].call
           r == [q EXCEPT !.pc = pc, !.call = NoConn]
<1>1. /\ q \in RunType /\ (q.call # NoConn <=> q.pc = "calling") /\ wrk \in [Runs -> RunType]
      /\ q.status = "Failed" => Worn(q)
  BY DEF ServerInv, TypeOK, InHand, Restarts, CallOver
<1>2. c \in Conns /\ fate \in [Conns -> FateType]
  BY <1>1 DEF RunType, ServerInv, TypeOK, CallOver
<1>3. /\ wrk' = [wrk EXCEPT ![i] = r] /\ r \in RunType /\ r.queue = q.queue /\ r.call = NoConn
      /\ r.pc = pc /\ r.stop = q.stop /\ r.status = q.status
  BY <1>1 DEF RunType, CallOver
<1>4. Progress(i, r)
  BY <1>1, <1>3 DEF Progress, Worn, CallOver
<1>5. /\ \A j \in Runs : wrk'[j].queue = wrk[j].queue /\ (j # i => wrk'[j].call = wrk[j].call)
      /\ wrk'[i].call = NoConn
  BY <1>1, <1>3
<1>6. Placement(wrk, mgr, acc, fate) /\ Distinct(wrk, mgr, acc) /\ fate[c] = "accepted"
  <2>1. Placement(wrk, mgr, acc, fate)
    BY DEF ServerInv, Placed
  <2>2. c \in Hand(c)
    BY <1>2 DEF Hand
  <2>3. HeldIs(Held(wrk, mgr, acc), wrk, mgr, acc)
    BY HeldFacts
  <2>4. c \in Held(wrk, mgr, acc)[SlotCall(i)]
    BY <2>2, <2>3 DEF HeldIs
  <2> QED
    BY <1>2, <2>1, <2>4, SlotFacts, NotAccepted DEF Placement
<1> HIDE DEF r, q
<1>7. Placed'
  <2>1. Held(wrk', mgr, acc) = Without(Held(wrk, mgr, acc), SlotCall(i), {c})
    BY <1>5, CallGives
  <2>2. {c} \subseteq Held(wrk, mgr, acc)[SlotCall(i)]
    <3>1. HeldIs(Held(wrk, mgr, acc), wrk, mgr, acc)
      BY HeldFacts
    <3> QED
      BY <3>1, <1>2 DEF HeldIs, Hand
  <2>3. Distinct(wrk', mgr, acc)
    BY <1>5, <1>6 DEF Distinct
  <2>4. \A d \in Conns : fate'[d] = "accepted" <=> (fate[d] = "accepted" /\ d \notin {c})
    BY <1>2 DEF CallOver
  <2>5. SlotCall(i) \in Slots
    BY SlotFacts
  <2>6. Placement(wrk', mgr, acc, fate')
    BY <1>6, <2>1, <2>2, <2>3, <2>4, <2>5, Departure
  <2> QED
    BY <2>6 DEF Placed
<1>8. fate' \in [Conns -> FateType] /\ \A d \in Conns : fate[d] = "arrived" => fate'[d] = "arrived"
  BY <1>2, <1>6 DEF FateType, CallOver
<1> QED
  BY <1>4, <1>7, <1>8, WorkerKeeps

LEMMA WorkerStep ==
  ASSUME ServerInv, NEW i \in Runs, WorkerRuns(i) \/ WorkerSuffers(i),
         UNCHANGED <<mgr, mon, asks, acc, lst>>
  PROVE  ServerInv'
<1>1. CASE CallReturns(i)
  <2>1. left' \in Scenario /\ left'.faults <= left.faults
    BY <1>1, NoFaultFacts DEF CallReturns, NoFault
  <2> QED
    BY <1>1, <2>1, CallEnds DEF CallReturns, CallOver
<1>2. CASE CallPanics(i)
  <2>1. left' \in Scenario /\ left'.faults <= left.faults /\ left'.faults < left.faults
    BY <1>2, FaultFacts DEF CallPanics
  <2> QED
    BY <1>2, <2>1, CallEnds DEF CallPanics, CallOver
<1> QED
  BY <1>1, <1>2, CreateStep, ReceiveStep, CheckReadyStep, SeesStopStep, RecreateStep, ShutdownStep,
     DropStep, RecoverStep, NotReadyStep, StallStep DEF WorkerRuns, WorkerSuffers

-----------------------------------------------------------------------------
(* What the steps of the manager, of the monitors and of the accept loop       *)
(* leave alone.                                                                *)

\* The runs are as they were but for their queues and the stop command.
RunsKept ==
  \A i \in Runs :
    /\ wrk'[i].pc = wrk[i].pc /\ wrk'[i].status = wrk[i].status /\ wrk'[i].call = wrk[i].call
    /\ wrk'[i].stop => wrk[i].stop \/ mgr'.stopping
    /\ ~wrk[i].open => ~wrk'[i].open
    /\ ~wrk[i].open /\ wrk[i].queue = <<>> => wrk'[i].queue = <<>>

MonitorsKept ==
  \A w \in Workers :
    /\ mon'[w].run = mon[w].run
    /\ mon'[w].pc = "sleep" => Worn(wrk[Watched(w)])

LEMMA Frame ==
  ASSUME ServerInv, TypeOK', RunsKept, MonitorsKept, left'.faults = left.faults,
         mgr.stopping => mgr'.stopping, mgr'.stage # "none" => mgr'.stopping,
         acc'.cur # NoConn <=> acc'.pc \in {"dispatch", "enqueue"},
         Arrivals', Placed'
  PROVE  ServerInv'
<1>1. InHand'
  BY DEF ServerInv, InHand, RunsKept
<1>2. Unstarted'
  <2> SUFFICES ASSUME NEW w \in Workers, NEW n \in 0..MaxRuns, n > mon'[w].run
               PROVE  /\ wrk'[<<w, n>>].pc = "none" /\ ~wrk'[<<w, n>>].open
                      /\ wrk'[<<w, n>>].queue = <<>> /\ wrk'[<<w, n>>].call = NoConn
    BY DEF Unstarted
  <2>1. n > mon[w].run /\ <<w, n>> \in Runs
    BY RunNames DEF MonitorsKept
  <2>2. /\ wrk[<<w, n>>].pc = "none" /\ ~wrk[<<w, n>>].open
        /\ wrk[<<w, n>>].queue = <<>> /\ wrk[<<w, n>>].call = NoConn
    BY <2>1 DEF ServerInv, Unstarted
  <2> QED
    BY <2>1, <2>2 DEF RunsKept
<1>3. Restarts'
  <2>1. \A i \in Runs : Worn(wrk'[i]) <=> Worn(wrk[i])
    BY DEF RunsKept, Worn
  <2>2. \A w \in Workers : Watched(w)' = Watched(w) /\ Watched(w) \in Runs
    BY RunNames DEF Watched, MonitorsKept, ServerInv, TypeOK, MonType
  <2>3. \A i \in Runs : /\ wrk'[i].status = "Failed" => Worn(wrk'[i])
                        /\ wrk'[i].stop \/ wrk'[i].pc = "stopping" => mgr'.stopping
    BY <2>1 DEF RunsKept, ServerInv, Restarts
  <2>4. ASSUME NEW w \in Workers
        PROVE  /\ mon'[w].run + left'.faults <= MaxRuns
               /\ mon'[w].pc = "sleep" => Worn(wrk'[Watched(w)])
               /\ Worn(wrk'[Watched(w)]) => mgr'.stopping \/ mon'[w].run + left'.faults < MaxRuns
    <3>1. /\ mon[w].run + left.faults <= MaxRuns
          /\ Worn(wrk[Watched(w)]) => mgr.stopping \/ mon[w].run + left.faults < MaxRuns
      BY DEF ServerInv, Restarts
    <3> QED
      BY <3>1, <2>1, <2>2 DEF MonitorsKept
  <2> QED
    BY <2>2, <2>3, <2>4 DEF Restarts
<1> QED
  BY <1>1, <1>2, <1>3 DEF ServerInv

LEMMA ArrivalsKept ==
  ASSUME ServerInv, acc'.pc = "gone" \/ acc'.pc = acc.pc \/ acc.pc # "gone", UNCHANGED lst,
         \A c \in Conns : fate[c] = "arrived" => fate'[c] = "arrived"
  PROVE  Arrivals'
BY DEF ServerInv, Arrivals, TypeOK, LstType

LEMMA MonitorsUnchanged ==
  ASSUME ServerInv, UNCHANGED mon
  PROVE  MonitorsKept
BY DEF ServerInv, Restarts, MonitorsKept

LEMMA RunsUnchanged ==
  ASSUME UNCHANGED wrk
  PROVE  RunsKept
BY DEF RunsKept

AccCommands == {"stop", "terminate", "pause", "resume", "timer"}

LEMMA ToldFacts ==
  ASSUME NEW a \in AccType, NEW s \in Seq(AccCommands)
  PROVE  /\ Told(a, s) \in AccType /\ Told(a, s).pc = a.pc /\ Told(a, s).cur = a.cur
         /\ Told(a, s).backlog = a.backlog
<1>1. a.cmds \in Seq(AccCommands)
  BY DEF AccType, AccCommands
<1>2. a.cmds \o s \in Seq(AccCommands)
  BY <1>1, ConcatProperties
<1> HIDE DEF AccCommands
<1>3. (a.token \/ s # <<>>) \in BOOLEAN
  OBVIOUS
<1> DEFINE cs == a.cmds \o s
           tk == a.token \/ s # <<>>
<1>4. cs \in Seq({"stop", "terminate", "pause", "resume", "timer"}) /\ tk \in BOOLEAN
  BY <1>2, <1>3 DEF AccCommands
<1>5. Told(a, s) = [a EXCEPT !.cmds = cs, !.token = tk]
  BY DEF Told
<1> HIDE DEF cs, tk
<1> QED
  BY <1>4, <1>5 DEF AccType

LEMMA AnnouncedFacts ==
  ASSUME NEW m, NEW n
  PROVE  Announced(m, n) \in Seq(AccCommands)
<1>1. "resume" \in AccCommands /\ "pause" \in AccCommands
  BY DEF AccCommands
<1> HIDE DEF AccCommands
<1>2. /\ <<>> \in Seq(AccCommands) /\ <<"resume">> \in Seq(AccCommands)
      /\ <<"pause">> \in Seq(AccCommands)
  BY <1>1, Single, EmptySeq
<1> QED
  BY <1>2 DEF Announced

LEMMA SetAvailableFacts ==
  ASSUME NEW m \in MgrType, NEW b \in BOOLEAN
  PROVE  /\ SetAvailable(m, b) \in MgrType /\ SetAvailable(m, b).cmds = m.cmds
         /\ SetAvailable(m, b).moving = m.moving /\ SetAvailable(m, b).backlog = m.backlog
         /\ SetAvailable(m, b).stopping = m.stopping /\ SetAvailable(m, b).stage = m.stage
BY DEF SetAvailable, MgrType

LEMMA TypesNow ==
  ASSUME ServerInv
  PROVE  /\ wrk \in [Runs -> RunType] /\ fate \in [Conns -> FateType] /\ left \in Scenario
         /\ mgr \in MgrType /\ mon \in [Workers -> MonType]
         /\ asks \in [Callers -> {"idle", "waiting", "answered"}]
         /\ acc \in AccType /\ lst \in [Listeners -> LstType]
         /\ Placement(wrk, mgr, acc, fate) /\ Distinct(wrk, mgr, acc)
         /\ acc.cur # NoConn <=> acc.pc \in {"dispatch", "enqueue"}
         /\ mgr.stage # "none" => mgr.stopping
BY DEF ServerInv, TypeOK, Placed, Placement, InHand, Restarts

LEMMA MgrFields ==
  ASSUME NEW m \in MgrType
  PROVE  /\ m.routed \subseteq Runs /\ m.running \subseteq Runs /\ m.blocked \subseteq Runs
         /\ m.backlog \in Seq(Conns) /\ m.moving \in Seq(Conns) /\ m.cmds \in Seq(CmdType)
         /\ m.notify \subseteq Callers
BY DEF MgrType

\* A step of the manager or of a monitor that moves no connection.
LEMMA QuietStep ==
  ASSUME ServerInv, wrk' \in [Runs -> RunType], mgr' \in MgrType, mon' \in [Workers -> MonType],
         asks' \in [Callers -> {"idle", "waiting", "answered"}], left' \in Scenario,
         left'.faults = left.faults, RunsKept, MonitorsKept,
         \A i \in Runs : wrk'[i].queue = wrk[i].queue,
         mgr.stopping => mgr'.stopping, mgr'.stage # "none" => mgr'.stopping,
         Items(mgr'.cmds) = Items(mgr.cmds), ItemsOnce(mgr'.cmds),
         mgr'.moving = mgr.moving, mgr'.backlog = mgr.backlog,
         acc' \in AccType, acc'.pc = acc.pc, acc'.cur = acc.cur, acc'.backlog = acc.backlog,
         UNCHANGED <<fate, lst>>
  PROVE  ServerInv'
<1>1. TypeOK'
  BY DEF ServerInv, TypeOK
<1>2. Arrivals'
  BY ArrivalsKept
<1>3. \A i \in Runs : wrk'[i].queue = wrk[i].queue /\ wrk'[i].call = wrk[i].call
  BY DEF RunsKept
<1>4. Placed'
  <2>1. Placement(wrk, mgr, acc, fate)
    BY TypesNow
  <2>2. Placement(wrk', mgr', acc', fate')
    BY <1>3, <2>1, Unmoved
  <2> QED
    BY <2>2 DEF Placed
<1>5. acc'.cur # NoConn <=> acc'.pc \in {"dispatch", "enqueue"}
  BY TypesNow
<1> QED
  BY <1>1, <1>2, <1>4, <1>5, Frame

\* A command that is no item is added to the queue, or refused.
LEMMA CommandSent ==
  ASSUME NEW m \in MgrType, NEW op, NEW x, Cmd(op, x) \in CmdType, op # "item", ItemsOnce(m.cmds)
  PROVE  /\ WithCmd(m, op, x) \in MgrType
         /\ Items(WithCmd(m, op, x).cmds) = Items(m.cmds) /\ ItemsOnce(WithCmd(m, op, x).cmds)
         /\ WithCmd(m, op, x).moving = m.moving /\ WithCmd(m, op, x).backlog = m.backlog
         /\ WithCmd(m, op, x).stopping = m.stopping /\ WithCmd(m, op, x).stage = m.stage
<1> DEFINE c == Cmd(op, x)
           q == Append(m.cmds, c)
<1>1. m.cmds \in Seq(CmdType) /\ ~IsItem(c)
  BY MgrFields DEF IsItem, Cmd
<1>2. q \in Seq(CmdType) /\ Items(q) = Items(m.cmds) /\ ItemsOnce(q)
  BY <1>1, CommandAppended
<1>3. WithCmd(m, op, x) = IF m.open THEN [m EXCEPT !.cmds = q] ELSE m
  BY DEF WithCmd
<1> HIDE DEF c, q
<1>4. /\ [m EXCEPT !.cmds = q] \in MgrType /\ [m EXCEPT !.cmds = q].cmds = q
      /\ [m EXCEPT !.cmds = q].moving = m.moving /\ [m EXCEPT !.cmds = q].backlog = m.backlog
      /\ [m EXCEPT !.cmds = q].stopping = m.stopping /\ [m EXCEPT !.cmds = q].stage = m.stage
  BY <1>2 DEF MgrType
<1> QED
  BY <1>2, <1>3, <1>4

\* The next command of the manager.
LEMMA NextCommand ==
  ASSUME ServerInv, NEW op, Received(op)
  PROVE  /\ Rest \in MgrType /\ Rest.cmds = Tail(mgr.cmds) /\ ItemsOnce(Rest.cmds)
         /\ Rest.moving = mgr.moving /\ Rest.backlog = mgr.backlog
         /\ Rest.stopping = mgr.stopping /\ Rest.stage = mgr.stage
         /\ Rest.routed = mgr.routed
         /\ op # "item" => Items(Rest.cmds) = Items(mgr.cmds)
         /\ op = "item" => /\ Arg \in Conns /\ Arg \in Items(mgr.cmds)
                           /\ Items(Rest.cmds) = Items(mgr.cmds) \ {Arg}
         /\ op \in {"available", "unavailable"} => Arg \in Runs
         /\ op \in {"stop", "notify"} => Arg \in Callers
<1> DEFINE h == Head(mgr.cmds)
           q == Tail(mgr.cmds)
<1>1. mgr \in MgrType /\ mgr.cmds \in Seq(CmdType) /\ ItemsOnce(mgr.cmds) /\ mgr.cmds # <<>> /\ h.op = op
  BY TypesNow, MgrFields DEF Distinct, Received
<1>2. /\ h \in CmdType /\ q \in Seq(CmdType) /\ ItemsOnce(q)
      /\ IsItem(h) => h.arg \in Items(mgr.cmds) /\ h.arg \in Conns
      /\ ~IsItem(h) => Items(q) = Items(mgr.cmds)
      /\ IsItem(h) => Items(q) = Items(mgr.cmds) \ {h.arg}
  BY <1>1, CommandTaken
<1> HIDE DEF h, q
<1>3. Rest = [mgr EXCEPT !.cmds = q]
  BY DEF Rest, q
<1>4. /\ Rest \in MgrType /\ Rest.cmds = q /\ Rest.moving = mgr.moving /\ Rest.backlog = mgr.backlog
      /\ Rest.stopping = mgr.stopping /\ Rest.stage = mgr.stage /\ Rest.routed = mgr.routed
  BY <1>1, <1>2, <1>3 DEF MgrType
<1>5. Arg = h.arg
  BY DEF Arg, h
<1>6. /\ op = "item" <=> IsItem(h)
      /\ op \in {"available", "unavailable"} => h.arg \in Runs
      /\ op \in {"stop", "notify"} => h.arg \in Callers
  BY <1>1, <1>2 DEF IsItem, CmdType
<1> QED
  BY <1>2, <1>4, <1>5, <1>6 DEF q


-----------------------------------------------------------------------------
(* Steps that move connections. *)

LEMMA MovingStep ==
  ASSUME ServerInv, TypeOK', RunsKept, MonitorsKept, left'.faults = left.faults,
         mgr.stopping => mgr'.stopping, mgr'.stage # "none" => mgr'.stopping,
         acc'.cur # NoConn <=> acc'.pc \in {"dispatch", "enqueue"},
         acc'.pc = "gone" \/ acc'.pc = acc.pc \/ acc.pc # "gone", UNCHANGED lst,
         \A c \in Conns : fate[c] = "arrived" => fate'[c] = "arrived",
         Placement(wrk', mgr', acc', fate')
  PROVE  ServerInv'
<1>1. Arrivals'
  BY ArrivalsKept
<1>2. Placed'
  BY DEF Placed
<1> QED
  BY <1>1, <1>2, Frame

\* From a place of the manager or of the accept loop to another such place.
LEMMA Passes ==
  ASSUME NEW ws, NEW m, NEW a, NEW f, Placement(ws, m, a, f),
         NEW p, NEW d, NEW n, NEW b, NEW x \in Named0, NEW y \in Named0, NEW X,
         X \subseteq Content(m, a, x),
         OnlyChanged(m, a, p, d, x), Content(p, d, x) = Content(m, a, x) \ X,
         OnlyChanged(p, d, n, b, y), Content(n, b, y) = Content(p, d, y) \cup X,
         Distinct(ws, n, b)
  PROVE  Placement(ws, n, b, f)
<1>1. Held(ws, p, d) = Without(Held(ws, m, a), SlotOf(x), X)
  BY NamedGives
<1>2. Held(ws, n, b) = With(Held(ws, p, d), SlotOf(y), X)
  BY NamedGets
<1>3. X \subseteq Held(ws, m, a)[SlotOf(x)]
  BY ContentHeld
<1>4. SlotOf(x) \in Slots /\ SlotOf(y) \in Slots
  BY SlotFacts
<1> QED
  BY <1>1, <1>2, <1>3, <1>4, Transfer

\* From such a place into the queue of a worker.
LEMMA GoesToQueue ==
  ASSUME NEW ws, NEW m, NEW a, NEW f, Placement(ws, m, a, f),
         NEW wt, NEW n, NEW b, NEW x \in Named0, NEW i \in Runs, NEW X,
         X \subseteq Content(m, a, x),
         OnlyChanged(m, a, n, b, x), Content(n, b, x) = Content(m, a, x) \ X,
         QueueGains(ws, wt, i, X),
         Distinct(wt, n, b)
  PROVE  Placement(wt, n, b, f)
<1>1. Held(ws, n, b) = Without(Held(ws, m, a), SlotOf(x), X)
  BY NamedGives
<1>2. Held(wt, n, b) = With(Held(ws, n, b), SlotQueue(i), X)
  BY QueueGets
<1>3. X \subseteq Held(ws, m, a)[SlotOf(x)]
  BY ContentHeld
<1>4. SlotOf(x) \in Slots /\ SlotQueue(i) \in Slots
  BY SlotFacts
<1> QED
  BY <1>1, <1>2, <1>3, <1>4, Transfer

\* From the queue of a worker back to the manager.
LEMMA LeavesQueue ==
  ASSUME NEW ws, NEW m, NEW a, NEW f, Placement(ws, m, a, f),
         NEW wt, NEW n, NEW b, NEW x \in Named0, NEW i \in Runs, NEW X,
         X \subseteq ToSet(ws[i].queue),
         QueueLoses(ws, wt, i, X),
         OnlyChanged(m, a, n, b, x), Content(n, b, x) = Content(m, a, x) \cup X,
         Distinct(wt, n, b)
  PROVE  Placement(wt, n, b, f)
<1>1. Held(wt, m, a) = Without(Held(ws, m, a), SlotQueue(i), X)
  BY QueueGives
<1>2. Held(wt, n, b) = With(Held(wt, m, a), SlotOf(x), X)
  BY NamedGets
<1>3. X \subseteq Held(ws, m, a)[SlotQueue(i)]
  BY HeldFacts DEF HeldIs
<1>4. SlotOf(x) \in Slots /\ SlotQueue(i) \in Slots
  BY SlotFacts
<1> QED
  BY <1>1, <1>2, <1>3, <1>4, Transfer

\* A connection of one place is not yet in a queue, or in another place.
LEMMA NewToQueue ==
  ASSUME NEW ws, NEW m, NEW a, NEW f, Placement(ws, m, a, f), NEW x \in Named0,
         NEW c \in Content(m, a, x), NEW i \in Runs
  PROVE  c \notin ToSet(ws[i].queue)
<1>1. c \in Held(ws, m, a)[SlotOf(x)]
  BY ContentHeld
<1>2. SlotOf(x) \in Slots /\ SlotQueue(i) \in Slots /\ SlotOf(x) # SlotQueue(i)
  BY SlotFacts
<1>3. c \notin Held(ws, m, a)[SlotQueue(i)]
  BY <1>1, <1>2, NotElsewhere
<1> QED
  BY <1>3, HeldFacts DEF HeldIs

LEMMA NewToNamed ==
  ASSUME NEW ws, NEW m, NEW a, NEW f, Placement(ws, m, a, f), NEW x \in Named0, NEW y \in Named0,
         x # y, NEW c \in Content(m, a, x)
  PROVE  c \notin Content(m, a, y)
<1>1. c \in Held(ws, m, a)[SlotOf(x)]
  BY ContentHeld
<1>2. SlotOf(x) \in Slots /\ SlotOf(y) \in Slots /\ SlotOf(x) # SlotOf(y)
  BY SlotFacts
<1>3. c \notin Held(ws, m, a)[SlotOf(y)]
  BY <1>1, <1>2, NotElsewhere
<1> QED
  BY <1>3, ContentHeld

LEMMA NewToManager ==
  ASSUME NEW ws, NEW m, NEW a, NEW f, Placement(ws, m, a, f), NEW y \in Named0,
         NEW i \in Runs, NEW c \in ToSet(ws[i].queue)
  PROVE  c \notin Content(m, a, y)
<1>1. c \in Held(ws, m, a)[SlotQueue(i)]
  BY HeldFacts DEF HeldIs
<1>2. SlotQueue(i) \in Slots /\ SlotOf(y) \in Slots /\ SlotQueue(i) # SlotOf(y)
  BY SlotFacts
<1>3. c \notin Held(ws, m, a)[SlotOf(y)]
  BY <1>1, <1>2, NotElsewhere
<1> QED
  BY <1>3, ContentHeld

\* Router::dispatch() hands the connection to a worker whose queue is open.
LEMMA RoutedFacts ==
  ASSUME ServerInv
  PROVE  /\ \A i \in OpenRouted : i \in Runs /\ wrk[i].open
         /\ Selectable \subseteq OpenRouted
BY TypesNow, MgrFields DEF OpenRouted, Selectable, IsOpen

LEMMA SentFacts ==
  ASSUME ServerInv, NEW i \in Runs, wrk[i].open, NEW c \in Conns, wrk' = Sent(wrk, i, c)
  PROVE  /\ wrk' \in [Runs -> RunType] /\ RunsKept
         /\ \A j \in Runs : wrk'[j].call = wrk[j].call /\ (j # i => wrk'[j].queue = wrk[j].queue)
         /\ wrk'[i].queue = Append(wrk[i].queue, c)
<1> DEFINE q == Append(wrk[i].queue, c)
<1>1. wrk \in [Runs -> RunType] /\ wrk[i].queue \in Seq(Conns)
  BY TypesNow DEF RunType
<1>2. q \in Seq(Conns)
  BY <1>1, AppendProperties
<1>3. wrk' = [wrk EXCEPT ![i].queue = q]
  BY DEF Sent
<1> HIDE DEF q
<1>4. wrk' \in [Runs -> RunType]
  BY <1>1, <1>2, <1>3, ZenonT(60) DEF RunType
<1>5. \A j \in Runs : j # i => wrk'[j] = wrk[j]
  BY <1>1, <1>3
<1>8. wrk'[i] = [wrk[i] EXCEPT !.queue = q]
  BY <1>1, <1>3
<1>6. /\ wrk'[i].queue = q /\ wrk'[i].pc = wrk[i].pc /\ wrk'[i].status = wrk[i].status
      /\ wrk'[i].call = wrk[i].call /\ wrk'[i].stop = wrk[i].stop /\ wrk'[i].open = wrk[i].open
  BY <1>1, <1>8, ZenonT(60) DEF RunType
<1>7. RunsKept
  BY <1>5, <1>6 DEF RunsKept
<1> QED
  BY <1>4, <1>5, <1>6, <1>7 DEF q

LEMMA DispatchedFrom ==
  ASSUME ServerInv, NEW i \in Runs, NEW c \in Conns, NEW x \in Named0,
         wrk[i].open, wrk' = Sent(wrk, i, c), c \in Content(mgr, acc, x),
         OnlyChanged(mgr, acc, mgr', acc', x), Content(mgr', acc', x) = Content(mgr, acc, x) \ {c},
         ItemsOnce(mgr'.cmds), Once(mgr'.moving), Once(mgr'.backlog), Once(acc'.backlog)
  PROVE  wrk' \in [Runs -> RunType] /\ RunsKept /\ Placement(wrk', mgr', acc', fate)
<1>1. /\ wrk' \in [Runs -> RunType] /\ RunsKept
      /\ \A j \in Runs : wrk'[j].call = wrk[j].call /\ (j # i => wrk'[j].queue = wrk[j].queue)
      /\ wrk'[i].queue = Append(wrk[i].queue, c)
  BY SentFacts
<1>2. Placement(wrk, mgr, acc, fate) /\ Distinct(wrk, mgr, acc) /\ wrk[i].queue \in Seq(Conns)
  BY TypesNow DEF RunType
<1>3. c \notin ToSet(wrk[i].queue) /\ Once(wrk[i].queue)
  BY <1>2, NewToQueue DEF Distinct
<1>4. ToSet(wrk'[i].queue) = ToSet(wrk[i].queue) \cup {c} /\ Once(wrk'[i].queue)
  BY <1>1, <1>2, <1>3, Appended
<1>5. Distinct(wrk', mgr', acc')
  BY <1>1, <1>2, <1>4 DEF Distinct
<1>6. Placement(wrk', mgr', acc', fate)
  <2>1. {c} \subseteq Content(mgr, acc, x)
    OBVIOUS
  <2>2. QueueGains(wrk, wrk', i, {c})
    BY <1>1, <1>4 DEF QueueGains
  <2> QED
    BY <1>2, <1>5, <2>1, <2>2, GoesToQueue
<1> QED
  BY <1>1, <1>6

-----------------------------------------------------------------------------
(* The steps of the manager. *)

Sound ==
  /\ mgr' \in MgrType /\ acc' \in AccType /\ lst' \in [Listeners -> LstType]
  /\ mgr.stopping => mgr'.stopping
  /\ mgr'.stage # "none" => mgr'.stopping
  /\ acc'.cur # NoConn <=> acc'.pc \in {"dispatch", "enqueue"}
  /\ Arrivals'

Singly(m, a) == ItemsOnce(m.cmds) /\ Once(m.moving) /\ Once(m.backlog) /\ Once(a.backlog)

LEMMA SoundStep ==
  ASSUME ServerInv, Sound, wrk' \in [Runs -> RunType], RunsKept, fate' \in [Conns -> FateType],
         UNCHANGED <<left, mon, asks>>, Placement(wrk', mgr', acc', fate')
  PROVE  ServerInv'
<1>1. MonitorsKept
  BY MonitorsUnchanged
<1>2. TypeOK'
  BY TypesNow DEF TypeOK, Sound
<1>3. Placed'
  BY DEF Placed
<1> QED
  BY <1>1, <1>2, <1>3, Frame DEF Sound

\* Where the accept loop stands is as before.
LEMMA AccKept ==
  ASSUME ServerInv, mgr' \in MgrType, mgr.stopping => mgr'.stopping, mgr'.stage # "none" => mgr'.stopping,
         acc' \in AccType, acc'.pc = acc.pc, acc'.cur = acc.cur, UNCHANGED lst,
         \A c \in Conns : fate[c] = "arrived" => fate'[c] = "arrived"
  PROVE  Sound
<1>1. Arrivals'
  BY ArrivalsKept
<1> QED
  BY <1>1, TypesNow DEF Sound

\* A connection goes through the router to a worker.
LEMMA SameContent ==
  ASSUME NEW m, NEW n, NEW a, NEW x \in Named0, n.cmds = m.cmds, n.moving = m.moving,
         n.backlog = m.backlog
  PROVE  /\ Content(n, a, x) = Content(m, a, x)
         /\ \A k, b : OnlyChanged(k, b, m, a, x) => OnlyChanged(k, b, n, a, x)
BY DEF Content, OnlyChanged

LEMMA RoutedChanged ==
  ASSUME NEW m \in MgrType, NEW n, NEW R \in SUBSET Runs, n = [m EXCEPT !.routed = R]
  PROVE  /\ n \in MgrType /\ n.cmds = m.cmds /\ n.moving = m.moving /\ n.backlog = m.backlog
         /\ n.stopping = m.stopping /\ n.stage = m.stage
BY DEF MgrType

LEMMA DispatchStep ==
  ASSUME ServerInv, NEW m \in MgrType, NEW c \in Conns, NEW x \in Named0, Dispatches(c, m),
         c \in Content(mgr, acc, x), OnlyChanged(mgr, acc, m, acc', x),
         Content(m, acc', x) = Content(mgr, acc, x) \ {c}, Singly(m, acc'),
         m.stopping = mgr.stopping, m.stage = mgr.stage, acc' \in AccType,
         acc'.cur # NoConn <=> acc'.pc \in {"dispatch", "enqueue"},
         acc'.pc = acc.pc \/ acc.pc # "gone", UNCHANGED <<fate, left, mon, asks, lst>>
  PROVE  ServerInv'
<1>1. PICK i \in Selectable, gone \in SUBSET ClosedRouted :
        wrk' = Sent(wrk, i, c) /\ mgr' = [m EXCEPT !.routed = @ \ gone]
  BY DEF Dispatches
<1>2. i \in Runs /\ wrk[i].open
  BY RoutedFacts
<1> DEFINE R == m.routed \ gone
<1>3. R \in SUBSET Runs /\ mgr' = [m EXCEPT !.routed = R]
  BY <1>1, MgrFields
<1> HIDE DEF R
<1>4. /\ mgr' \in MgrType /\ mgr'.cmds = m.cmds /\ mgr'.moving = m.moving /\ mgr'.backlog = m.backlog
      /\ mgr'.stopping = m.stopping /\ mgr'.stage = m.stage
  BY <1>3, RoutedChanged
<1>5. OnlyChanged(mgr, acc, mgr', acc', x) /\ Content(mgr', acc', x) = Content(mgr, acc, x) \ {c}
  BY <1>4, SameContent
<1>6. ItemsOnce(mgr'.cmds) /\ Once(mgr'.moving) /\ Once(mgr'.backlog) /\ Once(acc'.backlog)
  BY <1>4 DEF Singly
<1>7. wrk' \in [Runs -> RunType] /\ RunsKept /\ Placement(wrk', mgr', acc', fate)
  BY <1>1, <1>2, <1>5, <1>6, DispatchedFrom
<1>8. Arrivals'
  BY ArrivalsKept
<1>9. Sound
  BY <1>4, <1>8, TypesNow DEF Sound
<1>10. fate' \in [Conns -> FateType]
  BY TypesNow
<1> QED
  BY <1>7, <1>9, <1>10, SoundStep

\* A connection goes from one place to another, and the workers have no part in it.
LEMMA PassStep ==
  ASSUME ServerInv, Sound, NEW c \in Conns, NEW x \in Named0, NEW y \in Named0, NEW p, NEW d,
         c \in Content(mgr, acc, x),
         OnlyChanged(mgr, acc, p, d, x), Content(p, d, x) = Content(mgr, acc, x) \ {c},
         OnlyChanged(p, d, mgr', acc', y), Content(mgr', acc', y) = Content(p, d, y) \cup {c},
         Singly(mgr', acc'), UNCHANGED <<wrk, fate, left, mon, asks>>
  PROVE  ServerInv'
<1>1. Placement(wrk, mgr, acc, fate) /\ Distinct(wrk, mgr, acc)
  BY TypesNow
<1>2. Distinct(wrk, mgr', acc')
  BY <1>1 DEF Distinct, Singly
<1>3. {c} \subseteq Content(mgr, acc, x)
  OBVIOUS
<1>4. Placement(wrk, mgr', acc', fate)
  BY <1>1, <1>2, <1>3, Passes
<1>5. wrk' \in [Runs -> RunType] /\ fate' \in [Conns -> FateType] /\ RunsKept
  BY TypesNow, RunsUnchanged
<1> QED
  BY <1>4, <1>5, SoundStep

LEMMA NowSingly ==
  ASSUME ServerInv
  PROVE  Singly(mgr, acc)
BY TypesNow DEF Distinct, Singly

LEMMA Becoming ==
  ASSUME ServerInv, NEW n \in MgrType, Becomes(n)
  PROVE  /\ mgr' = n /\ acc' \in AccType /\ acc'.pc = acc.pc /\ acc'.cur = acc.cur
         /\ acc'.backlog = acc.backlog
<1>1. acc \in AccType /\ Announced(mgr, n) \in Seq(AccCommands)
  BY TypesNow, AnnouncedFacts
<1> QED
  BY <1>1, ToldFacts DEF Becomes

LEMMA ProcessItemStep ==
  ASSUME ServerInv, ProcessItem
  PROVE  ServerInv'
<1>1. Received("item") /\ UNCHANGED <<fate, left, mon, asks, lst>>
  BY DEF ProcessItem
<1>2. /\ Rest \in MgrType /\ ItemsOnce(Rest.cmds)
      /\ Rest.moving = mgr.moving /\ Rest.backlog = mgr.backlog
      /\ Rest.stopping = mgr.stopping /\ Rest.stage = mgr.stage
      /\ Arg \in Conns /\ Arg \in Items(mgr.cmds) /\ Items(Rest.cmds) = Items(mgr.cmds) \ {Arg}
  BY <1>1, NextCommand
<1> DEFINE x == "command"
           c == Arg
<1>3. /\ x \in Named0 /\ c \in Content(mgr, acc, x) /\ Content(Rest, acc, x) = Content(mgr, acc, x) \ {c}
      /\ OnlyChanged(mgr, acc, Rest, acc, x)
  BY <1>2 DEF Named0, Content, OnlyChanged
<1>4. acc \in AccType /\ (acc.cur # NoConn <=> acc.pc \in {"dispatch", "enqueue"}) /\ mgr \in MgrType
  BY TypesNow
<1>5. Singly(Rest, acc)
  BY <1>2, NowSingly DEF Singly
<1>6. CASE Dispatches(Arg, Rest) /\ UNCHANGED acc
  BY <1>1, <1>2, <1>3, <1>4, <1>5, <1>6, DispatchStep
<1>7. CASE /\ UNCHANGED wrk
           /\ Becomes(SetAvailable([Rest EXCEPT !.routed = {}, !.backlog = Append(@, Arg)], FALSE))
  <2> DEFINE q == Append(Rest.backlog, Arg)
             m == [Rest EXCEPT !.routed = {}, !.backlog = q]
             n == SetAvailable(m, FALSE)
             y == "backlog"
  <2>1. mgr.backlog \in Seq(Conns) /\ Once(mgr.backlog) /\ c \notin ToSet(mgr.backlog)
    <3>1. y \in Named0 /\ Content(mgr, acc, y) = ToSet(mgr.backlog) /\ x # y
      BY DEF Named0, Content
    <3>2. c \notin Content(mgr, acc, y)
      BY <1>3, <3>1, TypesNow, NewToNamed
    <3> QED
      BY <3>1, <3>2, <1>4, MgrFields, NowSingly DEF Singly
  <2>2. q \in Seq(Conns) /\ Once(q) /\ ToSet(q) = ToSet(mgr.backlog) \cup {c}
    BY <1>2, <2>1, Appended, AppendProperties
  <2> HIDE DEF q
  <2>3. /\ m \in MgrType /\ m.cmds = Rest.cmds /\ m.moving = Rest.moving /\ m.backlog = q
        /\ m.stopping = Rest.stopping /\ m.stage = Rest.stage
    BY <1>2, <2>2 DEF MgrType
  <2>4. Becomes(n)
    BY <1>7 DEF q
  <2> HIDE DEF m
  <2>5. /\ n \in MgrType /\ n.cmds = Rest.cmds /\ n.moving = Rest.moving /\ n.backlog = q
        /\ n.stopping = Rest.stopping /\ n.stage = Rest.stage
    BY <2>3, SetAvailableFacts
  <2> HIDE DEF n
  <2>6. /\ mgr' = n /\ acc' \in AccType /\ acc'.pc = acc.pc /\ acc'.cur = acc.cur
        /\ acc'.backlog = acc.backlog
    BY <2>4, <2>5, Becoming
  <2>7. Sound
    BY <1>1, <1>2, <2>5, <2>6, AccKept, TypesNow
  <2>8. Singly(mgr', acc')
    BY <1>2, <1>5, <2>2, <2>5, <2>6 DEF Singly
  <2>9. y \in Named0 /\ OnlyChanged(Rest, acc, mgr', acc', y)
        /\ Content(mgr', acc', y) = Content(Rest, acc, y) \cup {c}
    BY <1>2, <2>2, <2>5, <2>6 DEF OnlyChanged, Content, Named0
  <2> QED
    BY <1>1, <1>2, <1>3, <1>7, <2>7, <2>8, <2>9, PassStep
<1> QED
  BY <1>6, <1>7 DEF ProcessItem

LEMMA WorkerAvailableStep ==
  ASSUME ServerInv, WorkerAvailable
  PROVE  ServerInv'
<1>1. Received("available") /\ UNCHANGED <<wrk, fate, left, mon, asks, acc, lst>>
  BY DEF WorkerAvailable
<1>2. /\ Rest \in MgrType /\ ItemsOnce(Rest.cmds) /\ Items(Rest.cmds) = Items(mgr.cmds)
      /\ Rest.moving = mgr.moving /\ Rest.backlog = mgr.backlog
      /\ Rest.stopping = mgr.stopping /\ Rest.stage = mgr.stage /\ Arg \in Runs
  BY <1>1, NextCommand
<1> DEFINE R == (Rest.routed \ Named(Rest.routed, Arg[1])) \cup {Arg}
<1>3. R \in SUBSET Runs
  BY <1>2, MgrFields
<1>4. mgr' = [Rest EXCEPT !.routed = R, !.pc = "drain"]
  BY DEF WorkerAvailable
<1> HIDE DEF R
<1>5. /\ mgr' \in MgrType /\ mgr'.cmds = Rest.cmds /\ mgr'.moving = Rest.moving
      /\ mgr'.backlog = Rest.backlog /\ mgr'.stopping = Rest.stopping /\ mgr'.stage = Rest.stage
  BY <1>2, <1>3, <1>4 DEF MgrType
<1> QED
  BY <1>1, <1>2, <1>5, TypesNow, RunsUnchanged, MonitorsUnchanged, QuietStep

\* What a worker that is unavailable has in its queue goes to the backlog at once.
LEMMA TakenFacts ==
  ASSUME ServerInv, NEW i \in Runs, NEW close \in BOOLEAN, wrk' = Taken(wrk, i, close)
  PROVE  /\ wrk' \in [Runs -> RunType] /\ RunsKept
         /\ \A j \in Runs : wrk'[j].call = wrk[j].call /\ (j # i => wrk'[j].queue = wrk[j].queue)
         /\ wrk'[i].queue = <<>>
<1> DEFINE o == wrk[i].open /\ ~close
           r == [wrk[i] EXCEPT !.queue = <<>>, !.open = o]
<1>1. wrk \in [Runs -> RunType] /\ wrk[i] \in RunType
  BY TypesNow
<1>2. o \in BOOLEAN /\ (~wrk[i].open => ~o)
  BY <1>1 DEF RunType
<1>3. wrk' = [wrk EXCEPT ![i] = r]
  BY <1>1 DEF Taken
<1> HIDE DEF o
<1>4. <<>> \in Seq(Conns)
  OBVIOUS
<1>5. /\ r \in RunType /\ r.queue = <<>> /\ r.pc = wrk[i].pc /\ r.status = wrk[i].status
      /\ r.call = wrk[i].call /\ r.stop = wrk[i].stop /\ r.open = o
  BY <1>1, <1>2, <1>4 DEF RunType
<1> HIDE DEF r
<1>6. wrk' \in [Runs -> RunType] /\ wrk'[i] = r /\ \A j \in Runs : j # i => wrk'[j] = wrk[j]
  BY <1>1, <1>3, <1>5
<1>7. RunsKept
  BY <1>2, <1>5, <1>6 DEF RunsKept
<1> QED
  BY <1>5, <1>6, <1>7

LEMMA WorkerUnavailableStep ==
  ASSUME ServerInv, WorkerUnavailable
  PROVE  ServerInv'
<1> DEFINE i == Arg
           R == Rest.routed \ Named(Rest.routed, Arg[1])
           q == Rest.backlog \o wrk[Arg].queue
<1>1. Received("unavailable") /\ UNCHANGED <<fate, left, mon, asks, acc, lst>>
  BY DEF WorkerUnavailable
<1>2. /\ Rest \in MgrType /\ ItemsOnce(Rest.cmds) /\ Items(Rest.cmds) = Items(mgr.cmds)
      /\ Rest.moving = mgr.moving /\ Rest.backlog = mgr.backlog
      /\ Rest.stopping = mgr.stopping /\ Rest.stage = mgr.stage /\ i \in Runs
  BY <1>1, NextCommand
<1>3. R \in SUBSET Runs
  BY <1>2, MgrFields
<1>4. CASE wrk[i].status = "Available"
  <2>1. UNCHANGED wrk /\ mgr' = [Rest EXCEPT !.routed = R, !.pc = "drain", !.backlog = Rest.backlog]
    BY <1>4 DEF WorkerUnavailable
  <2> HIDE DEF R
  <2>2. /\ mgr' \in MgrType /\ mgr'.cmds = Rest.cmds /\ mgr'.moving = Rest.moving
        /\ mgr'.backlog = Rest.backlog /\ mgr'.stopping = Rest.stopping /\ mgr'.stage = Rest.stage
    BY <1>2, <1>3, <2>1 DEF MgrType
  <2> QED
    BY <1>1, <1>2, <2>1, <2>2, TypesNow, RunsUnchanged, MonitorsUnchanged, QuietStep
<1>5. CASE wrk[i].status # "Available"
  <2> DEFINE X == ToSet(wrk[i].queue)
             x == "backlog"
             close == (wrk[i].status = "Failed")
  <2>1. wrk' = Taken(wrk, i, close) /\ mgr' = [Rest EXCEPT !.routed = R, !.pc = "drain", !.backlog = q]
    BY <1>5 DEF WorkerUnavailable
  <2>2. /\ wrk' \in [Runs -> RunType] /\ RunsKept /\ wrk'[i].queue = <<>>
        /\ \A j \in Runs : wrk'[j].call = wrk[j].call /\ (j # i => wrk'[j].queue = wrk[j].queue)
    BY <1>2, <2>1, TakenFacts
  <2>3. /\ wrk[i].queue \in Seq(Conns) /\ Once(wrk[i].queue) /\ mgr.backlog \in Seq(Conns)
        /\ Once(mgr.backlog) /\ Placement(wrk, mgr, acc, fate) /\ Distinct(wrk, mgr, acc)
    BY <1>2, TypesNow, MgrFields DEF RunType, Distinct
  <2>4. x \in Named0 /\ \A m, a : Content(m, a, x) = ToSet(m.backlog)
    BY DEF Named0, Content
  <2>5. \A c \in X : c \notin Content(mgr, acc, x)
    BY <1>2, <2>3, <2>4, NewToManager
  <2>6. ToSet(mgr.backlog) \cap ToSet(wrk[i].queue) = {}
    BY <2>4, <2>5
  <2>7. q \in Seq(Conns) /\ ToSet(q) = ToSet(mgr.backlog) \cup X /\ Once(q)
    BY <1>2, <2>3, <2>6, Joined
  <2> HIDE DEF R, q
  <2>8. /\ mgr' \in MgrType /\ mgr'.cmds = Rest.cmds /\ mgr'.moving = Rest.moving
        /\ mgr'.backlog = q /\ mgr'.stopping = Rest.stopping /\ mgr'.stage = Rest.stage
    BY <1>2, <1>3, <2>1, <2>7 DEF MgrType
  <2>9. QueueLoses(wrk, wrk', i, X)
    <3>1. ToSet(<<>>) = X \ X
      BY EmptyQueue
    <3> QED
      BY <3>1, <2>2 DEF QueueLoses
  <2>10. Distinct(wrk', mgr', acc')
    <3>1. \A j \in Runs : Once(wrk'[j].queue)
      BY <2>2, <2>3, EmptyQueue DEF Distinct
    <3> QED
      BY <3>1, <1>1, <1>2, <2>3, <2>7, <2>8 DEF Distinct
  <2>11. OnlyChanged(mgr, acc, mgr', acc', x) /\ Content(mgr', acc', x) = Content(mgr, acc, x) \cup X
    BY <1>1, <1>2, <2>4, <2>7, <2>8 DEF OnlyChanged
  <2>12. Placement(wrk', mgr', acc', fate)
    <3>1. X \subseteq ToSet(wrk[i].queue)
      OBVIOUS
    <3> HIDE DEF X
    <3> QED
      BY <3>1, <1>2, <2>3, <2>4, <2>9, <2>10, <2>11, LeavesQueue
  <2>13. Sound
    BY <1>1, <1>2, <2>8, AccKept, TypesNow
  <2> QED
    BY <1>1, <2>2, <2>12, <2>13, SoundStep, TypesNow
<1> QED
  BY <1>4, <1>5

LEMMA DrainBacklogStep ==
  ASSUME ServerInv, DrainBacklog
  PROVE  ServerInv'
<1>1. UNCHANGED <<fate, left, mon, asks, lst>>
  BY DEF DrainBacklog
<1>2. mgr \in MgrType /\ mgr.backlog \in Seq(Conns) /\ Singly(mgr, acc)
  BY TypesNow, MgrFields, NowSingly
<1>3. CASE /\ mgr.backlog # <<>> /\ UNCHANGED acc
           /\ Dispatches(Head(mgr.backlog), [mgr EXCEPT !.backlog = Tail(@)])
  <2> DEFINE c == Head(mgr.backlog)
             q == Tail(mgr.backlog)
             m == [mgr EXCEPT !.backlog = q]
             x == "backlog"
  <2>1. c \in Conns /\ q \in Seq(Conns) /\ c \in ToSet(mgr.backlog) /\ Once(q)
        /\ ToSet(q) = ToSet(mgr.backlog) \ {c}
    BY <1>2, <1>3, Shortened DEF Singly
  <2>2. Dispatches(c, m)
    BY <1>3
  <2> HIDE DEF c, q
  <2>3. /\ m \in MgrType /\ m.cmds = mgr.cmds /\ m.moving = mgr.moving /\ m.backlog = q
        /\ m.stopping = mgr.stopping /\ m.stage = mgr.stage
    BY <1>2, <2>1 DEF MgrType
  <2> HIDE DEF m
  <2>4. x \in Named0 /\ \A n, a : Content(n, a, x) = ToSet(n.backlog)
    BY DEF Named0, Content
  <2>5. /\ c \in Content(mgr, acc, x) /\ OnlyChanged(mgr, acc, m, acc', x)
        /\ Content(m, acc', x) = Content(mgr, acc, x) \ {c} /\ Singly(m, acc')
    BY <1>2, <1>3, <2>1, <2>3, <2>4 DEF OnlyChanged, Singly
  <2> QED
    BY <1>1, <1>3, <2>1, <2>2, <2>3, <2>4, <2>5, DispatchStep, TypesNow
<1>4. CASE UNCHANGED wrk /\ \E R \in SUBSET Runs, b \in BOOLEAN :
             Becomes(SetAvailable([mgr EXCEPT !.pc = "loop", !.routed = R], b))
  <2>1. PICK R \in SUBSET Runs, b \in BOOLEAN :
          Becomes(SetAvailable([mgr EXCEPT !.pc = "loop", !.routed = R], b))
    BY <1>4
  <2> DEFINE m == [mgr EXCEPT !.pc = "loop", !.routed = R]
             n == SetAvailable(m, b)
  <2>2. /\ m \in MgrType /\ m.cmds = mgr.cmds /\ m.moving = mgr.moving /\ m.backlog = mgr.backlog
        /\ m.stopping = mgr.stopping /\ m.stage = mgr.stage
    BY <1>2 DEF MgrType
  <2>3. Becomes(n)
    BY <2>1
  <2> HIDE DEF m
  <2>4. /\ n \in MgrType /\ n.cmds = m.cmds /\ n.moving = m.moving /\ n.backlog = m.backlog
        /\ n.stopping = m.stopping /\ n.stage = m.stage
    BY <2>2, SetAvailableFacts
  <2> HIDE DEF n
  <2>5. /\ mgr' = n /\ acc' \in AccType /\ acc'.pc = acc.pc /\ acc'.cur = acc.cur
        /\ acc'.backlog = acc.backlog
    BY <2>3, <2>4, Becoming
  <2>6. ItemsOnce(mgr.cmds)
    BY <1>2 DEF Singly
  <2> QED
    BY <1>1, <1>4, <2>2, <2>4, <2>5, <2>6, TypesNow, RunsUnchanged, MonitorsUnchanged, QuietStep
<1>5. ASSUME (mgr.backlog = <<>> \/ NoWorker), UNCHANGED wrk,
             LET m == [mgr EXCEPT !.pc = "loop", !.routed = IF mgr.backlog = <<>> THEN @ ELSE {}]
             IN Becomes(SetAvailable(m, m.backlog = <<>> /\ m.routed # {}))
      PROVE  ServerInv'
  <2> DEFINE R == IF mgr.backlog = <<>> THEN mgr.routed ELSE {}
             m == [mgr EXCEPT !.pc = "loop", !.routed = R]
             b == m.backlog = <<>> /\ m.routed # {}
  <2>1. R \in SUBSET Runs
    BY <1>2, MgrFields
  <2>2. Becomes(SetAvailable(m, b)) /\ b \in BOOLEAN
    BY <1>5
  <2> HIDE DEF R, b
  <2> QED
    BY <1>4, <1>5, <2>1, <2>2
<1> QED
  BY <1>3, <1>5 DEF DrainBacklog

LEMMA RescheduleBlockedStep ==
  ASSUME ServerInv, RescheduleBlocked
  PROVE  ServerInv'
<1>1. UNCHANGED <<wrk, fate, mon, asks, acc, lst>>
  BY DEF RescheduleBlocked
<1>2. mgr \in MgrType /\ mgr.routed \subseteq Runs /\ ItemsOnce(mgr.cmds)
  BY TypesNow, MgrFields DEF Distinct
<1>3. PICK B \in SUBSET mgr.routed : mgr' = [mgr EXCEPT !.pc = "take", !.blocked = B]
  BY DEF RescheduleBlocked
<1>4. /\ mgr' \in MgrType /\ mgr'.cmds = mgr.cmds /\ mgr'.moving = mgr.moving
      /\ mgr'.backlog = mgr.backlog /\ mgr'.stopping = mgr.stopping /\ mgr'.stage = mgr.stage
  BY <1>2, <1>3 DEF MgrType
<1>5. left' \in Scenario /\ left'.faults = left.faults
  BY TypesNow DEF RescheduleBlocked, Scenario
<1> QED
  BY <1>1, <1>2, <1>4, <1>5, TypesNow, RunsUnchanged, MonitorsUnchanged, QuietStep

LEMMA TakeBlockedStep ==
  ASSUME ServerInv, TakeBlocked
  PROVE  ServerInv'
<1>1. UNCHANGED <<fate, left, mon, asks, acc, lst>>
  BY DEF TakeBlocked
<1>2. mgr \in MgrType /\ mgr.blocked \subseteq Runs /\ Singly(mgr, acc) /\ mgr.moving \in Seq(Conns)
  BY TypesNow, MgrFields, NowSingly
<1>3. CASE mgr' = [mgr EXCEPT !.pc = "move"] /\ UNCHANGED wrk
  <2>1. /\ mgr' \in MgrType /\ mgr'.cmds = mgr.cmds /\ mgr'.moving = mgr.moving
        /\ mgr'.backlog = mgr.backlog /\ mgr'.stopping = mgr.stopping /\ mgr'.stage = mgr.stage
    BY <1>2, <1>3 DEF MgrType
  <2> QED
    BY <1>1, <1>2, <1>3, <2>1, TypesNow, RunsUnchanged, MonitorsUnchanged, QuietStep DEF Singly
<1>4. ASSUME NEW i \in mgr.blocked, wrk[i].queue # <<>>,
             mgr' = [mgr EXCEPT !.moving = Append(@, Head(wrk[i].queue))],
             wrk' = [wrk EXCEPT ![i].queue = Tail(@)]
      PROVE  ServerInv'
  <2> DEFINE c == Head(wrk[i].queue)
             q == Tail(wrk[i].queue)
             v == Append(mgr.moving, c)
             x == "moving"
             r == [wrk[i] EXCEPT !.queue = q]
  <2>1. /\ i \in Runs /\ wrk[i] \in RunType /\ wrk[i].queue \in Seq(Conns) /\ Once(wrk[i].queue)
        /\ Placement(wrk, mgr, acc, fate) /\ Distinct(wrk, mgr, acc) /\ wrk \in [Runs -> RunType]
    BY <1>2, TypesNow DEF RunType, Distinct
  <2>2. /\ c \in Conns /\ q \in Seq(Conns) /\ c \in ToSet(wrk[i].queue) /\ Once(q)
        /\ ToSet(q) = ToSet(wrk[i].queue) \ {c}
    BY <1>4, <2>1, Shortened
  <2>3. wrk' = [wrk EXCEPT ![i] = r] /\ mgr' = [mgr EXCEPT !.moving = v]
    BY <1>4, <2>1
  <2> HIDE DEF c, q
  <2>4. x \in Named0 /\ \A n, a : Content(n, a, x) = ToSet(n.moving)
    BY DEF Named0, Content
  <2>5. c \notin ToSet(mgr.moving)
    BY <2>1, <2>2, <2>4, NewToManager, SMTT(60)
  <2>6. v \in Seq(Conns) /\ Once(v) /\ ToSet(v) = ToSet(mgr.moving) \cup {c}
    BY <1>2, <2>2, <2>5, Appended, AppendProperties DEF Singly
  <2> HIDE DEF v
  <2>7. /\ mgr' \in MgrType /\ mgr'.cmds = mgr.cmds /\ mgr'.moving = v
        /\ mgr'.backlog = mgr.backlog /\ mgr'.stopping = mgr.stopping /\ mgr'.stage = mgr.stage
    BY <1>2, <2>3, <2>6 DEF MgrType
  <2>8. /\ r \in RunType /\ r.pc = wrk[i].pc /\ r.status = wrk[i].status /\ r.call = wrk[i].call
        /\ r.stop = wrk[i].stop /\ r.open = wrk[i].open /\ r.queue = q
    BY <2>1, <2>2 DEF RunType
  <2> HIDE DEF r
  <2>9. /\ wrk' \in [Runs -> RunType] /\ wrk'[i] = r
        /\ \A j \in Runs : j # i => wrk'[j] = wrk[j]
    BY <2>1, <2>3, <2>8
  <2>10. RunsKept
    BY <1>4, <2>8, <2>9 DEF RunsKept
  <2>11. QueueLoses(wrk, wrk', i, {c})
    BY <2>2, <2>8, <2>9 DEF QueueLoses
  <2>12. Distinct(wrk', mgr', acc')
    <3>1. \A j \in Runs : Once(wrk'[j].queue)
      BY <2>1, <2>2, <2>8, <2>9 DEF Distinct
    <3> QED
      BY <3>1, <1>1, <2>1, <2>6, <2>7 DEF Distinct
  <2>13. OnlyChanged(mgr, acc, mgr', acc', x) /\ Content(mgr', acc', x) = Content(mgr, acc, x) \cup {c}
    BY <1>1, <2>4, <2>6, <2>7 DEF OnlyChanged
  <2>14. Placement(wrk', mgr', acc', fate)
    <3>1. {c} \subseteq ToSet(wrk[i].queue)
      BY <2>2
    <3> QED
      BY <3>1, <2>1, <2>4, <2>11, <2>12, <2>13, LeavesQueue
  <2>15. Sound
    BY <1>1, <2>7, AccKept, TypesNow
  <2> QED
    BY <1>1, <2>9, <2>10, <2>14, <2>15, SoundStep, TypesNow
<1> QED
  BY <1>3, <1>4 DEF TakeBlocked

LEMMA MoveBlockedStep ==
  ASSUME ServerInv, MoveBlocked
  PROVE  ServerInv'
<1> DEFINE c == Head(mgr.moving)
           q == Tail(mgr.moving)
           m == [mgr EXCEPT !.moving = q]
           x == "moving"
<1>1. /\ UNCHANGED <<fate, left, mon, asks, acc, lst>> /\ mgr.moving # <<>>
      /\ \/ Dispatches(c, m)
         \/ /\ mgr' = [m EXCEPT !.backlog = Append(@, c),
                                !.routed = IF mgr.backlog = <<>> THEN {} ELSE @]
            /\ UNCHANGED wrk
  BY DEF MoveBlocked
<1>2. /\ mgr \in MgrType /\ mgr.moving \in Seq(Conns) /\ Singly(mgr, acc) /\ mgr.backlog \in Seq(Conns)
      /\ Placement(wrk, mgr, acc, fate)
  BY TypesNow, MgrFields, NowSingly
<1>3. /\ c \in Conns /\ q \in Seq(Conns) /\ c \in ToSet(mgr.moving) /\ Once(q)
      /\ ToSet(q) = ToSet(mgr.moving) \ {c}
  BY <1>1, <1>2, Shortened DEF Singly
<1> HIDE DEF c, q
<1>4. /\ m \in MgrType /\ m.cmds = mgr.cmds /\ m.moving = q /\ m.backlog = mgr.backlog
      /\ m.stopping = mgr.stopping /\ m.stage = mgr.stage /\ m.routed \subseteq Runs
  BY <1>2, <1>3 DEF MgrType
<1> HIDE DEF m
<1>5. x \in Named0 /\ \A n, a : Content(n, a, x) = ToSet(n.moving)
  BY DEF Named0, Content
<1>6. /\ c \in Content(mgr, acc, x) /\ OnlyChanged(mgr, acc, m, acc, x)
      /\ Content(m, acc, x) = Content(mgr, acc, x) \ {c} /\ Singly(m, acc)
  BY <1>2, <1>3, <1>4, <1>5 DEF OnlyChanged, Singly
<1>7. CASE Dispatches(c, m)
  BY <1>1, <1>3, <1>4, <1>5, <1>6, <1>7, DispatchStep, TypesNow
<1>8. CASE /\ mgr' = [m EXCEPT !.backlog = Append(@, c),
                                !.routed = IF mgr.backlog = <<>> THEN {} ELSE @]
           /\ UNCHANGED wrk
  <2> DEFINE v == Append(mgr.backlog, c)
             R == IF mgr.backlog = <<>> THEN {} ELSE m.routed
             y == "backlog"
  <2>1. y \in Named0 /\ y # x /\ \A n, a : Content(n, a, y) = ToSet(n.backlog)
    BY DEF Named0, Content
  <2>2. c \notin ToSet(mgr.backlog)
    BY <1>2, <1>5, <1>6, <2>1, NewToNamed
  <2>3. v \in Seq(Conns) /\ Once(v) /\ ToSet(v) = ToSet(mgr.backlog) \cup {c}
    BY <1>2, <1>3, <2>2, Appended, AppendProperties DEF Singly
  <2>4. mgr' = [m EXCEPT !.backlog = v, !.routed = R] /\ R \in SUBSET Runs
    BY <1>4, <1>8
  <2> HIDE DEF v, R
  <2>5. /\ mgr' \in MgrType /\ mgr'.cmds = m.cmds /\ mgr'.moving = m.moving
        /\ mgr'.backlog = v /\ mgr'.stopping = m.stopping /\ mgr'.stage = m.stage
    BY <1>4, <2>3, <2>4 DEF MgrType
  <2>6. OnlyChanged(m, acc, mgr', acc', y) /\ Content(mgr', acc', y) = Content(m, acc, y) \cup {c}
    BY <1>1, <1>4, <2>1, <2>3, <2>5 DEF OnlyChanged
  <2>7. Singly(mgr', acc')
    BY <1>1, <1>6, <2>3, <2>5 DEF Singly
  <2>8. Sound
    BY <1>1, <1>4, <2>5, AccKept, TypesNow
  <2> QED
    BY <1>1, <1>3, <1>5, <1>6, <1>8, <2>1, <2>6, <2>7, <2>8, PassStep
<1> QED
  BY <1>1, <1>7, <1>8

LEMMA MovedBlockedStep ==
  ASSUME ServerInv, MovedBlocked
  PROVE  ServerInv'
<1> DEFINE m == [mgr EXCEPT !.pc = "loop", !.blocked = {}]
           n == SetAvailable(m, FALSE)
<1>1. /\ UNCHANGED <<wrk, fate, left, mon, asks, lst>>
      /\ (mgr' = m /\ UNCHANGED acc) \/ Becomes(n)
  BY DEF MovedBlocked
<1>2. mgr \in MgrType /\ ItemsOnce(mgr.cmds)
  BY TypesNow DEF Distinct
<1>3. /\ m \in MgrType /\ m.cmds = mgr.cmds /\ m.moving = mgr.moving /\ m.backlog = mgr.backlog
      /\ m.stopping = mgr.stopping /\ m.stage = mgr.stage
  BY <1>2 DEF MgrType
<1> HIDE DEF m
<1>4. /\ n \in MgrType /\ n.cmds = m.cmds /\ n.moving = m.moving /\ n.backlog = m.backlog
      /\ n.stopping = m.stopping /\ n.stage = m.stage
  BY <1>3, SetAvailableFacts
<1> HIDE DEF n
<1>5. CASE mgr' = m /\ UNCHANGED acc
  BY <1>1, <1>2, <1>3, <1>5, TypesNow, RunsUnchanged, MonitorsUnchanged, QuietStep
<1>6. CASE Becomes(n)
  <2>1. /\ mgr' = n /\ acc' \in AccType /\ acc'.pc = acc.pc /\ acc'.cur = acc.cur
        /\ acc'.backlog = acc.backlog
    BY <1>4, <1>6, Becoming
  <2> QED
    BY <1>1, <1>2, <1>3, <1>4, <2>1, TypesNow, RunsUnchanged, MonitorsUnchanged, QuietStep
<1> QED
  BY <1>1, <1>5, <1>6

LEMMA SetPausedStep ==
  ASSUME ServerInv, SetPaused
  PROVE  ServerInv'
<1>1. PICK op \in {"pause", "resume"} : Received(op)
  BY DEF SetPaused
<1> DEFINE b == (Head(mgr.cmds).op = "pause")
           n == [Rest EXCEPT !.paused = b]
<1>2. UNCHANGED <<wrk, fate, left, mon, asks, lst>> /\ Becomes(n) /\ b \in BOOLEAN
  BY DEF SetPaused
<1>3. /\ Rest \in MgrType /\ ItemsOnce(Rest.cmds) /\ Items(Rest.cmds) = Items(mgr.cmds)
      /\ Rest.moving = mgr.moving /\ Rest.backlog = mgr.backlog
      /\ Rest.stopping = mgr.stopping /\ Rest.stage = mgr.stage
  BY <1>1, NextCommand
<1> HIDE DEF b
<1>4. /\ n \in MgrType /\ n.cmds = Rest.cmds /\ n.moving = Rest.moving /\ n.backlog = Rest.backlog
      /\ n.stopping = Rest.stopping /\ n.stage = Rest.stage
  BY <1>2, <1>3 DEF MgrType
<1> HIDE DEF n
<1>5. /\ mgr' = n /\ acc' \in AccType /\ acc'.pc = acc.pc /\ acc'.cur = acc.cur
      /\ acc'.backlog = acc.backlog
  BY <1>2, <1>4, Becoming
<1> QED
  BY <1>2, <1>3, <1>4, <1>5, TypesNow, RunsUnchanged, MonitorsUnchanged, QuietStep

LEMMA AddStopNotifyStep ==
  ASSUME ServerInv, AddStopNotify
  PROVE  ServerInv'
<1>1. PICK op \in {"stop", "notify"} : Received(op)
  BY DEF AddStopNotify
<1>2. UNCHANGED <<wrk, fate, left, mon, acc, lst>> /\ NotifyLater(Arg)
  BY DEF AddStopNotify
<1>3. /\ Rest \in MgrType /\ ItemsOnce(Rest.cmds) /\ Items(Rest.cmds) = Items(mgr.cmds)
      /\ Rest.moving = mgr.moving /\ Rest.backlog = mgr.backlog
      /\ Rest.stopping = mgr.stopping /\ Rest.stage = mgr.stage /\ Arg \in Callers
  BY <1>1, NextCommand
<1>4. /\ mgr' \in MgrType /\ mgr'.cmds = Rest.cmds /\ mgr'.moving = Rest.moving
      /\ mgr'.backlog = Rest.backlog /\ mgr'.stopping = Rest.stopping /\ mgr'.stage = Rest.stage
  BY <1>2, <1>3 DEF NotifyLater, MgrType
<1>5. asks' \in [Callers -> {"idle", "waiting", "answered"}]
  BY <1>2, <1>3, TypesNow DEF NotifyLater
<1> QED
  BY <1>2, <1>3, <1>4, <1>5, TypesNow, RunsUnchanged, MonitorsUnchanged, QuietStep

\* Connections that are given up.
LEMMA HeldAccepted ==
  ASSUME ServerInv, NEW x \in Named0, NEW c \in Conns, c \in Content(mgr, acc, x)
  PROVE  fate[c] = "accepted"
<1>1. c \in Held(wrk, mgr, acc)[SlotOf(x)] /\ SlotOf(x) \in Slots
  BY ContentHeld, SlotFacts
<1> QED
  BY <1>1, TypesNow, NotAccepted

LEMMA LeaveStep ==
  ASSUME ServerInv, Sound, NEW x \in Named0, NEW X \in SUBSET Conns, X \subseteq Content(mgr, acc, x),
         OnlyChanged(mgr, acc, mgr', acc', x), Content(mgr', acc', x) = Content(mgr, acc, x) \ X,
         Singly(mgr', acc'), fate' \in [Conns -> FateType],
         \A c \in Conns : fate'[c] = "accepted" <=> (fate[c] = "accepted" /\ c \notin X),
         UNCHANGED <<wrk, left, mon, asks>>
  PROVE  ServerInv'
<1>1. Placement(wrk, mgr, acc, fate) /\ Distinct(wrk, mgr, acc)
  BY TypesNow
<1>2. Distinct(wrk, mgr', acc')
  BY <1>1 DEF Distinct, Singly
<1>3. Held(wrk, mgr', acc') = Without(Held(wrk, mgr, acc), SlotOf(x), X)
  BY NamedGives
<1>4. X \subseteq Held(wrk, mgr, acc)[SlotOf(x)] /\ SlotOf(x) \in Slots
  BY ContentHeld, SlotFacts
<1>5. Placement(wrk, mgr', acc', fate')
  BY <1>1, <1>2, <1>3, <1>4, Departure
<1>6. wrk' \in [Runs -> RunType] /\ RunsKept
  BY TypesNow, RunsUnchanged
<1> QED
  BY <1>5, <1>6, SoundStep

LEMMA DiscardStep ==
  ASSUME ServerInv, Discard
  PROVE  ServerInv'
<1>1. PICK op \in {"item", "available", "unavailable", "pause", "resume"} : Received(op)
  BY DEF Discard
<1>2. UNCHANGED <<wrk, left, mon, asks, acc, lst>> /\ mgr' = Rest
  BY DEF Discard
<1>3. /\ Rest \in MgrType /\ ItemsOnce(Rest.cmds)
      /\ Rest.moving = mgr.moving /\ Rest.backlog = mgr.backlog
      /\ Rest.stopping = mgr.stopping /\ Rest.stage = mgr.stage
      /\ op # "item" => Items(Rest.cmds) = Items(mgr.cmds)
      /\ op = "item" => /\ Arg \in Conns /\ Arg \in Items(mgr.cmds)
                        /\ Items(Rest.cmds) = Items(mgr.cmds) \ {Arg}
  BY <1>1, NextCommand
<1>4. Head(mgr.cmds).op = op
  BY <1>1 DEF Received
<1>5. CASE op # "item"
  <2>1. UNCHANGED fate
    BY <1>4, <1>5 DEF Discard
  <2> QED
    BY <1>2, <1>3, <1>5, <2>1, TypesNow, RunsUnchanged, MonitorsUnchanged, QuietStep
<1>6. CASE op = "item"
  <2> DEFINE c == Arg
             x == "command"
  <2>1. /\ x \in Named0 /\ c \in Content(mgr, acc, x) /\ Content(mgr', acc', x) = Content(mgr, acc, x) \ {c}
        /\ OnlyChanged(mgr, acc, mgr', acc', x)
    BY <1>2, <1>3, <1>6 DEF Named0, Content, OnlyChanged
  <2>2. fate' = [fate EXCEPT ![c] = "dropped"] /\ c \in Conns /\ fate[c] = "accepted"
    BY <1>3, <1>4, <1>6, <2>1, HeldAccepted DEF Discard
  <2>3. /\ fate' \in [Conns -> FateType]
        /\ \A d \in Conns : fate'[d] = "accepted" <=> (fate[d] = "accepted" /\ d \notin {c})
        /\ \A d \in Conns : fate[d] = "arrived" => fate'[d] = "arrived"
    BY <2>2, TypesNow DEF FateType
  <2>4. Sound
    BY <1>2, <1>3, <2>3, AccKept, TypesNow
  <2>5. Singly(mgr', acc')
    BY <1>2, <1>3, NowSingly DEF Singly
  <2>6. {c} \in SUBSET Conns /\ {c} \subseteq Content(mgr, acc, x)
    BY <2>1, <2>2
  <2> HIDE DEF c
  <2> QED
    BY <1>2, <2>1, <2>3, <2>4, <2>5, <2>6, LeaveStep
<1> QED
  BY <1>5, <1>6

\* The accept loop is told to stop, or to end.
LEMMA TellStop ==
  ASSUME ServerInv, NEW s \in AccCommands, acc' = Told(acc, <<s>>)
  PROVE  acc' \in AccType /\ acc'.pc = acc.pc /\ acc'.cur = acc.cur /\ acc'.backlog = acc.backlog
<1>1. <<s>> \in Seq(AccCommands) /\ acc \in AccType
  BY Single, TypesNow
<1> QED
  BY <1>1, ToldFacts

LEMMA StoppingFacts ==
  ASSUME NEW m \in MgrType, NEW by \in {"loop", "monitor"}, NEW ks \in SUBSET Callers
  PROVE  LET n == Stopping(m, by, ks)
         IN /\ n \in MgrType /\ n.cmds = m.cmds /\ n.moving = m.moving /\ n.backlog = m.backlog
            /\ n.stopping
<1> DEFINE K == m.notify \cup ks
<1>1. K \in SUBSET Callers
  BY MgrFields
<1>2. Stopping(m, by, ks) = [m EXCEPT !.stopping = TRUE, !.routed = {}, !.stage = "accept",
                                      !.stopper = by, !.notify = K]
  BY DEF Stopping
<1> HIDE DEF K
<1> QED
  BY <1>1, <1>2 DEF MgrType

LEMMA CommandStopStep ==
  ASSUME ServerInv, CommandStop
  PROVE  ServerInv'
<1>1. Received("stop") /\ UNCHANGED <<wrk, fate, left, mon, asks, lst>> /\ acc' = Told(acc, <<"stop">>)
  BY DEF CommandStop
<1>2. /\ Rest \in MgrType /\ ItemsOnce(Rest.cmds) /\ Items(Rest.cmds) = Items(mgr.cmds)
      /\ Rest.moving = mgr.moving /\ Rest.backlog = mgr.backlog /\ {Arg} \in SUBSET Callers
  BY <1>1, NextCommand
<1>3. mgr' = Stopping(Rest, "loop", {Arg})
  BY DEF CommandStop
<1>4. /\ mgr' \in MgrType /\ mgr'.cmds = Rest.cmds /\ mgr'.moving = Rest.moving
      /\ mgr'.backlog = Rest.backlog /\ mgr'.stopping
  BY <1>2, <1>3, StoppingFacts
<1>5. acc' \in AccType /\ acc'.pc = acc.pc /\ acc'.cur = acc.cur /\ acc'.backlog = acc.backlog
  BY <1>1, TellStop DEF AccCommands
<1> QED
  BY <1>1, <1>2, <1>4, <1>5, TypesNow, RunsUnchanged, MonitorsUnchanged, QuietStep

LEMMA StopWorkersStep ==
  ASSUME ServerInv, StopWorkers
  PROVE  ServerInv'
<1>1. mgr.stage = "accept" /\ UNCHANGED <<fate, left, mon, asks, acc, lst>>
      /\ mgr' = [mgr EXCEPT !.stage = "workers"]
  BY DEF StopWorkers
<1>2. mgr \in MgrType /\ ItemsOnce(mgr.cmds) /\ mgr.stopping /\ wrk \in [Runs -> RunType]
  BY <1>1, TypesNow DEF Distinct
<1>3. /\ mgr' \in MgrType /\ mgr'.cmds = mgr.cmds /\ mgr'.moving = mgr.moving
      /\ mgr'.backlog = mgr.backlog /\ mgr'.stopping
  BY <1>1, <1>2 DEF MgrType
<1>4. ASSUME NEW i \in Runs
      PROVE  /\ wrk'[i] \in RunType /\ wrk'[i].pc = wrk[i].pc /\ wrk'[i].status = wrk[i].status
             /\ wrk'[i].call = wrk[i].call /\ wrk'[i].open = wrk[i].open /\ wrk'[i].queue = wrk[i].queue
  <2> DEFINE b == wrk[i].stop \/ (i \in mgr.running /\ wrk[i].pc # "gone")
  <2>1. wrk[i] \in RunType /\ wrk'[i] = [wrk[i] EXCEPT !.stop = b]
    BY <1>2 DEF StopWorkers
  <2>2. b \in BOOLEAN
    BY <2>1 DEF RunType
  <2> HIDE DEF b
  <2> QED
    BY <2>1, <2>2 DEF RunType
<1>5. wrk' \in [Runs -> RunType]
  <2>1. wrk' = [i \in Runs |-> wrk'[i]]
    BY DEF StopWorkers
  <2> QED
    BY <2>1, <1>4
<1>6. RunsKept
  BY <1>3, <1>4 DEF RunsKept
<1>7. \A i \in Runs : wrk'[i].queue = wrk[i].queue
  BY <1>4
<1> QED
  BY <1>1, <1>2, <1>3, <1>5, <1>6, <1>7, TypesNow, MonitorsUnchanged, QuietStep

LEMMA StopDoneStep ==
  ASSUME ServerInv, StopDone
  PROVE  ServerInv'
<1>1. /\ mgr.stage = "workers" /\ UNCHANGED <<wrk, fate, left, mon, acc, lst>>
      /\ mgr' = [mgr EXCEPT !.stopped = TRUE, !.open = FALSE, !.notify = {}, !.stage = "done",
                            !.stopper = "none"]
  BY DEF StopDone
<1>2. mgr \in MgrType /\ ItemsOnce(mgr.cmds) /\ mgr.stopping
  BY <1>1, TypesNow DEF Distinct
<1>3. /\ mgr' \in MgrType /\ mgr'.cmds = mgr.cmds /\ mgr'.moving = mgr.moving
      /\ mgr'.backlog = mgr.backlog /\ mgr'.stopping
  BY <1>1, <1>2 DEF MgrType
<1>4. asks' \in [Callers -> {"idle", "waiting", "answered"}]
  BY TypesNow DEF StopDone
<1> QED
  BY <1>1, <1>2, <1>3, <1>4, TypesNow, RunsUnchanged, MonitorsUnchanged, QuietStep

LEMMA LoopEndsStep ==
  ASSUME ServerInv, LoopEnds
  PROVE  ServerInv'
<1> DEFINE X == ToSet(mgr.backlog)
           x == "backlog"
<1>1. /\ UNCHANGED <<wrk, left, mon, asks, lst>> /\ acc' = Told(acc, <<"terminate">>)
      /\ mgr' = [mgr EXCEPT !.pc = "gone", !.backlog = <<>>]
      /\ fate' = [c \in Conns |-> IF c \in X THEN "dropped" ELSE fate[c]]
  BY DEF LoopEnds
<1>2. mgr \in MgrType /\ Singly(mgr, acc) /\ mgr.backlog \in Seq(Conns) /\ <<>> \in Seq(Conns)
  BY TypesNow, MgrFields, NowSingly
<1>3. /\ mgr' \in MgrType /\ mgr'.cmds = mgr.cmds /\ mgr'.moving = mgr.moving
      /\ mgr'.backlog = <<>> /\ mgr'.stopping = mgr.stopping /\ mgr'.stage = mgr.stage
  BY <1>1, <1>2 DEF MgrType
<1>4. acc' \in AccType /\ acc'.pc = acc.pc /\ acc'.cur = acc.cur /\ acc'.backlog = acc.backlog
  BY <1>1, TellStop DEF AccCommands
<1>5. x \in Named0 /\ \A n, a : Content(n, a, x) = ToSet(n.backlog)
  BY DEF Named0, Content
<1>6. X \in SUBSET Conns
  BY <1>2, ElementOfSeq, LenProperties DEF ToSet
<1>7. \A c \in X : fate[c] = "accepted"
  BY <1>5, <1>6, HeldAccepted
<1>8. Content(mgr', acc', x) = Content(mgr, acc, x) \ X /\ X \subseteq Content(mgr, acc, x)
  BY <1>3, <1>5, EmptyQueue
<1>9. OnlyChanged(mgr, acc, mgr', acc', x)
  BY <1>3, <1>4 DEF OnlyChanged
<1>10. Singly(mgr', acc')
  BY <1>2, <1>3, <1>4, EmptyQueue DEF Singly
<1> HIDE DEF X
<1>11. /\ fate' \in [Conns -> FateType]
       /\ \A d \in Conns : fate'[d] = "accepted" <=> (fate[d] = "accepted" /\ d \notin X)
       /\ \A d \in Conns : fate[d] = "arrived" => fate'[d] = "arrived"
  BY <1>1, <1>7, TypesNow DEF FateType
<1>12. Sound
  BY <1>1, <1>3, <1>4, <1>11, AccKept, TypesNow
<1> QED
  BY <1>1, <1>5, <1>6, <1>8, <1>9, <1>10, <1>11, <1>12, LeaveStep

LEMMA ManagerStep ==
  ASSUME ServerInv, ManagerRuns \/ RescheduleBlocked
  PROVE  ServerInv'
BY ProcessItemStep, WorkerAvailableStep, WorkerUnavailableStep, DrainBacklogStep, TakeBlockedStep,
   MoveBlockedStep, MovedBlockedStep, SetPausedStep, AddStopNotifyStep, DiscardStep, CommandStopStep,
   StopWorkersStep, StopDoneStep, LoopEndsStep, RescheduleBlockedStep DEF ManagerRuns

-----------------------------------------------------------------------------
(* The steps of the monitors. *)

LEMMA WatchedFacts ==
  ASSUME ServerInv, NEW w \in Workers
  PROVE  /\ Watched(w) \in Runs /\ mon[w] \in MonType /\ mon[w].run \in Nat
         /\ wrk[Watched(w)].status = "Failed" => Worn(wrk[Watched(w)])
<1>1. mon[w] \in MonType
  BY TypesNow
<1>2. mon[w].run \in 0..MaxRuns /\ Watched(w) \in Runs
  BY <1>1, RunNames DEF MonType, Watched
<1> QED
  BY <1>1, <1>2 DEF ServerInv, Restarts

LEMMA MonitorMoves ==
  ASSUME ServerInv, NEW w \in Workers, NEW pc \in {"check", "wait", "sleep", "stopper", "gone"},
         mon' = [mon EXCEPT ![w].pc = pc], pc = "sleep" => Worn(wrk[Watched(w)])
  PROVE  mon' \in [Workers -> MonType] /\ MonitorsKept
<1>1. mon \in [Workers -> MonType]
  BY TypesNow
<1>2. /\ mon' \in [Workers -> MonType] /\ mon'[w].run = mon[w].run /\ mon'[w].pc = pc
      /\ \A v \in Workers : v # w => mon'[v] = mon[v]
  BY <1>1 DEF MonType
<1>3. \A v \in Workers : mon[v].pc = "sleep" => Worn(wrk[Watched(v)])
  BY DEF ServerInv, Restarts
<1>4. ASSUME NEW v \in Workers
      PROVE  mon'[v].run = mon[v].run /\ (mon'[v].pc = "sleep" => Worn(wrk[Watched(v)]))
  <2>1. CASE v = w
    BY <1>2, <2>1
  <2>2. CASE v # w
    BY <1>2, <1>3, <2>2
  <2> QED
    BY <2>1, <2>2
<1> QED
  BY <1>2, <1>4 DEF MonitorsKept

LEMMA ReportStep ==
  ASSUME ServerInv, NEW w \in Workers, Report(w)
  PROVE  ServerInv'
<1> DEFINE i == Watched(w)
           op == IF wrk[i].status = "Available" THEN "available" ELSE "unavailable"
<1>1. /\ UNCHANGED <<fate, left, asks, acc, lst>> /\ wrk' = [wrk EXCEPT ![i].news = FALSE]
      /\ mon' = [mon EXCEPT ![w].pc = "wait"]
      /\ mgr' = IF mgr.stopping THEN mgr ELSE WithCmd(mgr, op, i)
  BY DEF Report
<1>2. /\ i \in Runs /\ op \in {"available", "unavailable"} /\ wrk \in [Runs -> RunType]
      /\ mgr \in MgrType /\ ItemsOnce(mgr.cmds)
  BY WatchedFacts, TypesNow DEF Distinct
<1>3. mon' \in [Workers -> MonType] /\ MonitorsKept
  BY <1>1, MonitorMoves
<1> HIDE DEF i, op
<1>4. Cmd(op, i) \in CmdType /\ op # "item"
  BY <1>2 DEF Cmd, CmdType
<1>5. /\ mgr' \in MgrType /\ Items(mgr'.cmds) = Items(mgr.cmds) /\ ItemsOnce(mgr'.cmds)
      /\ mgr'.moving = mgr.moving /\ mgr'.backlog = mgr.backlog
      /\ mgr'.stopping = mgr.stopping /\ mgr'.stage = mgr.stage
  BY <1>1, <1>2, <1>4, CommandSent
<1>6. wrk' \in [Runs -> RunType] /\ \A j \in Runs : j # i => wrk'[j] = wrk[j]
  BY <1>1, <1>2, ZenonT(60) DEF RunType
<1>7. wrk'[i] = [wrk[i] EXCEPT !.news = FALSE] /\ wrk[i] \in RunType
  BY <1>1, <1>2
<1>8. /\ wrk'[i].pc = wrk[i].pc /\ wrk'[i].status = wrk[i].status /\ wrk'[i].call = wrk[i].call
      /\ wrk'[i].stop = wrk[i].stop /\ wrk'[i].open = wrk[i].open /\ wrk'[i].queue = wrk[i].queue
  BY <1>7 DEF RunType
<1>9. RunsKept /\ \A j \in Runs : wrk'[j].queue = wrk[j].queue
  BY <1>6, <1>8 DEF RunsKept
<1> QED
  BY <1>1, <1>3, <1>5, <1>6, <1>9, TypesNow, QuietStep

LEMMA MonitorEndsStep ==
  ASSUME ServerInv, NEW w \in Workers, MonitorEnds(w, mgr), UNCHANGED <<wrk, fate, left, asks, acc, lst>>
  PROVE  ServerInv'
<1> DEFINE R == mgr.running \ Named(mgr.running, w)
<1>1. mgr \in MgrType /\ ItemsOnce(mgr.cmds) /\ R \in SUBSET Runs
  BY TypesNow, MgrFields DEF Distinct
<1>2. mgr' = [mgr EXCEPT !.running = R] /\ mon' = [mon EXCEPT ![w].pc = "gone"]
  BY DEF MonitorEnds
<1> HIDE DEF R
<1>3. /\ mgr' \in MgrType /\ mgr'.cmds = mgr.cmds /\ mgr'.moving = mgr.moving
      /\ mgr'.backlog = mgr.backlog /\ mgr'.stopping = mgr.stopping /\ mgr'.stage = mgr.stage
  BY <1>1, <1>2 DEF MgrType
<1>4. mon' \in [Workers -> MonType] /\ MonitorsKept
  BY <1>2, MonitorMoves
<1> QED
  BY <1>1, <1>3, <1>4, TypesNow, RunsUnchanged, QuietStep

LEMMA FailedStopsStep ==
  ASSUME ServerInv, NEW w \in Workers, FailedStops(w)
  PROVE  ServerInv'
<1>1. /\ UNCHANGED <<wrk, fate, left, asks, lst>> /\ acc' = Told(acc, <<"stop">>)
      /\ mgr' = Stopping(mgr, "monitor", {}) /\ mon' = [mon EXCEPT ![w].pc = "stopper"]
  BY DEF FailedStops
<1>2. mgr \in MgrType /\ ItemsOnce(mgr.cmds)
  BY TypesNow DEF Distinct
<1>3. /\ mgr' \in MgrType /\ mgr'.cmds = mgr.cmds /\ mgr'.moving = mgr.moving
      /\ mgr'.backlog = mgr.backlog /\ mgr'.stopping
  BY <1>1, <1>2, StoppingFacts
<1>4. mon' \in [Workers -> MonType] /\ MonitorsKept
  BY <1>1, MonitorMoves
<1>5. acc' \in AccType /\ acc'.pc = acc.pc /\ acc'.cur = acc.cur /\ acc'.backlog = acc.backlog
  BY <1>1, TellStop DEF AccCommands
<1> QED
  BY <1>1, <1>2, <1>3, <1>4, <1>5, TypesNow, RunsUnchanged, QuietStep

LEMMA FailedReportedStep ==
  ASSUME ServerInv, NEW w \in Workers, FailedReported(w)
  PROVE  ServerInv'
<1> DEFINE i == Watched(w)
<1>1. /\ UNCHANGED <<wrk, fate, left, asks, acc, lst>> /\ wrk[i].status = "Failed"
      /\ mgr' = WithCmd(mgr, "unavailable", i) /\ mon' = [mon EXCEPT ![w].pc = "sleep"]
  BY DEF FailedReported, Failed
<1>2. i \in Runs /\ Worn(wrk[i]) /\ mgr \in MgrType /\ ItemsOnce(mgr.cmds)
  BY <1>1, WatchedFacts, TypesNow DEF Distinct
<1>3. mon' \in [Workers -> MonType] /\ MonitorsKept
  BY <1>1, <1>2, MonitorMoves
<1> HIDE DEF i
<1>4. Cmd("unavailable", i) \in CmdType
  BY <1>2 DEF Cmd, CmdType
<1>5. /\ mgr' \in MgrType /\ Items(mgr'.cmds) = Items(mgr.cmds) /\ ItemsOnce(mgr'.cmds)
      /\ mgr'.moving = mgr.moving /\ mgr'.backlog = mgr.backlog
      /\ mgr'.stopping = mgr.stopping /\ mgr'.stage = mgr.stage
  BY <1>1, <1>2, <1>4, CommandSent
<1> QED
  BY <1>1, <1>3, <1>5, TypesNow, RunsUnchanged, QuietStep

\* A restart: the run is one that was not used yet, for its number is at most the
\* number of faults so far.
LEMMA RestartStep ==
  ASSUME ServerInv, NEW w \in Workers, Restart(w)
  PROVE  ServerInv'
<1> DEFINE n == mon[w].run + 1
           i == <<w, n>>
<1>1. mon[w].pc = "sleep" /\ UNCHANGED <<fate, left, asks, acc, lst>>
  BY DEF Restart
<1>2. CASE MonitorEnds(w, mgr) /\ UNCHANGED wrk
  BY <1>1, <1>2, MonitorEndsStep
<1>3. CASE /\ ~mgr.stopping /\ wrk' = [wrk EXCEPT ![i] = Started]
           /\ mgr' = [mgr EXCEPT !.running = (@ \ Named(@, w)) \cup {i}]
           /\ mon' = [mon EXCEPT ![w] = [pc |-> "wait", run |-> @.run + 1]]
  <2>1. /\ mon[w].run \in Nat /\ left.faults \in Nat /\ MaxRuns \in Nat
        /\ mon[w].run + left.faults < MaxRuns
    <3>1. Worn(wrk[Watched(w)])
      BY <1>1 DEF ServerInv, Restarts
    <3>2. left.faults \in Nat
      BY TypesNow DEF Scenario
    <3> QED
      BY <3>1, <3>2, <1>3, WatchedFacts, RunsBounded DEF ServerInv, Restarts
  <2>2. n \in 0..MaxRuns /\ n > mon[w].run /\ n + left.faults <= MaxRuns
    BY <2>1
  <2>3. i \in Runs
    BY <2>2, RunNames
  <2>4. /\ wrk[i].queue = <<>> /\ wrk[i].call = NoConn
    BY <2>2 DEF ServerInv, Unstarted
  <2>5. wrk \in [Runs -> RunType] /\ mon \in [Workers -> MonType] /\ mgr \in MgrType
    BY TypesNow
  <2>6. /\ Started \in RunType /\ Started.pc = "creating" /\ Started.status = "Unavailable"
        /\ ~Started.stop /\ Started.queue = <<>> /\ Started.call = NoConn
    BY DEF Started, RunType
  <2> HIDE DEF Started
  <2>7. /\ wrk' \in [Runs -> RunType] /\ wrk'[i] = Started
        /\ \A j \in Runs : j # i => wrk'[j] = wrk[j]
    BY <1>3, <2>3, <2>5, <2>6
  <2> DEFINE r == [pc |-> "wait", run |-> n]
  <2>8. mon' = [mon EXCEPT ![w] = r] /\ r \in MonType /\ r.pc = "wait" /\ r.run = n
    BY <1>3, <2>2, <2>5 DEF MonType
  <2> HIDE DEF r
  <2>9. /\ mon' \in [Workers -> MonType] /\ mon'[w].pc = "wait" /\ mon'[w].run = n
        /\ \A v \in Workers : v # w => mon'[v] = mon[v]
    BY <2>5, <2>8
  <2> DEFINE R == (mgr.running \ Named(mgr.running, w)) \cup {i}
  <2>10. R \in SUBSET Runs /\ mgr' = [mgr EXCEPT !.running = R]
    BY <1>3, <2>3, <2>5, MgrFields
  <2> HIDE DEF R
  <2>11. /\ mgr' \in MgrType /\ mgr'.cmds = mgr.cmds /\ mgr'.moving = mgr.moving
         /\ mgr'.backlog = mgr.backlog /\ mgr'.stopping = mgr.stopping /\ mgr'.stage = mgr.stage
    BY <2>5, <2>10 DEF MgrType
  <2>12. TypeOK'
    BY <1>1, <2>7, <2>9, <2>11, TypesNow DEF TypeOK
  <2>13. InHand'
    BY <1>1, <2>6, <2>7 DEF ServerInv, InHand
  <2>14. \A v \in Workers, k \in 0..MaxRuns : <<v, k>> \in Runs /\ (<<v, k>> = i => v = w /\ k = n)
    BY RunNames
  <2> HIDE DEF n, i
  <2>15. Unstarted'
    <3> SUFFICES ASSUME NEW v \in Workers, NEW k \in 0..MaxRuns, k > mon'[v].run
                 PROVE  /\ wrk'[<<v, k>>].pc = "none" /\ ~wrk'[<<v, k>>].open
                        /\ wrk'[<<v, k>>].queue = <<>> /\ wrk'[<<v, k>>].call = NoConn
      BY DEF Unstarted
    <3>1. k > mon[v].run /\ <<v, k>> # i
      <4>1. CASE v = w
        BY <4>1, <2>1, <2>2, <2>9, <2>14
      <4>2. CASE v # w
        BY <4>2, <2>9, <2>14
      <4> QED
        BY <4>1, <4>2
    <3>2. wrk'[<<v, k>>] = wrk[<<v, k>>]
      BY <3>1, <2>7, <2>14
    <3> QED
      BY <3>1, <3>2 DEF ServerInv, Unstarted
  <2>16. Restarts'
    <3>1. \A j \in Runs : /\ wrk'[j].status = "Failed" => Worn(wrk'[j])
                          /\ wrk'[j].stop \/ wrk'[j].pc = "stopping" => mgr'.stopping
      <4> SUFFICES ASSUME NEW j \in Runs
                   PROVE  /\ wrk'[j].status = "Failed" => Worn(wrk'[j])
                          /\ wrk'[j].stop \/ wrk'[j].pc = "stopping" => mgr'.stopping
        OBVIOUS
      <4>1. CASE j = i
        BY <4>1, <2>6, <2>7
      <4>2. CASE j # i
        BY <4>2, <2>7, <2>11 DEF ServerInv, Restarts
      <4> QED
        BY <4>1, <4>2
    <3>2. ASSUME NEW v \in Workers
          PROVE  /\ mon'[v].run + left'.faults <= MaxRuns
                 /\ mon'[v].pc = "sleep" => Worn(wrk'[Watched(v)'])
                 /\ Worn(wrk'[Watched(v)']) => mgr'.stopping \/ mon'[v].run + left'.faults < MaxRuns
      <4>1. CASE v = w
        <5>1. Watched(v)' = i /\ ~Worn(Started)
          BY <4>1, <2>6, <2>9 DEF Watched, Worn, i
        <5> QED
          BY <4>1, <5>1, <1>1, <2>2, <2>7, <2>9
      <4>2. CASE v # w
        <5>1. Watched(v)' = Watched(v) /\ mon[v].run \in 0..MaxRuns
          BY <4>2, <2>5, <2>9 DEF Watched, MonType
        <5>2. Watched(v) \in Runs /\ Watched(v) # i
          BY <4>2, <5>1, <2>14 DEF Watched
        <5>3. wrk'[Watched(v)] = wrk[Watched(v)] /\ mon'[v] = mon[v]
          BY <4>2, <5>2, <2>7, <2>9
        <5> QED
          BY <5>1, <5>3, <1>1, <2>11 DEF ServerInv, Restarts
      <4> QED
        BY <4>1, <4>2
    <3> QED
      BY <3>1, <3>2, <1>1, <2>11, TypesNow DEF Restarts
  <2>17. Arrivals'
    BY <1>1, ArrivalsKept
  <2>18. Placed'
    <3>1. \A j \in Runs : wrk'[j].queue = wrk[j].queue /\ wrk'[j].call = wrk[j].call
      BY <2>4, <2>6, <2>7
    <3>2. ItemsOnce(mgr.cmds) /\ Placement(wrk, mgr, acc, fate)
      BY TypesNow DEF Distinct
    <3>3. Placement(wrk', mgr', acc', fate')
      BY <3>1, <3>2, <1>1, <2>11, Unmoved
    <3> QED
      BY <3>3 DEF Placed
  <2> QED
    BY <2>12, <2>13, <2>15, <2>16, <2>17, <2>18 DEF ServerInv
<1> QED
  BY <1>2, <1>3 DEF Restart

LEMMA MonitorStep ==
  ASSUME ServerInv, NEW w \in Workers, MonitorRuns(w)
  PROVE  ServerInv'
BY ReportStep, MonitorEndsStep, FailedStopsStep, FailedReportedStep, RestartStep
   DEF MonitorRuns, FailedStopping, StopperEnds

\* The calls of the application.
LEMMA CallStep ==
  ASSUME ServerInv, (\E k \in Callers : CallStop(k)) \/ CallPause \/ CallResume
  PROVE  ServerInv'
<1>1. mgr \in MgrType /\ ItemsOnce(mgr.cmds) /\ left \in Scenario
  BY TypesNow DEF Distinct
<1>2. /\ \A k \in Callers : Cmd("stop", k) \in CmdType /\ Cmd("notify", k) \in CmdType
      /\ Cmd("pause", NoConn) \in CmdType /\ Cmd("resume", NoConn) \in CmdType
  BY DEF Cmd, CmdType
<1>3. PICK op \in {"stop", "notify", "pause", "resume"}, x \in Callers \cup {NoConn} :
        Cmd(op, x) \in CmdType /\ mgr' = WithCmd(mgr, op, x)
  BY <1>2 DEF CallStop, CallPause, CallResume
<1>4. /\ mgr' \in MgrType /\ Items(mgr'.cmds) = Items(mgr.cmds) /\ ItemsOnce(mgr'.cmds)
      /\ mgr'.moving = mgr.moving /\ mgr'.backlog = mgr.backlog
      /\ mgr'.stopping = mgr.stopping /\ mgr'.stage = mgr.stage
  BY <1>1, <1>3, CommandSent
<1>5. UNCHANGED <<wrk, fate, mon, acc, lst>>
  BY DEF CallStop, CallPause, CallResume
<1>6. left' \in Scenario /\ left'.faults = left.faults
  <2>1. CASE \E k \in Callers : CallStop(k)
    BY <1>1, <2>1 DEF CallStop, Scenario
  <2>2. CASE CallPause
    BY <1>1, <2>2 DEF CallPause, Scenario
  <2>3. CASE CallResume
    BY <1>1, <2>3 DEF CallResume
  <2> QED
    BY <2>1, <2>2, <2>3
<1>7. asks' \in [Callers -> {"idle", "waiting", "answered"}]
  BY TypesNow DEF CallStop, CallPause, CallResume
<1> QED
  BY <1>4, <1>5, <1>6, <1>7, TypesNow, RunsUnchanged, MonitorsUnchanged, QuietStep

-----------------------------------------------------------------------------
(* The steps of the accept loop. *)

LEMMA PendingKept ==
  ASSUME ServerInv, acc'.pc = "gone" \/ acc.pc # "gone", lst' \in [Listeners -> LstType],
         \A l \in Listeners : lst'[l].pending \subseteq lst[l].pending,
         \A l \in Listeners : \A c \in lst'[l].pending : fate'[c] = fate[c]
  PROVE  Arrivals'
BY DEF ServerInv, Arrivals

\* No connection moves, but one that has not been accepted may come to an end.
LEMMA QuietAccept ==
  ASSUME ServerInv, Sound, UNCHANGED <<wrk, mon, asks>>, left' \in Scenario,
         left'.faults = left.faults, mgr'.cmds = mgr.cmds, mgr'.moving = mgr.moving,
         mgr'.backlog = mgr.backlog, acc'.cur = acc.cur, acc'.backlog = acc.backlog,
         fate' \in [Conns -> FateType],
         \A c \in Conns : fate'[c] = "accepted" <=> fate[c] = "accepted"
  PROVE  ServerInv'
<1>1. RunsKept /\ MonitorsKept
  BY RunsUnchanged, MonitorsUnchanged
<1>2. TypeOK'
  BY TypesNow DEF TypeOK, Sound
<1>3. Placement(wrk, mgr, acc, fate) /\ ItemsOnce(mgr.cmds)
  BY TypesNow DEF Distinct
<1>4. Placement(wrk', mgr', acc', fate')
  BY <1>3, Unmoved
<1>5. Placed'
  BY <1>4 DEF Placed
<1> QED
  BY <1>1, <1>2, <1>5, Frame DEF Sound

LEMMA AccSound ==
  ASSUME ServerInv, UNCHANGED mgr, acc' \in AccType, lst' \in [Listeners -> LstType],
         acc'.cur # NoConn <=> acc'.pc \in {"dispatch", "enqueue"}, Arrivals'
  PROVE  Sound
BY TypesNow DEF Sound

LEMMA AccFields ==
  ASSUME ServerInv
  PROVE  /\ acc \in AccType /\ acc.backlog \in Seq(Conns) /\ Once(acc.backlog)
         /\ acc.cmds \in Seq(AccCommands) /\ acc.todo \subseteq Listeners
         /\ acc.pc \in {"dispatch", "enqueue"} => acc.cur \in Conns
         /\ acc.pc \notin {"dispatch", "enqueue"} => acc.cur = NoConn
         /\ lst \in [Listeners -> LstType]
         /\ \A l \in Listeners : lst[l] \in LstType /\ lst[l].pending \subseteq Conns
BY TypesNow DEF AccType, Distinct, LstType, AccCommands

LEMMA PauseFacts ==
  ASSUME NEW a \in AccType, NEW ls \in [Listeners -> LstType], PauseAccept(a, ls)
  PROVE  /\ acc' \in AccType /\ acc'.pc = a.pc /\ acc'.cur = a.cur /\ acc'.backlog = a.backlog
         /\ lst' \in [Listeners -> LstType] /\ \A l \in Listeners : lst'[l].pending = ls[l].pending
<1>1. CASE acc' = a /\ lst' = ls
  BY <1>1
<1>2. CASE acc' = [a EXCEPT !.bp = TRUE] /\ lst' = Paused(ls)
  <2>1. acc' \in AccType /\ acc'.pc = a.pc /\ acc'.cur = a.cur /\ acc'.backlog = a.backlog
    BY <1>2 DEF AccType
  <2>2. ASSUME NEW l \in Listeners
        PROVE  Paused(ls)[l] \in LstType /\ Paused(ls)[l].pending = ls[l].pending
    <3> DEFINE b == ls[l].armed /\ ls[l].timeout
    <3>1. Paused(ls)[l] = [ls[l] EXCEPT !.timeout = FALSE, !.armed = b] /\ ls[l] \in LstType
      BY DEF Paused
    <3>2. b \in BOOLEAN
      BY <3>1 DEF LstType
    <3> HIDE DEF b
    <3> QED
      BY <3>1, <3>2 DEF LstType
  <2>3. Paused(ls) = [l \in Listeners |-> Paused(ls)[l]]
    BY DEF Paused
  <2> QED
    BY <1>2, <2>1, <2>2, <2>3
<1> QED
  BY <1>1, <1>2 DEF PauseAccept

LEMMA ArriveStep ==
  ASSUME ServerInv, NEW l \in Listeners, NEW c \in Conns, Arrive(l, c)
  PROVE  ServerInv'
<1> DEFINE P == lst[l].pending \cup {c}
<1>1. /\ fate[c] = "new" /\ acc.pc # "gone" /\ fate' = [fate EXCEPT ![c] = "arrived"]
      /\ lst' = [lst EXCEPT ![l].pending = P] /\ UNCHANGED <<wrk, mgr, mon, asks, acc>>
  BY DEF Arrive
<1>2. P \subseteq Conns /\ lst \in [Listeners -> LstType] /\ fate \in [Conns -> FateType]
  BY AccFields, TypesNow
<1>3. /\ lst' \in [Listeners -> LstType] /\ lst'[l].pending = P
      /\ \A k \in Listeners : k # l => lst'[k].pending = lst[k].pending
  <2> HIDE DEF P
  <2> QED
    BY <1>1, <1>2 DEF LstType
<1>4. left' \in Scenario /\ left'.faults = left.faults
  BY TypesNow DEF Arrive, Scenario
<1>5. /\ fate' \in [Conns -> FateType] /\ fate'[c] = "arrived"
      /\ \A d \in Conns : (d # c => fate'[d] = fate[d])
                          /\ (fate'[d] = "accepted" <=> fate[d] = "accepted")
  BY <1>1, <1>2 DEF FateType
<1>6. \A k \in Listeners : \A d \in lst[k].pending :
        d \in Conns /\ fate[d] = "arrived" /\ \A j \in Listeners : d \in lst[j].pending => j = k
  BY <1>1, AccFields DEF ServerInv, Arrivals
<1>7. Arrivals'
  <2> SUFFICES ASSUME NEW k \in Listeners, NEW d \in lst'[k].pending
               PROVE  fate'[d] = "arrived" /\ \A j \in Listeners : d \in lst'[j].pending => j = k
    BY DEF Arrivals
  <2>1. CASE d = c
    <3>1. \A j \in Listeners : c \notin lst[j].pending
      BY <1>1, <1>6
    <3> QED
      BY <2>1, <3>1, <1>3, <1>5
  <2>2. CASE d # c
    <3>1. \A j \in Listeners : d \in lst'[j].pending => d \in lst[j].pending
      BY <2>2, <1>3
    <3> QED
      BY <2>2, <3>1, <1>5, <1>6
  <2> QED
    BY <2>1, <2>2
<1>8. Sound
  BY <1>1, <1>3, <1>7, AccSound, TypesNow
<1> QED
  BY <1>1, <1>4, <1>5, <1>8, QuietAccept

\* An accepted connection is in the hands of the loop, or in its backlog.
LEMMA EntersStep ==
  ASSUME ServerInv, Sound, NEW y \in Named0, NEW c \in Conns, fate[c] = "arrived",
         fate' = [fate EXCEPT ![c] = "accepted"], UNCHANGED <<wrk, left, mgr, mon, asks>>,
         OnlyChanged(mgr, acc, mgr, acc', y), Content(mgr, acc', y) = Content(mgr, acc, y) \cup {c},
         Once(acc'.backlog)
  PROVE  ServerInv'
<1>1. /\ Placement(wrk, mgr, acc, fate) /\ Distinct(wrk, mgr, acc) /\ fate \in [Conns -> FateType]
      /\ wrk' \in [Runs -> RunType] /\ RunsKept
  BY TypesNow, RunsUnchanged
<1>2. Distinct(wrk, mgr, acc')
  BY <1>1 DEF Distinct
<1>3. Held(wrk, mgr, acc') = With(Held(wrk, mgr, acc), SlotOf(y), {c})
  BY NamedGets
<1>4. SlotOf(y) \in Slots
  BY SlotFacts
<1>5. /\ fate' \in [Conns -> FateType]
      /\ \A d \in Conns : fate'[d] = "accepted" <=> (fate[d] = "accepted" \/ d = c)
  BY <1>1 DEF FateType
<1>6. Placement(wrk, mgr, acc', fate')
  BY <1>1, <1>2, <1>3, <1>4, <1>5, Arrival, ZenonT(60)
<1> QED
  BY <1>1, <1>5, <1>6, SoundStep

LEMMA AcceptOneStep ==
  ASSUME ServerInv, NEW l \in Listeners, AcceptOne(l)
  PROVE  ServerInv'
<1>1. PICK c \in lst[l].pending :
        LET ls == [lst EXCEPT ![l].pending = @ \ {c}]
        IN /\ fate' = [fate EXCEPT ![c] = "accepted"]
           /\ \/ /\ Status(mgr) = "Ready"
                 /\ acc' = [acc EXCEPT !.pc = "dispatch", !.from = "accept", !.cur = c]
                 /\ lst' = ls
              \/ /\ Status(mgr) # "Ready"
                 /\ PauseAccept(Then([acc EXCEPT !.backlog = Append(@, c)], l), ls)
  BY DEF AcceptOne
<1> DEFINE P == lst[l].pending \ {c}
           ls == [lst EXCEPT ![l].pending = P]
<1>2. acc.pc = "accept" /\ UNCHANGED <<wrk, left, mgr, mon, asks>>
  BY DEF AcceptOne, Turn, mvars
<1>3. /\ acc \in AccType /\ acc.backlog \in Seq(Conns) /\ Once(acc.backlog) /\ acc.cur = NoConn
      /\ lst \in [Listeners -> LstType] /\ c \in Conns /\ P \subseteq Conns
  BY <1>2, AccFields
<1>4. \A k \in Listeners : \A d \in lst[k].pending :
        d \in Conns /\ fate[d] = "arrived" /\ \A j \in Listeners : d \in lst[j].pending => j = k
  BY <1>2, AccFields DEF ServerInv, Arrivals
<1>5. /\ ls \in [Listeners -> LstType] /\ ls[l].pending = P
      /\ \A k \in Listeners : k # l => ls[k].pending = lst[k].pending
  <2> HIDE DEF P
  <2> QED
    BY <1>3 DEF LstType
<1>6. \A k \in Listeners : ls[k].pending \subseteq lst[k].pending /\ c \notin ls[k].pending
  BY <1>4, <1>5
<1>7. fate[c] = "arrived" /\ fate' = [fate EXCEPT ![c] = "accepted"] /\ fate \in [Conns -> FateType]
  BY <1>1, <1>4, TypesNow
<1>8. ASSUME lst' \in [Listeners -> LstType], \A k \in Listeners : lst'[k].pending = ls[k].pending
      PROVE  Arrivals'
  <2>1. \A k \in Listeners : \A d \in lst'[k].pending : fate'[d] = fate[d]
    BY <1>4, <1>6, <1>7, <1>8
  <2>2. \A k \in Listeners : lst'[k].pending \subseteq lst[k].pending
    BY <1>6, <1>8
  <2> QED
    BY <1>2, <1>8, <2>1, <2>2, PendingKept
<1>9. CASE acc' = [acc EXCEPT !.pc = "dispatch", !.from = "accept", !.cur = c] /\ lst' = ls
  <2> DEFINE y == "accept"
  <2>1. acc' \in AccType /\ acc'.pc = "dispatch" /\ acc'.cur = c /\ acc'.backlog = acc.backlog
    BY <1>3, <1>9 DEF AccType
  <2>2. Arrivals'
    BY <1>5, <1>8, <1>9
  <2>3. c # NoConn
    BY <1>3
  <2>4. Sound
    BY <1>2, <1>5, <1>9, <2>1, <2>2, <2>3, AccSound
  <2>5. y \in Named0 /\ OnlyChanged(mgr, acc, mgr, acc', y)
    BY <2>1 DEF Named0, OnlyChanged
  <2>6. Content(mgr, acc', y) = Hand(c) /\ Content(mgr, acc, y) = Hand(NoConn)
    BY <1>3, <2>1 DEF Content
  <2>7. Content(mgr, acc', y) = Content(mgr, acc, y) \cup {c}
    BY <2>3, <2>6 DEF Hand
  <2> QED
    BY <1>2, <1>3, <1>7, <2>1, <2>4, <2>5, <2>7, EntersStep
<1>10. CASE PauseAccept(Then([acc EXCEPT !.backlog = Append(@, c)], l), ls)
  <2> DEFINE q == Append(acc.backlog, c)
             T == acc.todo \ {l}
             a == [acc EXCEPT !.backlog = q, !.todo = T]
             y == "refused"
  <2>1. y \in Named0 /\ \A m, b : Content(m, b, y) = ToSet(b.backlog)
    BY DEF Named0, Content
  <2>2. c \notin ToSet(acc.backlog)
    BY <1>3, <1>7, <2>1, HeldAccepted
  <2>3. q \in Seq(Conns) /\ Once(q) /\ ToSet(q) = ToSet(acc.backlog) \cup {c}
    BY <1>3, <2>2, Appended, AppendProperties
  <2>4. PauseAccept(a, ls) /\ T \subseteq Listeners
    BY <1>10, <1>3, AccFields DEF Then, AccType
  <2> HIDE DEF q, T
  <2>5. a \in AccType /\ a.pc = acc.pc /\ a.cur = acc.cur /\ a.backlog = q
    BY <1>3, <2>3, <2>4 DEF AccType
  <2> HIDE DEF a, ls
  <2>6. /\ acc' \in AccType /\ acc'.pc = acc.pc /\ acc'.cur = acc.cur /\ acc'.backlog = q
        /\ lst' \in [Listeners -> LstType] /\ \A k \in Listeners : lst'[k].pending = ls[k].pending
    BY <1>5, <2>4, <2>5, PauseFacts
  <2>7. Arrivals'
    BY <1>8, <2>6
  <2>8. Sound
    BY <1>2, <2>6, <2>7, AccSound, TypesNow
  <2>9. OnlyChanged(mgr, acc, mgr, acc', y) /\ Content(mgr, acc', y) = Content(mgr, acc, y) \cup {c}
    BY <2>1, <2>3, <2>6 DEF OnlyChanged
  <2> QED
    BY <1>2, <1>3, <1>7, <2>1, <2>3, <2>6, <2>8, <2>9, EntersStep
<1> QED
  BY <1>1, <1>9, <1>10

\* Steps of the loop that take no connection.
LEMMA AcceptQuietly ==
  ASSUME ServerInv, UNCHANGED <<wrk, mgr, mon, asks, fate>>, left' \in Scenario,
         left'.faults = left.faults, acc' \in AccType, acc'.cur = acc.cur,
         acc'.backlog = acc.backlog, acc.pc # "gone" \/ acc'.pc = "gone",
         acc'.cur # NoConn <=> acc'.pc \in {"dispatch", "enqueue"},
         lst' \in [Listeners -> LstType],
         \A l \in Listeners : lst'[l].pending = lst[l].pending
  PROVE  ServerInv'
<1>1. Arrivals'
  BY PendingKept
<1>2. Sound
  BY <1>1, AccSound
<1> QED
  BY <1>2, QuietAccept, TypesNow

LEMMA ThenFacts ==
  ASSUME NEW a \in AccType, NEW l
  PROVE  /\ Then(a, l) \in AccType /\ Then(a, l).pc = a.pc /\ Then(a, l).cur = a.cur
         /\ Then(a, l).backlog = a.backlog
<1> DEFINE T == a.todo \ {l}
<1>1. T \subseteq Listeners /\ Then(a, l) = [a EXCEPT !.todo = T]
  BY DEF AccType, Then
<1> HIDE DEF T
<1> QED
  BY <1>1 DEF AccType

LEMMA AcceptNoneStep ==
  ASSUME ServerInv, NEW l \in Listeners, AcceptNone(l)
  PROVE  ServerInv'
<1>1. /\ acc.pc = "accept" /\ acc' = Then(acc, l) /\ lst' = [lst EXCEPT ![l].armed = TRUE]
      /\ UNCHANGED <<wrk, left, mgr, mon, asks, fate>>
  BY DEF AcceptNone, Turn, mvars
<1>2. acc' \in AccType /\ acc'.pc = acc.pc /\ acc'.cur = acc.cur /\ acc'.backlog = acc.backlog
  BY <1>1, ThenFacts, AccFields
<1>3. lst' \in [Listeners -> LstType] /\ \A k \in Listeners : lst'[k].pending = lst[k].pending
  BY <1>1, AccFields DEF LstType
<1> QED
  BY <1>1, <1>2, <1>3, AcceptQuietly, TypesNow

LEMMA AcceptFailsStep ==
  ASSUME ServerInv, NEW l \in Listeners, AcceptFails(l)
  PROVE  ServerInv'
<1>1. /\ acc.pc = "accept" /\ acc' = Then(acc, l)
      /\ lst' = [lst EXCEPT ![l].timeout = TRUE, ![l].timers = @ + 1]
      /\ UNCHANGED <<wrk, mgr, mon, asks, fate>>
  BY DEF AcceptFails, Turn
<1>2. acc' \in AccType /\ acc'.pc = acc.pc /\ acc'.cur = acc.cur /\ acc'.backlog = acc.backlog
  BY <1>1, ThenFacts, AccFields
<1>3. lst' \in [Listeners -> LstType] /\ \A k \in Listeners : lst'[k].pending = lst[k].pending
  BY <1>1, AccFields DEF LstType
<1>4. left' \in Scenario /\ left'.faults = left.faults
  BY TypesNow DEF AcceptFails, Scenario
<1> QED
  BY <1>1, <1>2, <1>3, <1>4, AcceptQuietly, TypesNow

LEMMA TimerFiresStep ==
  ASSUME ServerInv, NEW l \in Listeners, TimerFires(l)
  PROVE  ServerInv'
<1>1. /\ lst[l].timers > 0 /\ lst' = [lst EXCEPT ![l].timers = @ - 1] /\ acc' = Told(acc, <<"timer">>)
      /\ UNCHANGED <<wrk, left, mgr, mon, asks, fate>>
  BY DEF TimerFires, mvars
<1>2. acc' \in AccType /\ acc'.pc = acc.pc /\ acc'.cur = acc.cur /\ acc'.backlog = acc.backlog
  BY <1>1, TellStop DEF AccCommands
<1>3. lst' \in [Listeners -> LstType] /\ \A k \in Listeners : lst'[k].pending = lst[k].pending
  BY <1>1, AccFields DEF LstType
<1> QED
  BY <1>1, <1>2, <1>3, AcceptQuietly, TypesNow

LEMMA AcceptSkipsStep ==
  ASSUME ServerInv, NEW l \in Listeners, AcceptSkips(l)
  PROVE  ServerInv'
<1>1. PICK c \in lst[l].pending : /\ lst' = [lst EXCEPT ![l].pending = @ \ {c}]
                                  /\ fate' = [fate EXCEPT ![c] = "lost"]
  BY DEF AcceptSkips
<1> DEFINE P == lst[l].pending \ {c}
<1>2. acc.pc = "accept" /\ UNCHANGED <<wrk, mgr, mon, asks, acc>>
  BY DEF AcceptSkips, Turn
<1>3. lst \in [Listeners -> LstType] /\ c \in Conns /\ P \subseteq Conns
  BY AccFields
<1>4. \A k \in Listeners : \A d \in lst[k].pending :
        d \in Conns /\ fate[d] = "arrived" /\ \A j \in Listeners : d \in lst[j].pending => j = k
  BY <1>2, AccFields DEF ServerInv, Arrivals
<1>5. lst' = [lst EXCEPT ![l].pending = P]
  BY <1>1
<1>6. /\ lst' \in [Listeners -> LstType] /\ lst'[l].pending = P
      /\ \A k \in Listeners : k # l => lst'[k].pending = lst[k].pending
  <2> HIDE DEF P
  <2> QED
    BY <1>3, <1>5 DEF LstType
<1>7. \A k \in Listeners : lst'[k].pending \subseteq lst[k].pending /\ c \notin lst'[k].pending
  BY <1>4, <1>6
<1>8. fate[c] = "arrived" /\ fate \in [Conns -> FateType]
  BY <1>4, TypesNow
<1>9. /\ fate' \in [Conns -> FateType]
      /\ \A d \in Conns : (d # c => fate'[d] = fate[d])
                          /\ (fate'[d] = "accepted" <=> fate[d] = "accepted")
  BY <1>1, <1>3, <1>8 DEF FateType
<1>10. \A k \in Listeners : \A d \in lst'[k].pending : fate'[d] = fate[d]
  BY <1>4, <1>7, <1>9
<1>11. Arrivals'
  BY <1>2, <1>6, <1>7, <1>10, PendingKept
<1>12. Sound
  BY <1>2, <1>6, <1>11, AccSound, TypesNow
<1>13. left' \in Scenario /\ left'.faults = left.faults
  BY TypesNow DEF AcceptSkips, Scenario
<1> QED
  BY <1>2, <1>9, <1>12, <1>13, QuietAccept

\* What the loop has in hand is handed over, queued as a command, or kept.
LEMMA SubmittedFacts ==
  ASSUME ServerInv, acc.pc \in {"dispatch", "enqueue"}
  PROVE  /\ Submitted \in AccType /\ Submitted.pc = acc.from /\ Submitted.cur = NoConn
         /\ Submitted.backlog = acc.backlog /\ Submitted.todo = acc.todo
         /\ Submitted.pc \notin {"dispatch", "enqueue", "gone"}
         /\ acc.cur \in Conns /\ "accept" \in Named0
         /\ acc.cur \in Content(mgr, acc, "accept")
         /\ \A m : Content(m, Submitted, "accept") = Content(mgr, acc, "accept") \ {acc.cur}
         /\ OnlyChanged(mgr, acc, mgr, Submitted, "accept")
<1>1. acc \in AccType /\ acc.cur \in Conns
  BY AccFields
<1>2. /\ Submitted \in AccType /\ Submitted.pc = acc.from /\ Submitted.cur = NoConn
      /\ Submitted.backlog = acc.backlog /\ Submitted.todo = acc.todo
      /\ Submitted.pc \notin {"dispatch", "enqueue", "gone"}
  BY <1>1 DEF Submitted, AccType
<1>3. /\ Content(mgr, acc, "accept") = Hand(acc.cur)
      /\ \A m : Content(m, Submitted, "accept") = Hand(NoConn)
  BY <1>2 DEF Content
<1>4. Hand(NoConn) = {} /\ Hand(acc.cur) = {acc.cur}
  BY <1>1 DEF Hand
<1>5. OnlyChanged(mgr, acc, mgr, Submitted, "accept") /\ "accept" \in Named0
  BY <1>2 DEF OnlyChanged, Named0
<1> QED
  BY <1>1, <1>2, <1>3, <1>4, <1>5

LEMMA RefusedStep ==
  ASSUME ServerInv, acc.pc = "dispatch", Refused, UNCHANGED <<wrk, mgr, fate, left, mon, asks>>
  PROVE  ServerInv'
<1> DEFINE c == acc.cur
           x == "accept"
           y == "refused"
           s == Submitted
<1>1. /\ s \in AccType /\ s.pc = acc.from /\ s.cur = NoConn
      /\ s.backlog = acc.backlog /\ s.todo = acc.todo /\ s.pc \notin {"dispatch", "enqueue", "gone"}
      /\ c \in Conns /\ x \in Named0 /\ c \in Content(mgr, acc, x)
      /\ Content(mgr, s, x) = Content(mgr, acc, x) \ {c} /\ OnlyChanged(mgr, acc, mgr, s, x)
  BY SubmittedFacts
<1> HIDE DEF s
<1>2. acc.backlog \in Seq(Conns) /\ Once(acc.backlog) /\ lst \in [Listeners -> LstType]
  BY AccFields
<1>3. y \in Named0 /\ x # y /\ \A m, b : Content(m, b, y) = ToSet(b.backlog)
  BY DEF Named0, Content
<1>4. c \notin ToSet(acc.backlog)
  BY <1>1, <1>3, TypesNow, NewToNamed
<1>5. ASSUME NEW q \in Seq(Conns), Once(q), ToSet(q) = ToSet(acc.backlog) \cup {c},
             acc' \in AccType, acc'.pc \notin {"dispatch", "enqueue"}, acc'.cur = NoConn,
             acc'.backlog = q, lst' \in [Listeners -> LstType],
             \A l \in Listeners : lst'[l].pending = lst[l].pending
      PROVE  ServerInv'
  <2>1. Arrivals'
    BY <1>5, PendingKept
  <2>2. Sound
    BY <1>5, <2>1, AccSound
  <2>3. OnlyChanged(mgr, s, mgr', acc', y) /\ Content(mgr', acc', y) = Content(mgr, s, y) \cup {c}
    BY <1>1, <1>3, <1>5 DEF OnlyChanged
  <2>4. Singly(mgr', acc')
    BY <1>5, NowSingly DEF Singly
  <2> HIDE DEF c
  <2> QED
    BY <1>1, <1>3, <2>2, <2>3, <2>4, PassStep
<1>6. CASE acc.from = "accept"
  <2> DEFINE q == Append(acc.backlog, c)
             a == [s EXCEPT !.backlog = q]
  <2>1. PICK l \in acc.todo : PauseAccept(Then(a, l), lst)
    BY <1>1, <1>6 DEF Refused, s
  <2>2. q \in Seq(Conns) /\ Once(q) /\ ToSet(q) = ToSet(acc.backlog) \cup {c}
    BY <1>1, <1>2, <1>4, Appended, AppendProperties
  <2> HIDE DEF q
  <2>3. a \in AccType /\ a.pc = s.pc /\ a.cur = NoConn /\ a.backlog = q
    BY <1>1, <2>2 DEF AccType
  <2> HIDE DEF a
  <2>4. /\ Then(a, l) \in AccType /\ Then(a, l).pc = s.pc /\ Then(a, l).cur = NoConn
        /\ Then(a, l).backlog = q
    BY <2>3, ThenFacts
  <2>5. /\ acc' \in AccType /\ acc'.pc = s.pc /\ acc'.cur = NoConn /\ acc'.backlog = q
        /\ lst' \in [Listeners -> LstType] /\ \A k \in Listeners : lst'[k].pending = lst[k].pending
    BY <1>2, <2>1, <2>4, PauseFacts
  <2> QED
    BY <1>1, <1>5, <2>2, <2>5
<1>7. CASE acc.from = "drain"
  <2> DEFINE q == <<c>> \o acc.backlog
  <2>1. acc' = [s EXCEPT !.pc = "accept", !.backlog = q] /\ UNCHANGED lst
    BY <1>1, <1>7 DEF Refused, s
  <2>2. q \in Seq(Conns) /\ Once(q) /\ ToSet(q) = ToSet(acc.backlog) \cup {c}
    <3> DEFINE one == <<c>>
    <3>1. one \in Seq(Conns) /\ ToSet(one) = {c} /\ Once(one) /\ q = one \o acc.backlog
      BY <1>1, Single
    <3> HIDE DEF one, q
    <3>2. ToSet(one) \cap ToSet(acc.backlog) = {}
      BY <1>4, <3>1
    <3>3. /\ one \o acc.backlog \in Seq(Conns) /\ Once(one \o acc.backlog)
          /\ ToSet(one \o acc.backlog) = ToSet(one) \cup ToSet(acc.backlog)
      BY <1>2, <3>1, <3>2, Joined
    <3> QED
      BY <3>1, <3>3
  <2> HIDE DEF q
  <2>3. acc' \in AccType /\ acc'.pc = "accept" /\ acc'.cur = NoConn /\ acc'.backlog = q
    BY <1>1, <2>1, <2>2 DEF AccType
  <2> QED
    BY <1>2, <1>5, <2>1, <2>2, <2>3
<1> QED
  BY <1>6, <1>7 DEF Refused

LEMMA DispatchActionStep ==
  ASSUME ServerInv, Dispatch
  PROVE  ServerInv'
<1>1. acc.pc = "dispatch" /\ UNCHANGED <<fate, left, mon, asks>>
  BY DEF Dispatch
<1>2. CASE Dispatches(acc.cur, mgr) /\ acc' = Submitted /\ UNCHANGED lst
  <2> DEFINE c == acc.cur
             x == "accept"
  <2>1. /\ acc' \in AccType /\ acc'.cur = NoConn /\ acc'.backlog = acc.backlog
        /\ acc'.pc \notin {"dispatch", "enqueue", "gone"}
        /\ c \in Conns /\ x \in Named0 /\ c \in Content(mgr, acc, x)
        /\ Content(mgr, acc', x) = Content(mgr, acc, x) \ {c} /\ OnlyChanged(mgr, acc, mgr, acc', x)
    BY <1>1, <1>2, SubmittedFacts
  <2>2. Singly(mgr, acc') /\ mgr \in MgrType /\ Dispatches(c, mgr)
    BY <1>2, <2>1, NowSingly, TypesNow DEF Singly
  <2> HIDE DEF c
  <2> QED
    BY <1>1, <1>2, <2>1, <2>2, DispatchStep
<1>3. CASE /\ mgr' = [mgr EXCEPT !.routed = {}]
           /\ acc' = [acc EXCEPT !.pc = "enqueue"] /\ UNCHANGED <<wrk, lst>>
  <2>1. acc \in AccType /\ mgr \in MgrType /\ acc.cur # NoConn /\ {} \in SUBSET Runs
    BY <1>1, TypesNow
  <2>2. /\ mgr' \in MgrType /\ mgr'.cmds = mgr.cmds /\ mgr'.moving = mgr.moving
        /\ mgr'.backlog = mgr.backlog /\ mgr'.stopping = mgr.stopping /\ mgr'.stage = mgr.stage
    BY <1>3, <2>1, RoutedChanged
  <2>3. acc' \in AccType /\ acc'.pc = "enqueue" /\ acc'.cur = acc.cur /\ acc'.backlog = acc.backlog
    BY <1>3, <2>1 DEF AccType
  <2>4. Arrivals'
    BY <1>1, <1>3, ArrivalsKept
  <2>5. Sound
    BY <1>3, <2>1, <2>2, <2>3, <2>4, TypesNow DEF Sound
  <2> QED
    BY <1>1, <1>3, <2>2, <2>3, <2>5, QuietAccept, TypesNow
<1>4. CASE Refused /\ UNCHANGED <<wrk, mgr>>
  BY <1>1, <1>4, RefusedStep
<1> QED
  BY <1>2, <1>3, <1>4 DEF Dispatch

LEMMA EnqueueStep ==
  ASSUME ServerInv, Enqueue
  PROVE  ServerInv'
<1> DEFINE c == acc.cur
           x == "accept"
           y == "command"
           z == Cmd("item", c)
           q == Append(mgr.cmds, z)
<1>1. /\ acc.pc = "enqueue" /\ mgr.open /\ mgr' = WithCmd(mgr, "item", c) /\ acc' = Submitted
      /\ UNCHANGED <<wrk, fate, left, mon, asks, lst>>
  BY DEF Enqueue
<1>2. /\ acc' \in AccType /\ acc'.cur = NoConn /\ acc'.backlog = acc.backlog
      /\ acc'.pc \notin {"dispatch", "enqueue", "gone"}
      /\ c \in Conns /\ x \in Named0 /\ c \in Content(mgr, acc, x)
      /\ Content(mgr, acc', x) = Content(mgr, acc, x) \ {c} /\ OnlyChanged(mgr, acc, mgr, acc', x)
  BY <1>1, SubmittedFacts
<1>3. mgr \in MgrType /\ mgr.cmds \in Seq(CmdType) /\ Singly(mgr, acc)
  BY TypesNow, MgrFields, NowSingly
<1>4. mgr' = [mgr EXCEPT !.cmds = q]
  BY <1>1 DEF WithCmd
<1> HIDE DEF c
<1>5. z \in CmdType /\ IsItem(z) /\ z.arg = c
  BY <1>2 DEF Cmd, CmdType, IsItem
<1>6. y \in Named0 /\ x # y /\ \A m, a : Content(m, a, y) = Items(m.cmds)
  BY DEF Named0, Content
<1>7. c \notin Items(mgr.cmds)
  BY <1>2, <1>6, TypesNow, NewToNamed
<1> HIDE DEF z
<1>8. q \in Seq(CmdType) /\ Items(q) = Items(mgr.cmds) \cup {c} /\ ItemsOnce(q)
  BY <1>3, <1>5, <1>7, CommandAppended DEF Singly
<1> HIDE DEF q
<1>9. /\ mgr' \in MgrType /\ mgr'.cmds = q /\ mgr'.moving = mgr.moving /\ mgr'.backlog = mgr.backlog
      /\ mgr'.stopping = mgr.stopping /\ mgr'.stage = mgr.stage
  BY <1>3, <1>4, <1>8 DEF MgrType
<1>10. Arrivals'
  BY <1>1, ArrivalsKept
<1>11. Sound
  BY <1>1, <1>2, <1>9, <1>10, TypesNow DEF Sound
<1>12. OnlyChanged(mgr, acc', mgr', acc', y) /\ Content(mgr', acc', y) = Content(mgr, acc', y) \cup {c}
  BY <1>6, <1>8, <1>9 DEF OnlyChanged
<1>13. Singly(mgr', acc')
  BY <1>2, <1>3, <1>8, <1>9 DEF Singly
<1> QED
  BY <1>1, <1>2, <1>6, <1>11, <1>12, <1>13, PassStep

\* The commands that the loop obeys.
LEMMA ObeyedFacts ==
  ASSUME ServerInv, NEW op, Command(op)
  PROVE  /\ Obeyed \in AccType /\ Obeyed.pc = "accept" /\ Obeyed.cur = NoConn
         /\ Obeyed.backlog = acc.backlog /\ acc.pc = "accept" /\ acc.cur = NoConn
<1> DEFINE q == Tail(acc.cmds)
<1>1. acc \in AccType /\ acc.cmds \in Seq(AccCommands) /\ acc.cmds # <<>> /\ acc.pc = "accept"
      /\ acc.cur = NoConn
  BY AccFields DEF Command
<1> HIDE DEF AccCommands
<1>2. q \in Seq(AccCommands)
  BY <1>1, HeadTailProperties
<1>3. Obeyed = [acc EXCEPT !.cmds = q]
  BY DEF Obeyed
<1> HIDE DEF q
<1> QED
  BY <1>1, <1>2, <1>3 DEF AccType, AccCommands

LEMMA ListenersKept ==
  ASSUME ServerInv, NEW L \in SUBSET Listeners,
         lst' = [l \in Listeners |-> IF l \in L THEN [lst[l] EXCEPT !.timeout = FALSE, !.armed = TRUE]
                                     ELSE lst[l]]
  PROVE  lst' \in [Listeners -> LstType] /\ \A l \in Listeners : lst'[l].pending = lst[l].pending
<1>1. ASSUME NEW l \in Listeners PROVE lst'[l] \in LstType /\ lst'[l].pending = lst[l].pending
  <2>1. lst[l] \in LstType
    BY AccFields
  <2>2. CASE l \in L
    BY <2>1, <2>2 DEF LstType
  <2>3. CASE l \notin L
    BY <2>1, <2>3
  <2> QED
    BY <2>2, <2>3
<1>2. lst' = [l \in Listeners |-> lst'[l]]
  OBVIOUS
<1> QED
  BY <1>1, <1>2

\* Only interest changes.
LEMMA ListenersArmed ==
  ASSUME ServerInv, NEW b \in [Listeners -> BOOLEAN],
         lst' = [l \in Listeners |-> [lst[l] EXCEPT !.armed = b[l]]]
  PROVE  lst' \in [Listeners -> LstType] /\ \A l \in Listeners : lst'[l].pending = lst[l].pending
<1>1. ASSUME NEW l \in Listeners PROVE lst'[l] \in LstType /\ lst'[l].pending = lst[l].pending
  <2>1. lst[l] \in LstType /\ b[l] \in BOOLEAN
    BY AccFields
  <2> QED
    BY <2>1 DEF LstType
<1>2. lst' = [l \in Listeners |-> lst'[l]]
  OBVIOUS
<1> QED
  BY <1>1, <1>2

LEMMA EndAcceptStep ==
  ASSUME ServerInv, EndAccept
  PROVE  ServerInv'
<1> DEFINE X == ToSet(acc.backlog)
           x == "refused"
           b == [l \in Listeners |-> FALSE]
<1>1. PICK op : Command(op)
  BY DEF EndAccept
<1>2. /\ acc' = [Obeyed EXCEPT !.pc = "gone", !.bp = TRUE, !.backlog = <<>>]
      /\ lst' = [l \in Listeners |-> [lst[l] EXCEPT !.armed = FALSE]]
      /\ fate' = [c \in Conns |-> IF c \in X \/ fate[c] = "arrived" THEN "dropped" ELSE fate[c]]
      /\ UNCHANGED <<wrk, left, mgr, mon, asks>>
  BY DEF EndAccept, mvars
<1>3. /\ Obeyed \in AccType /\ Obeyed.cur = NoConn /\ acc.cur = NoConn
      /\ acc.backlog \in Seq(Conns) /\ <<>> \in Seq(Conns)
  BY <1>1, ObeyedFacts, AccFields
<1>4. acc' \in AccType /\ acc'.pc = "gone" /\ acc'.cur = NoConn /\ acc'.backlog = <<>>
  BY <1>2, <1>3 DEF AccType
<1>5. lst' \in [Listeners -> LstType]
  <2>1. b \in [Listeners -> BOOLEAN] /\ lst' = [l \in Listeners |-> [lst[l] EXCEPT !.armed = b[l]]]
    BY <1>2
  <2> HIDE DEF b
  <2> QED
    BY <2>1, ListenersArmed
<1>6. x \in Named0 /\ \A n, a : Content(n, a, x) = ToSet(a.backlog)
  BY DEF Named0, Content
<1>7. X \in SUBSET Conns
  BY <1>3, ElementOfSeq, LenProperties DEF ToSet
<1>8. \A c \in X : fate[c] = "accepted"
  BY <1>6, <1>7, HeldAccepted
<1>9. Content(mgr', acc', x) = Content(mgr, acc, x) \ X /\ X \subseteq Content(mgr, acc, x)
  BY <1>4, <1>6, EmptyQueue
<1>10. OnlyChanged(mgr, acc, mgr', acc', x)
  BY <1>2, <1>3, <1>4 DEF OnlyChanged
<1>11. Singly(mgr', acc')
  BY <1>2, <1>4, EmptyQueue, NowSingly DEF Singly
<1> HIDE DEF X
<1>12. /\ fate' \in [Conns -> FateType]
       /\ \A d \in Conns : fate'[d] = "accepted" <=> (fate[d] = "accepted" /\ d \notin X)
  BY <1>2, <1>8, TypesNow DEF FateType
<1>13. Arrivals'
  BY <1>4 DEF Arrivals
<1>14. Sound
  BY <1>2, <1>4, <1>5, <1>13, AccSound
<1> QED
  BY <1>2, <1>6, <1>7, <1>9, <1>10, <1>11, <1>12, <1>14, LeaveStep

LEMMA ObeyPauseStep ==
  ASSUME ServerInv, ObeyPause
  PROVE  ServerInv'
<1>1. Command("pause") /\ PauseAccept(Obeyed, lst) /\ UNCHANGED <<wrk, left, mgr, mon, asks, fate>>
  BY DEF ObeyPause, mvars
<1>2. /\ Obeyed \in AccType /\ Obeyed.pc = "accept" /\ Obeyed.cur = NoConn
      /\ Obeyed.backlog = acc.backlog /\ acc.pc = "accept" /\ acc.cur = NoConn
  BY <1>1, ObeyedFacts
<1>3. /\ acc' \in AccType /\ acc'.pc = "accept" /\ acc'.cur = NoConn /\ acc'.backlog = acc.backlog
      /\ lst' \in [Listeners -> LstType] /\ \A l \in Listeners : lst'[l].pending = lst[l].pending
  BY <1>1, <1>2, PauseFacts, AccFields
<1> QED
  BY <1>1, <1>2, <1>3, AcceptQuietly, TypesNow

LEMMA ObeyResumeStep ==
  ASSUME ServerInv, ObeyResume
  PROVE  ServerInv'
<1>1. /\ Command("resume") /\ UNCHANGED <<wrk, left, mgr, mon, asks, fate, lst>>
      /\ acc' = [Obeyed EXCEPT !.pc = IF acc.bp THEN "drain" ELSE @]
  BY DEF ObeyResume, mvars
<1>2. /\ Obeyed \in AccType /\ Obeyed.pc = "accept" /\ Obeyed.cur = NoConn
      /\ Obeyed.backlog = acc.backlog /\ acc.pc = "accept" /\ acc.cur = NoConn
  BY <1>1, ObeyedFacts
<1> DEFINE pc == IF acc.bp THEN "drain" ELSE Obeyed.pc
<1>3. acc' = [Obeyed EXCEPT !.pc = pc] /\ pc \in {"accept", "drain"}
  BY <1>1, <1>2
<1> HIDE DEF pc
<1>4. acc' \in AccType /\ acc'.pc = pc /\ acc'.cur = NoConn /\ acc'.backlog = acc.backlog
  BY <1>2, <1>3 DEF AccType
<1> QED
  BY <1>1, <1>2, <1>3, <1>4, AcceptQuietly, TypesNow

LEMMA ObeyTimerStep ==
  ASSUME ServerInv, ObeyTimer
  PROVE  ServerInv'
<1>1. Command("timer") /\ acc' = Obeyed /\ UNCHANGED <<wrk, left, mgr, mon, asks, fate>>
  BY DEF ObeyTimer, mvars
<1>2. /\ Obeyed \in AccType /\ Obeyed.pc = "accept" /\ Obeyed.cur = NoConn
      /\ Obeyed.backlog = acc.backlog /\ acc.pc = "accept" /\ acc.cur = NoConn
  BY <1>1, ObeyedFacts
<1>3. PICK due \in SUBSET {l \in Listeners : lst[l].timeout} :
        lst' = IF acc.bp THEN lst
               ELSE [l \in Listeners |-> IF l \in due
                       THEN [lst[l] EXCEPT !.timeout = FALSE, !.armed = TRUE] ELSE lst[l]]
  BY DEF ObeyTimer
<1>4. lst' \in [Listeners -> LstType] /\ \A l \in Listeners : lst'[l].pending = lst[l].pending
  <2>1. CASE acc.bp
    BY <1>3, <2>1, AccFields
  <2>2. CASE ~acc.bp
    <3>1. due \in SUBSET Listeners
      OBVIOUS
    <3> QED
      BY <1>3, <2>2, <3>1, ListenersKept
  <2> QED
    BY <2>1, <2>2
<1> QED
  BY <1>1, <1>2, <1>4, AcceptQuietly, TypesNow

LEMMA DrainStep ==
  ASSUME ServerInv, Drain
  PROVE  ServerInv'
<1>1. acc.pc = "drain" /\ UNCHANGED <<wrk, left, mgr, mon, asks, fate>>
  BY DEF Drain, mvars
<1>2. /\ acc \in AccType /\ acc.backlog \in Seq(Conns) /\ Once(acc.backlog) /\ acc.cur = NoConn
      /\ lst \in [Listeners -> LstType]
  BY <1>1, AccFields
<1>3. CASE ResumeAccept
  <2> DEFINE b == [l \in Listeners |-> lst[l].armed \/ ~lst[l].timeout]
  <2>1. b \in [Listeners -> BOOLEAN]
    <3>1. \A l \in Listeners : (lst[l].armed \/ ~lst[l].timeout) \in BOOLEAN
      OBVIOUS
    <3> QED
      BY <3>1
  <2>2. lst' = [l \in Listeners |-> [lst[l] EXCEPT !.armed = b[l]]]
    BY <1>3 DEF ResumeAccept
  <2> HIDE DEF b
  <2>3. lst' \in [Listeners -> LstType] /\ \A l \in Listeners : lst'[l].pending = lst[l].pending
    BY <2>1, <2>2, ListenersArmed
  <2>4. acc' \in AccType /\ acc'.pc = "accept" /\ acc'.cur = NoConn /\ acc'.backlog = acc.backlog
    BY <1>2, <1>3 DEF AccType, ResumeAccept
  <2> QED
    BY <1>1, <1>2, <2>3, <2>4, AcceptQuietly, TypesNow
<1>4. CASE /\ acc.backlog # <<>> /\ UNCHANGED lst
           /\ acc' = [acc EXCEPT !.pc = "dispatch", !.from = "drain", !.cur = Head(acc.backlog),
                                 !.backlog = Tail(@)]
  <2> DEFINE c == Head(acc.backlog)
             q == Tail(acc.backlog)
             d == [acc EXCEPT !.backlog = q]
             x == "refused"
             y == "accept"
  <2>1. /\ c \in Conns /\ q \in Seq(Conns) /\ c \in ToSet(acc.backlog) /\ Once(q)
        /\ ToSet(q) = ToSet(acc.backlog) \ {c} /\ c # NoConn
    BY <1>2, <1>4, Shortened
  <2>2. acc' = [acc EXCEPT !.pc = "dispatch", !.from = "drain", !.cur = c, !.backlog = q]
    BY <1>4
  <2> HIDE DEF c, q
  <2>3. acc' \in AccType /\ acc'.pc = "dispatch" /\ acc'.cur = c /\ acc'.backlog = q
    BY <1>2, <2>1, <2>2 DEF AccType
  <2>4. d.cur = NoConn /\ d.backlog = q
    BY <1>2 DEF AccType
  <2> HIDE DEF d
  <2>5. /\ x \in Named0 /\ y \in Named0 /\ \A m, a : Content(m, a, x) = ToSet(a.backlog)
        /\ \A m, a : Content(m, a, y) = Hand(a.cur)
    BY DEF Named0, Content
  <2>6. /\ c \in Content(mgr, acc, x) /\ OnlyChanged(mgr, acc, mgr, d, x)
        /\ Content(mgr, d, x) = Content(mgr, acc, x) \ {c}
    BY <1>2, <2>1, <2>4, <2>5 DEF OnlyChanged
  <2>7. Hand(c) = Hand(NoConn) \cup {c}
    BY <2>1 DEF Hand
  <2>8. OnlyChanged(mgr, d, mgr', acc', y) /\ Content(mgr', acc', y) = Content(mgr, d, y) \cup {c}
    BY <1>1, <2>3, <2>4, <2>5, <2>7 DEF OnlyChanged
  <2>9. Arrivals'
    BY <1>1, <1>4, ArrivalsKept
  <2>10. Sound
    BY <1>1, <1>2, <1>4, <2>1, <2>3, <2>9, AccSound
  <2>11. Singly(mgr', acc')
    BY <1>1, <2>1, <2>3, NowSingly DEF Singly
  <2> QED
    BY <1>1, <2>1, <2>5, <2>6, <2>8, <2>10, <2>11, PassStep
<1>5. CASE acc' = [acc EXCEPT !.pc = "accept"] /\ UNCHANGED lst
  <2>1. acc' \in AccType /\ acc'.pc = "accept" /\ acc'.cur = NoConn /\ acc'.backlog = acc.backlog
    BY <1>2, <1>5 DEF AccType
  <2> QED
    BY <1>1, <1>2, <1>5, <2>1, AcceptQuietly, TypesNow
<1> QED
  BY <1>3, <1>4, <1>5 DEF Drain

LEMMA WakeStep ==
  ASSUME ServerInv, Wake
  PROVE  ServerInv'
<1> DEFINE b == [l \in Listeners |-> lst[l].armed /\ l \notin Heard]
<1>1. /\ acc.pc = "accept" /\ acc' = [acc EXCEPT !.todo = Listeners, !.token = FALSE]
      /\ lst' = [l \in Listeners |-> [lst[l] EXCEPT !.armed = b[l]]]
      /\ UNCHANGED <<wrk, left, mgr, mon, asks, fate>>
  BY DEF Wake, mvars
<1>2. acc \in AccType /\ acc.cur = NoConn
  BY <1>1, AccFields
<1>3. acc' \in AccType /\ acc'.pc = "accept" /\ acc'.cur = NoConn /\ acc'.backlog = acc.backlog
  BY <1>1, <1>2 DEF AccType
<1>4. b \in [Listeners -> BOOLEAN]
  <2>1. \A l \in Listeners : (lst[l].armed /\ l \notin Heard) \in BOOLEAN
    OBVIOUS
  <2> QED
    BY <2>1
<1> HIDE DEF b
<1>5. lst' \in [Listeners -> LstType] /\ \A l \in Listeners : lst'[l].pending = lst[l].pending
  BY <1>1, <1>4, ListenersArmed
<1> QED
  BY <1>1, <1>2, <1>3, <1>5, AcceptQuietly, TypesNow

LEMMA AcceptStep ==
  ASSUME ServerInv, AcceptRuns
  PROVE  ServerInv'
BY AcceptOneStep, AcceptNoneStep, DispatchActionStep, EnqueueStep, EndAcceptStep, ObeyPauseStep,
   ObeyResumeStep, ObeyTimerStep, DrainStep, WakeStep DEF AcceptRuns

-----------------------------------------------------------------------------
(* The invariant holds at first, and every step keeps it. *)

LEMMA InitInv == Init => ServerInv
<1> SUFFICES ASSUME Init PROVE ServerInv
  OBVIOUS
<1> DEFINE W == left.workers \X {0}
<1>1. /\ left \in Scenarios /\ wrk = [i \in Runs |-> IF i \in W THEN Started ELSE Unused]
      /\ mgr = [paused |-> FALSE, available |-> FALSE, started |-> FALSE, stopping |-> FALSE,
                stopped |-> FALSE, routed |-> {}, running |-> W,
                backlog |-> <<>>, cmds |-> <<>>, open |-> TRUE, pc |-> "loop", stage |-> "none",
                stopper |-> "none", notify |-> {}, blocked |-> {}, moving |-> <<>>]
      /\ mon = [w \in Workers |-> [pc |-> IF w \in left.workers THEN "check" ELSE "gone", run |-> 0]]
      /\ asks = [k \in Callers |-> "idle"]
      /\ fate = [c \in Conns |-> "new"]
      /\ acc = [pc |-> "accept", todo |-> Listeners, from |-> "accept", cur |-> NoConn,
                bp |-> TRUE, backlog |-> <<>>, cmds |-> <<>>, token |-> FALSE]
      /\ lst = [l \in Listeners |-> [armed |-> TRUE, timeout |-> FALSE, timers |-> 0, pending |-> {}]]
  BY DEF Init, MgrInit
<1>2. left \in Scenario /\ left.faults \in Nat /\ left.faults <= MaxRuns /\ MaxRuns \in Nat
      /\ 0 \in 0..MaxRuns
  BY <1>1, RunsBounded, SMTT(60) DEF Scenario
<1>3. W \subseteq Runs
  BY <1>2 DEF Runs, Scenario
<1>14. /\ Started \in RunType
       /\ Started.pc = "creating" /\ Started.status = "Unavailable" /\ ~Started.stop
       /\ Started.queue = <<>> /\ Started.call = NoConn
  BY DEF Started, RunType
<1> HIDE DEF Started
<1>4. /\ Started \in RunType /\ Unused \in RunType
      /\ Started.pc = "creating" /\ Started.status = "Unavailable" /\ ~Started.stop
      /\ Started.queue = <<>> /\ Started.call = NoConn
      /\ Unused.pc = "none" /\ Unused.status = "Unavailable" /\ ~Unused.stop /\ ~Unused.open
      /\ Unused.queue = <<>> /\ Unused.call = NoConn
  BY <1>14 DEF Unused, RunType
<1> HIDE DEF W, Unused
<1>5. \A i \in Runs : wrk[i] \in {Started, Unused} /\ (i \notin W => wrk[i] = Unused)
  BY <1>1
<1>6. TypeOK
  <2>1. wrk \in [Runs -> RunType]
    BY <1>1, <1>4
  <2>2. mgr \in MgrType
    BY <1>1, <1>3 DEF MgrType
  <2>3. mon \in [Workers -> MonType]
    BY <1>1, <1>2 DEF MonType
  <2>4. acc \in AccType
    BY <1>1 DEF AccType
  <2>5. lst \in [Listeners -> LstType]
    BY <1>1 DEF LstType
  <2>6. /\ fate \in [Conns -> FateType] /\ asks \in [Callers -> {"idle", "waiting", "answered"}]
    BY <1>1 DEF FateType
  <2> QED
    BY <1>2, <2>1, <2>2, <2>3, <2>4, <2>5, <2>6 DEF TypeOK
<1>7. \A w \in Workers : mon[w].run = 0 /\ mon[w].pc \in {"check", "gone"}
  BY <1>1
<1>8. InHand
  BY <1>1, <1>4, <1>5 DEF InHand
<1>9. Unstarted
  <2> SUFFICES ASSUME NEW w \in Workers, NEW n \in 0..MaxRuns, n > mon[w].run
               PROVE  /\ wrk[<<w, n>>].pc = "none" /\ ~wrk[<<w, n>>].open
                      /\ wrk[<<w, n>>].queue = <<>> /\ wrk[<<w, n>>].call = NoConn
    BY DEF Unstarted
  <2>1. <<w, n>> \in Runs /\ <<w, n>> \notin W
    BY <1>7, RunNames DEF W
  <2> QED
    BY <1>4, <1>5, <2>1
<1>10. \A i \in Runs : ~Worn(wrk[i]) /\ wrk[i].status # "Failed" /\ ~wrk[i].stop /\ wrk[i].pc # "stopping"
  BY <1>4, <1>5 DEF Worn
<1>11. Restarts
  <2>1. \A w \in Workers : Watched(w) \in Runs
    BY <1>2, <1>7, RunNames DEF Watched
  <2>2. mgr.stage = "none"
    BY <1>1
  <2>3. \A w \in Workers : mon[w].run + left.faults <= MaxRuns /\ mon[w].pc # "sleep"
    BY <1>2, <1>7
  <2> QED
    BY <1>10, <2>1, <2>2, <2>3 DEF Restarts
<1>12. Arrivals
  BY <1>1 DEF Arrivals
<1>13. Placed
  <2> DEFINE F == Held(wrk, mgr, acc)
  <2>1. \A i \in Runs : wrk[i].queue = <<>> /\ wrk[i].call = NoConn
    BY <1>4, <1>5
  <2>2. mgr.cmds = <<>> /\ mgr.moving = <<>> /\ mgr.backlog = <<>> /\ acc.backlog = <<>> /\ acc.cur = NoConn
    BY <1>1
  <2>3. Hand(NoConn) = {}
    BY DEF Hand
  <2>4. HeldIs(F, wrk, mgr, acc)
    BY HeldFacts
  <2> HIDE DEF F
  <2>5. \A i \in Runs : F[SlotQueue(i)] = {} /\ F[SlotCall(i)] = {}
    BY <2>1, <2>3, <2>4, EmptyQueue DEF HeldIs
  <2>6. \A x \in Named0 : F[SlotOf(x)] = {}
    BY <2>2, <2>3, <2>4, EmptyQueue DEF HeldIs, Named0
  <2>7. \A s \in Slots : F[s] = {}
    BY <2>5, <2>6, SlotFacts
  <2>8. Exclusive(F)
    BY <2>7 DEF Exclusive
  <2>9. \A c \in Conns : fate[c] # "accepted"
    BY <1>1
  <2>10. Accounted(F, fate)
    BY <2>7, <2>9 DEF Accounted, Somewhere
  <2>11. Distinct(wrk, mgr, acc)
    BY <2>1, <2>2, EmptyQueue DEF Distinct
  <2> QED
    BY <2>8, <2>10, <2>11 DEF Placed, Placement, F
<1> QED
  BY <1>6, <1>8, <1>9, <1>11, <1>12, <1>13 DEF ServerInv

LEMMA NextInv == ServerInv /\ [Next]_vars => ServerInv'
<1> SUFFICES ASSUME ServerInv, [Next]_vars PROVE ServerInv'
  OBVIOUS
<1>1. CASE UNCHANGED vars
  <2>1. UNCHANGED <<wrk, fate, left, mgr, mon, asks, acc, lst>>
    BY <1>1 DEF vars
  <2> QED
    BY <2>1, AcceptQuietly, TypesNow
<1>2. CASE Next
  <2>1. CASE \E i \in Runs : (WorkerRuns(i) \/ WorkerSuffers(i)) /\ UNCHANGED <<mgr, mon, asks, acc, lst>>
    BY <2>1, WorkerStep
  <2>2. CASE ManagerRuns \/ RescheduleBlocked
    BY <2>2, ManagerStep
  <2>3. CASE \E w \in Workers : MonitorRuns(w)
    BY <2>3, MonitorStep
  <2>4. CASE AcceptRuns
    BY <2>4, AcceptStep
  <2>5. CASE \E l \in Listeners : AcceptSkips(l) \/ AcceptFails(l) \/ TimerFires(l)
                                  \/ \E c \in Conns : Arrive(l, c)
    BY <2>5, AcceptSkipsStep, AcceptFailsStep, TimerFiresStep, ArriveStep
  <2>6. CASE (\E k \in Callers : CallStop(k)) \/ CallPause \/ CallResume
    BY <2>6, CallStep
  <2> QED
    BY <1>2, <2>1, <2>2, <2>3, <2>4, <2>5, <2>6 DEF Next
<1> QED
  BY <1>1, <1>2

-----------------------------------------------------------------------------
(* From the contents of the places to the places themselves. *)

AtQueue(i, c, p) == \E n \in Spots(wrk[i].queue, c) : p = <<"queue", i, n>>
AtCall(i, c, p) == wrk[i].call = c /\ p = <<"call", i>>
AtNamed(x, c, p) ==
  \/ x = "command" /\ \E n \in Spots(mgr.cmds, Cmd("item", c)) : p = <<"command", n>>
  \/ x = "moving" /\ \E n \in Spots(mgr.moving, c) : p = <<"moving", n>>
  \/ x = "backlog" /\ \E n \in Spots(mgr.backlog, c) : p = <<"backlog", n>>
  \/ x = "refused" /\ \E n \in Spots(acc.backlog, c) : p = <<"refused", n>>
  \/ x = "accept" /\ acc.cur = c /\ p = <<"accept">>

LEMMA PlacesAre ==
  ASSUME NEW c, NEW p
  PROVE  p \in Places(c) <=> \/ \E i \in Runs : AtQueue(i, c, p) \/ AtCall(i, c, p)
                             \/ \E x \in Named0 : AtNamed(x, c, p)
<1> DEFINE Q == UNION {{<<"queue", i, n>> : n \in Spots(wrk[i].queue, c)} : i \in Runs}
           K == {<<"call", i>> : i \in Spots([i \in Runs |-> wrk[i].call], c)}
           N1 == {<<"command", n>> : n \in Spots(mgr.cmds, Cmd("item", c))}
           N2 == {<<"moving", n>> : n \in Spots(mgr.moving, c)}
           N3 == {<<"backlog", n>> : n \in Spots(mgr.backlog, c)}
           N4 == {<<"refused", n>> : n \in Spots(acc.backlog, c)}
           N5 == IF acc.cur = c THEN {<<"accept">>} ELSE {}
<1>1. Places(c) = Q \cup K \cup N1 \cup N2 \cup N3 \cup N4 \cup N5
  BY DEF Places
<1>2. p \in Q <=> \E i \in Runs : AtQueue(i, c, p)
  BY DEF AtQueue
<1>3. p \in K <=> \E i \in Runs : AtCall(i, c, p)
  BY DEF AtCall, Spots
<1>4. (\E x \in Named0 : AtNamed(x, c, p)) <=> p \in N1 \/ p \in N2 \/ p \in N3 \/ p \in N4 \/ p \in N5
  BY DEF AtNamed, Named0
<1> HIDE DEF Q, K, N1, N2, N3, N4, N5
<1> QED
  BY <1>1, <1>2, <1>3, <1>4

LEMMA SpotsHeld ==
  ASSUME NEW q, NEW c
  PROVE  /\ (\E n : n \in Spots(q, c)) <=> c \in ToSet(q)
         /\ Once(q) => \A n, k \in Spots(q, c) : n = k
<1>1. c \in ToSet(q) <=> \E n \in DOMAIN q : q[n] = c
  BY DEF ToSet
<1> QED
  BY <1>1 DEF Spots, Once

LEMMA ItemSpots ==
  ASSUME NEW q \in Seq(CmdType), ItemsOnce(q), NEW c
  PROVE  /\ (\E n : n \in Spots(q, Cmd("item", c))) <=> c \in Items(q)
         /\ \A n, k \in Spots(q, Cmd("item", c)) : n = k
<1>1. IsItem(Cmd("item", c)) /\ Cmd("item", c).arg = c
  BY DEF IsItem, Cmd
<1>2. \A n \in DOMAIN q : q[n] \in CmdType
  BY ElementOfSeq, LenProperties
<1>3. \A y \in CmdType : IsItem(y) /\ y.arg = c => y = Cmd("item", c)
  BY DEF CmdType, IsItem, Cmd
<1>4. \A n \in Spots(q, Cmd("item", c)) : c \in Items(q)
  BY <1>1 DEF Spots, Items
<1>5. ASSUME c \in Items(q) PROVE \E n : n \in Spots(q, Cmd("item", c))
  <2>1. PICK n \in DOMAIN q : IsItem(q[n]) /\ q[n].arg = c
    BY <1>5 DEF Items
  <2>2. n \in Spots(q, Cmd("item", c))
    BY <2>1, <1>2, <1>3 DEF Spots
  <2> QED
    BY <2>2
<1>6. \A n, k \in Spots(q, Cmd("item", c)) : n = k
  BY <1>1 DEF Spots, ItemsOnce
<1> QED
  BY <1>4, <1>5, <1>6

LEMMA QueueAt ==
  ASSUME ServerInv, NEW c \in Conns, NEW i \in Runs
  PROVE  /\ (\E p : AtQueue(i, c, p)) <=> c \in Held(wrk, mgr, acc)[SlotQueue(i)]
         /\ \A p, r : AtQueue(i, c, p) /\ AtQueue(i, c, r) => p = r
<1>1. Once(wrk[i].queue) /\ Held(wrk, mgr, acc)[SlotQueue(i)] = ToSet(wrk[i].queue)
  BY TypesNow, HeldFacts DEF Distinct, HeldIs
<1>2. (\E p : AtQueue(i, c, p)) <=> \E n : n \in Spots(wrk[i].queue, c)
  BY DEF AtQueue
<1>3. \A n, k \in Spots(wrk[i].queue, c) : n = k
  BY <1>1, SpotsHeld
<1> QED
  BY <1>1, <1>2, <1>3, SpotsHeld DEF AtQueue

LEMMA CallAt ==
  ASSUME ServerInv, NEW c \in Conns, NEW i \in Runs
  PROVE  /\ (\E p : AtCall(i, c, p)) <=> c \in Held(wrk, mgr, acc)[SlotCall(i)]
         /\ \A p, r : AtCall(i, c, p) /\ AtCall(i, c, r) => p = r
<1>1. Held(wrk, mgr, acc)[SlotCall(i)] = Hand(wrk[i].call)
  BY HeldFacts DEF HeldIs
<1>2. c \in Hand(wrk[i].call) <=> wrk[i].call = c
  BY DEF Hand
<1> QED
  BY <1>1, <1>2 DEF AtCall

LEMMA NamedAt ==
  ASSUME ServerInv, NEW c \in Conns, NEW x \in Named0
  PROVE  /\ (\E p : AtNamed(x, c, p)) <=> c \in Held(wrk, mgr, acc)[SlotOf(x)]
         /\ \A p, r : AtNamed(x, c, p) /\ AtNamed(x, c, r) => p = r
<1>1. Held(wrk, mgr, acc)[SlotOf(x)] = Content(mgr, acc, x)
  BY ContentHeld
<1>2. /\ mgr.cmds \in Seq(CmdType) /\ ItemsOnce(mgr.cmds) /\ Once(mgr.moving) /\ Once(mgr.backlog)
      /\ Once(acc.backlog)
  BY TypesNow, MgrFields DEF Distinct
<1>3. CASE x = "command"
  <2>1. Content(mgr, acc, x) = Items(mgr.cmds)
    BY <1>3 DEF Content
  <2>2. /\ (\E n : n \in Spots(mgr.cmds, Cmd("item", c))) <=> c \in Items(mgr.cmds)
        /\ \A n, k \in Spots(mgr.cmds, Cmd("item", c)) : n = k
    BY <1>2, ItemSpots
  <2>3. \A p : AtNamed(x, c, p) <=> \E n \in Spots(mgr.cmds, Cmd("item", c)) : p = <<"command", n>>
    BY <1>3 DEF AtNamed
  <2>4. (\E p : AtNamed(x, c, p)) <=> \E n : n \in Spots(mgr.cmds, Cmd("item", c))
    BY <2>3
  <2>5. \A p, r : AtNamed(x, c, p) /\ AtNamed(x, c, r) => p = r
    BY <2>2, <2>3
  <2> QED
    BY <1>1, <2>1, <2>2, <2>4, <2>5
<1>4. CASE x = "moving"
  <2>1. Content(mgr, acc, x) = ToSet(mgr.moving)
    BY <1>4 DEF Content
  <2>2. /\ (\E n : n \in Spots(mgr.moving, c)) <=> c \in ToSet(mgr.moving)
        /\ \A n, k \in Spots(mgr.moving, c) : n = k
    BY <1>2, SpotsHeld
  <2>3. \A p : AtNamed(x, c, p) <=> \E n \in Spots(mgr.moving, c) : p = <<"moving", n>>
    BY <1>4 DEF AtNamed
  <2>4. (\E p : AtNamed(x, c, p)) <=> \E n : n \in Spots(mgr.moving, c)
    BY <2>3
  <2>5. \A p, r : AtNamed(x, c, p) /\ AtNamed(x, c, r) => p = r
    BY <2>2, <2>3
  <2> QED
    BY <1>1, <2>1, <2>2, <2>4, <2>5
<1>5. CASE x = "backlog"
  <2>1. Content(mgr, acc, x) = ToSet(mgr.backlog)
    BY <1>5 DEF Content
  <2>2. /\ (\E n : n \in Spots(mgr.backlog, c)) <=> c \in ToSet(mgr.backlog)
        /\ \A n, k \in Spots(mgr.backlog, c) : n = k
    BY <1>2, SpotsHeld
  <2>3. \A p : AtNamed(x, c, p) <=> \E n \in Spots(mgr.backlog, c) : p = <<"backlog", n>>
    BY <1>5 DEF AtNamed
  <2>4. (\E p : AtNamed(x, c, p)) <=> \E n : n \in Spots(mgr.backlog, c)
    BY <2>3
  <2>5. \A p, r : AtNamed(x, c, p) /\ AtNamed(x, c, r) => p = r
    BY <2>2, <2>3
  <2> QED
    BY <1>1, <2>1, <2>2, <2>4, <2>5
<1>6. CASE x = "refused"
  <2>1. Content(mgr, acc, x) = ToSet(acc.backlog)
    BY <1>6 DEF Content
  <2>2. /\ (\E n : n \in Spots(acc.backlog, c)) <=> c \in ToSet(acc.backlog)
        /\ \A n, k \in Spots(acc.backlog, c) : n = k
    BY <1>2, SpotsHeld
  <2>3. \A p : AtNamed(x, c, p) <=> \E n \in Spots(acc.backlog, c) : p = <<"refused", n>>
    BY <1>6 DEF AtNamed
  <2>4. (\E p : AtNamed(x, c, p)) <=> \E n : n \in Spots(acc.backlog, c)
    BY <2>3
  <2>5. \A p, r : AtNamed(x, c, p) /\ AtNamed(x, c, r) => p = r
    BY <2>2, <2>3
  <2> QED
    BY <1>1, <2>1, <2>2, <2>4, <2>5
<1>7. CASE x = "accept"
  <2>1. Content(mgr, acc, x) = Hand(acc.cur)
    BY <1>7 DEF Content
  <2>2. c \in Hand(acc.cur) <=> acc.cur = c
    BY DEF Hand
  <2>3. \A p : AtNamed(x, c, p) <=> acc.cur = c /\ p = <<"accept">>
    BY <1>7 DEF AtNamed
  <2>4. (\E p : AtNamed(x, c, p)) <=> acc.cur = c
    BY <2>3
  <2>5. \A p, r : AtNamed(x, c, p) /\ AtNamed(x, c, r) => p = r
    BY <2>3
  <2> QED
    BY <1>1, <2>1, <2>2, <2>4, <2>5
<1> QED
  BY <1>3, <1>4, <1>5, <1>6, <1>7 DEF Named0

\* A place of a connection, and the slot that it is in.
AtSlot(s, c, p) ==
  \/ \E i \in Runs : (s = SlotQueue(i) /\ AtQueue(i, c, p)) \/ (s = SlotCall(i) /\ AtCall(i, c, p))
  \/ \E x \in Named0 : s = SlotOf(x) /\ AtNamed(x, c, p)

LEMMA InvOnePlace == ServerInv => OnePlace
<1> SUFFICES ASSUME ServerInv, NEW c \in Conns
             PROVE  Cardinality(Places(c)) = IF fate[c] = "accepted" THEN 1 ELSE 0
  BY DEF OnePlace
<1> DEFINE F == Held(wrk, mgr, acc)
<1>1. Exclusive(F) /\ (fate[c] = "accepted" <=> Somewhere(F, c))
  BY TypesNow DEF Placement, Accounted
<1>2. \A i \in Runs : /\ (\E p : AtQueue(i, c, p)) <=> c \in F[SlotQueue(i)]
                      /\ (\E p : AtCall(i, c, p)) <=> c \in F[SlotCall(i)]
                      /\ \A p, r : AtQueue(i, c, p) /\ AtQueue(i, c, r) => p = r
                      /\ \A p, r : AtCall(i, c, p) /\ AtCall(i, c, r) => p = r
  BY QueueAt, CallAt
<1>3. \A x \in Named0 : /\ (\E p : AtNamed(x, c, p)) <=> c \in F[SlotOf(x)]
                        /\ \A p, r : AtNamed(x, c, p) /\ AtNamed(x, c, r) => p = r
  BY NamedAt
<1> HIDE DEF F
<1>4. \A p : p \in Places(c) <=> \E s \in Slots : AtSlot(s, c, p)
  BY PlacesAre, SlotFacts DEF AtSlot
<1>5. \A s \in Slots : (\E p : AtSlot(s, c, p)) <=> c \in F[s]
  <2> SUFFICES ASSUME NEW s \in Slots PROVE (\E p : AtSlot(s, c, p)) <=> c \in F[s]
    OBVIOUS
  <2>1. ASSUME NEW p, AtSlot(s, c, p) PROVE c \in F[s]
    BY <1>2, <1>3, <2>1 DEF AtSlot
  <2>2. ASSUME c \in F[s] PROVE \E p : AtSlot(s, c, p)
    <3>1. CASE \E i \in Runs : s = SlotQueue(i)
      BY <1>2, <2>2, <3>1 DEF AtSlot
    <3>2. CASE \E i \in Runs : s = SlotCall(i)
      BY <1>2, <2>2, <3>2 DEF AtSlot
    <3>3. CASE \E x \in Named0 : s = SlotOf(x)
      BY <1>3, <2>2, <3>3 DEF AtSlot
    <3> QED
      BY <3>1, <3>2, <3>3, SlotFacts
  <2> QED
    BY <2>1, <2>2
<1>6. \A s \in Slots : \A p, r : AtSlot(s, c, p) /\ AtSlot(s, c, r) => p = r
  <2> SUFFICES ASSUME NEW s \in Slots, NEW p, NEW r, AtSlot(s, c, p), AtSlot(s, c, r) PROVE p = r
    OBVIOUS
  <2>1. CASE \E i \in Runs : s = SlotQueue(i)
    <3>1. PICK i \in Runs : s = SlotQueue(i)
      BY <2>1
    <3>2. AtQueue(i, c, p) /\ AtQueue(i, c, r)
      BY <3>1, SlotFacts DEF AtSlot
    <3> QED
      BY <3>2, <1>2
  <2>2. CASE \E i \in Runs : s = SlotCall(i)
    <3>1. PICK i \in Runs : s = SlotCall(i)
      BY <2>2
    <3>2. AtCall(i, c, p) /\ AtCall(i, c, r)
      BY <3>1, SlotFacts DEF AtSlot
    <3> QED
      BY <3>2, <1>2
  <2>3. CASE \E x \in Named0 : s = SlotOf(x)
    <3>1. PICK x \in Named0 : s = SlotOf(x)
      BY <2>3
    <3>2. AtNamed(x, c, p) /\ AtNamed(x, c, r)
      BY <3>1, SlotFacts DEF AtSlot
    <3> QED
      BY <3>2, <1>3
  <2> QED
    BY <2>1, <2>2, <2>3, SlotFacts
<1>7. CASE fate[c] = "accepted"
  <2>1. PICK s \in Slots : c \in F[s]
    BY <1>1, <1>7 DEF Somewhere
  <2>2. PICK p : AtSlot(s, c, p)
    BY <2>1, <1>5
  <2>3. ASSUME NEW r \in Places(c) PROVE r = p
    <3>1. PICK t \in Slots : AtSlot(t, c, r)
      BY <2>3, <1>4
    <3>2. c \in F[t]
      BY <3>1, <1>5
    <3>3. s = t
      BY <2>1, <3>2, <1>1 DEF Exclusive
    <3> QED
      BY <2>2, <3>1, <3>3, <1>6
  <2>4. Places(c) = {p}
    BY <2>2, <2>3, <1>4
  <2> QED
    BY <1>7, <2>4, FS_Singleton
<1>8. CASE fate[c] # "accepted"
  <2>1. \A s \in Slots : c \notin F[s]
    BY <1>1, <1>8 DEF Somewhere
  <2>2. Places(c) = {}
    BY <2>1, <1>4, <1>5
  <2> QED
    BY <1>8, <2>2, FS_EmptySet
<1> QED
  BY <1>7, <1>8

\* Whatever fails, stalls, is blocked, restarted, paused or stopped, and in whatever
\* order the threads run: a connection that the accept loop has accepted is in one
\* place until it is served, lost with its worker or dropped.
THEOREM AcceptedInOnePlace == Spec => []OnePlace
<1>1. Spec => []ServerInv
  BY InitInv, NextInv, PTL DEF Spec
<1> QED
  BY <1>1, InvOnePlace, PTL
=============================================================================
