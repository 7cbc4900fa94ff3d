---------------------------- MODULE LocalProofs ----------------------------
(***************************************************************************)
(* Proofs about services that the callers of a thread share: Readiness,    *)
(* for any graph of scopes, any subscriptions, any callers and any number  *)
(* of changes; ClientPool, for any calls, hosts and limits; and what       *)
(* LocalServices says of both.                                             *)
(*                                                                         *)
(* CacheValid is not inductive: that a success may be cached follows from  *)
(* what the suspended future has seen of the children, and this holds as   *)
(* long as the generation is that of its snapshot.  Settled says so of     *)
(* every check in progress; a notification either spares the scope and all *)
(* that it depends on, or makes its generation differ for good.            *)
(***************************************************************************)
EXTENDS LocalServices, TLAPS, FiniteSetTheorems, SequenceTheorems

Modes == {"wait", "own", "fut", "pend"}
Generation == [value : Nat, direct : Nat]
FrameType ==
  [scope : Scopes, mode : Modes, fut : Nat, snap : Generation, before : Nat,
   restarted : BOOLEAN, observer : BOOLEAN]

Types ==
  /\ cond \in [Scopes -> BOOLEAN] /\ ready \in [Scopes -> BOOLEAN]
  /\ gen \in [Scopes -> Generation]
  /\ stack \in [Tasks -> Seq(FrameType)]

\* The task that is polled, and the frame it is in.
Running ==
  \/ run = {}
  \/ \E t \in Tasks : run = {t} /\ at \in 1..Len(stack[t])

\* A scope and all that it depends on can take a call, with the conditions c.
CanCall(s, c) == \A d \in Scopes : (d = s \/ s \in Ancestors({d})) => c[d]

\* The children that a check has got past can still take a call, unless a
\* notification has reached the scope since the future was created.
Settled(f, g, c) ==
  g[f.scope] = f.snap =>
    \A n \in 1..Len(Children[f.scope]) : n < f.fut => CanCall(Children[f.scope][n], c)

\* One call of check(), with the generations g and the conditions c.
FrameOK(f, g, c) ==
  /\ f.snap.value <= g[f.scope].value
  /\ f.fut <= Len(Children[f.scope]) + 1
  /\ f.mode = "wait" => f.fut = 0
  /\ f.mode = "fut" => f.fut > 0
  /\ Settled(f, g, c)

\* A call of check() is made by the future of the call below, for the child that
\* this future awaits.
Nested(f, h) ==
  f.fut \in 1..Len(Children[f.scope]) /\ h.scope = Children[f.scope][f.fut]

StackOK(k, g, c) ==
  /\ \A i \in 1..Len(k) : FrameOK(k[i], g, c)
  /\ \A i \in 1..Len(k) - 1 : Nested(k[i], k[i + 1])

CacheInv ==
  /\ Types /\ Running /\ CacheValid
  /\ \A t \in Tasks : StackOK(stack[t], gen, cond)

-----------------------------------------------------------------------------
(* The graph of scopes. *)

LEMMA ScopesTyped == \A s \in Scopes : Children[s] \in Seq(Scopes)
BY ReadinessAssumption

\* Parents are ancestors, and so are the parents of ancestors.
LEMMA AncestorsClosed ==
  ASSUME NEW S \in SUBSET Scopes, NEW p \in Scopes, NEW c \in S \cup Ancestors(S),
         NEW n \in 1..Len(Children[p]), Children[p][n] = c
  PROVE  p \in Ancestors(S)
<1>1. p \in Parents(c)
  BY ScopesTyped DEF Parents, Range
<1>2. ASSUME NEW U \in SUBSET Scopes, Above(S \cup U) \subseteq U PROVE p \in U
  <2>1. c \in S \cup U
    BY <1>2 DEF Ancestors
  <2> QED
    BY <1>1, <1>2, <2>1 DEF Above
<1> QED
  BY <1>2 DEF Ancestors

LEMMA AncestorsGrow ==
  ASSUME NEW S \in SUBSET Scopes, NEW s \in S
  PROVE  Ancestors({s}) \subseteq Ancestors(S)
<1> SUFFICES ASSUME NEW p \in Ancestors({s}), NEW U \in SUBSET Scopes,
                    Above(S \cup U) \subseteq U
             PROVE  p \in U
  BY DEF Ancestors
<1>1. Above({s} \cup U) \subseteq Above(S \cup U)
  BY DEF Above
<1> QED
  BY <1>1 DEF Ancestors

\* An ancestor of d has a child that is d or another ancestor of d.
LEMMA AncestorsFrom ==
  ASSUME NEW d \in Scopes, NEW p \in Ancestors({d})
  PROVE  \E n \in 1..Len(Children[p]) :
            Children[p][n] = d \/ Children[p][n] \in Ancestors({d})
<1> DEFINE U == {q \in Scopes : \E n \in 1..Len(Children[q]) :
                                  Children[q][n] = d \/ Children[q][n] \in Ancestors({d})}
<1>1. U \in SUBSET Scopes
  OBVIOUS
<1>2. U \subseteq Ancestors({d})
  <2> SUFFICES ASSUME NEW q \in U PROVE q \in Ancestors({d})
    OBVIOUS
  <2>1. PICK n \in 1..Len(Children[q]) : Children[q][n] \in {d} \cup Ancestors({d})
    OBVIOUS
  <2> QED
    BY <2>1, AncestorsClosed
<1>3. Above({d} \cup U) \subseteq U
  <2> SUFFICES ASSUME NEW q \in Above({d} \cup U) PROVE q \in U
    OBVIOUS
  <2>1. PICK c \in {d} \cup U : q \in Parents(c)
    BY DEF Above
  <2>2. q \in Scopes /\ \E n \in 1..Len(Children[q]) : Children[q][n] = c
    BY <2>1, ScopesTyped DEF Parents, Range
  <2> QED
    BY <1>2, <2>1, <2>2
<1> QED
  BY <1>1, <1>3 DEF Ancestors

-----------------------------------------------------------------------------
(* Stacks of calls. *)

LEMMA NewFrame ==
  ASSUME NEW s \in Scopes, NEW g \in [Scopes -> Generation], NEW c
  PROVE  Frame(s) \in FrameType /\ FrameOK(Frame(s), g, c)
BY ScopesTyped DEF Frame, FrameType, Generation, Modes, FrameOK, Settled

LEMMA StackSet ==
  ASSUME NEW k \in Seq(FrameType), NEW g, NEW c, StackOK(k, g, c), NEW i \in 1..Len(k),
         NEW f \in FrameType, FrameOK(f, g, c), f.scope = k[i].scope,
         i < Len(k) => f.fut = k[i].fut
  PROVE  LET m == [k EXCEPT ![i] = f]
         IN m \in Seq(FrameType) /\ Len(m) = Len(k) /\ StackOK(m, g, c)
<1> DEFINE m == [k EXCEPT ![i] = f]
<1>1. m \in Seq(FrameType) /\ Len(m) = Len(k) /\ \A j \in 1..Len(k) : m[j] = IF j = i THEN f ELSE k[j]
  OBVIOUS
<1> HIDE DEF m
<1>2. \A j \in 1..Len(m) : FrameOK(m[j], g, c)
  BY <1>1 DEF StackOK
<1>3. ASSUME NEW j \in 1..Len(m) - 1 PROVE Nested(m[j], m[j + 1])
  <2>1. j \in 1..Len(k) - 1 /\ Nested(k[j], k[j + 1]) /\ j \in 1..Len(k) /\ j + 1 \in 1..Len(k)
    BY <1>1 DEF StackOK
  <2>2. m[j].scope = k[j].scope /\ m[j].fut = k[j].fut /\ m[j + 1].scope = k[j + 1].scope
    BY <1>1, <2>1
  <2> QED
    BY <2>1, <2>2 DEF Nested
<1>4. StackOK(m, g, c)
  BY <1>2, <1>3 DEF StackOK
<1> QED
  BY <1>1, <1>4 DEF m

LEMMA StackPush ==
  ASSUME NEW k \in Seq(FrameType), NEW g, NEW c, StackOK(k, g, c),
         NEW f \in FrameType, FrameOK(f, g, c), k # <<>> => Nested(k[Len(k)], f)
  PROVE  LET m == Append(k, f)
         IN m \in Seq(FrameType) /\ Len(m) = Len(k) + 1 /\ StackOK(m, g, c)
<1> DEFINE m == Append(k, f)
<1>1. /\ m \in Seq(FrameType) /\ Len(m) = Len(k) + 1 /\ Len(k) \in Nat
      /\ \A j \in 1..Len(k) : m[j] = k[j]
      /\ m[Len(k) + 1] = f
  OBVIOUS
<1> HIDE DEF m
<1>2. ASSUME NEW j \in 1..Len(m) PROVE FrameOK(m[j], g, c)
  BY <1>1 DEF StackOK
<1>3. ASSUME NEW j \in 1..Len(m) - 1 PROVE Nested(m[j], m[j + 1])
  <2>1. CASE j = Len(k)
    BY <1>1, <2>1
  <2>2. CASE j < Len(k)
    BY <1>1, <2>2 DEF StackOK
  <2> QED
    BY <1>1, <2>1, <2>2
<1>4. StackOK(m, g, c)
  BY <1>2, <1>3 DEF StackOK
<1> QED
  BY <1>1, <1>4 DEF m

LEMMA StackCut ==
  ASSUME NEW k \in Seq(FrameType), NEW g, NEW c, StackOK(k, g, c), NEW i \in 0..Len(k)
  PROVE  LET m == SubSeq(k, 1, i)
         IN /\ m \in Seq(FrameType) /\ Len(m) = i /\ StackOK(m, g, c)
            /\ \A j \in 1..i : m[j] = k[j]
<1> DEFINE m == SubSeq(k, 1, i)
<1>1. m \in Seq(FrameType) /\ Len(m) = i /\ \A j \in 1..i : m[j] = k[j]
  OBVIOUS
<1> HIDE DEF m
<1>2. ASSUME NEW j \in 1..Len(m) PROVE FrameOK(m[j], g, c)
  BY <1>1 DEF StackOK
<1>3. ASSUME NEW j \in 1..Len(m) - 1 PROVE Nested(m[j], m[j + 1])
  <2>1. j \in 1..i /\ j + 1 \in 1..i /\ j \in 1..Len(k) - 1
    BY <1>1
  <2> QED
    BY <1>1, <2>1 DEF StackOK
<1>4. StackOK(m, g, c)
  BY <1>2, <1>3 DEF StackOK
<1> QED
  BY <1>1, <1>4 DEF m

-----------------------------------------------------------------------------
(* Cached successes. *)

LEMMA CacheInit == Init => CacheInv
<1> SUFFICES ASSUME Init PROVE CacheInv
  OBVIOUS
<1> USE DEF Init
<1>1. Types
  BY DEF Types, Generation
<1>2. CacheValid /\ Running
  BY DEF CacheValid, Running
<1>3. \A t \in Tasks : StackOK(stack[t], gen, cond)
  BY DEF StackOK
<1> QED
  BY <1>1, <1>2, <1>3 DEF CacheInv

\* A step that changes one stack, and neither conditions nor generations.
LEMMA OneStack ==
  ASSUME CacheInv, UNCHANGED <<cond, gen>>, ready' \in [Scopes -> BOOLEAN], CacheValid',
         NEW t \in Tasks, NEW m \in Seq(FrameType), stack' = [stack EXCEPT ![t] = m],
         StackOK(m, gen, cond), run' = {} \/ (run' = {t} /\ at' \in 1..Len(m))
  PROVE  CacheInv'
<1>1. Types'
  BY DEF CacheInv, Types
<1>2. Running'
  BY DEF CacheInv, Types, Running
<1>3. ASSUME NEW u \in Tasks PROVE StackOK(stack'[u], gen', cond')
  BY DEF CacheInv, Types
<1> QED
  BY <1>1, <1>2, <1>3 DEF CacheInv

\* The same for a step that leaves the cached results alone.
LEMMA OneStackOnly ==
  ASSUME CacheInv, UNCHANGED <<cond, gen, ready>>, NEW t \in Tasks, NEW m \in Seq(FrameType),
         stack' = [stack EXCEPT ![t] = m], StackOK(m, gen, cond),
         run' = {} \/ (run' = {t} /\ at' \in 1..Len(m))
  PROVE  CacheInv'
<1>1. CacheValid' /\ ready' \in [Scopes -> BOOLEAN]
  BY DEF CacheInv, CacheValid, Types
<1> QED
  BY <1>1, OneStack

\* What holds while a task is polled.
LEMMA Polled ==
  ASSUME CacheInv, NEW t \in Tasks, run = {t}
  PROVE  /\ stack[t] \in Seq(FrameType) /\ at \in 1..Len(stack[t]) /\ Len(stack[t]) \in Nat
         /\ Top(t) = stack[t][at] /\ Top(t) \in FrameType /\ FrameOK(Top(t), gen, cond)
         /\ StackOK(stack[t], gen, cond) /\ Top(t).scope \in Scopes
         /\ gen[Top(t).scope] \in Generation
         /\ at < Len(stack[t]) => Nested(stack[t][at], stack[t][at + 1])
<1>1. stack[t] \in Seq(FrameType) /\ at \in 1..Len(stack[t]) /\ Len(stack[t]) \in Nat
  <2>1. PICK u \in Tasks : run = {u} /\ at \in 1..Len(stack[u])
    BY DEF CacheInv, Running
  <2>2. u = t
    BY <2>1
  <2> QED
    BY <2>1, <2>2 DEF CacheInv, Types
<1>2. Top(t) = stack[t][at] /\ Top(t) \in FrameType
  BY <1>1 DEF Top
<1>3. StackOK(stack[t], gen, cond)
  BY DEF CacheInv
<1>4. FrameOK(Top(t), gen, cond) /\ Top(t).scope \in Scopes
  BY <1>1, <1>2, <1>3 DEF StackOK, FrameType
<1>5. at < Len(stack[t]) => Nested(stack[t][at], stack[t][at + 1])
  BY <1>1, <1>3 DEF StackOK
<1>6. gen[Top(t).scope] \in Generation
  BY <1>4 DEF CacheInv, Types
<1> QED
  BY <1>1, <1>2, <1>3, <1>4, <1>5, <1>6

\* The frame that is polled becomes f.
LEMMA TopKeeps ==
  ASSUME CacheInv, NEW t \in Tasks, run = {t}, NEW f \in FrameType, FrameOK(f, gen, cond),
         f.scope = Top(t).scope, at < Len(stack[t]) => f.fut = Top(t).fut,
         SetTop(t, f), UNCHANGED <<cond, gen, ready, pollVars>>
  PROVE  CacheInv'
<1> DEFINE m == [stack[t] EXCEPT ![at] = f]
<1>1. stack' = [stack EXCEPT ![t] = m]
  BY Polled DEF SetTop, CacheInv, Types
<1>2. m \in Seq(FrameType) /\ Len(m) = Len(stack[t]) /\ StackOK(m, gen, cond)
  BY Polled, StackSet
<1>3. run' = {t} /\ at' \in 1..Len(m)
  BY <1>2, Polled DEF pollVars
<1> HIDE DEF m
<1> QED
  BY <1>1, <1>2, <1>3, OneStackOnly

LEMMA PendingKeeps ==
  ASSUME CacheInv, NEW t \in Tasks, run = {t}, NEW f \in FrameType, FrameOK(f, gen, cond),
         f.scope = Top(t).scope, at < Len(stack[t]) => f.fut = Top(t).fut,
         ReturnPending(t, f), UNCHANGED <<cond, gen, ready>>
  PROVE  CacheInv'
<1> DEFINE m == [stack[t] EXCEPT ![at] = f]
<1>1. m \in Seq(FrameType) /\ Len(m) = Len(stack[t]) /\ StackOK(m, gen, cond)
  BY Polled, StackSet
<1>2. CASE at = 1
  <2>1. stack' = [stack EXCEPT ![t] = m] /\ run' = {}
    BY <1>2, Polled DEF ReturnPending, SetTop, CacheInv, Types
  <2> HIDE DEF m
  <2> QED
    BY <1>1, <2>1, OneStackOnly
<1>3. CASE at > 1
  <2> DEFINE h == [m[at - 1] EXCEPT !.mode = "pend"]
             n == [m EXCEPT ![at - 1] = h]
  <2>1. stack' = [stack EXCEPT ![t] = n] /\ run' = {t} /\ at' = at - 1
    BY <1>3, Polled DEF ReturnPending, CacheInv, Types
  <2> HIDE DEF m
  <2>2. at - 1 \in 1..Len(m) /\ m[at - 1] \in FrameType /\ FrameOK(m[at - 1], gen, cond)
    BY <1>1, <1>3, Polled DEF StackOK
  <2>3. h \in FrameType /\ h.scope = m[at - 1].scope /\ h.fut = m[at - 1].fut
    BY <2>2 DEF FrameType, Modes
  <2>4. FrameOK(h, gen, cond)
    BY <2>2 DEF FrameOK, Settled, FrameType
  <2>5. n \in Seq(FrameType) /\ Len(n) = Len(m) /\ StackOK(n, gen, cond)
    BY <1>1, <2>2, <2>3, <2>4, StackSet
  <2>6. at' \in 1..Len(n)
    BY <2>1, <2>2, <2>5
  <2> HIDE DEF n
  <2> QED
    BY <2>1, <2>5, <2>6, OneStackOnly
<1> QED
  BY <1>2, <1>3, Polled

LEMMA ChangeKeeps ==
  ASSUME CacheInv, NEW S \in Sources, NEW s \in S, Change(s, S)
  PROVE  CacheInv'
<1> DEFINE all == S \cup Ancestors(S)
<1>1. S \in SUBSET Scopes /\ s \in Scopes
  BY ReadinessAssumption
<1>2. /\ cond' = [cond EXCEPT ![s] = ~@] /\ UNCHANGED <<stack, run, at>>
      /\ ready' = [r \in Scopes |-> ready[r] /\ r \notin all]
      /\ gen' \in [Scopes -> Generation]
      /\ \A r \in Scopes : IF r \in all THEN gen'[r].value = gen[r].value + 1
                                          ELSE gen'[r] = gen[r]
  <2>1. /\ cond' = [cond EXCEPT ![s] = ~@] /\ UNCHANGED <<stack, run, at>>
        /\ ready' = [r \in Scopes |-> ready[r] /\ r \notin all]
    BY DEF Change, Invalidate, pollVars
  <2>2. gen' = [r \in Scopes |->
                 IF r \in S THEN [value |-> gen[r].value + 1, direct |-> gen[r].value + 1]
                 ELSE IF r \in all THEN [gen[r] EXCEPT !.value = @ + 1] ELSE gen[r]]
    BY DEF Change, Invalidate
  <2>3. \A r \in Scopes : gen[r] \in Generation
    BY DEF CacheInv, Types
  <2> HIDE DEF all
  <2>4. ASSUME NEW r \in Scopes
        PROVE  /\ gen'[r] \in Generation
               /\ IF r \in S \cup all THEN gen'[r].value = gen[r].value + 1
                                    ELSE gen'[r] = gen[r]
    BY <2>2, <2>3 DEF Generation
  <2>5. gen' \in [Scopes -> Generation]
    BY <2>2, <2>4
  <2> QED
    BY <2>1, <2>4, <2>5 DEF all
<1>3. Types'
  BY <1>2 DEF CacheInv, Types
<1>4. Running'
  BY <1>2 DEF CacheInv, Running
<1>5. ASSUME NEW r \in Scopes, r \notin all, CanCall(r, cond) PROVE CanCall(r, cond')
  <2> SUFFICES ASSUME NEW d \in Scopes, d = r \/ r \in Ancestors({d}) PROVE cond'[d]
    BY DEF CanCall
  <2>1. d # s
    BY <1>1, <1>5, AncestorsGrow
  <2> QED
    BY <1>2, <1>5, <2>1 DEF CanCall, CacheInv, Types
<1>6. CacheValid'
  <2> SUFFICES ASSUME NEW r \in Scopes, ready'[r] PROVE CanCall(r, cond')
    BY DEF CacheValid, CanCall
  <2>1. ready[r] /\ r \notin all
    BY <1>2
  <2>2. CanCall(r, cond)
    BY <2>1 DEF CacheInv, CacheValid, CanCall
  <2> QED
    BY <1>5, <2>1, <2>2
<1>7. ASSUME NEW f \in FrameType, FrameOK(f, gen, cond) PROVE FrameOK(f, gen', cond')
  <2>1. f.scope \in Scopes /\ f.snap \in Generation /\ f.fut \in Nat
    BY DEF FrameType
  <2>2. f.snap.value <= gen'[f.scope].value
    <3>1. f.snap.value \in Nat /\ gen[f.scope].value \in Nat /\ f.snap.value <= gen[f.scope].value
      BY <1>7, <2>1 DEF FrameOK, CacheInv, Types, Generation
    <3>2. gen'[f.scope].value = gen[f.scope].value + 1 \/ gen'[f.scope] = gen[f.scope]
      BY <1>2, <2>1
    <3> QED
      BY <3>1, <3>2
  <2>3. ASSUME gen'[f.scope] = f.snap, NEW n \in 1..Len(Children[f.scope]), n < f.fut
        PROVE  CanCall(Children[f.scope][n], cond')
    <3>1. gen'[f.scope].value # gen[f.scope].value + 1
      BY <1>7, <2>1, <2>3 DEF FrameOK, CacheInv, Types, Generation
    <3>2. f.scope \notin all /\ gen[f.scope] = f.snap
      BY <1>2, <2>1, <2>3, <3>1
    <3>3. Children[f.scope][n] \in Scopes
      BY <2>1, <2>3, ScopesTyped
    <3>4. Children[f.scope][n] \notin all
      BY <1>1, <2>1, <2>3, <3>2, AncestorsClosed
    <3>5. CanCall(Children[f.scope][n], cond)
      BY <1>7, <2>3, <3>2 DEF FrameOK, Settled
    <3> QED
      BY <1>5, <3>3, <3>4, <3>5
  <2> QED
    BY <1>7, <2>2, <2>3 DEF FrameOK, Settled
<1>8. ASSUME NEW t \in Tasks PROVE StackOK(stack'[t], gen', cond')
  <2>1. StackOK(stack[t], gen, cond) /\ stack[t] \in Seq(FrameType) /\ stack'[t] = stack[t]
    BY <1>2 DEF CacheInv, Types
  <2>2. \A i \in 1..Len(stack[t]) : FrameOK(stack[t][i], gen', cond')
    BY <1>7, <2>1 DEF StackOK
  <2> QED
    BY <2>1, <2>2 DEF StackOK
<1> QED
  BY <1>3, <1>4, <1>6, <1>8 DEF CacheInv

LEMMA BeginKeeps == ASSUME CacheInv, NEW t \in Tasks, Begin(t) PROVE CacheInv'
<1> DEFINE m == <<Frame(Target[t])>>
<1>1. Target[t] \in Scopes /\ gen \in [Scopes -> Generation]
  BY ReadinessAssumption DEF CacheInv, Types
<1>2. Frame(Target[t]) \in FrameType /\ FrameOK(Frame(Target[t]), gen, cond)
  BY <1>1, NewFrame
<1>3. m \in Seq(FrameType) /\ Len(m) = 1 /\ m[1] = Frame(Target[t])
  BY <1>2
<1>4. StackOK(m, gen, cond)
  BY <1>2, <1>3 DEF StackOK
<1>5. /\ stack' = [stack EXCEPT ![t] = m] /\ run' = {t} /\ at' \in 1..Len(m)
      /\ UNCHANGED <<cond, gen, ready>>
  BY <1>3 DEF Begin, scopeVars
<1> HIDE DEF m
<1> QED
  BY <1>3, <1>4, <1>5, OneStackOnly

LEMMA PollKeeps == ASSUME CacheInv, NEW t \in Tasks, Poll(t) PROVE CacheInv'
<1>1. /\ stack' = [stack EXCEPT ![t] = stack[t]] /\ run' = {t} /\ at' \in 1..Len(stack[t])
      /\ UNCHANGED <<cond, gen, ready>> /\ stack[t] \in Seq(FrameType)
  BY DEF Poll, scopeVars, CacheInv, Types
<1>2. StackOK(stack[t], gen, cond)
  BY DEF CacheInv
<1> QED
  BY <1>1, <1>2, OneStackOnly

LEMMA ReturnsKeeps == ASSUME CacheInv, NEW t \in Tasks, CheckReturns(t) PROVE CacheInv'
<1> DEFINE k == stack[t]
           s == Top(t).scope
<1>1. run = {t} /\ Top(t).mode = "wait" /\ ready[s] /\ UNCHANGED <<cond, gen, ready>>
  BY DEF CheckReturns, In, Top
<1>2. at = Len(k)
  BY <1>1, Polled DEF FrameOK, Nested
<1>3. CASE at = 1
  <2>1. stack' = [stack EXCEPT ![t] = <<>>] /\ run' = {}
    BY <1>1, <1>3 DEF CheckReturns
  <2>2. <<>> \in Seq(FrameType) /\ StackOK(<<>>, gen, cond)
    BY DEF StackOK
  <2> QED
    BY <1>1, <2>1, <2>2, OneStackOnly
<1>4. CASE at > 1
  <2> DEFINE m == SubSeq(k, 1, at - 1)
             h == [m[at - 1] EXCEPT !.fut = @ + 1]
             n == [m EXCEPT ![at - 1] = h]
  <2>1. at - 1 \in 1..Len(k) /\ at - 1 \in 0..Len(k) /\ at - 1 = Len(k) - 1
    BY <1>1, <1>2, <1>4, Polled
  <2>2. stack' = [stack EXCEPT ![t] = n] /\ run' = {t} /\ at' = at - 1
    <3>1. Front(k) = m
      BY <1>2 DEF Front
    <3>2. /\ stack' = [stack EXCEPT ![t] = [Front(stack[t]) EXCEPT ![at - 1].fut = @ + 1]]
          /\ at' = at - 1 /\ run' = run
      BY <1>4 DEF CheckReturns
    <3>3. n = [Front(stack[t]) EXCEPT ![at - 1].fut = @ + 1]
      BY <3>1
    <3> QED
      BY <1>1, <3>2, <3>3
  <2>3. /\ m \in Seq(FrameType) /\ Len(m) = at - 1 /\ StackOK(m, gen, cond)
        /\ m[at - 1] = k[at - 1]
    BY <1>1, <2>1, Polled, StackCut
  <2> HIDE DEF m
  <2>4. m[at - 1] \in FrameType /\ FrameOK(m[at - 1], gen, cond) /\ Nested(m[at - 1], k[at])
    BY <1>1, <2>1, <2>3, Polled DEF StackOK
  <2>5. h \in FrameType /\ h.scope = m[at - 1].scope /\ h.fut = m[at - 1].fut + 1
          /\ h.mode = m[at - 1].mode /\ h.snap = m[at - 1].snap
    BY <2>4 DEF FrameType
  <2>6. CanCall(s, cond)
    BY <1>1, Polled DEF CacheInv, CacheValid, CanCall
  <2>7. Settled(h, gen, cond)
    <3> SUFFICES ASSUME gen[h.scope] = h.snap, NEW j \in 1..Len(Children[h.scope]), j < h.fut
                 PROVE  CanCall(Children[h.scope][j], cond)
      BY DEF Settled
    <3>1. CASE j = m[at - 1].fut
      BY <1>1, <2>4, <2>5, <2>6, <3>1, Polled DEF Nested
    <3>2. CASE j < m[at - 1].fut
      BY <2>4, <2>5, <3>2 DEF FrameOK, Settled
    <3> HIDE DEF h
    <3> QED
      BY <2>4, <2>5, <3>1, <3>2, ScopesTyped DEF FrameType
  <2>8. FrameOK(h, gen, cond)
    BY <2>4, <2>5, <2>7, ScopesTyped DEF FrameOK, FrameType, Nested, Modes
  <2> HIDE DEF h
  <2>9. n \in Seq(FrameType) /\ Len(n) = Len(m) /\ StackOK(n, gen, cond)
    <3>1. at - 1 \in 1..Len(m) /\ ~(at - 1 < Len(m))
      BY <2>1, <2>3
    <3> QED
      BY <2>3, <2>5, <2>8, <3>1, StackSet
  <2>10. at' \in 1..Len(n)
    BY <2>1, <2>2, <2>3, <2>9
  <2> HIDE DEF n
  <2> QED
    BY <1>1, <2>2, <2>9, <2>10, OneStackOnly
<1> QED
  BY <1>1, <1>3, <1>4, Polled

LEMMA JoinsKeeps == ASSUME CacheInv, NEW t \in Tasks, CheckJoins(t) PROVE CacheInv'
<1>1. run = {t} /\ ReturnPending(t, Top(t)) /\ UNCHANGED <<cond, gen, ready>>
  BY DEF CheckJoins, In
<1> QED
  BY <1>1, Polled, PendingKeeps

LEMMA OwnsKeeps == ASSUME CacheInv, NEW t \in Tasks, CheckOwns(t) PROVE CacheInv'
<1> DEFINE f == [Top(t) EXCEPT !.mode = "own"]
<1>1. run = {t} /\ SetTop(t, f) /\ UNCHANGED <<cond, gen, ready, pollVars>>
  BY DEF CheckOwns, In
<1>2. f \in FrameType /\ f.scope = Top(t).scope /\ f.fut = Top(t).fut
  BY <1>1, Polled DEF FrameType, Modes
<1>3. FrameOK(f, gen, cond)
  BY <1>1, Polled DEF FrameOK, Settled, FrameType
<1> HIDE DEF f
<1> QED
  BY <1>1, <1>2, <1>3, TopKeeps

LEMMA PollsKeeps == ASSUME CacheInv, NEW t \in Tasks, CheckPolls(t) PROVE CacheInv'
<1> DEFINE p == Top(t)
           s == p.scope
           f == [p EXCEPT !.mode = "fut", !.before = gen[s].value,
                          !.fut = IF @ = 0 THEN 1 ELSE @,
                          !.snap = IF p.fut = 0 THEN gen[s] ELSE @]
<1>1. run = {t} /\ SetTop(t, f) /\ UNCHANGED <<cond, gen, ready, pollVars>>
  BY DEF CheckPolls, In
<1>2. p \in FrameType /\ FrameOK(p, gen, cond) /\ s \in Scopes /\ gen[s] \in Generation
  BY <1>1, Polled
<1>3. /\ f.scope = s /\ f.mode = "fut" /\ f.before = gen[s].value
      /\ f.fut = (IF p.fut = 0 THEN 1 ELSE p.fut)
      /\ f.snap = IF p.fut = 0 THEN gen[s] ELSE p.snap
      /\ f \in FrameType
  BY <1>2 DEF FrameType, Modes, Generation
<1> HIDE DEF f
<1>4. FrameOK(f, gen, cond)
  <2>1. f.snap.value <= gen[f.scope].value /\ f.fut <= Len(Children[f.scope]) + 1 /\ f.fut > 0
    BY <1>2, <1>3, ScopesTyped DEF FrameOK, FrameType, Generation
  <2>2. Settled(f, gen, cond)
    BY <1>2, <1>3, ScopesTyped DEF FrameOK, Settled
  <2> QED
    BY <1>3, <2>1, <2>2 DEF FrameOK
<1>5. at < Len(stack[t]) => f.fut = p.fut
  <2>1. at < Len(stack[t]) => p.fut # 0
    BY <1>1, Polled DEF Nested
  <2> QED
    BY <1>3, <2>1
<1> QED
  BY <1>1, <1>3, <1>4, <1>5, TopKeeps

LEMMA ReplacedKeeps == ASSUME CacheInv, NEW t \in Tasks, CheckReplaced(t) PROVE CacheInv'
<1> DEFINE k == stack[t]
           p == Top(t)
           f == [p EXCEPT !.fut = 0, !.restarted = TRUE]
           c == SubSeq(k, 1, at - 1)
           m == Append(c, f)
<1>1. /\ run = {t} /\ UNCHANGED <<cond, gen, ready, run, at>> /\ p.mode = "own"
      /\ stack' = [stack EXCEPT ![t] = m]
  BY DEF CheckReplaced, In, pollVars, Top, CacheInv, Types
<1>2. p \in FrameType /\ FrameOK(p, gen, cond) /\ p = k[at] /\ p.scope \in Scopes
  BY <1>1, Polled
<1>3. f \in FrameType /\ f.scope = p.scope /\ f.fut = 0 /\ f.mode = "own" /\ f.snap = p.snap
  BY <1>1, <1>2 DEF FrameType
<1> HIDE DEF f
<1>4. FrameOK(f, gen, cond)
  BY <1>2, <1>3, ScopesTyped DEF FrameOK, Settled
<1>5. at - 1 \in 0..Len(k) /\ at \in Nat
  BY <1>1, Polled
<1>6. /\ c \in Seq(FrameType) /\ Len(c) = at - 1 /\ StackOK(c, gen, cond)
      /\ \A j \in 1..at - 1 : c[j] = k[j]
  BY <1>1, <1>5, Polled, StackCut
<1> HIDE DEF c
<1>7. c # <<>> => Nested(c[Len(c)], f)
  <2> SUFFICES ASSUME c # <<>> PROVE Nested(c[at - 1], f)
    BY <1>6
  <2>1. at - 1 \in 1..Len(k) - 1 /\ at - 1 \in 1..at - 1
    BY <1>1, <1>5, <1>6, Polled
  <2>2. Nested(k[at - 1], k[at])
    BY <1>1, <1>5, <2>1, Polled DEF StackOK
  <2> QED
    BY <1>2, <1>3, <1>6, <2>1, <2>2 DEF Nested
<1>8. m \in Seq(FrameType) /\ Len(m) = at /\ StackOK(m, gen, cond)
  BY <1>3, <1>4, <1>5, <1>6, <1>7, StackPush
<1>9. run' = {t} /\ at' \in 1..Len(m)
  BY <1>1, <1>8, Polled
<1> HIDE DEF m
<1> QED
  BY <1>1, <1>8, <1>9, OneStackOnly

LEMMA AwaitKeeps == ASSUME CacheInv, NEW t \in Tasks, AwaitChild(t) PROVE CacheInv'
<1> DEFINE k == stack[t]
           p == Top(t)
           f == Frame(Children[p.scope][p.fut])
<1>1. /\ run = {t} /\ p.mode = "fut" /\ p.fut <= Len(Children[p.scope])
      /\ UNCHANGED <<cond, gen, ready, run>> /\ at' = at + 1
  BY DEF AwaitChild, In, scopeVars, Top
<1>2. p \in FrameType /\ FrameOK(p, gen, cond) /\ p = k[at] /\ p.scope \in Scopes /\ p.fut \in Nat
  BY <1>1, Polled DEF FrameType
<1>3. p.fut \in 1..Len(Children[p.scope]) /\ Children[p.scope][p.fut] \in Scopes
  BY <1>1, <1>2, ScopesTyped DEF FrameOK
<1>4. CASE at < Len(k)
  <2>1. stack' = [stack EXCEPT ![t] = k] /\ at' \in 1..Len(k) /\ run' = {t}
    BY <1>1, <1>4, Polled DEF AwaitChild, CacheInv, Types
  <2> HIDE DEF k
  <2> QED
    BY <1>1, <2>1, Polled, OneStackOnly DEF k
<1>5. CASE ~(at < Len(k))
  <2>1. f \in FrameType /\ FrameOK(f, gen, cond) /\ f.scope = Children[p.scope][p.fut]
    BY <1>3, NewFrame DEF CacheInv, Types, Frame
  <2>2. stack' = [stack EXCEPT ![t] = Append(k, f)] /\ at = Len(k) /\ run' = {t}
    BY <1>1, <1>5, Polled DEF AwaitChild
  <2> HIDE DEF f
  <2>3. Nested(k[Len(k)], f)
    BY <1>2, <1>3, <2>1, <2>2 DEF Nested
  <2>4. Append(k, f) \in Seq(FrameType) /\ Len(Append(k, f)) = Len(k) + 1
          /\ StackOK(Append(k, f), gen, cond)
    BY <1>1, <2>1, <2>3, Polled, StackPush
  <2>5. at' \in 1..Len(Append(k, f))
    BY <1>1, <2>2, <2>4, Polled
  <2> QED
    BY <1>1, <2>2, <2>4, <2>5, OneStackOnly
<1> QED
  BY <1>4, <1>5

LEMMA DoneKeeps == ASSUME CacheInv, NEW t \in Tasks, CheckDone(t) PROVE CacheInv'
<1> DEFINE k == stack[t]
           p == Top(t)
           s == p.scope
           m == [k EXCEPT ![at] = Frame(s)]
<1>1. /\ run = {t} /\ p.fut > Len(Children[s]) /\ cond[s] /\ gen[s] = p.snap
      /\ ready' = [ready EXCEPT ![s] = TRUE] /\ UNCHANGED <<cond, gen, run, at>>
  BY DEF CheckDone, OwnCondition, In, pollVars, Top
<1>2. s \in Scopes /\ p \in FrameType /\ FrameOK(p, gen, cond) /\ at \in 1..Len(k) /\ p = k[at]
  BY <1>1, Polled
<1>3. stack' = [stack EXCEPT ![t] = m]
  BY <1>1, Polled DEF CheckDone, SetTop, CacheInv, Types
<1>4. ~(at < Len(k))
  BY <1>1, <1>2, Polled, ScopesTyped DEF Nested
<1>5. Frame(s) \in FrameType /\ FrameOK(Frame(s), gen, cond) /\ Frame(s).scope = s
  BY <1>2, NewFrame DEF CacheInv, Types, Frame
<1>6. m \in Seq(FrameType) /\ Len(m) = Len(k) /\ StackOK(m, gen, cond)
  BY <1>1, <1>2, <1>4, <1>5, Polled, StackSet
<1>7. CanCall(s, cond)
  <2> SUFFICES ASSUME NEW d \in Scopes, s \in Ancestors({d}) PROVE cond[d]
    BY <1>1 DEF CanCall
  <2>1. PICK n \in 1..Len(Children[s]) :
               Children[s][n] = d \/ Children[s][n] \in Ancestors({d})
    BY AncestorsFrom
  <2>2. n < p.fut
    BY <1>1, <1>2, ScopesTyped DEF FrameType
  <2>3. CanCall(Children[s][n], cond)
    BY <1>1, <1>2, <2>2 DEF FrameOK, Settled
  <2> QED
    BY <2>1, <2>3 DEF CanCall
<1>8. CacheValid' /\ ready' \in [Scopes -> BOOLEAN]
  BY <1>1, <1>2, <1>7, ZenonT(60) DEF CacheInv, CacheValid, CanCall, Types
<1>9. run' = {t} /\ at' \in 1..Len(m)
  BY <1>1, <1>2, <1>6
<1> HIDE DEF m
<1> QED
  BY <1>1, <1>3, <1>6, <1>8, <1>9, OneStack

LEMMA StaleKeeps == ASSUME CacheInv, NEW t \in Tasks, CheckStale(t) PROVE CacheInv'
<1> DEFINE p == Top(t)
           f == [p EXCEPT !.mode = "own", !.fut = 0, !.observer = FALSE,
                          !.restarted = ~p.restarted]
<1>1. /\ run = {t} /\ p.fut > Len(Children[p.scope]) /\ UNCHANGED <<cond, gen, ready>>
      /\ ReturnPending(t, f) \/ (SetTop(t, f) /\ UNCHANGED pollVars)
  BY DEF CheckStale, OwnCondition, In, Top
<1>2. p \in FrameType /\ FrameOK(p, gen, cond) /\ p.scope \in Scopes
  BY <1>1, Polled
<1>3. f.scope = p.scope /\ f.mode = "own" /\ f.fut = 0 /\ f.snap = p.snap /\ f \in FrameType
  BY <1>2 DEF FrameType, Modes
<1> HIDE DEF f
<1>4. FrameOK(f, gen, cond)
  BY <1>2, <1>3, ScopesTyped DEF FrameOK, Settled
<1>5. ~(at < Len(stack[t]))
  BY <1>1, <1>2, Polled, ScopesTyped DEF Nested
<1> QED
  BY <1>1, <1>3, <1>4, <1>5, TopKeeps, PendingKeeps

LEMMA ConditionKeeps == ASSUME CacheInv, NEW t \in Tasks, ConditionPending(t) PROVE CacheInv'
<1> DEFINE f == [Top(t) EXCEPT !.mode = "pend"]
<1>1. run = {t} /\ SetTop(t, f) /\ UNCHANGED <<cond, gen, ready, pollVars>>
  BY DEF ConditionPending, OwnCondition, In, scopeVars
<1>2. f \in FrameType /\ f.scope = Top(t).scope /\ f.fut = Top(t).fut
  BY <1>1, Polled DEF FrameType, Modes
<1>3. FrameOK(f, gen, cond)
  BY <1>1, Polled DEF FrameOK, Settled, FrameType
<1> HIDE DEF f
<1> QED
  BY <1>1, <1>2, <1>3, TopKeeps

LEMMA PendKeeps == ASSUME CacheInv, NEW t \in Tasks, CheckPending(t) PROVE CacheInv'
<1> DEFINE p == Top(t)
           f == [p EXCEPT !.mode = "own", !.observer = TRUE, !.restarted = FALSE]
<1>1. run = {t} /\ ReturnPending(t, f) /\ UNCHANGED <<cond, gen, ready>>
  BY DEF CheckPending, In
<1>2. p \in FrameType /\ FrameOK(p, gen, cond)
  BY <1>1, Polled
<1>3. f.scope = p.scope /\ f.mode = "own" /\ f.fut = p.fut /\ f.snap = p.snap /\ f \in FrameType
  BY <1>2 DEF FrameType, Modes
<1> HIDE DEF f
<1>4. FrameOK(f, gen, cond)
  BY <1>2, <1>3 DEF FrameOK, Settled
<1> QED
  BY <1>1, <1>3, <1>4, PendingKeeps

LEMMA EndKeeps == ASSUME CacheInv, NEW t \in Tasks, CheckFails(t) \/ Cancel(t) PROVE CacheInv'
<1>1. stack' = [stack EXCEPT ![t] = <<>>] /\ run' = {} /\ UNCHANGED <<cond, gen, ready>>
  BY DEF CheckFails, Cancel, pollVars
<1>2. <<>> \in Seq(FrameType) /\ StackOK(<<>>, gen, cond)
  BY DEF StackOK
<1> QED
  BY <1>1, <1>2, OneStackOnly

LEMMA CacheStep == CacheInv /\ [Next]_vars => CacheInv'
<1> SUFFICES ASSUME CacheInv, [Next]_vars PROVE CacheInv'
  OBVIOUS
<1>1. ASSUME NEW t \in Tasks, PollStep(t) PROVE CacheInv'
  BY <1>1, BeginKeeps, PollKeeps, ReturnsKeeps, JoinsKeeps, OwnsKeeps, PollsKeeps,
     ReplacedKeeps, AwaitKeeps, DoneKeeps, StaleKeeps, ConditionKeeps, PendKeeps DEF PollStep
<1>2. ASSUME NEW t \in Tasks, CheckFails(t) \/ Cancel(t) PROVE CacheInv'
  BY <1>2, EndKeeps
<1>3. ASSUME NEW S \in Sources, NEW s \in S, Change(s, S) PROVE CacheInv'
  BY <1>3, ChangeKeeps
<1>4. ASSUME UNCHANGED vars PROVE CacheInv'
  BY <1>4 DEF vars, scopeVars, pollVars, CacheInv, Types, Running, CacheValid
<1> QED
  BY <1>1, <1>2, <1>3, <1>4 DEF Next

\* A success that is cached is a success still: the scope's own service and all
\* that it depends on can take a call, whatever was notified while its check was
\* suspended and whoever ran it (set_ready, notify_scope, RunCheck::poll).
THEOREM CacheIsValid == Spec => []CacheValid
<1>1. CacheInv => CacheValid
  BY DEF CacheInv
<1> QED
  BY <1>1, CacheInit, CacheStep, PTL DEF Spec

-----------------------------------------------------------------------------
(***************************************************************************)
(* Nobody sleeps in vain.  NoLostWake speaks of the moments between two    *)
(* polls; the invariant says what a poll has established so far.  It goes  *)
(* down the stack to the innermost call that can do something and comes    *)
(* back through the frames that return Pending: from there on, and from    *)
(* the end of the poll to the next one, the frames above have registered,  *)
(* or the task is woken.                                                   *)
(***************************************************************************)

WakeTypes ==
  /\ woken \in [Tasks -> BOOLEAN] /\ checking \in [Scopes -> BOOLEAN]
  /\ obs \in [Scopes -> SUBSET (Tasks \X {1, 2})]

\* A call is for a scope that the scopes of the calls below depend on.
PathOK(k) ==
  \A i, j \in 1..Len(k) : i < j => k[i].scope \in Ancestors({k[j].scope})

\* The scopes whose check a stack runs.
OwnedBy(k) == {k[i].scope : i \in {j \in 1..Len(k) : k[j].mode # "wait"}}

\* A check in progress has one owner.
Owners ==
  /\ \A s \in Scopes : checking[s] <=> \E u \in Tasks : s \in OwnedBy(stack[u])
  /\ \A u, v \in Tasks : \A s \in OwnedBy(stack[u]) : s \in OwnedBy(stack[v]) => u = v

\* The calls below the one that is polled are in their futures, those above it
\* and those of other tasks have returned Pending.
ModesOf(u, i) ==
  IF u \in run /\ i < at THEN {"fut"}
  ELSE IF u \in run /\ i = at THEN Modes ELSE {"own", "wait"}

\* A future that is polled was not stale when its poll began.
Fresh(f, g) ==
  f.mode \in {"fut", "pend"} =>
    /\ f.before <= g[f.scope].value
    /\ f.before = g[f.scope].value => f.snap.direct = g[f.scope].direct

\* The frames from i on of the stack k have registered, in o, with all that may
\* make them proceed.
Registered(u, i, k, o) ==
  LET top == k[Len(k)]
  IN /\ \A j \in i..Len(k) : k[j].mode = "own" =>
          <<u, 2>> \in o[k[j].scope] /\ gen[k[j].scope].direct = k[j].snap.direct
     /\ top.mode = "wait" => <<u, 1>> \in o[top.scope] /\ checking[top.scope]
     /\ top.mode = "own" => ~cond[top.scope]

Asleep(u, i) == Registered(u, i, stack[u], obs)

SleepOK(u) ==
  IF u \in run
  THEN stack[u][at].mode = "pend" =>
         IF at = Len(stack[u]) THEN ~cond[stack[u][at].scope] ELSE woken[u] \/ Asleep(u, at + 1)
  ELSE stack[u] # <<>> => woken[u] \/ Asleep(u, 1)

TaskOK(u) ==
  /\ PathOK(stack[u])
  /\ \A i \in 1..Len(stack[u]) : Fresh(stack[u][i], gen) /\ stack[u][i].mode \in ModesOf(u, i)
  /\ SleepOK(u)

WakeInv == WakeTypes /\ Owners /\ \A u \in Tasks : TaskOK(u)

-----------------------------------------------------------------------------
(* Paths and owners. *)

LEMMA AncestorsTrans ==
  ASSUME NEW d \in Scopes, NEW c \in Ancestors({d}), NEW p \in Ancestors({c})
  PROVE  p \in Ancestors({d})
<1> SUFFICES ASSUME NEW U \in SUBSET Scopes, Above({d} \cup U) \subseteq U PROVE p \in U
  BY DEF Ancestors
<1>1. c \in U
  BY DEF Ancestors
<1>2. Above({c} \cup U) \subseteq U
  BY <1>1 DEF Above
<1> QED
  BY <1>2 DEF Ancestors

LEMMA PathDistinct ==
  ASSUME NEW k \in Seq(FrameType), PathOK(k), NEW i \in 1..Len(k), NEW j \in 1..Len(k), i # j
  PROVE  k[i].scope # k[j].scope
<1>1. k[i] \in FrameType /\ k[j] \in FrameType
  OBVIOUS
<1>2. k[i].scope \in Scopes /\ k[j].scope \in Scopes
  BY <1>1 DEF FrameType
<1>3. i < j \/ j < i
  OBVIOUS
<1> QED
  BY <1>2, <1>3, ScopesAcyclic DEF PathOK

LEMMA PathSame ==
  ASSUME NEW k \in Seq(FrameType), PathOK(k), NEW m \in Seq(FrameType), Len(m) <= Len(k),
         \A i \in 1..Len(m) : m[i].scope = k[i].scope
  PROVE  PathOK(m)
BY DEF PathOK

LEMMA PathPush ==
  ASSUME NEW k \in Seq(FrameType), PathOK(k), NEW f \in FrameType,
         k # <<>> => Nested(k[Len(k)], f)
  PROVE  PathOK(Append(k, f))
<1> DEFINE m == Append(k, f)
<1>1. /\ m \in Seq(FrameType) /\ Len(m) = Len(k) + 1 /\ Len(k) \in Nat
      /\ \A j \in 1..Len(k) : m[j] = k[j]
      /\ m[Len(k) + 1] = f
  OBVIOUS
<1> HIDE DEF m
<1>2. ASSUME NEW i \in 1..Len(k) PROVE k[i].scope \in Ancestors({f.scope})
  <2>1. f.scope \in Scopes /\ k[Len(k)].scope \in Scopes /\ k[i].scope \in Scopes
    <3>1. k[Len(k)] \in FrameType /\ k[i] \in FrameType
      BY <1>2
    <3> QED
      BY <3>1 DEF FrameType
  <2>2. k[Len(k)].scope \in Ancestors({f.scope})
    <3>1. PICK n \in 1..Len(Children[k[Len(k)].scope]) : Children[k[Len(k)].scope][n] = f.scope
      BY <1>2 DEF Nested
    <3> QED
      BY <2>1, <3>1, AncestorsClosed
  <2>3. CASE i < Len(k)
    <3>1. k[i].scope \in Ancestors({k[Len(k)].scope})
      BY <2>3 DEF PathOK
    <3> QED
      BY <2>1, <2>2, <3>1, AncestorsTrans
  <2> QED
    BY <2>2, <2>3
<1>3. ASSUME NEW i \in 1..Len(m), NEW j \in 1..Len(m), i < j
      PROVE  m[i].scope \in Ancestors({m[j].scope})
  <2>1. i \in 1..Len(k) /\ (j \in 1..Len(k) \/ j = Len(k) + 1)
    BY <1>1, <1>3
  <2> QED
    BY <1>1, <1>2, <1>3, <2>1 DEF PathOK
<1>4. PathOK(m)
  BY <1>3 DEF PathOK
<1> QED
  BY <1>4 DEF m

\* A frame is replaced by one for the same scope that runs the check as well.
LEMMA OwnedSame ==
  ASSUME NEW k \in Seq(FrameType), NEW m \in Seq(FrameType), Len(m) = Len(k),
         \A i \in 1..Len(k) : m[i].scope = k[i].scope /\ (m[i].mode = "wait" <=> k[i].mode = "wait")
  PROVE  OwnedBy(m) = OwnedBy(k)
BY DEF OwnedBy

LEMMA OwnedScopes ==
  ASSUME NEW k \in Seq(FrameType) PROVE OwnedBy(k) \subseteq Scopes
<1>1. \A i \in 1..Len(k) : k[i] \in FrameType
  OBVIOUS
<1>2. \A f \in FrameType : f.scope \in Scopes
  BY DEF FrameType
<1> QED
  BY <1>1, <1>2 DEF OwnedBy

LEMMA OwnersKept ==
  ASSUME CacheInv, Owners, NEW t \in Tasks, NEW m, stack' = [stack EXCEPT ![t] = m],
         OwnedBy(m) = OwnedBy(stack[t]), checking' = checking
  PROVE  Owners'
<1>1. \A u \in Tasks : OwnedBy(stack'[u]) = OwnedBy(stack[u])
  BY DEF CacheInv, Types
<1> QED
  BY <1>1 DEF Owners

LEMMA OwnersLess ==
  ASSUME CacheInv, Owners, NEW t \in Tasks, NEW m, stack' = [stack EXCEPT ![t] = m],
         NEW D \in SUBSET OwnedBy(stack[t]), OwnedBy(m) = OwnedBy(stack[t]) \ D,
         \A s \in Scopes : checking'[s] <=> checking[s] /\ s \notin D
  PROVE  Owners'
<1>1. \A u \in Tasks : OwnedBy(stack'[u]) = IF u = t THEN OwnedBy(stack[t]) \ D
                                                     ELSE OwnedBy(stack[u])
  BY DEF CacheInv, Types
<1> QED
  BY <1>1 DEF Owners

-----------------------------------------------------------------------------
(* A step of one task. *)

\* A step takes nothing from the task u that sleeps: a registration that it needs
\* stays, and the end of a check that it waits for wakes it.
Undisturbed(u) ==
  /\ woken[u] => woken'[u]
  /\ \A s \in OwnedBy(stack[u]) : <<u, 2>> \in obs[s] => <<u, 2>> \in obs'[s]
  /\ \A s \in Scopes : <<u, 1>> \in obs[s] /\ checking[s] =>
       woken'[u] \/ (<<u, 1>> \in obs'[s] /\ checking'[s])

LEMMA OthersKept ==
  ASSUME CacheInv, WakeInv, UNCHANGED <<cond, gen>>, NEW u \in Tasks, u \notin run, u \notin run',
         stack'[u] = stack[u], WakeTypes', Undisturbed(u)
  PROVE  TaskOK(u)'
<1> DEFINE k == stack[u]
           top == k[Len(k)]
<1>1. k \in Seq(FrameType) /\ Len(k) \in Nat
  BY DEF CacheInv, Types
<1>2. PathOK(k) /\ SleepOK(u)
      /\ \A i \in 1..Len(k) : Fresh(k[i], gen) /\ k[i].mode \in {"own", "wait"}
  BY DEF WakeInv, TaskOK, ModesOf
<1>3. PathOK(stack'[u])
  BY <1>2
<1>4. \A i \in 1..Len(stack'[u]) : Fresh(stack'[u][i], gen') /\ stack'[u][i].mode \in ModesOf(u, i)'
  BY <1>2 DEF ModesOf
<1>5. SleepOK(u)'
  <2> SUFFICES ASSUME k # <<>>, ~woken'[u] PROVE Asleep(u, 1)'
    BY DEF SleepOK
  <2>1. ~woken[u] /\ Asleep(u, 1)
    BY <1>2 DEF SleepOK, Undisturbed
  <2>2. Len(k) \in 1..Len(k) /\ top \in FrameType
    BY <1>1
  <2>3. ASSUME NEW j \in 1..Len(k), k[j].mode = "own"
        PROVE  <<u, 2>> \in obs'[k[j].scope] /\ gen'[k[j].scope].direct = k[j].snap.direct
    <3>1. k[j].scope \in OwnedBy(k)
      BY <2>3 DEF OwnedBy
    <3> QED
      BY <2>1, <2>3, <3>1 DEF Asleep, Registered, Undisturbed
  <2>4. ASSUME top.mode = "wait" PROVE <<u, 1>> \in obs'[top.scope] /\ checking'[top.scope]
    <3>1. top.scope \in Scopes /\ <<u, 1>> \in obs[top.scope] /\ checking[top.scope]
      BY <2>1, <2>2, <2>4 DEF Asleep, Registered, FrameType
    <3> QED
      BY <3>1 DEF Undisturbed
  <2>5. top.mode = "own" => ~cond'[top.scope]
    BY <2>1 DEF Asleep, Registered
  <2> HIDE DEF k, top
  <2> QED
    BY <2>3, <2>4, <2>5 DEF Asleep, Registered, k, top
<1> QED
  BY <1>3, <1>4, <1>5 DEF TaskOK

\* The task t makes a step; its stack is m then.
LEMMA Acting ==
  ASSUME CacheInv, WakeInv, UNCHANGED <<cond, gen>>, WakeTypes', Owners', NEW t \in Tasks, NEW m,
         stack' = [stack EXCEPT ![t] = m], run \subseteq {t}, run' \subseteq {t}, PathOK(m),
         \A i \in 1..Len(m) : Fresh(m[i], gen) /\ m[i].mode \in ModesOf(t, i)',
         SleepOK(t)', \A u \in Tasks \ {t} : Undisturbed(u)
  PROVE  WakeInv'
<1>1. stack'[t] = m /\ \A u \in Tasks \ {t} : stack'[u] = stack[u]
  BY DEF CacheInv, Types
<1>2. TaskOK(t)'
  BY <1>1 DEF TaskOK
<1>3. ASSUME NEW u \in Tasks \ {t} PROVE TaskOK(u)'
  BY <1>1, <1>3, OthersKept
<1> QED
  BY <1>2, <1>3 DEF WakeInv

LEMMA WakeInit == Init => WakeInv
<1> SUFFICES ASSUME Init PROVE WakeInv
  OBVIOUS
<1> USE DEF Init
<1>1. WakeTypes
  BY DEF WakeTypes
<1>2. \A u \in Tasks : OwnedBy(stack[u]) = {}
  BY DEF OwnedBy
<1>3. Owners
  BY <1>2 DEF Owners
<1>4. ASSUME NEW u \in Tasks PROVE TaskOK(u)
  BY DEF TaskOK, PathOK, SleepOK
<1> QED
  BY <1>1, <1>3, <1>4 DEF WakeInv

\* What the invariants say of the task that is polled.
LEMMA Polling ==
  ASSUME CacheInv, WakeInv, NEW t \in Tasks, run = {t}
  PROVE  /\ PathOK(stack[t]) /\ Owners /\ WakeTypes
         /\ \A i \in 1..Len(stack[t]) : Fresh(stack[t][i], gen)
         /\ \A i \in 1..Len(stack[t]) : i < at => stack[t][i].mode = "fut"
         /\ \A i \in 1..Len(stack[t]) : i > at => stack[t][i].mode \in {"own", "wait"}
         /\ stack[t][at].mode = "pend" =>
              IF at = Len(stack[t]) THEN ~cond[stack[t][at].scope]
                                    ELSE woken[t] \/ Asleep(t, at + 1)
<1>1. TaskOK(t) /\ t \in run
  BY DEF WakeInv
<1>2. at \in Nat /\ Len(stack[t]) \in Nat
  BY Polled
<1>3. ASSUME NEW i \in 1..Len(stack[t])
      PROVE  /\ i < at => stack[t][i].mode = "fut"
             /\ i > at => stack[t][i].mode \in {"own", "wait"}
  BY <1>1, <1>2 DEF TaskOK, ModesOf
<1> QED
  BY <1>1, <1>3 DEF TaskOK, SleepOK, WakeInv

LEMMA BeginWakes ==
  ASSUME CacheInv, WakeInv, NEW t \in Tasks, Begin(t) PROVE WakeInv'
<1> DEFINE m == <<Frame(Target[t])>>
<1>1. /\ stack' = [stack EXCEPT ![t] = m] /\ run = {} /\ run' = {t} /\ at' = 1 /\ stack[t] = <<>>
      /\ UNCHANGED <<cond, gen, obs, checking, woken>>
  BY DEF Begin, scopeVars
<1>2. Len(m) = 1 /\ m[1].mode = "wait" /\ m[1].fut = 0
  BY DEF Frame
<1>3. PathOK(m)
  BY <1>2 DEF PathOK
<1>4. OwnedBy(m) = {} /\ OwnedBy(stack[t]) = {}
  BY <1>1, <1>2 DEF OwnedBy
<1>5. stack'[t] = m
  BY <1>1 DEF CacheInv, Types
<1> HIDE DEF m
<1>6. Owners'
  BY <1>1, <1>4, OwnersKept DEF WakeInv
<1>7. \A i \in 1..Len(m) : Fresh(m[i], gen) /\ m[i].mode \in ModesOf(t, i)'
  BY <1>1, <1>2 DEF Fresh, ModesOf, Modes
<1>8. SleepOK(t)'
  BY <1>1, <1>2, <1>5 DEF SleepOK
<1>9. WakeTypes' /\ \A u \in Tasks \ {t} : Undisturbed(u)
  BY <1>1 DEF WakeInv, WakeTypes, Undisturbed
<1> QED
  BY <1>1, <1>3, <1>6, <1>7, <1>8, <1>9, Acting

LEMMA PollWakes ==
  ASSUME CacheInv, WakeInv, NEW t \in Tasks, Poll(t) PROVE WakeInv'
<1> DEFINE k == stack[t]
<1>1. /\ stack' = [stack EXCEPT ![t] = k] /\ run = {} /\ run' = {t} /\ at' = 1 /\ k # <<>>
      /\ UNCHANGED <<cond, gen, obs, checking>> /\ woken' = [woken EXCEPT ![t] = FALSE]
      /\ stack' = stack
  BY DEF Poll, scopeVars, CacheInv, Types
<1>2. k \in Seq(FrameType) /\ 1 \in 1..Len(k)
  BY <1>1 DEF CacheInv, Types
<1>3. PathOK(k) /\ \A i \in 1..Len(k) : Fresh(k[i], gen) /\ k[i].mode \in {"own", "wait"}
  BY <1>1 DEF WakeInv, TaskOK, ModesOf
<1> HIDE DEF k
<1>4. Owners'
  BY <1>1 DEF WakeInv, Owners
<1>5. \A i \in 1..Len(k) : Fresh(k[i], gen) /\ k[i].mode \in ModesOf(t, i)'
  BY <1>1, <1>2, <1>3 DEF ModesOf, Modes
<1>6. SleepOK(t)'
  BY <1>1, <1>2, <1>3 DEF SleepOK, k
<1>7. WakeTypes' /\ \A u \in Tasks \ {t} : Undisturbed(u)
  BY <1>1 DEF WakeInv, WakeTypes, Undisturbed
<1> QED
  BY <1>1, <1>3, <1>4, <1>5, <1>6, <1>7, Acting

LEMMA OwnedSet ==
  ASSUME NEW k \in Seq(FrameType), PathOK(k), NEW i \in 1..Len(k), NEW f \in FrameType,
         f.scope = k[i].scope
  PROVE  OwnedBy([k EXCEPT ![i] = f]) = IF f.mode = "wait" THEN OwnedBy(k) \ {f.scope}
                                                           ELSE OwnedBy(k) \cup {f.scope}
<1> DEFINE m == [k EXCEPT ![i] = f]
<1>1. Len(m) = Len(k) /\ \A j \in 1..Len(k) : m[j] = IF j = i THEN f ELSE k[j]
  OBVIOUS
<1>2. \A j \in 1..Len(k) : j # i => k[j].scope # f.scope
  BY PathDistinct
<1> HIDE DEF m
<1>3. ASSUME NEW s
      PROVE  s \in OwnedBy(m) <=> s \in IF f.mode = "wait" THEN OwnedBy(k) \ {f.scope}
                                                          ELSE OwnedBy(k) \cup {f.scope}
  <2>1. s \in OwnedBy(m) <=> \E j \in 1..Len(k) : m[j].mode # "wait" /\ s = m[j].scope
    BY <1>1 DEF OwnedBy
  <2>2. s \in OwnedBy(k) <=> \E j \in 1..Len(k) : k[j].mode # "wait" /\ s = k[j].scope
    BY DEF OwnedBy
  <2> QED
    BY <1>1, <1>2, <2>1, <2>2
<1>4. OwnedBy(m) = IF f.mode = "wait" THEN OwnedBy(k) \ {f.scope} ELSE OwnedBy(k) \cup {f.scope}
  BY <1>3
<1> QED
  BY <1>4 DEF m

LEMMA OwnedKept ==
  ASSUME NEW k \in Seq(FrameType), PathOK(k), NEW i \in 1..Len(k), NEW f \in FrameType,
         f.scope = k[i].scope, f.mode = "wait" <=> k[i].mode = "wait"
  PROVE  OwnedBy([k EXCEPT ![i] = f]) = OwnedBy(k)
<1> DEFINE m == [k EXCEPT ![i] = f]
<1>1. m \in Seq(FrameType) /\ Len(m) = Len(k) /\ \A j \in 1..Len(k) : m[j] = IF j = i THEN f ELSE k[j]
  OBVIOUS
<1> HIDE DEF m
<1>2. OwnedBy(m) = OwnedBy(k)
  BY <1>1, OwnedSame
<1> QED
  BY <1>2 DEF m

\* The frame that is polled becomes f, and the poll goes on.
LEMMA TopWakes ==
  ASSUME CacheInv, WakeInv, NEW t \in Tasks, run = {t}, NEW f \in FrameType, SetTop(t, f),
         f.scope = Top(t).scope, Fresh(f, gen), UNCHANGED <<cond, gen, pollVars>>,
         f.mode = "pend" => at = Len(stack[t]) /\ ~cond[f.scope],
         WakeTypes', Owners', \A u \in Tasks \ {t} : Undisturbed(u)
  PROVE  WakeInv'
<1> DEFINE k == stack[t]
           m == [k EXCEPT ![at] = f]
<1>1. k \in Seq(FrameType) /\ at \in 1..Len(k) /\ Len(k) \in Nat /\ Top(t) = k[at]
  BY Polled
<1>2. stack' = [stack EXCEPT ![t] = m] /\ stack'[t] = m
  BY DEF SetTop, CacheInv, Types
<1>3. m \in Seq(FrameType) /\ Len(m) = Len(k) /\ \A j \in 1..Len(k) : m[j] = IF j = at THEN f ELSE k[j]
  BY <1>1
<1> HIDE DEF m
<1>4. PathOK(m)
  <2>1. PathOK(k) /\ Len(m) <= Len(k) /\ \A i \in 1..Len(m) : m[i].scope = k[i].scope
    BY <1>1, <1>3, Polling
  <2> QED
    BY <1>1, <1>3, <2>1, PathSame
<1>5. run' = {t} /\ at' = at
  BY DEF pollVars
<1>6. ASSUME NEW i \in 1..Len(m) PROVE Fresh(m[i], gen) /\ m[i].mode \in ModesOf(t, i)'
  <2>1. Fresh(m[i], gen)
    BY <1>1, <1>3, Polling
  <2>2. m[i].mode \in ModesOf(t, i)'
    <3>1. CASE i = at
      BY <1>1, <1>3, <1>5, <3>1, SMTT(60) DEF ModesOf, FrameType
    <3>2. CASE i < at
      BY <1>1, <1>3, <1>5, <3>2, Polling DEF ModesOf
    <3>3. CASE i > at
      BY <1>1, <1>3, <1>5, <3>3, Polling DEF ModesOf
    <3> QED
      BY <1>1, <1>3, <3>1, <3>2, <3>3
  <2> QED
    BY <2>1, <2>2
<1>7. SleepOK(t)'
  BY <1>1, <1>2, <1>3, <1>5 DEF SleepOK
<1> QED
  BY <1>2, <1>4, <1>5, <1>6, <1>7, Acting

\* The frame that is polled returns Pending as f.
LEMMA PendingWakes ==
  ASSUME CacheInv, WakeInv, NEW t \in Tasks, run = {t}, NEW f \in FrameType, ReturnPending(t, f),
         f.scope = Top(t).scope, f.mode \in {"own", "wait"},
         f.mode = "wait" <=> Top(t).mode = "wait",
         UNCHANGED <<cond, gen, checking>>, WakeTypes', \A u \in Tasks \ {t} : Undisturbed(u),
         NEW m, m = [stack[t] EXCEPT ![at] = f],
         woken'[t] \/ Registered(t, at, m, obs')
  PROVE  WakeInv'
<1> DEFINE k == stack[t]
<1>1. k \in Seq(FrameType) /\ at \in 1..Len(k) /\ Len(k) \in Nat /\ Top(t) = k[at]
  BY Polled
<1>2. m \in Seq(FrameType) /\ Len(m) = Len(k) /\ \A j \in 1..Len(k) : m[j] = IF j = at THEN f ELSE k[j]
  BY <1>1
<1>3. PathOK(k) /\ PathOK(m)
  <2>1. PathOK(k) /\ Len(m) <= Len(k) /\ \A i \in 1..Len(m) : m[i].scope = k[i].scope
    BY <1>1, <1>2, Polling
  <2> QED
    BY <1>1, <1>2, <2>1, PathSame
<1>4. OwnedBy(m) = OwnedBy(k)
  <2>1. f.scope = k[at].scope /\ (f.mode = "wait" <=> k[at].mode = "wait")
    BY <1>1, Zenon
  <2> QED
    BY <1>1, <1>3, <2>1, OwnedKept
<1>5. CASE at = 1
  <2>1. stack' = [stack EXCEPT ![t] = m] /\ stack'[t] = m /\ run' = {}
    BY <1>5 DEF ReturnPending, SetTop, CacheInv, Types
  <2>2. Owners'
    BY <1>4, <2>1, OwnersKept DEF WakeInv
  <2>3. ASSUME NEW i \in 1..Len(m) PROVE Fresh(m[i], gen) /\ m[i].mode \in ModesOf(t, i)'
    BY <1>1, <1>2, <1>5, <2>1, Polling DEF ModesOf, Fresh
  <2>4. SleepOK(t)'
    <3>1. woken'[t] \/ Asleep(t, 1)'
      BY <1>5, <2>1, SMTT(60) DEF Asleep, Registered
    <3> QED
      BY <2>1, <3>1, SMTT(60) DEF SleepOK
  <2> QED
    BY <1>3, <2>1, <2>2, <2>3, <2>4, Acting
<1>6. CASE at > 1
  <2> DEFINE h == [m[at - 1] EXCEPT !.mode = "pend"]
             n == [m EXCEPT ![at - 1] = h]
  <2>1. stack' = [stack EXCEPT ![t] = n] /\ stack'[t] = n /\ run' = {t} /\ at' = at - 1
    <3>1. /\ stack' = [stack EXCEPT ![t] = [@ EXCEPT ![at] = f, ![at - 1].mode = "pend"]]
          /\ run' = run /\ at' = at - 1
      BY <1>6 DEF ReturnPending
    <3>2. [stack[t] EXCEPT ![at] = f, ![at - 1].mode = "pend"] = n
      OBVIOUS
    <3>3. stack' = [stack EXCEPT ![t] = n]
      BY <3>1, <3>2
    <3> HIDE DEF n
    <3>4. stack'[t] = n
      BY <3>3 DEF CacheInv, Types
    <3> QED
      BY <3>1, <3>3, <3>4
  <2>2. at - 1 \in 1..Len(m) /\ m[at - 1] \in FrameType /\ m[at - 1].mode = "fut"
    BY <1>1, <1>2, <1>6, Polling
  <2>3. /\ h \in FrameType /\ h.scope = m[at - 1].scope /\ h.mode = "pend"
        /\ h.before = m[at - 1].before /\ h.snap = m[at - 1].snap
    BY <2>2 DEF FrameType, Modes
  <2> HIDE DEF h
  <2>4. OwnedBy(n) = OwnedBy(m)
    <3>1. h.mode = "wait" <=> m[at - 1].mode = "wait"
      BY <2>2, <2>3
    <3> QED
      BY <1>2, <1>3, <2>2, <2>3, <3>1, OwnedKept
  <2>5. n \in Seq(FrameType) /\ Len(n) = Len(m)
          /\ \A j \in 1..Len(m) : n[j] = IF j = at - 1 THEN h ELSE m[j]
    BY <1>2, <2>2, <2>3
  <2> HIDE DEF n
  <2>6. PathOK(n)
    <3>1. Len(n) <= Len(m) /\ \A i \in 1..Len(n) : n[i].scope = m[i].scope
      BY <1>2, <2>3, <2>5
    <3> QED
      BY <1>2, <1>3, <2>5, <3>1, PathSame
  <2>7. Owners'
    BY <1>4, <2>1, <2>4, OwnersKept DEF WakeInv
  <2>8. ASSUME NEW i \in 1..Len(n) PROVE Fresh(n[i], gen) /\ n[i].mode \in ModesOf(t, i)'
    <3>1. CASE i = at - 1
      <4>1. Fresh(m[at - 1], gen)
        BY <1>1, <1>2, <1>6, <2>2, Polling
      <4>2. Fresh(h, gen)
        BY <2>2, <2>3, <4>1 DEF Fresh
      <4> QED
        BY <2>1, <2>2, <2>3, <2>5, <3>1, <4>2 DEF ModesOf, Modes
    <3>2. CASE i = at
      BY <1>1, <1>2, <2>1, <2>5, <3>2 DEF ModesOf, Fresh
    <3>3. CASE i < at - 1
      BY <1>1, <1>2, <2>1, <2>2, <2>5, <3>3, Polling DEF ModesOf
    <3>4. CASE i > at
      BY <1>1, <1>2, <2>1, <2>2, <2>5, <3>4, Polling DEF ModesOf
    <3> QED
      BY <1>1, <1>2, <2>5, <3>1, <3>2, <3>3, <3>4
  <2>9. SleepOK(t)'
    <3> SUFFICES ASSUME ~woken'[t] PROVE Asleep(t, at + 1)'
      BY <1>1, <1>2, <2>1, <2>5 DEF SleepOK
    <3>1. \A j \in at..Len(n) : j \in 1..Len(m) /\ n[j] = m[j]
      BY <1>1, <1>2, <2>5
    <3>2. Len(n) \in at..Len(n) /\ at' + 1 = at
      BY <1>1, <1>2, <2>1, <2>5
    <3>3. Registered(t, at, n, obs')
      <4>1. Registered(t, at, m, obs')
        OBVIOUS
      <4>2. Len(n) = Len(m) /\ n[Len(n)] = m[Len(n)] /\ \A j \in at..Len(n) : n[j] = m[j]
        BY <2>5, <3>1, <3>2
      <4>3. \A j \in at..Len(n) : n[j].mode = "own" =>
              <<t, 2>> \in obs'[n[j].scope] /\ gen[n[j].scope].direct = n[j].snap.direct
        BY <4>1, <4>2, ZenonT(60) DEF Registered
      <4>4. /\ n[Len(n)].mode = "wait" =>
                 <<t, 1>> \in obs'[n[Len(n)].scope] /\ checking[n[Len(n)].scope]
            /\ n[Len(n)].mode = "own" => ~cond[n[Len(n)].scope]
        BY <4>1, <4>2, ZenonT(60) DEF Registered
      <4> QED
        BY <4>3, <4>4, ZenonT(60) DEF Registered
    <3> QED
      <4>1. (at + 1)' = at /\ stack'[t] = n /\ UNCHANGED <<cond, gen, checking>>
        BY <2>1, <3>2
      <4> QED
        BY <3>3, <4>1, ZenonT(60) DEF Asleep, Registered
  <2> QED
    BY <2>1, <2>6, <2>7, <2>8, <2>9, Acting
<1> QED
  BY <1>1, <1>5, <1>6

-----------------------------------------------------------------------------
(* The steps of a poll. *)

LEMMA ReturnsWakes ==
  ASSUME CacheInv, WakeInv, NEW t \in Tasks, CheckReturns(t) PROVE WakeInv'
<1> DEFINE k == stack[t]
           s == Top(t).scope
<1>1. /\ run = {t} /\ k[at].mode = "wait" /\ UNCHANGED <<cond, gen, checking, woken>>
      /\ obs' = [obs EXCEPT ![s] = @ \ {<<t, 1>>}]
  BY DEF CheckReturns, In
<1>2. /\ k \in Seq(FrameType) /\ at = Len(k) /\ at \in Nat \ {0} /\ Top(t) = k[at] /\ s \in Scopes
  BY <1>1, Polled DEF FrameOK, Nested
<1>3. WakeTypes'
  BY <1>1, <1>2, Polling DEF WakeTypes
<1>4. ASSUME NEW u \in Tasks \ {t} PROVE Undisturbed(u)
  BY <1>1, <1>2, Polling DEF Undisturbed, WakeTypes
<1>5. CASE at = 1
  <2>1. stack' = [stack EXCEPT ![t] = <<>>] /\ stack'[t] = <<>> /\ run' = {}
    BY <1>5 DEF CheckReturns, CacheInv, Types
  <2>2. OwnedBy(<<>>) = {} /\ OwnedBy(k) = {}
    BY <1>1, <1>2, <1>5 DEF OwnedBy
  <2>3. Owners'
    BY <1>1, <2>1, <2>2, OwnersKept DEF WakeInv
  <2>4. PathOK(<<>>) /\ SleepOK(t)' /\ 1..Len(<<>>) = {}
    BY <2>1 DEF PathOK, SleepOK
  <2> QED
    BY <1>1, <1>3, <1>4, <2>1, <2>3, <2>4, Acting
<1>6. CASE at > 1
  <2> DEFINE c == SubSeq(k, 1, at - 1)
             h == [c[at - 1] EXCEPT !.fut = @ + 1]
             m == [c EXCEPT ![at - 1] = h]
  <2>1. stack' = [stack EXCEPT ![t] = m] /\ stack'[t] = m /\ run' = {t} /\ at' = at - 1
    <3>1. Front(k) = c
      BY <1>2 DEF Front
    <3>2. /\ stack' = [stack EXCEPT ![t] = [Front(stack[t]) EXCEPT ![at - 1].fut = @ + 1]]
          /\ at' = at - 1 /\ run' = run
      BY <1>6 DEF CheckReturns
    <3>3. m = [Front(stack[t]) EXCEPT ![at - 1].fut = @ + 1]
      BY <3>1
    <3>4. stack' = [stack EXCEPT ![t] = m]
      BY <3>2, <3>3
    <3> HIDE DEF m
    <3> QED
      BY <1>1, <3>2, <3>4 DEF CacheInv, Types
  <2>2. c \in Seq(FrameType) /\ Len(c) = at - 1 /\ \A j \in 1..at - 1 : c[j] = k[j]
    BY <1>2, <1>6
  <2> HIDE DEF c
  <2>3. at - 1 \in 1..Len(k) /\ at - 1 \in 1..at - 1 /\ c[at - 1] \in FrameType /\ c[at - 1].mode = "fut"
    BY <1>1, <1>2, <1>6, <2>2, Polling
  <2>4. /\ h \in FrameType /\ h.scope = c[at - 1].scope /\ h.mode = "fut"
        /\ h.before = c[at - 1].before /\ h.snap = c[at - 1].snap
    BY <2>3 DEF FrameType
  <2> HIDE DEF h
  <2>5. /\ m \in Seq(FrameType) /\ Len(m) = at - 1
        /\ \A j \in 1..at - 1 : m[j] = IF j = at - 1 THEN h ELSE k[j]
    BY <2>2, <2>3, <2>4
  <2> HIDE DEF m
  <2>6. \A j \in 1..at - 1 : m[j].scope = k[j].scope /\ m[j].mode = k[j].mode
    BY <2>2, <2>3, <2>4, <2>5
  <2>7. PathOK(m)
    <3>1. PathOK(k)
      BY <1>1, Polling
    <3>2. Len(m) <= Len(k) /\ \A i \in 1..Len(m) : m[i].scope = k[i].scope
      BY <1>2, <2>5, <2>6
    <3> QED
      BY <1>2, <2>5, <3>1, <3>2, PathSame
  <2>8. OwnedBy(m) = OwnedBy(k)
    <3>1. {j \in 1..Len(m) : m[j].mode # "wait"} = {j \in 1..Len(k) : k[j].mode # "wait"}
      BY <1>1, <1>2, <2>5, <2>6, SMTT(60)
    <3> QED
      BY <2>5, <2>6, <3>1 DEF OwnedBy
  <2>9. Owners'
    BY <1>1, <2>1, <2>8, OwnersKept DEF WakeInv
  <2>10. ASSUME NEW i \in 1..Len(m) PROVE Fresh(m[i], gen) /\ m[i].mode \in ModesOf(t, i)'
    <3>1. m[i].mode = "fut" /\ i <= at'
      <4>1. i \in 1..at - 1 /\ i \in 1..Len(k) /\ i < at
        BY <1>2, <2>5
      <4>2. k[i].mode = "fut"
        BY <1>1, <4>1, Polling
      <4> QED
        BY <1>2, <2>1, <2>6, <4>1, <4>2
    <3>2. i \in 1..Len(k) /\ Fresh(k[i], gen)
      BY <1>1, <1>2, <2>5, Polling, SMTT(60)
    <3>3. m[i].scope = k[i].scope /\ m[i].mode = k[i].mode /\ m[i].before = k[i].before
            /\ m[i].snap = k[i].snap
      BY <2>2, <2>4, <2>5, <2>6
    <3>4. Fresh(m[i], gen)
      BY <3>2, <3>3 DEF Fresh
    <3> QED
      BY <1>2, <2>1, <2>5, <3>1, <3>4 DEF ModesOf, Modes
  <2>11. SleepOK(t)'
    BY <2>1, <2>3, <2>4, <2>5 DEF SleepOK
  <2> QED
    BY <1>1, <1>3, <1>4, <2>1, <2>7, <2>9, <2>10, <2>11, Acting
<1>7. at = 1 \/ at > 1
  BY <1>1, Polled
<1> QED
  BY <1>5, <1>6, <1>7

LEMMA JoinsWakes ==
  ASSUME CacheInv, WakeInv, NEW t \in Tasks, CheckJoins(t) PROVE WakeInv'
<1> DEFINE f == Top(t)
           m == [stack[t] EXCEPT ![at] = f]
<1>1. /\ run = {t} /\ f.mode = "wait" /\ checking[f.scope] /\ ReturnPending(t, f)
      /\ obs' = [obs EXCEPT ![f.scope] = @ \cup {<<t, 1>>}]
      /\ UNCHANGED <<cond, gen, checking, woken>>
  BY DEF CheckJoins, In, Top
<1>2. /\ f \in FrameType /\ f.scope \in Scopes /\ stack[t] \in Seq(FrameType)
      /\ at = Len(stack[t]) /\ at \in 1..Len(stack[t])
  BY <1>1, Polled DEF FrameOK, Nested
<1>3. WakeTypes'
  BY <1>1, <1>2, Polling DEF WakeTypes
<1>4. ASSUME NEW u \in Tasks \ {t} PROVE Undisturbed(u)
  BY <1>1, <1>2, Polling DEF Undisturbed, WakeTypes
<1>5. m[Len(m)] = f /\ at..Len(m) = {at} /\ m[at] = f
  BY <1>2
<1>6. <<t, 1>> \in obs'[f.scope]
  BY <1>1, <1>2, Polling DEF WakeTypes
<1> HIDE DEF f, m
<1>7. Registered(t, at, m, obs')
  BY <1>1, <1>5, <1>6 DEF Registered
<1>8. f.scope = Top(t).scope /\ f.mode \in {"own", "wait"} /\ (f.mode = "wait" <=> Top(t).mode = "wait")
  BY <1>1 DEF f
<1> QED
  BY <1>1, <1>2, <1>3, <1>4, <1>7, <1>8, PendingWakes DEF m

LEMMA OwnsWakes ==
  ASSUME CacheInv, WakeInv, NEW t \in Tasks, CheckOwns(t) PROVE WakeInv'
<1> DEFINE k == stack[t]
           s == Top(t).scope
           f == [Top(t) EXCEPT !.mode = "own"]
           m == [k EXCEPT ![at] = f]
<1>1. /\ run = {t} /\ ~checking[s] /\ SetTop(t, f) /\ UNCHANGED <<cond, gen, woken, pollVars>>
      /\ obs' = [obs EXCEPT ![s] = @ \cup {<<t, 1>>}]
      /\ checking' = [checking EXCEPT ![s] = TRUE]
  BY DEF CheckOwns, In
<1>2. k \in Seq(FrameType) /\ at \in 1..Len(k) /\ Top(t) = k[at] /\ s \in Scopes /\ Top(t) \in FrameType
  BY <1>1, Polled
<1>3. f \in FrameType /\ f.scope = s /\ f.mode = "own"
  BY <1>2 DEF FrameType, Modes
<1>4. stack' = [stack EXCEPT ![t] = m]
  BY <1>1 DEF SetTop, CacheInv, Types
<1> HIDE DEF f
<1>5. OwnedBy(m) = OwnedBy(k) \cup {s}
  <2>1. PathOK(k) /\ f.scope = k[at].scope /\ f.mode # "wait"
    BY <1>1, <1>2, <1>3, Polling
  <2>2. OwnedBy([k EXCEPT ![at] = f]) = IF f.mode = "wait" THEN OwnedBy(k) \ {f.scope}
                                                           ELSE OwnedBy(k) \cup {f.scope}
    BY <1>2, <1>3, <2>1, OwnedSet
  <2> QED
    BY <1>3, <2>1, <2>2
<1> HIDE DEF m
<1>6. \A u \in Tasks : OwnedBy(stack'[u]) = IF u = t THEN OwnedBy(k) \cup {s}
                                                     ELSE OwnedBy(stack[u])
  BY <1>4, <1>5 DEF CacheInv, Types
<1>7. Owners'
  <2>1. Owners /\ \A r \in Scopes : checking'[r] <=> checking[r] \/ r = s
    BY <1>1, <1>2, Polling DEF WakeTypes
  <2>2. \A u \in Tasks : s \notin OwnedBy(stack[u])
    BY <1>1, <1>2, <2>1 DEF Owners
  <2>3. \A r \in Scopes : checking'[r] <=> \E u \in Tasks : r \in OwnedBy(stack'[u])
    BY <1>6, <2>1 DEF Owners
  <2>4. \A u, v \in Tasks : \A r \in OwnedBy(stack'[u]) : r \in OwnedBy(stack'[v]) => u = v
    BY <1>6, <2>1, <2>2 DEF Owners
  <2> QED
    BY <2>3, <2>4 DEF Owners
<1>8. WakeTypes'
  BY <1>1, <1>2, Polling DEF WakeTypes
<1>9. ASSUME NEW u \in Tasks \ {t} PROVE Undisturbed(u)
  BY <1>1, <1>2, Polling DEF Undisturbed, WakeTypes
<1>10. Fresh(f, gen)
  BY <1>3 DEF Fresh
<1> QED
  BY <1>1, <1>3, <1>7, <1>8, <1>9, <1>10, TopWakes

\* The stack of the task that is polled runs the same checks with f on top.
LEMMA TopOwners ==
  ASSUME CacheInv, WakeInv, NEW t \in Tasks, run = {t}, NEW f \in FrameType, SetTop(t, f),
         f.scope = Top(t).scope, f.mode = "wait" <=> Top(t).mode = "wait", checking' = checking
  PROVE  Owners'
<1>1. stack[t] \in Seq(FrameType) /\ at \in 1..Len(stack[t]) /\ Top(t) = stack[t][at]
  BY Polled
<1>2. stack' = [stack EXCEPT ![t] = [stack[t] EXCEPT ![at] = f]]
  BY DEF SetTop, CacheInv, Types
<1>3. PathOK(stack[t]) /\ f.scope = stack[t][at].scope
  BY <1>1, Polling
<1>4. f.mode = "wait" <=> stack[t][at].mode = "wait"
  BY <1>1, Zenon
<1>5. OwnedBy([stack[t] EXCEPT ![at] = f]) = OwnedBy(stack[t])
  BY <1>1, <1>3, <1>4, OwnedKept
<1> QED
  BY <1>2, <1>5, OwnersKept DEF WakeInv

LEMMA PollsWakes ==
  ASSUME CacheInv, WakeInv, NEW t \in Tasks, CheckPolls(t) PROVE WakeInv'
<1> DEFINE p == Top(t)
           s == p.scope
           f == [p EXCEPT !.mode = "fut", !.before = gen[s].value,
                          !.fut = IF @ = 0 THEN 1 ELSE @,
                          !.snap = IF p.fut = 0 THEN gen[s] ELSE @]
<1>1. /\ run = {t} /\ SetTop(t, f) /\ UNCHANGED <<cond, gen, checking, woken, pollVars>>
      /\ p.mode = "own" /\ (p.fut = 0 \/ gen[s].direct = p.snap.direct)
      /\ obs' = [obs EXCEPT ![s] = IF p.observer THEN @ \cup {<<t, 2>>} ELSE @]
  BY DEF CheckPolls, In, Top
<1>2. p \in FrameType /\ s \in Scopes /\ gen[s] \in Generation
  BY <1>1, Polled
<1>3. /\ f.scope = s /\ f.mode = "fut" /\ f.before = gen[s].value
      /\ f.snap = IF p.fut = 0 THEN gen[s] ELSE p.snap
      /\ f \in FrameType
  BY <1>2 DEF FrameType, Modes, Generation
<1> HIDE DEF f
<1>4. Fresh(f, gen)
  BY <1>1, <1>2, <1>3 DEF Fresh, Generation
<1>5. f.mode = "wait" <=> p.mode = "wait"
  BY <1>1, <1>3
<1>6. Owners'
  BY <1>1, <1>3, <1>5, TopOwners
<1>7. WakeTypes'
  BY <1>1, <1>2, Polling DEF WakeTypes
<1>8. ASSUME NEW u \in Tasks \ {t} PROVE Undisturbed(u)
  BY <1>1, <1>2, Polling DEF Undisturbed, WakeTypes
<1> QED
  BY <1>1, <1>3, <1>4, <1>6, <1>7, <1>8, TopWakes

LEMMA ConditionWakes ==
  ASSUME CacheInv, WakeInv, NEW t \in Tasks, ConditionPending(t) PROVE WakeInv'
<1> DEFINE p == Top(t)
           f == [p EXCEPT !.mode = "pend"]
<1>1. /\ run = {t} /\ SetTop(t, f) /\ UNCHANGED <<cond, gen, checking, woken, obs, pollVars>>
      /\ p.mode = "fut" /\ p.fut > Len(Children[p.scope]) /\ ~cond[p.scope]
  BY DEF ConditionPending, OwnCondition, In, scopeVars, Top
<1>2. p \in FrameType /\ p.scope \in Scopes /\ Fresh(p, gen) /\ p = stack[t][at]
  BY <1>1, Polled, Polling
<1>3. /\ f \in FrameType /\ f.scope = p.scope /\ f.mode = "pend"
      /\ f.before = p.before /\ f.snap = p.snap
  BY <1>2 DEF FrameType, Modes
<1> HIDE DEF f
<1>4. Fresh(f, gen)
  BY <1>1, <1>2, <1>3 DEF Fresh
<1>5. at = Len(stack[t])
  BY <1>1, <1>2, Polled, ScopesTyped DEF Nested
<1>6. f.mode = "wait" <=> p.mode = "wait"
  BY <1>1, <1>3
<1>7. Owners'
  BY <1>1, <1>3, <1>6, TopOwners
<1>8. WakeTypes'
  BY <1>1, Polling DEF WakeTypes
<1>9. ASSUME NEW u \in Tasks \ {t} PROVE Undisturbed(u)
  BY <1>1 DEF Undisturbed
<1> QED
  BY <1>1, <1>3, <1>4, <1>5, <1>7, <1>8, <1>9, TopWakes

LEMMA StaleWakes ==
  ASSUME CacheInv, WakeInv, NEW t \in Tasks, CheckStale(t) PROVE WakeInv'
<1> DEFINE p == Top(t)
           f == [p EXCEPT !.mode = "own", !.fut = 0, !.observer = FALSE,
                          !.restarted = ~p.restarted]
<1>1. /\ run = {t} /\ UNCHANGED <<cond, gen, checking>> /\ p.mode = "fut"
      /\ obs' = [obs EXCEPT ![p.scope] = @ \ {<<t, 2>>}]
      /\ \/ ReturnPending(t, f) /\ woken' = [woken EXCEPT ![t] = TRUE]
         \/ SetTop(t, f) /\ UNCHANGED <<pollVars, woken>>
  BY DEF CheckStale, OwnCondition, In, Top
<1>2. p \in FrameType /\ p.scope \in Scopes
  BY <1>1, Polled
<1>3. f.scope = p.scope /\ f.mode = "own" /\ f \in FrameType
  BY <1>2 DEF FrameType, Modes
<1> HIDE DEF f
<1>4. Fresh(f, gen)
  BY <1>3 DEF Fresh
<1>5. f.mode = "wait" <=> p.mode = "wait"
  BY <1>1, <1>3
<1>6. WakeTypes'
  BY <1>1, <1>2, Polling DEF WakeTypes
<1>7. ASSUME NEW u \in Tasks \ {t} PROVE Undisturbed(u)
  BY <1>1, <1>2, Polling DEF Undisturbed, WakeTypes
<1>8. CASE ReturnPending(t, f) /\ woken' = [woken EXCEPT ![t] = TRUE]
  <2>1. woken'[t] /\ f.mode \in {"own", "wait"}
    BY <1>1, <1>3, <1>8, Polling DEF WakeTypes
  <2> DEFINE m == [stack[t] EXCEPT ![at] = f]
  <2>2. m = [stack[t] EXCEPT ![at] = f]
    OBVIOUS
  <2> HIDE DEF m
  <2> QED
    BY <1>1, <1>3, <1>5, <1>6, <1>7, <1>8, <2>1, <2>2, PendingWakes
<1>9. CASE SetTop(t, f) /\ UNCHANGED <<pollVars, woken>>
  <2>1. Owners'
    BY <1>1, <1>3, <1>5, <1>9, TopOwners
  <2> QED
    BY <1>1, <1>3, <1>4, <1>6, <1>7, <1>9, <2>1, TopWakes
<1> QED
  BY <1>1, <1>8, <1>9

LEMMA PendWakes ==
  ASSUME CacheInv, WakeInv, NEW t \in Tasks, CheckPending(t) PROVE WakeInv'
<1> DEFINE p == Top(t)
           s == p.scope
           k == stack[t]
           f == [p EXCEPT !.mode = "own", !.observer = TRUE, !.restarted = FALSE]
           m == [k EXCEPT ![at] = f]
<1>1. /\ run = {t} /\ ReturnPending(t, f) /\ UNCHANGED <<cond, gen, checking>> /\ p.mode = "pend"
      /\ obs' = [obs EXCEPT ![s] = @ \cup {<<t, 2>>}]
      /\ woken' = [woken EXCEPT ![t] = @ \/ gen[s].value # p.before]
  BY DEF CheckPending, In, Top
<1>2. /\ p \in FrameType /\ s \in Scopes /\ p = k[at] /\ k \in Seq(FrameType) /\ at \in 1..Len(k)
      /\ Len(k) \in Nat
  BY <1>1, Polled
<1>3. f.scope = s /\ f.mode = "own" /\ f \in FrameType /\ f.snap = p.snap
  BY <1>2 DEF FrameType, Modes
<1> HIDE DEF f
<1>4. WakeTypes'
  BY <1>1, <1>2, Polling DEF WakeTypes
<1>5. ASSUME NEW u \in Tasks \ {t} PROVE Undisturbed(u)
  BY <1>1, <1>2, Polling DEF Undisturbed, WakeTypes
<1>6. m \in Seq(FrameType) /\ Len(m) = Len(k) /\ \A j \in 1..Len(k) : m[j] = IF j = at THEN f ELSE k[j]
  BY <1>2, <1>3
<1>7. m = [stack[t] EXCEPT ![at] = f]
  OBVIOUS
<1> HIDE DEF m
<1>8. f.mode = "wait" <=> p.mode = "wait"
  BY <1>1, <1>3
<1>9. \A r \in Scopes, n \in {1, 2} : <<t, n>> \in obs[r] => <<t, n>> \in obs'[r]
  BY <1>1, <1>2, Polling DEF WakeTypes
<1>10. ASSUME ~woken'[t] PROVE Registered(t, at, m, obs')
  <2>1. ~woken[t] /\ gen[s].value = p.before
    BY <1>1, <1>10, Polling DEF WakeTypes
  <2>2. gen[s].direct = p.snap.direct
    <3>1. Fresh(p, gen)
      BY <1>1, <1>2, Polling
    <3> QED
      BY <1>1, <2>1, <3>1 DEF Fresh
  <2>3. <<t, 2>> \in obs'[s]
    BY <1>1, <1>2, Polling DEF WakeTypes
  <2>4. at = Len(k) => ~cond[s]
    BY <1>1, <1>2, Polling
  <2>5. at # Len(k) => Asleep(t, at + 1)
    BY <1>1, <1>2, <2>1, Polling
  <2>6. ASSUME NEW j \in at..Len(m), m[j].mode = "own"
        PROVE  <<t, 2>> \in obs'[m[j].scope] /\ gen[m[j].scope].direct = m[j].snap.direct
    <3>1. CASE j = at
      BY <1>2, <1>3, <1>6, <2>2, <2>3, <3>1
    <3>2. CASE j # at
      <4>1. j \in at + 1..Len(k) /\ j \in 1..Len(k) /\ at # Len(k) /\ m[j] = k[j]
        BY <1>2, <1>6, <2>6, <3>2
      <4>2. <<t, 2>> \in obs[k[j].scope] /\ gen[k[j].scope].direct = k[j].snap.direct
        BY <2>5, <2>6, <4>1 DEF Asleep, Registered
      <4>3. k[j].scope \in Scopes
        <5>1. k[j] \in FrameType
          BY <1>2, <4>1
        <5> QED
          BY <5>1 DEF FrameType
      <4> QED
        BY <1>9, <4>1, <4>2, <4>3
    <3> QED
      BY <3>1, <3>2
  <2>7. CASE at = Len(k)
    <3>1. m[Len(m)] = f
      BY <1>2, <1>6, <2>7
    <3> QED
      BY <1>3, <2>4, <2>6, <2>7, <3>1 DEF Registered
  <2>8. CASE at # Len(k)
    <3>1. m[Len(m)] = k[Len(k)] /\ k[Len(k)] \in FrameType
      BY <1>2, <1>6, <2>8
    <3>2. k[Len(k)].scope \in Scopes
      BY <3>1 DEF FrameType
    <3>3. /\ k[Len(k)].mode = "wait" => <<t, 1>> \in obs[k[Len(k)].scope] /\ checking[k[Len(k)].scope]
          /\ k[Len(k)].mode = "own" => ~cond[k[Len(k)].scope]
      BY <2>5, <2>8 DEF Asleep, Registered
    <3> QED
      BY <1>9, <2>6, <3>1, <3>2, <3>3 DEF Registered
  <2> QED
    BY <2>7, <2>8
<1>11. woken'[t] \/ Registered(t, at, m, obs')
  BY <1>10
<1>12. f.mode \in {"own", "wait"} /\ f.scope = Top(t).scope
  BY <1>3
<1>13. f.mode = "wait" <=> Top(t).mode = "wait"
  BY <1>8
<1>14. run = {t} /\ ReturnPending(t, f) /\ UNCHANGED <<cond, gen, checking>> /\ f \in FrameType
  BY <1>1, <1>3
<1> HIDE DEF p, s, k
<1> QED
  BY <1>4, <1>5, <1>7, <1>11, <1>12, <1>13, <1>14, PendingWakes

LEMMA AwaitWakes ==
  ASSUME CacheInv, WakeInv, NEW t \in Tasks, AwaitChild(t) PROVE WakeInv'
<1> DEFINE k == stack[t]
           p == Top(t)
           f == Frame(Children[p.scope][p.fut])
<1>1. /\ run = {t} /\ p.mode = "fut" /\ p.fut <= Len(Children[p.scope])
      /\ UNCHANGED <<cond, gen, ready, checking, obs, woken, run>> /\ at' = at + 1 /\ run' = {t}
  BY DEF AwaitChild, In, scopeVars, Top
<1>2. /\ k \in Seq(FrameType) /\ at \in 1..Len(k) /\ Len(k) \in Nat /\ p = k[at] /\ p \in FrameType
      /\ FrameOK(p, gen, cond) /\ p.scope \in Scopes /\ p.fut \in Nat
  BY <1>1, Polled DEF FrameType
<1>3. p.fut \in 1..Len(Children[p.scope]) /\ Children[p.scope][p.fut] \in Scopes
  BY <1>1, <1>2, ScopesTyped DEF FrameOK
<1>4. WakeTypes'
  BY <1>1, Polling DEF WakeTypes
<1>5. ASSUME NEW u \in Tasks \ {t} PROVE Undisturbed(u)
  BY <1>1 DEF Undisturbed
<1>6. \A i \in 1..Len(k) : Fresh(k[i], gen) /\ k[i].mode \in ModesOf(t, i)'
  <2> SUFFICES ASSUME NEW i \in 1..Len(k) PROVE k[i].mode \in ModesOf(t, i)'
    BY <1>1, Polling
  <2>1. CASE i < at
    BY <1>1, <1>2, <2>1, Polling DEF ModesOf
  <2>2. CASE i = at
    BY <1>1, <1>2, <2>2 DEF ModesOf
  <2>3. CASE i > at
    BY <1>1, <1>2, <2>3, Polling DEF ModesOf, Modes
  <2> QED
    BY <1>2, <2>1, <2>2, <2>3
<1>7. CASE at < Len(k)
  <2>1. stack' = [stack EXCEPT ![t] = k] /\ stack' = stack
    BY <1>7 DEF AwaitChild, CacheInv, Types
  <2>2. Owners' /\ PathOK(k)
    BY <1>1, <2>1, Polling DEF Owners
  <2>3. SleepOK(t)'
    <3>1. k[at + 1].mode \in {"own", "wait"}
      BY <1>1, <1>2, <1>7, Polling
    <3> QED
      BY <1>1, <2>1, <3>1 DEF SleepOK
  <2> HIDE DEF k
  <2> QED
    BY <1>1, <1>4, <1>5, <1>6, <2>1, <2>2, <2>3, Acting
<1>8. CASE ~(at < Len(k))
  <2>1. f \in FrameType /\ f.scope = Children[p.scope][p.fut] /\ f.mode = "wait"
    BY <1>3, NewFrame DEF CacheInv, Types, Frame
  <2>2. at = Len(k)
    BY <1>2, <1>8
  <2> DEFINE m == Append(k, f)
  <2>3. stack' = [stack EXCEPT ![t] = m] /\ stack'[t] = m
    BY <1>8 DEF AwaitChild, CacheInv, Types
  <2> HIDE DEF f
  <2>4. Nested(k[Len(k)], f)
    BY <1>2, <1>3, <2>1, <2>2 DEF Nested
  <2>5. PathOK(m)
    <3>1. PathOK(k)
      BY <1>1, Polling
    <3> QED
      BY <1>2, <2>1, <2>4, <3>1, PathPush
  <2>6. Len(m) = Len(k) + 1 /\ (\A j \in 1..Len(k) : m[j] = k[j]) /\ m[Len(k) + 1] = f
    BY <1>2, <2>1
  <2> HIDE DEF m
  <2>7. OwnedBy(m) = OwnedBy(k)
    <3>1. {j \in 1..Len(m) : m[j].mode # "wait"} = {j \in 1..Len(k) : k[j].mode # "wait"}
      BY <1>2, <2>1, <2>6, SMTT(60)
    <3> QED
      BY <2>6, <3>1 DEF OwnedBy
  <2>8. Owners'
    BY <1>1, <2>3, <2>7, OwnersKept DEF WakeInv
  <2>9. ASSUME NEW i \in 1..Len(m) PROVE Fresh(m[i], gen) /\ m[i].mode \in ModesOf(t, i)'
    <3>1. CASE i \in 1..Len(k)
      BY <1>6, <2>6, <3>1
    <3>2. CASE i = Len(k) + 1
      BY <1>1, <1>2, <2>1, <2>2, <2>6, <3>2 DEF Fresh, ModesOf, Modes
    <3> QED
      BY <1>2, <2>6, <3>1, <3>2
  <2>10. SleepOK(t)'
    BY <1>1, <2>1, <2>2, <2>3, <2>6 DEF SleepOK
  <2> QED
    BY <1>1, <1>4, <1>5, <2>3, <2>5, <2>8, <2>9, <2>10, Acting
<1> QED
  BY <1>7, <1>8

LEMMA DoneWakes ==
  ASSUME CacheInv, WakeInv, NEW t \in Tasks, CheckDone(t) PROVE WakeInv'
<1> DEFINE k == stack[t]
           s == Top(t).scope
           f == Frame(s)
           m == [k EXCEPT ![at] = f]
<1>1. /\ run = {t} /\ UNCHANGED <<cond, gen, pollVars>> /\ SetTop(t, f) /\ Top(t).mode = "fut"
      /\ checking' = [checking EXCEPT ![s] = FALSE]
      /\ woken' = [u \in Tasks |-> woken[u] \/ <<u, 1>> \in obs[s]]
      /\ obs' = [obs EXCEPT ![s] = {}]
  BY DEF CheckDone, OwnCondition, In, Top
<1>2. s \in Scopes /\ k \in Seq(FrameType) /\ at \in 1..Len(k) /\ Top(t) = k[at]
  BY <1>1, Polled
<1>3. f \in FrameType /\ f.scope = s /\ f.mode = "wait"
  BY <1>2, NewFrame DEF CacheInv, Types, Frame
<1>4. stack' = [stack EXCEPT ![t] = m]
  BY <1>1 DEF SetTop, CacheInv, Types
<1> HIDE DEF f
<1>5. s \in OwnedBy(k)
  BY <1>1, <1>2 DEF OwnedBy
<1>6. OwnedBy(m) = OwnedBy(k) \ {s}
  <2>1. PathOK(k) /\ f.scope = k[at].scope
    BY <1>1, <1>2, <1>3, Polling
  <2>2. OwnedBy([k EXCEPT ![at] = f]) = IF f.mode = "wait" THEN OwnedBy(k) \ {f.scope}
                                                           ELSE OwnedBy(k) \cup {f.scope}
    BY <1>2, <1>3, <2>1, OwnedSet
  <2> QED
    BY <1>3, <2>2
<1> HIDE DEF m
<1>7. WakeTypes'
  BY <1>1, <1>2, Polling DEF WakeTypes
<1>8. Owners'
  <2>1. \A r \in Scopes : checking'[r] <=> checking[r] /\ r \notin {s}
    BY <1>1, <1>2, Polling DEF WakeTypes
  <2>2. {s} \in SUBSET OwnedBy(k) /\ Owners
    BY <1>5 DEF WakeInv
  <2> QED
    BY <1>4, <1>6, <2>1, <2>2, OwnersLess
<1>9. ASSUME NEW u \in Tasks \ {t} PROVE Undisturbed(u)
  <2>1. s \notin OwnedBy(stack[u])
    BY <1>5 DEF WakeInv, Owners
  <2>2. (woken[u] => woken'[u]) /\ (<<u, 1>> \in obs[s] => woken'[u])
    BY <1>1
  <2>3. \A r \in Scopes : r # s => obs'[r] = obs[r] /\ checking'[r] = checking[r]
    BY <1>1, Polling DEF WakeTypes
  <2>4. OwnedBy(stack[u]) \subseteq Scopes
    BY OwnedScopes DEF CacheInv, Types
  <2> QED
    BY <2>1, <2>2, <2>3, <2>4 DEF Undisturbed
<1>10. Fresh(f, gen)
  BY <1>3 DEF Fresh
<1> QED
  BY <1>1, <1>3, <1>7, <1>8, <1>9, <1>10, TopWakes

-----------------------------------------------------------------------------
(* Calls that are dropped, and notifications. *)

\* The scopes whose check the frames `dead` run.
OwnedIn(dead) == {f.scope : f \in {h \in dead : h.mode # "wait"}}

LEMMA DroppedWakes ==
  ASSUME CacheInv, WakeInv, NEW t \in Tasks, NEW dead \in SUBSET FrameType, Dropped(t, dead),
         OwnedIn(dead) \subseteq OwnedBy(stack[t])
  PROVE  /\ WakeTypes' /\ \A s \in Scopes : checking'[s] <=> checking[s] /\ s \notin OwnedIn(dead)
         /\ \A u \in Tasks \ {t} : Undisturbed(u)
<1> DEFINE D == OwnedIn(dead)
           A == {f.scope : f \in dead}
<1>1. /\ checking' = [s \in Scopes |-> checking[s] /\ s \notin D]
      /\ woken' = [u \in Tasks |-> woken[u] \/ \E s \in D : <<u, 1>> \in obs[s]]
      /\ obs' = [s \in Scopes |-> IF s \in D THEN {}
                                  ELSE IF s \in A THEN obs[s] \ {<<t, 1>>} ELSE obs[s]]
  BY DEF Dropped, OwnedIn
<1> HIDE DEF D, A
<1>2. WakeTypes
  BY DEF WakeInv
<1>3. WakeTypes'
  BY <1>1, <1>2 DEF WakeTypes
<1>4. \A s \in Scopes : checking'[s] <=> checking[s] /\ s \notin D
  BY <1>1
<1>5. ASSUME NEW u \in Tasks \ {t} PROVE Undisturbed(u)
  <2>1. OwnedBy(stack[u]) \subseteq Scopes
    BY OwnedScopes DEF CacheInv, Types
  <2>2. \A s \in OwnedBy(stack[u]) : s \notin D
    BY DEF WakeInv, Owners, D
  <2>3. woken[u] => woken'[u]
    BY <1>1
  <2>4. \A s \in D : <<u, 1>> \in obs[s] => woken'[u]
    BY <1>1
  <2>5. \A s \in Scopes, n \in {1, 2} : s \notin D /\ <<u, n>> \in obs[s] => <<u, n>> \in obs'[s]
    BY <1>1, <1>2 DEF WakeTypes
  <2>6. \A s \in OwnedBy(stack[u]) : <<u, 2>> \in obs[s] => <<u, 2>> \in obs'[s]
    BY <2>1, <2>2, <2>5
  <2>7. ASSUME NEW s \in Scopes, <<u, 1>> \in obs[s], checking[s]
        PROVE  woken'[u] \/ (<<u, 1>> \in obs'[s] /\ checking'[s])
    BY <1>4, <2>4, <2>5, <2>7
  <2> QED
    BY <2>3, <2>6, <2>7 DEF Undisturbed
<1> QED
  BY <1>3, <1>4, <1>5 DEF D

LEMMA EndWakes ==
  ASSUME CacheInv, WakeInv, NEW t \in Tasks, CheckFails(t) \/ Cancel(t) PROVE WakeInv'
<1> DEFINE k == stack[t]
           dead == Range(k)
<1>1. /\ Dropped(t, dead) /\ stack' = [stack EXCEPT ![t] = <<>>] /\ run \subseteq {t} /\ run' = {}
      /\ UNCHANGED <<cond, gen>>
  BY DEF CheckFails, Cancel, OwnCondition, In, pollVars
<1>2. k \in Seq(FrameType) /\ stack'[t] = <<>>
  BY <1>1 DEF CacheInv, Types
<1>3. dead = {k[i] : i \in 1..Len(k)}
  BY <1>2 DEF Range
<1>4. dead \in SUBSET FrameType
  BY <1>2, <1>3
<1> HIDE DEF dead
<1>5. OwnedIn(dead) = OwnedBy(k)
  BY <1>3 DEF OwnedIn, OwnedBy
<1>6. /\ WakeTypes' /\ \A s \in Scopes : checking'[s] <=> checking[s] /\ s \notin OwnedIn(dead)
      /\ \A u \in Tasks \ {t} : Undisturbed(u)
  BY <1>1, <1>4, <1>5, DroppedWakes
<1>7. OwnedBy(<<>>) = OwnedBy(k) \ OwnedIn(dead) /\ OwnedIn(dead) \in SUBSET OwnedBy(k)
  BY <1>5 DEF OwnedBy
<1>8. Owners'
  BY <1>1, <1>6, <1>7, OwnersLess DEF WakeInv
<1>9. PathOK(<<>>) /\ SleepOK(t)' /\ 1..Len(<<>>) = {}
  BY <1>1, <1>2 DEF PathOK, SleepOK
<1> QED
  BY <1>1, <1>6, <1>8, <1>9, Acting

LEMMA ReplacedWakes ==
  ASSUME CacheInv, WakeInv, NEW t \in Tasks, CheckReplaced(t) PROVE WakeInv'
<1> DEFINE k == stack[t]
           p == Top(t)
           f == [p EXCEPT !.fut = 0, !.restarted = TRUE]
           c == SubSeq(k, 1, at - 1)
           m == Append(c, f)
           dead == {k[i] : i \in (at + 1)..Len(k)}
<1>1. /\ run = {t} /\ UNCHANGED <<cond, gen, run, at>> /\ p.mode = "own"
      /\ stack' = [stack EXCEPT ![t] = m] /\ stack'[t] = m /\ Dropped(t, dead)
  BY DEF CheckReplaced, In, pollVars, Top, CacheInv, Types
<1>2. /\ k \in Seq(FrameType) /\ at \in 1..Len(k) /\ Len(k) \in Nat /\ p = k[at] /\ p \in FrameType
  BY <1>1, Polled
<1>3. f \in FrameType /\ f.scope = p.scope /\ f.mode = "own"
  BY <1>1, <1>2 DEF FrameType
<1> HIDE DEF f
<1>4. c \in Seq(FrameType) /\ Len(c) = at - 1 /\ \A j \in 1..at - 1 : c[j] = k[j]
  BY <1>2
<1> HIDE DEF c
<1>5. m \in Seq(FrameType) /\ Len(m) = at /\ \A j \in 1..at : m[j] = IF j = at THEN f ELSE k[j]
  BY <1>2, <1>3, <1>4
<1> HIDE DEF m
<1>6. \A j \in 1..at : m[j].scope = k[j].scope /\ (m[j].mode # "wait" <=> k[j].mode # "wait")
  BY <1>1, <1>2, <1>3, <1>5
<1>7. PathOK(k)
  BY <1>1, Polling
<1>8. PathOK(m)
  <2>1. Len(m) <= Len(k) /\ \A i \in 1..Len(m) : m[i].scope = k[i].scope
    BY <1>2, <1>5, <1>6
  <2> QED
    BY <1>2, <1>5, <1>7, <2>1, PathSame
<1>9. dead \in SUBSET FrameType
  BY <1>2
<1>10. OwnedIn(dead) = {k[i].scope : i \in {j \in (at + 1)..Len(k) : k[j].mode # "wait"}}
  BY DEF OwnedIn
<1> HIDE DEF dead
<1>11. OwnedIn(dead) \in SUBSET OwnedBy(k)
  BY <1>2, <1>10 DEF OwnedBy
<1>12. OwnedBy(m) = OwnedBy(k) \ OwnedIn(dead)
  <2>1. OwnedBy(m) = {k[i].scope : i \in {j \in 1..at : k[j].mode # "wait"}}
    <3>1. {j \in 1..Len(m) : m[j].mode # "wait"} = {j \in 1..at : k[j].mode # "wait"}
      BY <1>5, <1>6
    <3> QED
      BY <1>6, <3>1 DEF OwnedBy
  <2>2. \A i \in 1..at, j \in (at + 1)..Len(k) : k[i].scope # k[j].scope
    <3> SUFFICES ASSUME NEW i \in 1..at, NEW j \in (at + 1)..Len(k) PROVE k[i].scope # k[j].scope
      OBVIOUS
    <3>1. i \in 1..Len(k) /\ j \in 1..Len(k) /\ i # j
      BY <1>2
    <3> QED
      BY <1>2, <1>7, <3>1, PathDistinct
  <2>3. \A i \in 1..Len(k) : i \in 1..at \/ i \in (at + 1)..Len(k)
    BY <1>2
  <2>4. 1..at \subseteq 1..Len(k)
    BY <1>2
  <2> QED
    BY <1>10, <2>1, <2>2, <2>3, <2>4 DEF OwnedBy
<1>13. /\ WakeTypes' /\ \A s \in Scopes : checking'[s] <=> checking[s] /\ s \notin OwnedIn(dead)
       /\ \A u \in Tasks \ {t} : Undisturbed(u)
  BY <1>1, <1>9, <1>11, DroppedWakes
<1>14. Owners'
  BY <1>1, <1>11, <1>12, <1>13, OwnersLess DEF WakeInv
<1>15. ASSUME NEW i \in 1..Len(m) PROVE Fresh(m[i], gen) /\ m[i].mode \in ModesOf(t, i)'
  <2>1. CASE i = at
    BY <1>1, <1>2, <1>3, <1>5, <2>1 DEF Fresh, ModesOf, Modes
  <2>2. CASE i # at
    <3>1. i \in 1..Len(k) /\ i < at /\ m[i] = k[i]
      BY <1>2, <1>5, <2>2
    <3> QED
      BY <1>1, <3>1, Polling DEF ModesOf
  <2> QED
    BY <2>1, <2>2
<1>16. SleepOK(t)'
  BY <1>1, <1>2, <1>3, <1>5 DEF SleepOK
<1> QED
  BY <1>1, <1>8, <1>13, <1>14, <1>15, <1>16, Acting

LEMMA ChangeWakes ==
  ASSUME CacheInv, WakeInv, NEW S \in Sources, NEW s \in S, Change(s, S)
  PROVE  WakeInv'
<1> DEFINE all == S \cup Ancestors(S)
<1>1. S \in SUBSET Scopes /\ s \in all /\ s \in Scopes
  BY ReadinessAssumption
<1>2. /\ cond' = [cond EXCEPT ![s] = ~@] /\ UNCHANGED <<checking, stack, run, at>>
      /\ gen' = [r \in Scopes |->
           IF r \in S THEN [value |-> gen[r].value + 1, direct |-> gen[r].value + 1]
           ELSE IF r \in all THEN [gen[r] EXCEPT !.value = @ + 1]
           ELSE gen[r]]
      /\ woken' = [u \in Tasks |-> woken[u] \/ \E r \in all, n \in 1..2 : <<u, n>> \in obs[r]]
      /\ obs' = [r \in Scopes |-> IF r \in all THEN {} ELSE obs[r]]
  BY DEF Change, Invalidate, pollVars
<1>3. \A r \in Scopes : gen[r] \in Generation
  BY DEF CacheInv, Types
<1>4. \A r \in Scopes : IF r \in all THEN gen'[r].value = gen[r].value + 1 ELSE gen'[r] = gen[r]
  BY <1>2, <1>3 DEF Generation
<1>5. \A r \in Scopes : r \notin all => obs'[r] = obs[r] /\ cond'[r] = cond[r]
  BY <1>1, <1>2 DEF CacheInv, Types
<1>6. ASSUME NEW u \in Tasks
      PROVE  /\ woken[u] => woken'[u]
             /\ \A r \in all, n \in {1, 2} : <<u, n>> \in obs[r] => woken'[u]
  <2>1. woken'[u] = (woken[u] \/ \E r \in all, n \in 1..2 : <<u, n>> \in obs[r])
    BY <1>2
  <2>2. 1 \in 1..2 /\ 2 \in 1..2
    OBVIOUS
  <2> HIDE DEF all
  <2> QED
    BY <2>1, <2>2
<1>7. WakeTypes'
  BY <1>2 DEF WakeInv, WakeTypes
<1> HIDE DEF all
<1>8. Owners'
  BY <1>2 DEF WakeInv, Owners
<1>9. ASSUME NEW u \in Tasks PROVE TaskOK(u)'
  <2> DEFINE k == stack[u]
             top == k[Len(k)]
  <2>1. k \in Seq(FrameType) /\ Len(k) \in Nat /\ TaskOK(u) /\ stack'[u] = k
    BY <1>2 DEF WakeInv, CacheInv, Types
  <2>2. \A i \in 1..Len(k) : k[i].scope \in Scopes /\ k[i].before \in Nat
    <3>1. \A i \in 1..Len(k) : k[i] \in FrameType
      BY <2>1
    <3> QED
      BY <3>1 DEF FrameType
  <2>3. PathOK(k)
    BY <2>1 DEF TaskOK
  <2>4. ASSUME NEW i \in 1..Len(k) PROVE Fresh(k[i], gen') /\ k[i].mode \in ModesOf(u, i)'
    <3>1. Fresh(k[i], gen) /\ k[i].mode \in ModesOf(u, i)
      BY <2>1 DEF TaskOK
    <3>2. k[i].mode \in ModesOf(u, i)'
      BY <1>2, <3>1 DEF ModesOf
    <3>3. gen[k[i].scope].value \in Nat /\ k[i].before \in Nat
      BY <1>3, <2>2 DEF Generation
    <3>4. Fresh(k[i], gen')
      BY <1>4, <2>2, <3>1, <3>3 DEF Fresh
    <3> QED
      BY <3>2, <3>4
  <2>5. SleepOK(u)'
    <3>1. CASE u \in run
      <4>1. stack[u][at].mode = "fut"
        BY <3>1 DEF Change, Outside
      <4> QED
        BY <1>2, <3>1, <4>1 DEF SleepOK
    <3>2. CASE u \notin run /\ k # <<>> /\ ~woken'[u]
      <4>1. Registered(u, 1, k, obs)
        BY <1>6, <2>1, <3>2 DEF TaskOK, SleepOK, Asleep
      <4>2. \A r \in Scopes, n \in {1, 2} : <<u, n>> \in obs[r] => r \notin all
        BY <1>6, <3>2
      <4>3. ASSUME NEW j \in 1..Len(k), k[j].mode = "own"
            PROVE  /\ <<u, 2>> \in obs'[k[j].scope] /\ gen'[k[j].scope].direct = k[j].snap.direct
                   /\ cond'[k[j].scope] = cond[k[j].scope]
        <5>1. <<u, 2>> \in obs[k[j].scope] /\ gen[k[j].scope].direct = k[j].snap.direct
          BY <4>1, <4>3 DEF Registered
        <5>2. k[j].scope \notin all
          BY <2>2, <4>2, <5>1
        <5> QED
          BY <1>4, <1>5, <2>2, <5>1, <5>2
      <4>4. Len(k) \in 1..Len(k)
        BY <2>1, <3>2
      <4>5. top.mode = "wait" => <<u, 1>> \in obs'[top.scope] /\ checking'[top.scope]
        <5> SUFFICES ASSUME top.mode = "wait"
                     PROVE  <<u, 1>> \in obs'[top.scope] /\ checking'[top.scope]
          OBVIOUS
        <5>1. <<u, 1>> \in obs[top.scope] /\ checking[top.scope]
          BY <4>1 DEF Registered
        <5>2. top.scope \in Scopes /\ top.scope \notin all
          BY <2>2, <4>2, <4>4, <5>1
        <5> QED
          BY <1>2, <1>5, <5>1, <5>2
      <4>6. top.mode = "own" => ~cond'[top.scope]
        <5>1. top.mode = "own" => ~cond[top.scope]
          BY <4>1 DEF Registered
        <5> QED
          BY <4>3, <4>4, <5>1
      <4> HIDE DEF k, top
      <4>7. Asleep(u, 1)'
        BY <2>1, <4>3, <4>5, <4>6 DEF Asleep, Registered, top
      <4> QED
        BY <1>2, <3>2, <4>7 DEF SleepOK
    <3> QED
      BY <1>2, <2>1, <3>1, <3>2 DEF SleepOK
  <2> HIDE DEF k
  <2> QED
    BY <2>1, <2>3, <2>4, <2>5 DEF TaskOK
<1> QED
  BY <1>7, <1>8, <1>9 DEF WakeInv

LEMMA WakeStep == CacheInv /\ WakeInv /\ [Next]_vars => WakeInv'
<1> SUFFICES ASSUME CacheInv, WakeInv, [Next]_vars PROVE WakeInv'
  OBVIOUS
<1>1. ASSUME NEW t \in Tasks, PollStep(t) PROVE WakeInv'
  BY <1>1, BeginWakes, PollWakes, ReturnsWakes, JoinsWakes, OwnsWakes, PollsWakes,
     ReplacedWakes, AwaitWakes, DoneWakes, StaleWakes, ConditionWakes, PendWakes DEF PollStep
<1>2. ASSUME NEW t \in Tasks, CheckFails(t) \/ Cancel(t) PROVE WakeInv'
  BY <1>2, EndWakes
<1>3. ASSUME NEW S \in Sources, NEW s \in S, Change(s, S) PROVE WakeInv'
  BY <1>3, ChangeWakes, SMTT(60)
<1>4. ASSUME UNCHANGED vars PROVE WakeInv'
  BY <1>4, SMTT(60) DEF vars, scopeVars, pollVars, WakeInv, WakeTypes, Owners, TaskOK, ModesOf, SleepOK,
              Asleep, Registered
<1> QED
  BY <1>1, <1>2, <1>3, <1>4 DEF Next

LEMMA WakeEnough == CacheInv /\ WakeInv => NoLostWake
<1> SUFFICES ASSUME CacheInv, WakeInv, NEW t \in Tasks, run = {}, stack[t] # <<>>, ~woken[t]
             PROVE  LET top == Last(stack[t])
                    IN /\ \A f \in Frames(t) : f.mode = "own" =>
                            <<t, 2>> \in obs[f.scope] /\ gen[f.scope].direct = f.snap.direct
                       /\ top.mode = "wait" =>
                            /\ <<t, 1>> \in obs[top.scope]
                            /\ \E u \in Tasks \ {t} : Owns(u, top.scope)
                       /\ top.mode = "own" => ~cond[top.scope]
  BY DEF NoLostWake
<1> DEFINE k == stack[t]
           top == k[Len(k)]
<1>1. /\ k \in Seq(FrameType) /\ Len(k) \in 1..Len(k) /\ Frames(t) = {k[i] : i \in 1..Len(k)}
      /\ Last(k) = top
  BY DEF CacheInv, Types, Frames, Range, Last
<1>2. Registered(t, 1, k, obs) /\ PathOK(k)
  BY DEF WakeInv, TaskOK, SleepOK, Asleep
<1>3. \A f \in Frames(t) : f.mode = "own" =>
        <<t, 2>> \in obs[f.scope] /\ gen[f.scope].direct = f.snap.direct
  BY <1>1, <1>2 DEF Registered
<1>4. ASSUME top.mode = "wait" PROVE \E u \in Tasks \ {t} : Owns(u, top.scope)
  <2>1. top.scope \in Scopes
    <3>1. top \in FrameType
      BY <1>1
    <3> QED
      BY <3>1 DEF FrameType
  <2>2. checking[top.scope]
    BY <1>2, <1>4 DEF Registered
  <2>3. PICK u \in Tasks : top.scope \in OwnedBy(stack[u])
    BY <2>1, <2>2 DEF WakeInv, Owners
  <2>4. PICK i \in 1..Len(stack[u]) : stack[u][i].scope = top.scope /\ stack[u][i].mode # "wait"
    BY <2>3 DEF OwnedBy
  <2>5. u # t
    <3> SUFFICES ASSUME u = t PROVE FALSE
      OBVIOUS
    <3>1. i # Len(k) /\ i \in 1..Len(k) /\ k[i].scope = top.scope
      BY <1>4, <2>4
    <3>2. k[i].scope # k[Len(k)].scope
      BY <1>1, <1>2, <3>1, PathDistinct
    <3> QED
      BY <3>1, <3>2
  <2>6. stack[u] \in Seq(FrameType)
    BY DEF CacheInv, Types
  <2>7. Owns(u, top.scope)
    BY <2>4, <2>6 DEF Owns, Frames, Range
  <2> QED
    BY <2>5, <2>7
<1>5. /\ top.mode = "wait" => <<t, 1>> \in obs[top.scope]
      /\ top.mode = "own" => ~cond[top.scope]
  BY <1>2 DEF Registered
<1> QED
  BY <1>1, <1>3, <1>4, <1>5

\* No wake-up is lost: a caller that sleeps between two polls has registered with
\* the scope of every check it runs and has missed no direct invalidation; one
\* that joined a check is registered with it and another task still runs it; and
\* the innermost condition is false (check, RunCheck::poll, CheckOwner::drop).
THEOREM SleepersAreRegistered == Spec => []NoLostWake
<1>1. Init => CacheInv /\ WakeInv
  BY CacheInit, WakeInit
<1>2. CacheInv /\ WakeInv /\ [Next]_vars => (CacheInv /\ WakeInv)'
  BY CacheStep, WakeStep
<1> QED
  BY <1>1, <1>2, WakeEnough, PTL DEF Spec

-----------------------------------------------------------------------------
(***************************************************************************)
(* The connection pool.  NoWaiterForgotten speaks of the moments between   *)
(* two polls of the support task; Served says of the poll itself that a    *)
(* host it has been to is blocked.  A blocked host stays blocked until     *)
(* something wakes the task: acquire() for another call can only take away *)
(* a connection that has expired, and the connection was in full use, so   *)
(* that somebody holds a stream of it (Counts, Holding).                   *)
(***************************************************************************)

Phases == {"new", "waiting", "delivered", "using", "over", "gone"}

PoolTypes ==
  /\ host \in [Calls -> Hosts] /\ pc \in [Calls -> Phases]
  /\ has \in [Calls -> Shared \cup {None, Plain}]
  /\ opening \in SUBSET Calls /\ stopped \in BOOLEAN /\ token \in BOOLEAN /\ acquired \in Nat
  /\ available \in [Hosts -> Nat] /\ h2 \in [Hosts -> SUBSET Shared]
  /\ connecting \in SUBSET Hosts /\ waiters \in [Hosts -> Seq(Calls)]
  /\ peer \in [Shared -> {"open", "refusing", "closed"}] /\ streams \in [Shared -> Nat]
  /\ scan \in Seq(Hosts)

\* A call is in one queue at most, that of its host, and only once; nobody opens
\* a connection for it meanwhile.
Queued ==
  \A k \in Hosts : \A i \in DOMAIN waiters[k] :
    /\ host[waiters[k][i]] = k /\ pc[waiters[k][i]] \in {"waiting", "gone"}
    /\ waiters[k][i] \notin opening
    /\ \A j \in DOMAIN waiters[k] : i # j => waiters[k][i] # waiters[k][j]

\* A call that has not been answered has nothing; connections are with one host.
Holding ==
  /\ \A c \in Calls : pc[c] \in {"new", "waiting"} => has[c] = None
  /\ \A c \in Calls : pc[c] = "new" => c \notin opening
  /\ \A k \in Hosts, c \in Calls : has[c] \in h2[k] => host[c] = k
  /\ \A k, q \in Hosts : k # q => h2[k] \cap h2[q] = {}

\* Connections and streams in use are those that calls hold.
Holders(x, h) == {c \in Calls : h[c] = x}
InUse(x, a, st) == IF x = Plain THEN a ELSE st[x]
Counted(a, st, h) ==
  \A x \in Shared \cup {Plain} :
    IsFiniteSet(Holders(x, h)) /\ InUse(x, a, st) = Cardinality(Holders(x, h))
Counts ==
  /\ Counted(acquired, streams, has)
  /\ \A s \in Shared : streams[s] <= MaxStreams

\* A host with a waiter that the support task has looked at, or that it has no
\* reason to look at, is blocked.
LiveWaiter(k) == \E i \in DOMAIN waiters[k] : pc[waiters[k][i]] # "gone"
Served ==
  ~token /\ ~stopped =>
    \A k \in Hosts : LiveWaiter(k) /\ (\A i \in DOMAIN scan : scan[i] # k) => Blocked(k)

PoolInv == PoolTypes /\ Queued /\ Holding /\ Counts /\ Served

-----------------------------------------------------------------------------
(* Operators *)

\* What acquire() returns: idle connections only become fewer, closed connections
\* are removed, a stream is taken from a connection with capacity, and a caller
\* is told to wait only when no connection has capacity and none may be opened.
LEMMA BeginsFacts ==
  ASSUME PoolTypes, NEW S \in SUBSET Shared, NEW b \in Begins(S)
  PROVE  /\ b.left \subseteq S
         /\ b.conn \in Shared \cup {None}
         /\ b.conn \in Shared => b.conn \in b.left /\ HasCapacity(b.conn)
         /\ b.conn = None => \A s \in b.left : ~HasCapacity(s)
<1> DEFINE fit == {s \in S : HasCapacity(s)}
           able == {s \in fit : peer[s] = "open"}
           least == Min({streams[s] : s \in able})
           tried == {r \in fit \ able : streams[r] < least}
           level == {r \in fit \ able : streams[r] = least}
           chosen == {[conn |-> s, left |-> S \ (tried \cup t)] :
                        s \in {x \in able : streams[x] = least}, t \in SUBSET level}
<1>0. Begins(S) = IF able = {} THEN {[conn |-> None, left |-> S \ fit]} ELSE chosen
  BY DEF Begins
<1>1. CASE able = {}
  <2>1. b = [conn |-> None, left |-> S \ fit]
    BY <1>0, <1>1
  <2> QED
    BY <2>1, PoolAssumption
<1>2. CASE able # {}
  <2> HIDE DEF able, least, tried, level
  <2>1. b \in chosen
    <3> HIDE DEF chosen
    <3> QED
      BY <1>0, <1>2
  <2>2. \E s \in {x \in able : streams[x] = least} : \E t \in SUBSET level :
          b = [conn |-> s, left |-> S \ (tried \cup t)]
    BY <2>1, SMT
  <2>3. PICK s \in able, t \in SUBSET level : b = [conn |-> s, left |-> S \ (tried \cup t)]
    BY <2>2
  <2> USE DEF able, tried, level
  <2> QED
    BY <2>3, PoolAssumption
<1> QED
  BY <1>1, <1>2

LEMMA AcquireFacts ==
  ASSUME PoolTypes, NEW k \in Hosts, NEW r \in Acquire(k)
  PROVE  /\ r.idle \in 0..available[k] /\ r.open \in BOOLEAN
         /\ r.conn \in Shared \cup {None, Plain}
         /\ \A s \in r.pooled : s \in h2[k] /\ s \in Shared /\ peer[s] # "closed"
         /\ r.conn \in Shared => r.conn \in r.pooled /\ streams[r.conn] < MaxStreams
         /\ r.conn = None /\ ~r.open =>
              /\ \A s \in r.pooled : ~(streams[s] < MaxStreams)
              /\ Saturated(k, r.pooled) \/ AtLimit \/ (r.idle = 0 /\ k \in connecting)
<1> DEFINE outcomes(b) ==
             CASE b.conn # None -> {Outcome(b.conn, FALSE, available[k], b.left)}
               [] b.conn = None /\ (Saturated(k, b.left) \/ AtLimit) ->
                    {Outcome(None, FALSE, available[k], b.left)}
               [] OTHER -> TakesIdle(k, b.left)
<1>0. Acquire(k) = UNION {UNION {outcomes(b) : b \in Begins(S)} : S \in Unexpired(k)}
  BY DEF Acquire
<1> HIDE DEF outcomes
<1>a. PICK S \in Unexpired(k) : r \in UNION {outcomes(b) : b \in Begins(S)}
  BY <1>0
<1>1. PICK b \in Begins(S) : r \in outcomes(b)
  BY <1>a
<1> USE DEF outcomes
<1>2. S \in SUBSET Shared /\ \A s \in S : s \in h2[k] /\ peer[s] # "closed"
  BY DEF Unexpired, PoolTypes
<1>3. /\ b.left \subseteq S /\ b.conn \in Shared \cup {None}
      /\ b.conn \in Shared => b.conn \in b.left /\ HasCapacity(b.conn)
      /\ b.conn = None => \A s \in b.left : ~HasCapacity(s)
  BY <1>2, BeginsFacts
<1>4. available[k] \in Nat
  BY DEF PoolTypes
<1>5. CASE b.conn # None
  <2>1. r = Outcome(b.conn, FALSE, available[k], b.left)
    BY <1>1, <1>5
  <2> QED
    BY <2>1, <1>2, <1>3, <1>4, <1>5, PoolAssumption DEF Outcome, HasCapacity
<1>6. CASE b.conn = None /\ (Saturated(k, b.left) \/ AtLimit)
  <2>1. r = Outcome(None, FALSE, available[k], b.left)
    BY <1>1, <1>6
  <2> QED
    BY <2>1, <1>2, <1>3, <1>4, <1>6, PoolAssumption DEF Outcome, HasCapacity
<1>7. CASE b.conn = None /\ ~(Saturated(k, b.left) \/ AtLimit)
  <2>1. r \in TakesIdle(k, b.left)
    BY <1>1, <1>7
  <2>2. CASE \E n \in 1..available[k] : r = Outcome(Plain, FALSE, n - 1, b.left)
    BY <2>2, <1>2, <1>3, <1>4, <1>7, PoolAssumption DEF Outcome, None, Plain
  <2>3. CASE r = Outcome(None, k \notin connecting, 0, b.left)
    <3>1. r.conn = None /\ r.idle = 0 /\ r.pooled = b.left /\ r.open = (k \notin connecting)
      BY <2>3 DEF Outcome
    <3>2. r.open \in BOOLEAN /\ (~r.open => k \in connecting)
      BY <3>1
    <3> QED
      BY <3>1, <3>2, <1>2, <1>3, <1>4, <1>7, PoolAssumption DEF HasCapacity
  <2> QED
    BY <2>1, <2>2, <2>3 DEF TakesIdle
<1> QED
  BY <1>5, <1>6, <1>7

\* Min is the least element of a set of naturals.
LEMMA MinOfNat ==
  ASSUME NEW T \in SUBSET Nat, T # {} PROVE Min(T) \in T
<1> DEFINE R == {p \in Nat \X Nat : p[1] < p[2]}
<1>1. IsWellFoundedOn(R, Nat)
  BY NatLessThanWellFounded, Zenon DEF OpToRel
<1> HIDE DEF R
<1>2. PICK x \in T : \A y \in T : ~(<<y, x>> \in R)
  BY <1>1, WFMin, Zenon
<1>3. ASSUME NEW y \in T PROVE x <= y
  <2>1. ~(<<y, x>> \in R) /\ x \in Nat /\ y \in Nat
    BY <1>2
  <2> QED
    BY <2>1 DEF R
<1> QED
  BY <1>3 DEF Min

\* cleanup() takes waiters from the front.
LEMMA CleanedFacts ==
  ASSUME NEW q \in Seq(Calls)
  PROVE  Cleaned(q) = <<>> \/ \E m \in 1..Len(q) : Cleaned(q) = SubSeq(q, m, Len(q))
<1> DEFINE alive == {i \in DOMAIN q : pc[q[i]] # "gone"}
<1>1. SUFFICES ASSUME alive # {} PROVE Min(alive) \in 1..Len(q)
  BY DEF Cleaned
<1>2. alive \subseteq 1..Len(q) /\ Len(q) \in Nat
  OBVIOUS
<1>3. Min(alive) \in alive
  <2> HIDE DEF alive
  <2> QED
    BY <1>1, <1>2, MinOfNat
<1> QED
  BY <1>2, <1>3

\* The support task looks at every host that has waiters.
LEMMA ScanFacts ==
  ASSUME NEW S \in SUBSET Hosts, NEW q \in SetToSeqs(S)
  PROVE  q \in Seq(Hosts) /\ \A k \in S : \E i \in DOMAIN q : q[i] = k
<1>1. IsFiniteSet(S) /\ Cardinality(S) \in Nat
  BY PoolAssumption, FS_Subset, FS_CardinalityType
<1> DEFINE n == Cardinality(S)
<1>2. q \in [1..n -> S] /\ \A i, j \in 1..n : i # j => q[i] # q[j]
  BY DEF SetToSeqs
<1>3. IsFiniteSet(1..n) /\ Cardinality(1..n) = n
  BY <1>1, FS_Interval
<1>4. q \in Injection(1..n, S)
  BY <1>2 DEF Injection, IsInjective
<1>5. q \in Surjection(1..n, S)
  BY <1>1, <1>3, <1>4, FS_Injection, Zenon
<1>6. \A k \in S : \E i \in 1..n : q[i] = k
  BY <1>5 DEF Surjection
<1>7. q \in Seq(Hosts)
  <2> HIDE DEF n
  <2>1. n \in Nat /\ q \in [1..n -> Hosts]
    BY <1>1, <1>2 DEF n
  <2> QED
    BY <2>1
<1> QED
  BY <1>2, <1>6, <1>7

\* A call takes what it did not have, or gives back what it had.
LEMMA HeldCounts ==
  ASSUME PoolTypes, Counted(acquired, streams, has),
         NEW c \in Calls, NEW x \in Shared \cup {Plain}, has[c] = x
  PROVE  InUse(x, acquired, streams) > 0
<1>1. c \in Holders(x, has) /\ IsFiniteSet(Holders(x, has))
      /\ InUse(x, acquired, streams) = Cardinality(Holders(x, has))
  BY DEF Counted, Holders
<1> QED
  BY <1>1, FS_CardinalityType, FS_EmptySet

LEMMA Gains ==
  ASSUME PoolTypes, Counted(acquired, streams, has),
         NEW c \in Calls, NEW x \in Shared \cup {Plain}, has[c] = None,
         NEW a, NEW st, NEW h, h = [has EXCEPT ![c] = x],
         InUse(x, a, st) = InUse(x, acquired, streams) + 1,
         \A y \in Shared \cup {Plain} : y # x => InUse(y, a, st) = InUse(y, acquired, streams)
  PROVE  Counted(a, st, h)
<1> SUFFICES ASSUME NEW y \in Shared \cup {Plain}
             PROVE  IsFiniteSet(Holders(y, h)) /\ InUse(y, a, st) = Cardinality(Holders(y, h))
  BY DEF Counted
<1>1. IsFiniteSet(Holders(y, has)) /\ InUse(y, acquired, streams) = Cardinality(Holders(y, has))
  BY DEF Counted
<1>2. None \notin Shared \cup {Plain} /\ has \in [Calls -> Shared \cup {None, Plain}]
  BY PoolAssumption DEF PoolTypes, None, Plain
<1>3. CASE y = x
  <2>1. Holders(y, h) = Holders(y, has) \cup {c} /\ c \notin Holders(y, has)
    BY <1>2, <1>3 DEF Holders
  <2>2. /\ IsFiniteSet(Holders(y, has) \cup {c})
        /\ Cardinality(Holders(y, has) \cup {c}) = Cardinality(Holders(y, has)) + 1
    BY <1>1, <2>1, FS_AddElement
  <2> QED
    BY <1>1, <1>3, <2>1, <2>2
<1>4. CASE y # x
  <2>1. Holders(y, h) = Holders(y, has)
    BY <1>2, <1>4 DEF Holders
  <2> QED
    BY <1>1, <1>4, <2>1
<1> QED
  BY <1>3, <1>4

LEMMA Loses ==
  ASSUME PoolTypes, Counted(acquired, streams, has),
         NEW c \in Calls, NEW x \in Shared \cup {Plain}, has[c] = x,
         NEW a, NEW st, NEW h, h = [has EXCEPT ![c] = None],
         InUse(x, a, st) = InUse(x, acquired, streams) - 1,
         \A y \in Shared \cup {Plain} : y # x => InUse(y, a, st) = InUse(y, acquired, streams)
  PROVE  Counted(a, st, h)
<1> SUFFICES ASSUME NEW y \in Shared \cup {Plain}
             PROVE  IsFiniteSet(Holders(y, h)) /\ InUse(y, a, st) = Cardinality(Holders(y, h))
  BY DEF Counted
<1>1. IsFiniteSet(Holders(y, has)) /\ InUse(y, acquired, streams) = Cardinality(Holders(y, has))
  BY DEF Counted
<1>2. None \notin Shared \cup {Plain} /\ has \in [Calls -> Shared \cup {None, Plain}]
  BY PoolAssumption DEF PoolTypes, None, Plain
<1>3. CASE y = x
  <2>1. Holders(y, h) = Holders(y, has) \ {c} /\ c \in Holders(y, has)
    BY <1>2, <1>3 DEF Holders
  <2> QED
    BY <1>1, <1>3, <2>1, FS_RemoveElement
<1>4. CASE y # x
  <2>1. Holders(y, h) = Holders(y, has)
    BY <1>2, <1>4 DEF Holders
  <2> QED
    BY <1>1, <1>4, <2>1
<1> QED
  BY <1>3, <1>4

-----------------------------------------------------------------------------
(* acquire() on behalf of a call *)

\* The call gets the connection if there is one; attempts to open go on.
Takes(c, k, r) ==
  /\ Taken(k, r) /\ host[c] = k /\ has[c] = None
  /\ has' = IF r.conn = None THEN has ELSE [has EXCEPT ![c] = r.conn]
  /\ host' = host /\ connecting \subseteq connecting'

LEMMA TakesTypes ==
  ASSUME PoolTypes, NEW c \in Calls, NEW k \in Hosts, NEW r \in Acquire(k), Takes(c, k, r)
  PROVE  /\ has' \in [Calls -> Shared \cup {None, Plain}] /\ acquired' \in Nat
         /\ available' \in [Hosts -> Nat] /\ h2' \in [Hosts -> SUBSET Shared]
         /\ peer' \in [Shared -> {"open", "refusing", "closed"}] /\ streams' \in [Shared -> Nat]
<1>1. /\ r.idle \in Nat /\ r.conn \in Shared \cup {None, Plain} /\ r.pooled \in SUBSET Shared
  BY AcquireFacts, SMT DEF PoolTypes
<1>2. has' \in [Calls -> Shared \cup {None, Plain}] /\ acquired' \in Nat
  BY <1>1 DEF PoolTypes, Takes, Taken
<1>3. available' \in [Hosts -> Nat] /\ h2' \in [Hosts -> SUBSET Shared]
  BY <1>1 DEF PoolTypes, Takes, Taken
<1>4. peer' \in [Shared -> {"open", "refusing", "closed"}] /\ streams' \in [Shared -> Nat]
  BY <1>1 DEF PoolTypes, Takes, Taken, Closed
<1> QED
  BY <1>2, <1>3, <1>4

\* What changes: connections of the host only.
LEMMA TakesChanges ==
  ASSUME PoolTypes, Holding, NEW c \in Calls, NEW k \in Hosts, NEW r \in Acquire(k), Takes(c, k, r)
  PROVE  /\ acquired' \in Nat /\ acquired' >= acquired
         /\ available'[k] <= available[k] /\ h2'[k] = r.pooled
         /\ \A q \in Hosts : q # k => h2'[q] = h2[q] /\ available'[q] = available[q]
         /\ \A s \in Shared : peer'[s] = IF s \in h2[k] \ r.pooled THEN "closed" ELSE peer[s]
         /\ \A s \in Shared : streams'[s] = IF s = r.conn THEN streams[s] + 1 ELSE streams[s]
         /\ \A d \in Calls : d # c => has'[d] = has[d]
<1>1. /\ r.idle \in 0..available[k] /\ r.conn \in Shared \cup {None, Plain}
  BY AcquireFacts
<1>2. available[k] \in Nat /\ acquired \in Nat
  BY DEF PoolTypes
<1>3. acquired' \in Nat /\ acquired' >= acquired /\ available'[k] <= available[k] /\ h2'[k] = r.pooled
  BY <1>1, <1>2 DEF PoolTypes, Takes, Taken
<1>4. \A q \in Hosts : q # k => h2'[q] = h2[q] /\ available'[q] = available[q]
  BY DEF PoolTypes, Takes, Taken
<1>5. \A s \in Shared : peer'[s] = IF s \in h2[k] \ r.pooled THEN "closed" ELSE peer[s]
  BY DEF Takes, Taken, Closed
<1>6. \A s \in Shared : streams'[s] = IF s = r.conn THEN streams[s] + 1 ELSE streams[s]
  BY <1>1 DEF PoolTypes, Takes, Taken
<1>7. \A d \in Calls : d # c => has'[d] = has[d]
  BY DEF PoolTypes, Takes
<1> QED
  BY <1>3, <1>4, <1>5, <1>6, <1>7

LEMMA TakesCounts ==
  ASSUME PoolTypes, Counts, NEW c \in Calls, NEW k \in Hosts, NEW r \in Acquire(k), Takes(c, k, r)
  PROVE  Counts'
<1>1. r.conn \in Shared \cup {None, Plain} /\ (r.conn \in Shared => streams[r.conn] < MaxStreams)
  BY AcquireFacts
<1>2. acquired \in Nat /\ streams \in [Shared -> Nat] /\ MaxStreams \in Nat
  BY PoolAssumption DEF PoolTypes
<1>3. \A s \in Shared : streams'[s] <= MaxStreams
  BY <1>1, <1>2 DEF Takes, Taken, Counts
<1>4. Counted(acquired', streams', has')
  <2>1. CASE r.conn = None
    <3>1. acquired' = acquired /\ streams' = streams /\ has' = has
      BY <2>1, PoolAssumption DEF Takes, Taken, None, Plain
    <3> QED
      BY <3>1 DEF Counts
  <2>2. CASE r.conn # None
    <3> DEFINE x == r.conn
    <3>1. x \in Shared \cup {Plain} /\ has' = [has EXCEPT ![c] = x] /\ has[c] = None
      BY <1>1, <2>2 DEF Takes
    <3>2. /\ acquired' = IF x = Plain THEN acquired + 1 ELSE acquired
          /\ streams' = IF x \in Shared THEN [streams EXCEPT ![x] = @ + 1] ELSE streams
      BY DEF Takes, Taken
    <3> HIDE DEF x
    <3>3. /\ InUse(x, acquired', streams') = InUse(x, acquired, streams) + 1
          /\ \A y \in Shared \cup {Plain} :
               y # x => InUse(y, acquired', streams') = InUse(y, acquired, streams)
      BY <1>2, <3>1, <3>2, PoolAssumption DEF InUse
    <3> QED
      BY <3>1, <3>3, Gains DEF Counts
  <2> QED
    BY <2>1, <2>2
<1> QED
  BY <1>3, <1>4 DEF Counts

LEMMA TakesHolding ==
  ASSUME PoolTypes, Holding, NEW c \in Calls, NEW k \in Hosts, NEW r \in Acquire(k), Takes(c, k, r)
  PROVE  /\ \A q \in Hosts, d \in Calls : has'[d] \in h2'[q] => host'[d] = q
         /\ \A p, q \in Hosts : p # q => h2'[p] \cap h2'[q] = {}
<1>1. /\ r.conn \in Shared \cup {None, Plain} /\ r.conn \in Shared => r.conn \in r.pooled
      /\ r.pooled \subseteq h2[k] /\ h2[k] \subseteq Shared
  BY AcquireFacts DEF PoolTypes
<1>2. /\ h2'[k] = r.pooled /\ \A q \in Hosts : q # k => h2'[q] = h2[q]
      /\ \A d \in Calls : d # c => has'[d] = has[d]
  BY TakesChanges
<1>3. has'[c] = r.conn /\ has[c] = None /\ host' = host /\ host[c] = k
  BY DEF Takes, PoolTypes
<1>4. \A q \in Hosts : h2[q] \subseteq Shared
  BY DEF PoolTypes
<1>5. \A p, q \in Hosts : p # q => h2[p] \cap h2[q] = {}
  BY DEF Holding
<1>6. \A q \in Hosts, d \in Calls : has[d] \in h2[q] => host[d] = q
  BY DEF Holding
<1>7. \A p, q \in Hosts : p # q => h2'[p] \cap h2'[q] = {}
  BY <1>1, <1>2, <1>5
<1>8. ASSUME NEW q \in Hosts, NEW d \in Calls, has'[d] \in h2'[q] PROVE host'[d] = q
  <2>1. CASE d # c
    BY <2>1, <1>1, <1>2, <1>3, <1>6, <1>8
  <2>2. CASE d = c
    BY <2>2, <1>1, <1>2, <1>3, <1>4, <1>7, <1>8, PoolAssumption
  <2> QED
    BY <2>1, <2>2
<1> QED
  BY <1>7, <1>8

\* Whose stream keeps a host blocked after its connection expired.
Lingering(k) == \E c \in Calls : host[c] = k /\ has[c] \in Shared /\ peer[has[c]] = "closed"

\* A blocked host stays blocked: if the call finds a connection of the host
\* expired, somebody still has a stream of it.
LEMMA BlockedStays ==
  ASSUME PoolTypes, Holding, Counts, NEW c \in Calls, NEW k \in Hosts, NEW r \in Acquire(k),
         Takes(c, k, r), NEW q \in Hosts, Blocked(q)
  PROVE  Blocked(q)'
<1> DEFINE busy == {s \in h2[q] : peer[s] # "closed"}
           left == {s \in h2'[q] : peer'[s] # "closed"}
           full == left # {} /\ ((H2Limit > 0 /\ Cardinality(left) >= H2Limit) \/ q \in connecting')
<1>1. /\ \A s \in r.pooled : s \in h2[k] /\ s \in Shared /\ peer[s] # "closed"
      /\ r.conn \in Shared => r.conn \in r.pooled /\ streams[r.conn] < MaxStreams
  BY AcquireFacts
<1>2. /\ acquired' \in Nat /\ acquired' >= acquired /\ acquired \in Nat
      /\ available'[k] <= available[k] /\ h2'[k] = r.pooled
      /\ \A p \in Hosts : p # k => h2'[p] = h2[p] /\ available'[p] = available[p]
  BY TakesChanges DEF PoolTypes
<1>3. /\ \A s \in Shared : peer'[s] = IF s \in h2[k] \ r.pooled THEN "closed" ELSE peer[s]
      /\ \A s \in Shared : streams'[s] = IF s = r.conn THEN streams[s] + 1 ELSE streams[s]
      /\ \A d \in Calls : d # c => has'[d] = has[d]
  BY TakesChanges
<1>4. /\ host' = host /\ connecting \subseteq connecting' /\ has[c] = None
      /\ h2[q] \subseteq Shared /\ h2[k] \subseteq Shared /\ None \notin Shared
  BY PoolAssumption DEF Takes, PoolTypes
<1>5. q # k => h2[q] \cap h2[k] = {}
  BY DEF Holding
<1>6. left \subseteq busy
  BY <1>1, <1>2, <1>3, <1>4
<1>7. \A s \in busy : streams[s] = MaxStreams /\ s \in Shared
  BY <1>4 DEF Blocked
<1>8. MaxStreams \in Nat \ {0} /\ H1Limit \in Nat /\ H2Limit \in Nat
  BY PoolAssumption
<1>9. \A s \in left : streams'[s] = MaxStreams
  <2> SUFFICES ASSUME NEW s \in left PROVE streams[s] = MaxStreams /\ s # r.conn
    BY <1>3, <1>4, <1>6
  <2>1. streams[s] = MaxStreams
    BY <1>6, <1>7
  <2>2. s = r.conn => streams[s] < MaxStreams
    BY <1>1, <1>4, <1>6
  <2> QED
    BY <2>1, <2>2, <1>8
<1>10. ASSUME Lingering(q) PROVE Lingering(q)'
  <2>1. PICK d \in Calls : host[d] = q /\ has[d] \in Shared /\ peer[has[d]] = "closed"
    BY <1>10 DEF Lingering
  <2>2. d # c
    BY <2>1, <1>4
  <2>3. has'[d] = has[d] /\ peer'[has[d]] = "closed"
    BY <2>1, <2>2, <1>3
  <2> QED
    BY <2>1, <2>3, <1>4 DEF Lingering
<1>11. CASE left # busy
  <2>1. PICK s \in busy : s \notin left
    BY <1>6, <1>11
  <2>2. q = k /\ s \in h2[k] \ r.pooled /\ s \in Shared
    BY <2>1, <1>2, <1>3, <1>4, <1>5
  <2>3. streams[s] # 0 /\ s # Plain
    BY <2>2, <1>7, <1>8, PoolAssumption
  <2>4. streams[s] = Cardinality(Holders(s, has))
    BY <2>2, <2>3 DEF Counts, Counted, InUse
  <2>5. PICK d \in Calls : has[d] = s
    BY <2>3, <2>4, FS_EmptySet DEF Holders
  <2>6. host[d] = q /\ d # c
    BY <2>2, <2>5, <1>4 DEF Holding
  <2>7. Lingering(q)'
    BY <2>2, <2>5, <2>6, <1>3, <1>4 DEF Lingering
  <2> QED
    BY <2>7, <1>9 DEF Blocked, Lingering
<1>12. CASE left = busy
  <2>1. Saturated(q, busy) => full
    BY <1>4, <1>12 DEF Saturated
  <2>2. AtLimit => AtLimit'
    BY <1>2, <1>8 DEF AtLimit
  <2>3. available[q] = 0 /\ q \in connecting => available'[q] = 0 /\ q \in connecting'
    <3>1. available'[q] \in Nat /\ available[q] \in Nat
      BY TakesTypes DEF PoolTypes
    <3>2. available'[q] <= available[q]
      BY <1>2, <3>1
    <3> QED
      BY <3>1, <3>2, <1>4
  <2>4. Saturated(q, busy) \/ AtLimit \/ (available[q] = 0 /\ q \in connecting) \/ Lingering(q)
    BY DEF Blocked, Lingering
  <2>5. full \/ AtLimit' \/ (available'[q] = 0 /\ q \in connecting') \/ Lingering(q)'
    BY <2>1, <2>2, <2>3, <2>4, <1>10
  <2> QED
    BY <2>5, <1>9 DEF Blocked, Lingering, Saturated
<1> QED
  BY <1>11, <1>12

\* A call that is told to wait finds its host blocked.
LEMMA BlockedNow ==
  ASSUME PoolTypes, Holding, Counts, NEW c \in Calls, NEW k \in Hosts, NEW r \in Acquire(k),
         Takes(c, k, r), r.conn = None, ~r.open, connecting' = connecting
  PROVE  Blocked(k)'
<1> DEFINE left == {s \in h2'[k] : peer'[s] # "closed"}
           full == left # {} /\ ((H2Limit > 0 /\ Cardinality(left) >= H2Limit) \/ k \in connecting')
<1>1. /\ \A s \in r.pooled : s \in h2[k] /\ s \in Shared /\ peer[s] # "closed"
      /\ \A s \in r.pooled : ~(streams[s] < MaxStreams)
      /\ Saturated(k, r.pooled) \/ AtLimit \/ (r.idle = 0 /\ k \in connecting)
  BY AcquireFacts
<1>2. /\ h2'[k] = r.pooled
      /\ \A s \in Shared : peer'[s] = IF s \in h2[k] \ r.pooled THEN "closed" ELSE peer[s]
      /\ \A s \in Shared : streams'[s] = IF s = r.conn THEN streams[s] + 1 ELSE streams[s]
  BY TakesChanges
<1>3. left = r.pooled
  BY <1>1, <1>2
<1>4. \A s \in left : streams'[s] = MaxStreams
  <2> SUFFICES ASSUME NEW s \in r.pooled PROVE streams'[s] = MaxStreams
    BY <1>3
  <2>1. streams[s] \in Nat /\ streams[s] <= MaxStreams /\ MaxStreams \in Nat /\ s # r.conn
    BY <1>1, PoolAssumption DEF Counts, PoolTypes
  <2> QED
    BY <2>1, <1>1, <1>2
<1>5. Saturated(k, r.pooled) => full
  BY <1>3 DEF Saturated
<1>6. AtLimit => AtLimit'
  BY TakesChanges, PoolAssumption DEF AtLimit, PoolTypes
<1>7. available'[k] = r.idle
  BY DEF Takes, Taken, PoolTypes
<1> QED
  BY <1>1, <1>4, <1>5, <1>6, <1>7 DEF Blocked, Saturated

-----------------------------------------------------------------------------
(* The queues *)

\* Queues only lose waiters, from the front.
Shorter ==
  /\ waiters' \in [Hosts -> Seq(Calls)]
  /\ \A k \in Hosts : \E d \in Nat : \A i \in DOMAIN waiters'[k] :
       i + d \in DOMAIN waiters[k] /\ waiters'[k][i] = waiters[k][i + d]

LEMMA UnchangedShorter == ASSUME PoolTypes, waiters' = waiters PROVE Shorter
<1>1. waiters' \in [Hosts -> Seq(Calls)]
  BY DEF PoolTypes
<1>2. ASSUME NEW k \in Hosts
      PROVE  \A i \in DOMAIN waiters'[k] :
               i + 0 \in DOMAIN waiters[k] /\ waiters'[k][i] = waiters[k][i + 0]
  <2>1. waiters[k] \in Seq(Calls)
    BY DEF PoolTypes
  <2>2. \A i \in DOMAIN waiters[k] : i \in Nat /\ i + 0 = i
    BY <2>1
  <2> QED
    BY <2>2
<1> QED
  BY <1>1, <1>2 DEF Shorter

LEMMA CleanedShorter == ASSUME PoolTypes, CheckAvailability PROVE Shorter
<1>1. ASSUME NEW k \in Hosts
      PROVE  /\ waiters'[k] \in Seq(Calls)
             /\ \E d \in Nat : \A i \in DOMAIN waiters'[k] :
                  i + d \in DOMAIN waiters[k] /\ waiters'[k][i] = waiters[k][i + d]
  <2> DEFINE w == waiters[k]
             v == Cleaned(w)
  <2>1. w \in Seq(Calls) /\ waiters'[k] = v
    BY DEF PoolTypes, CheckAvailability
  <2>2. v = <<>> \/ \E m \in 1..Len(w) : v = SubSeq(w, m, Len(w))
    BY <2>1, CleanedFacts
  <2> HIDE DEF w, v
  <2>3. CASE v = <<>>
    <3>1. v \in Seq(Calls) /\ DOMAIN v = {}
      BY <2>3
    <3>2. \A i \in DOMAIN v : i + 0 \in DOMAIN w /\ v[i] = w[i + 0]
      BY <3>1
    <3> QED
      BY <3>1, <3>2, <2>1 DEF w
  <2>4. ASSUME NEW m \in 1..Len(w), v = SubSeq(w, m, Len(w))
        PROVE  /\ v \in Seq(Calls)
               /\ \E d \in Nat : \A i \in DOMAIN v : i + d \in DOMAIN w /\ v[i] = w[i + d]
    <3>1. Len(w) \in Nat /\ m \in Nat /\ 1 <= m /\ m <= Len(w) /\ DOMAIN w = 1..Len(w)
      BY <2>1
    <3>2. \A i \in m..Len(w) : w[i] \in Calls
      BY <2>1, <3>1
    <3>3. /\ v \in Seq(Calls) /\ Len(v) = Len(w) - m + 1
          /\ \A i \in 1..(Len(w) - m + 1) : v[i] = w[m + i - 1]
      BY <2>4, <3>1, <3>2, SubSeqProperties
    <3>4. m - 1 \in Nat /\ \A i \in DOMAIN v : i + (m - 1) \in DOMAIN w /\ v[i] = w[i + (m - 1)]
      BY <3>1, <3>3
    <3> QED
      BY <3>3, <3>4
  <2> QED
    BY <2>1, <2>2, <2>3, <2>4 DEF w
<1>2. waiters' = [k \in Hosts |-> Cleaned(waiters[k])]
  BY DEF CheckAvailability
<1> QED
  BY <1>1, <1>2 DEF Shorter

LEMMA QueuedKept ==
  ASSUME PoolTypes, Queued, Shorter, host' = host,
         \A k \in Hosts : \A i \in DOMAIN waiters'[k] :
           pc'[waiters'[k][i]] \in {"waiting", "gone"} /\ waiters'[k][i] \notin opening'
  PROVE  Queued'
<1> SUFFICES ASSUME NEW k \in Hosts, NEW i \in DOMAIN waiters'[k], NEW j \in DOMAIN waiters'[k]
             PROVE  host[waiters'[k][i]] = k /\ (i # j => waiters'[k][i] # waiters'[k][j])
  BY DEF Queued
<1>1. PICK d \in Nat : \A n \in DOMAIN waiters'[k] :
        n + d \in DOMAIN waiters[k] /\ waiters'[k][n] = waiters[k][n + d]
  BY DEF Shorter
<1>2. DOMAIN waiters'[k] \subseteq Nat
  BY DEF Shorter
<1>3. i # j => i + d # j + d
  BY <1>2
<1> QED
  BY <1>1, <1>3 DEF Queued

\* A step of a call that is not queued, or that goes away.
LEMMA QueuedOthers ==
  ASSUME PoolTypes, Queued, Shorter, host' = host, NEW c \in Calls,
         \A x \in Calls : x # c => pc'[x] = pc[x],
         pc'[c] \in {"waiting", "gone"} \/ pc[c] \notin {"waiting", "gone"} \/ c \in opening,
         opening' \subseteq opening
  PROVE  Queued'
<1> SUFFICES ASSUME NEW k \in Hosts, NEW i \in DOMAIN waiters'[k]
             PROVE  pc'[waiters'[k][i]] \in {"waiting", "gone"} /\ waiters'[k][i] \notin opening'
  BY QueuedKept
<1>1. PICK d \in Nat : \A n \in DOMAIN waiters'[k] :
        n + d \in DOMAIN waiters[k] /\ waiters'[k][n] = waiters[k][n + d]
  BY DEF Shorter
<1>2. waiters'[k][i] \in Calls
  BY DEF Shorter
<1>3. pc[waiters'[k][i]] \in {"waiting", "gone"} /\ waiters'[k][i] \notin opening
  BY <1>1 DEF Queued
<1> QED
  BY <1>2, <1>3

LEMMA HoldingOthers ==
  ASSUME PoolTypes, Holding, host' = host, h2' = h2, opening' \subseteq opening, NEW c \in Calls,
         \A x \in Calls : x # c => pc'[x] = pc[x] /\ has'[x] = has[x],
         pc'[c] = pc[c] \/ pc'[c] # "new", pc'[c] \in {"new", "waiting"} => has'[c] = None,
         has'[c] = has[c] \/ has'[c] = None \/ has'[c] = Plain
  PROVE  Holding'
<1>1. \A x \in Calls : pc'[x] \in {"new", "waiting"} => has'[x] = None
  BY DEF Holding
<1>2. \A x \in Calls : pc'[x] = "new" => x \notin opening'
  BY DEF Holding
<1>3. ASSUME NEW k \in Hosts, NEW x \in Calls, has'[x] \in h2'[k] PROVE host'[x] = k
  <2>1. None \notin h2[k] /\ Plain \notin h2[k]
    BY PoolAssumption DEF PoolTypes
  <2>2. has'[x] = has[x]
    BY <2>1, <1>3
  <2> QED
    BY <2>2, <1>3 DEF Holding
<1>4. \A k, q \in Hosts : k # q => h2'[k] \cap h2'[q] = {}
  BY DEF Holding
<1> QED
  BY <1>1, <1>2, <1>3, <1>4 DEF Holding

\* The support task is woken unless nobody waits.
LEMMA WokenServes == ASSUME PoolTypes, CheckAvailability \/ OnCapacity PROVE Served'
<1> SUFFICES ASSUME ~token' PROVE \A k \in Hosts : waiters'[k] = <<>>
  <2>1. \A k \in Hosts : waiters'[k] = <<>> => ~LiveWaiter(k)'
    BY DEF LiveWaiter
  <2> QED
    BY <2>1 DEF Served
<1>1. ~AnyWaiter(waiters')
  BY DEF CheckAvailability, OnCapacity
<1> QED
  BY <1>1 DEF AnyWaiter

\* Nothing that acquire() looks at changes.
LEMMA ServedSame ==
  ASSUME PoolTypes, Served,
         UNCHANGED <<host, has, stopped, acquired, available, h2, connecting, waiters, streams,
                     token, scan>>,
         \A s \in Shared : peer'[s] = "closed" <=> peer[s] = "closed",
         \A x \in Calls : pc[x] = "gone" => pc'[x] = "gone"
  PROVE  Served'
<1> SUFFICES ASSUME ~token, ~stopped, NEW k \in Hosts, LiveWaiter(k)',
                    \A i \in DOMAIN scan : scan[i] # k
             PROVE  Blocked(k)'
  BY DEF Served
<1>1. LiveWaiter(k)
  <2>1. PICK i \in DOMAIN waiters[k] : pc'[waiters[k][i]] # "gone"
    BY DEF LiveWaiter
  <2>2. waiters[k][i] \in Calls
    BY DEF PoolTypes
  <2> QED
    BY <2>1, <2>2 DEF LiveWaiter
<1>2. Blocked(k)
  BY <1>1 DEF Served
<1>3. {s \in h2[k] : peer'[s] # "closed"} = {s \in h2[k] : peer[s] # "closed"}
  BY DEF PoolTypes
<1>4. \A x \in Calls : has[x] \in Shared /\ peer[has[x]] = "closed" => peer'[has[x]] = "closed"
  OBVIOUS
<1> QED
  BY <1>2, <1>3, <1>4 DEF Blocked, Saturated, AtLimit

-----------------------------------------------------------------------------
(* Attempts to open a connection *)

LEMMA AnswerFacts ==
  ASSUME PoolTypes, Holding, NEW c \in Calls, NEW x \in Shared \cup {None, Plain}, SendAnswer(c, x)
  PROVE  /\ pc' \in [Calls -> Phases] /\ has' \in [Calls -> Shared \cup {None, Plain}]
         /\ \A y \in Calls : y # c => pc'[y] = pc[y] /\ has'[y] = has[y]
         /\ pc[c] = "waiting" =>
              has[c] = None /\ has' = [has EXCEPT ![c] = x] /\ pc'[c] = "delivered"
         /\ pc[c] # "waiting" => has' = has /\ pc' = pc
<1>1. CASE pc[c] = "waiting"
  BY <1>1 DEF SendAnswer, PoolTypes, Phases, Holding
<1>2. CASE pc[c] # "waiting"
  BY <1>2 DEF SendAnswer, PoolTypes
<1> QED
  BY <1>1, <1>2

LEMMA EndOpenFacts ==
  ASSUME PoolTypes, NEW c \in Calls, EndOpen(c)
  PROVE  /\ opening' \in SUBSET Calls /\ opening' \subseteq opening /\ c \in opening
         /\ connecting' \in SUBSET Hosts /\ host' \in [Calls -> Hosts] /\ host' = host
         /\ stopped' \in BOOLEAN /\ token' \in BOOLEAN /\ scan' \in Seq(Hosts)
         /\ waiters' \in [Hosts -> Seq(Calls)] /\ Shorter /\ Served'
<1>1. CheckAvailability
  BY DEF EndOpen
<1>2. Shorter /\ Served'
  BY <1>1, CleanedShorter, WokenServes
<1>3. token' \in BOOLEAN
  BY <1>1 DEF CheckAvailability
<1> QED
  BY <1>2, <1>3 DEF EndOpen, PoolTypes, Shorter

LEMMA OpenFailsKeeps == ASSUME PoolInv, NEW c \in Calls, OpenFails(c) PROVE PoolInv'
<1>1. PoolTypes /\ Queued /\ Holding /\ Counts /\ EndOpen(c) /\ SendAnswer(c, None)
  BY DEF PoolInv, OpenFails
<1>2. UNCHANGED <<acquired, available, h2, peer, streams>>
  BY DEF OpenFails
<1>3. has' = has
  <2>1. pc[c] = "waiting" => has[c] = None
    BY <1>1 DEF Holding
  <2> QED
    BY <1>1, <2>1 DEF SendAnswer, PoolTypes
<1>4. PoolTypes'
  BY <1>1, <1>2, AnswerFacts, EndOpenFacts DEF PoolTypes
<1>5. Queued'
  BY <1>1, AnswerFacts, EndOpenFacts, QueuedOthers
<1>6. Holding'
  BY <1>1, <1>2, <1>3, AnswerFacts, EndOpenFacts, HoldingOthers DEF Holding
<1>7. Counts'
  BY <1>1, <1>2, <1>3 DEF Counts
<1> QED
  BY <1>1, <1>4, <1>5, <1>6, <1>7, EndOpenFacts DEF PoolInv

LEMMA OpensPlainKeeps == ASSUME PoolInv, NEW c \in Calls, OpensPlain(c) PROVE PoolInv'
<1>1. PoolTypes /\ Queued /\ Holding /\ Counts /\ EndOpen(c) /\ SendAnswer(c, Plain)
  BY DEF PoolInv, OpensPlain
<1>2. UNCHANGED <<h2, peer, streams>> /\ host[c] \in Hosts /\ acquired \in Nat
  BY <1>1 DEF OpensPlain, PoolTypes
<1>3. acquired' \in Nat /\ available' \in [Hosts -> Nat]
  <2>1. acquired' \in {acquired, acquired + 1}
    BY DEF OpensPlain
  <2>2. available' = available
        \/ \E n \in {0, 1} : available' = [available EXCEPT ![host[c]] = @ + n]
    BY DEF OpensPlain
  <2>3. available \in [Hosts -> Nat]
    BY <1>1 DEF PoolTypes
  <2> QED
    BY <1>2, <2>1, <2>2, <2>3
<1>4. PoolTypes'
  BY <1>1, <1>2, <1>3, AnswerFacts, EndOpenFacts DEF PoolTypes
<1>5. Queued'
  BY <1>1, AnswerFacts, EndOpenFacts, QueuedOthers
<1>6. Holding'
  <2>1. has'[c] = has[c] \/ has'[c] = Plain
    BY <1>1, AnswerFacts DEF PoolTypes
  <2>2. pc'[c] \in {"new", "waiting"} => has'[c] = None
    BY <1>1, AnswerFacts DEF Holding
  <2>3. pc'[c] = pc[c] \/ pc'[c] # "new"
    BY <1>1, AnswerFacts
  <2> QED
    BY <1>1, <1>2, <2>1, <2>2, <2>3, AnswerFacts, EndOpenFacts, HoldingOthers
<1>7. Counts'
  <2>1. CASE pc[c] = "waiting"
    <3>1. acquired' = acquired + 1 /\ has[c] = None /\ has' = [has EXCEPT ![c] = Plain]
      BY <1>1, <2>1, AnswerFacts DEF OpensPlain
    <3>2. /\ InUse(Plain, acquired', streams') = InUse(Plain, acquired, streams) + 1
          /\ \A y \in Shared \cup {Plain} :
               y # Plain => InUse(y, acquired', streams') = InUse(y, acquired, streams)
      BY <1>2, <3>1 DEF InUse
    <3>3. Counted(acquired', streams', has')
      BY <1>1, <3>1, <3>2, Gains DEF Counts
    <3> QED
      BY <1>1, <1>2, <3>3 DEF Counts
  <2>2. CASE pc[c] # "waiting"
    <3>1. acquired' = acquired /\ has' = has
      BY <1>1, <2>2, AnswerFacts DEF OpensPlain
    <3> QED
      BY <1>1, <1>2, <3>1 DEF Counts
  <2> QED
    BY <2>1, <2>2
<1> QED
  BY <1>1, <1>4, <1>5, <1>6, <1>7, EndOpenFacts DEF PoolInv

LEMMA UnusedFacts ==
  ASSUME NEW s \in Unused
  PROVE  s \in Shared /\ streams[s] = 0 /\ \A k \in Hosts : s \notin h2[k]
<1> DEFINE free == {x \in Shared : streams[x] = 0 /\ \A k \in Hosts : x \notin h2[k]}
<1>1. free # {} /\ s = CHOOSE x \in free : TRUE
  BY DEF Unused
<1>2. s \in free
  <2> HIDE DEF free
  <2> QED
    BY <1>1, Zenon
<1> QED
  BY <1>2

LEMMA OpensSharedKeeps == ASSUME PoolInv, NEW c \in Calls, OpensShared(c) PROVE PoolInv'
<1>1. PICK s \in Unused, p \in {"open", "refusing"} :
        /\ h2' = [h2 EXCEPT ![host[c]] = @ \cup {s}]
        /\ peer' = [peer EXCEPT ![s] = p]
        /\ streams' = [streams EXCEPT ![s] = IF p = "open" /\ pc[c] = "waiting" THEN 1 ELSE 0]
        /\ SendAnswer(c, IF p = "open" THEN s ELSE None)
  BY DEF OpensShared
<1> DEFINE x == IF p = "open" THEN s ELSE None
<1>2. PoolTypes /\ Queued /\ Holding /\ Counts /\ EndOpen(c) /\ SendAnswer(c, x)
  BY <1>1 DEF PoolInv, OpensShared
<1>3. s \in Shared /\ streams[s] = 0 /\ \A k \in Hosts : s \notin h2[k]
  BY UnusedFacts
<1>4. UNCHANGED <<acquired, available>> /\ host[c] \in Hosts /\ x \in Shared \cup {None, Plain}
  BY <1>2, <1>3 DEF OpensShared, PoolTypes
<1>5. \A d \in Calls : has[d] # s
  <2> SUFFICES ASSUME NEW d \in Calls, has[d] = s PROVE FALSE
    OBVIOUS
  <2>1. InUse(s, acquired, streams) > 0
    BY <1>2, <1>3, HeldCounts DEF Counts
  <2> QED
    BY <2>1, <1>3, PoolAssumption DEF InUse
<1> HIDE DEF x
<1>6. PoolTypes'
  <2>1. h2' \in [Hosts -> SUBSET Shared] /\ streams' \in [Shared -> Nat]
    BY <1>1, <1>2, <1>3, <1>4 DEF PoolTypes
  <2>2. peer' \in [Shared -> {"open", "refusing", "closed"}]
    BY <1>1, <1>2, <1>3 DEF PoolTypes
  <2> QED
    BY <1>2, <1>4, <2>1, <2>2, AnswerFacts, EndOpenFacts DEF PoolTypes
<1>7. Queued'
  BY <1>2, <1>4, AnswerFacts, EndOpenFacts, QueuedOthers
<1>8. /\ \A d \in Calls : d # c => pc'[d] = pc[d] /\ has'[d] = has[d]
      /\ pc[c] = "waiting" => has[c] = None /\ has' = [has EXCEPT ![c] = x] /\ pc'[c] = "delivered"
      /\ pc[c] # "waiting" => has' = has /\ pc' = pc
  BY <1>2, <1>4, AnswerFacts
<1>9. opening' \subseteq opening /\ host' = host
  BY <1>2, EndOpenFacts
<1>10. Holding'
  <2>1. \A d \in Calls : pc'[d] \in {"new", "waiting"} => has'[d] = None
    BY <1>2, <1>8 DEF Holding
  <2>2. \A d \in Calls : pc'[d] = "new" => d \notin opening'
    BY <1>2, <1>8, <1>9 DEF Holding
  <2>3. \A k \in Hosts : h2'[k] = IF k = host[c] THEN h2[k] \cup {s} ELSE h2[k]
    BY <1>1, <1>2 DEF PoolTypes
  <2>4. ASSUME NEW k \in Hosts, NEW d \in Calls, has'[d] \in h2'[k] PROVE host'[d] = k
    <3>1. CASE has'[d] = has[d]
      <4>1. has[d] \in h2[k]
        BY <3>1, <2>3, <2>4, <1>5
      <4> QED
        BY <4>1, <1>2, <1>9 DEF Holding
    <3>2. CASE has'[d] # has[d]
      <4>1. d = c /\ has'[d] = x
        BY <3>2, <1>2, <1>8 DEF PoolTypes
      <4>2. None \notin h2'[k]
        BY <1>6, PoolAssumption DEF PoolTypes
      <4>3. has'[d] = s
        BY <4>1, <4>2, <2>4 DEF x
      <4> QED
        BY <4>1, <4>3, <2>3, <2>4, <1>3, <1>9
    <3> QED
      BY <3>1, <3>2
  <2>5. ASSUME NEW k \in Hosts, NEW q \in Hosts, k # q PROVE h2'[k] \cap h2'[q] = {}
    <3>1. h2[k] \cap h2[q] = {} /\ s \notin h2[k] /\ s \notin h2[q]
      BY <2>5, <1>2, <1>3 DEF Holding
    <3>2. /\ h2'[k] = IF k = host[c] THEN h2[k] \cup {s} ELSE h2[k]
          /\ h2'[q] = IF q = host[c] THEN h2[q] \cup {s} ELSE h2[q]
      BY <2>3
    <3> QED
      BY <2>5, <3>1, <3>2
  <2> QED
    BY <2>1, <2>2, <2>4, <2>5 DEF Holding
<1>11. Counts'
  <2>1. \A y \in Shared : streams'[y] <= MaxStreams
    BY <1>1, <1>2, PoolAssumption DEF Counts, PoolTypes
  <2>2. CASE p = "open" /\ pc[c] = "waiting"
    <3>1. has[c] = None /\ has' = [has EXCEPT ![c] = s]
      BY <1>8, <2>2 DEF x
    <3>2. streams'[s] = 1 /\ \A y \in Shared : y # s => streams'[y] = streams[y]
      BY <1>1, <1>2, <1>3, <2>2 DEF PoolTypes
    <3>3. /\ InUse(s, acquired', streams') = InUse(s, acquired, streams) + 1
          /\ \A y \in Shared \cup {Plain} :
               y # s => InUse(y, acquired', streams') = InUse(y, acquired, streams)
      BY <1>3, <1>4, <3>2, PoolAssumption DEF InUse
    <3>4. Counted(acquired', streams', has')
      BY <1>2, <1>3, <3>1, <3>3, Gains DEF Counts
    <3> QED
      BY <2>1, <3>4 DEF Counts
  <2>3. CASE ~(p = "open" /\ pc[c] = "waiting")
    <3>1. has' = has
      <4>1. CASE pc[c] = "waiting"
        BY <4>1, <1>2, <1>8, <2>3 DEF x, PoolTypes
      <4>2. CASE pc[c] # "waiting"
        BY <4>2, <1>8
      <4> QED
        BY <4>1, <4>2
    <3>2. streams' = streams
      BY <1>1, <1>2, <1>3, <2>3 DEF PoolTypes
    <3> QED
      BY <1>2, <1>4, <3>1, <3>2 DEF Counts
  <2> QED
    BY <2>2, <2>3
<1> QED
  BY <1>2, <1>6, <1>7, <1>10, <1>11, EndOpenFacts DEF PoolInv

-----------------------------------------------------------------------------
(* The caller, the peers, the stop *)

LEMMA CallStoppedKeeps == ASSUME PoolInv, NEW c \in Calls, CallStopped(c) PROVE PoolInv'
<1>1. PoolTypes /\ Queued /\ Holding /\ Counts
  BY DEF PoolInv
<1>2. /\ pc[c] = "new" /\ stopped' /\ pc' = [pc EXCEPT ![c] = "over"] /\ Shorter
      /\ UNCHANGED <<host, has, opening, stopped, acquired, available, h2, connecting, waiters,
                     peer, streams, token, scan>>
  BY <1>1, UnchangedShorter DEF CallStopped
<1>3. pc' \in [Calls -> Phases] /\ pc'[c] = "over" /\ \A x \in Calls : x # c => pc'[x] = pc[x]
  BY <1>1, <1>2 DEF PoolTypes, Phases
<1>4. PoolTypes'
  BY <1>1, <1>2, <1>3 DEF PoolTypes
<1>5. Queued'
  BY <1>1, <1>2, <1>3, QueuedOthers
<1>6. Holding'
  BY <1>1, <1>2, <1>3, HoldingOthers
<1>7. Counts' /\ Served'
  BY <1>1, <1>2 DEF Counts, Served
<1> QED
  BY <1>4, <1>5, <1>6, <1>7 DEF PoolInv

LEMMA ReceiveKeeps == ASSUME PoolInv, NEW c \in Calls, Receive(c) PROVE PoolInv'
<1>1. PoolTypes /\ Queued /\ Holding /\ Counts /\ Served
  BY DEF PoolInv
<1>2. /\ pc[c] = "delivered" /\ Shorter
      /\ pc' = [pc EXCEPT ![c] = IF has[c] = None THEN "over" ELSE "using"]
      /\ UNCHANGED <<host, has, opening, stopped, acquired, available, h2, connecting, waiters,
                     peer, streams, token, scan>>
  BY <1>1, UnchangedShorter DEF Receive
<1>3. /\ pc' \in [Calls -> Phases] /\ pc'[c] \in {"over", "using"}
      /\ \A x \in Calls : x # c => pc'[x] = pc[x]
  BY <1>1, <1>2 DEF PoolTypes, Phases
<1>4. PoolTypes'
  BY <1>1, <1>2, <1>3 DEF PoolTypes
<1>5. Queued'
  BY <1>1, <1>2, <1>3, QueuedOthers
<1>6. Holding'
  BY <1>1, <1>2, <1>3, HoldingOthers
<1>7. Counts'
  BY <1>1, <1>2 DEF Counts
<1>8. Served'
  BY <1>1, <1>2, <1>3, ServedSame
<1> QED
  BY <1>4, <1>5, <1>6, <1>7, <1>8 DEF PoolInv

\* What a call gives back stops counting, and the support task is woken.
LEMMA GiveBackFacts ==
  ASSUME PoolInv, NEW c \in Calls, NEW reusable \in BOOLEAN, GiveBack(c, reusable),
         \A x \in Calls : pc[x] = "gone" => pc'[x] = "gone",
         UNCHANGED <<host, opening, stopped, h2, connecting, peer, scan>>
  PROVE  /\ has' \in [Calls -> Shared \cup {None, Plain}] /\ has'[c] = None
         /\ \A x \in Calls : x # c => has'[x] = has[x]
         /\ acquired' \in Nat /\ available' \in [Hosts -> Nat] /\ streams' \in [Shared -> Nat]
         /\ token' \in BOOLEAN /\ Shorter /\ Counts' /\ Served'
<1>1. PoolTypes /\ Counts /\ Counted(acquired, streams, has) /\ Served
  BY DEF PoolInv, Counts
<1>2. has' = [has EXCEPT ![c] = None]
  BY DEF GiveBack
<1>3. /\ has' \in [Calls -> Shared \cup {None, Plain}] /\ has'[c] = None
      /\ \A x \in Calls : x # c => has'[x] = has[x]
  BY <1>1, <1>2 DEF PoolTypes
<1>4. CASE has[c] = Plain /\ ReturnPlain(host[c], reusable)
  <2>1. acquired \in Nat /\ acquired > 0
    <3>1. InUse(Plain, acquired, streams) > 0
      BY <1>1, <1>4, HeldCounts
    <3> QED
      BY <1>1, <3>1 DEF InUse, PoolTypes
  <2>2. acquired' = acquired - 1 /\ streams' = streams /\ CheckAvailability
    BY <1>4 DEF ReturnPlain
  <2>3. available' \in [Hosts -> Nat]
    <3>1. available \in [Hosts -> Nat] /\ host[c] \in Hosts
      BY <1>1 DEF PoolTypes
    <3>2. available' = available \/ available' = [available EXCEPT ![host[c]] = @ + 1]
      BY <1>4, <3>1 DEF ReturnPlain
    <3> QED
      BY <3>1, <3>2
  <2>4. token' \in BOOLEAN /\ Shorter /\ Served'
    BY <1>1, <2>2, CleanedShorter, WokenServes DEF CheckAvailability
  <2>5. /\ InUse(Plain, acquired', streams') = InUse(Plain, acquired, streams) - 1
        /\ \A y \in Shared \cup {Plain} :
             y # Plain => InUse(y, acquired', streams') = InUse(y, acquired, streams)
    BY <2>2 DEF InUse
  <2>6. Counted(acquired', streams', has')
    BY <1>1, <1>2, <1>4, <2>5, Loses
  <2>7. Counts'
    BY <1>1, <2>2, <2>6 DEF Counts
  <2> QED
    BY <1>1, <1>3, <2>1, <2>2, <2>3, <2>4, <2>7 DEF PoolTypes
<1>5. CASE has[c] \in Shared /\ ReturnStream(has[c])
  <2> DEFINE s == has[c]
  <2>1. s \in Shared /\ s # Plain /\ streams \in [Shared -> Nat] /\ streams[s] > 0
    <3>1. s \in Shared /\ s # Plain
      BY <1>5, PoolAssumption
    <3>2. InUse(s, acquired, streams) > 0
      BY <1>1, <3>1, HeldCounts
    <3> QED
      BY <1>1, <3>1, <3>2 DEF InUse, PoolTypes
  <2>2. /\ streams' = [streams EXCEPT ![s] = @ - 1] /\ acquired' = acquired /\ available' = available
        /\ OnCapacity /\ waiters' = waiters
    BY <1>5 DEF ReturnStream, OnCapacity
  <2> HIDE DEF s
  <2>3. token' \in BOOLEAN /\ Shorter /\ Served'
    BY <1>1, <2>2, UnchangedShorter, WokenServes DEF OnCapacity
  <2>4. streams'[s] = streams[s] - 1 /\ \A y \in Shared : y # s => streams'[y] = streams[y]
    BY <2>1, <2>2
  <2>5. /\ InUse(s, acquired', streams') = InUse(s, acquired, streams) - 1
        /\ \A y \in Shared \cup {Plain} :
             y # s => InUse(y, acquired', streams') = InUse(y, acquired, streams)
    BY <2>1, <2>2, <2>4 DEF InUse
  <2>6. Counted(acquired', streams', has')
    <3>1. has[c] = s
      BY DEF s
    <3> QED
      BY <1>1, <1>2, <2>1, <2>5, <3>1, Loses
  <2>7. streams' \in [Shared -> Nat] /\ \A y \in Shared : streams'[y] <= streams[y]
    BY <2>1, <2>2
  <2>8. Counts'
    <3>1. \A y \in Shared : streams'[y] <= MaxStreams
      BY <1>1, <2>1, <2>7, PoolAssumption DEF Counts
    <3> QED
      BY <2>6, <3>1 DEF Counts
  <2> QED
    BY <1>1, <1>3, <2>2, <2>3, <2>7, <2>8 DEF PoolTypes
<1>6. CASE has[c] = None /\ UNCHANGED <<acquired, available, waiters, streams, token>>
  <2>1. has' = has
    BY <1>1, <1>2, <1>6 DEF PoolTypes
  <2>2. Shorter /\ Served'
    BY <1>1, <1>6, <2>1, UnchangedShorter, ServedSame
  <2> QED
    BY <1>1, <1>3, <1>6, <2>1, <2>2 DEF PoolTypes, Counts
<1> QED
  BY <1>4, <1>5, <1>6 DEF GiveBack

\* The request ends, or the future of the call is dropped.
LEMMA ReturnKeeps ==
  ASSUME PoolInv, NEW c \in Calls, NEW to \in {"over", "gone"}, NEW reusable \in BOOLEAN,
         pc[c] = "using" \/ to = "gone", pc[c] # "gone" \/ to = "gone",
         pc' = [pc EXCEPT ![c] = to], GiveBack(c, reusable),
         UNCHANGED <<host, opening, stopped, h2, connecting, peer, scan>>
  PROVE  PoolInv'
<1>1. PoolTypes /\ Queued /\ Holding
  BY DEF PoolInv
<1>2. pc' \in [Calls -> Phases] /\ pc'[c] = to /\ \A x \in Calls : x # c => pc'[x] = pc[x]
  BY <1>1 DEF PoolTypes, Phases
<1>3. /\ has' \in [Calls -> Shared \cup {None, Plain}] /\ has'[c] = None
      /\ \A x \in Calls : x # c => has'[x] = has[x]
      /\ acquired' \in Nat /\ available' \in [Hosts -> Nat] /\ streams' \in [Shared -> Nat]
      /\ token' \in BOOLEAN /\ Shorter /\ Counts' /\ Served'
  BY <1>2, GiveBackFacts
<1>4. PoolTypes'
  BY <1>1, <1>2, <1>3 DEF PoolTypes, Shorter
<1>5. Queued'
  BY <1>1, <1>2, <1>3, QueuedOthers
<1>6. Holding'
  BY <1>1, <1>2, <1>3, HoldingOthers
<1> QED
  BY <1>3, <1>4, <1>5, <1>6 DEF PoolInv

LEMMA FinishKeeps == ASSUME PoolInv, NEW c \in Calls, Finish(c) PROVE PoolInv'
<1>1. PICK reusable \in BOOLEAN : GiveBack(c, reusable)
  BY DEF Finish
<1>2. /\ pc[c] = "using" /\ pc' = [pc EXCEPT ![c] = "over"]
      /\ UNCHANGED <<host, opening, stopped, h2, connecting, peer, scan>>
  BY DEF Finish
<1> QED
  BY <1>1, <1>2, ReturnKeeps

LEMMA GiveUpKeeps == ASSUME PoolInv, NEW c \in Calls, GiveUp(c) PROVE PoolInv'
<1>1. /\ GiveBack(c, FALSE) /\ pc' = [pc EXCEPT ![c] = "gone"]
      /\ UNCHANGED <<host, opening, stopped, h2, connecting, peer, scan>>
  BY DEF GiveUp
<1> QED
  BY <1>1, ReturnKeeps

LEMMA PeerKeeps ==
  ASSUME PoolInv, NEW s \in Shared, PeerRefuses(s) \/ PeerCloses(s) PROVE PoolInv'
<1>1. PoolTypes /\ Queued /\ Holding /\ Counts /\ Served
  BY DEF PoolInv
<1>2. UNCHANGED <<host, pc, has, opening, stopped, acquired, available, h2, connecting,
                  waiters, streams, scan>>
  BY DEF PeerRefuses, PeerCloses, OnCapacity
<1>3. peer' \in [Shared -> {"open", "refusing", "closed"}] /\ token' \in BOOLEAN
  BY <1>1 DEF PoolTypes, PeerRefuses, PeerCloses, OnCapacity
<1>4. PoolTypes'
  BY <1>1, <1>2, <1>3 DEF PoolTypes
<1>5. Queued' /\ Holding' /\ Counts'
  BY <1>1, <1>2 DEF Queued, Holding, Counts
<1>6. Served'
  <2>1. CASE PeerCloses(s)
    BY <1>1, <2>1, WokenServes DEF PeerCloses
  <2>2. CASE PeerRefuses(s)
    <3>1. \A x \in Shared : peer'[x] = "closed" <=> peer[x] = "closed"
      BY <1>1, <2>2 DEF PeerRefuses, PoolTypes
    <3>2. token' = token
      BY <2>2 DEF PeerRefuses
    <3> QED
      BY <1>1, <1>2, <3>1, <3>2, ServedSame
  <2> QED
    BY <2>1, <2>2
<1> QED
  BY <1>4, <1>5, <1>6 DEF PoolInv

LEMMA StopKeeps == ASSUME PoolInv, Stop PROVE PoolInv'
<1>1. PoolTypes /\ Queued /\ Holding /\ Counts
  BY DEF PoolInv
<1> DEFINE queued == UNION {Range(waiters[k]) : k \in Hosts}
<1>2. /\ pc' = [c \in Calls |-> IF c \in queued /\ pc[c] = "waiting" THEN "delivered" ELSE pc[c]]
      /\ waiters' = [k \in Hosts |-> <<>>]
      /\ available' = [k \in Hosts |-> 0] /\ h2' = [k \in Hosts |-> {}]
      /\ peer' = Closed(UNION {h2[k] : k \in Hosts})
      /\ token' = TRUE /\ UNCHANGED <<host, has, opening, acquired, connecting, streams, scan>>
      /\ stopped' = TRUE
  BY DEF Stop
<1> HIDE DEF queued
<1>3. pc' \in [Calls -> Phases]
  BY <1>1, <1>2 DEF PoolTypes, Phases
<1>4. waiters' \in [Hosts -> Seq(Calls)] /\ \A k \in Hosts : DOMAIN waiters'[k] = {}
  BY <1>2
<1>5. available' \in [Hosts -> Nat] /\ h2' \in [Hosts -> SUBSET Shared]
      /\ peer' \in [Shared -> {"open", "refusing", "closed"}]
  BY <1>1, <1>2 DEF Closed, PoolTypes
<1>6. PoolTypes'
  BY <1>1, <1>2, <1>3, <1>4, <1>5 DEF PoolTypes
<1>7. Queued'
  BY <1>4 DEF Queued
<1>8. Holding'
  BY <1>1, <1>2 DEF Holding
<1>9. Counts' /\ Served'
  BY <1>1, <1>2 DEF Counts, Served
<1> QED
  BY <1>6, <1>7, <1>8, <1>9 DEF PoolInv

-----------------------------------------------------------------------------
(* Calls and the support task *)

LEMMA CallKeeps == ASSUME PoolInv, NEW c \in Calls, Call(c) PROVE PoolInv'
<1>1. PoolTypes /\ Queued /\ Holding /\ Counts /\ Served
  BY DEF PoolInv
<1> DEFINE k == host[c]
<1>2. PICK r \in Acquire(k) :
        /\ Taken(k, r)
        /\ \/ (Grant(c, r, "using") \/ Open(c, r)) /\ UNCHANGED waiters
           \/ /\ r.conn = None /\ ~r.open
              /\ waiters' = [waiters EXCEPT ![k] = Append(@, c)]
              /\ pc' = [pc EXCEPT ![c] = "waiting"]
              /\ UNCHANGED <<has, opening, connecting>>
  BY DEF Call
<1>3. k \in Hosts /\ pc[c] = "new" /\ scan = <<>> /\ UNCHANGED <<host, stopped, token, scan>>
  BY <1>1 DEF Call, Quiet, PoolTypes
<1>4. has[c] = None /\ c \notin opening
  BY <1>1, <1>3 DEF Holding
<1>5. Takes(c, k, r)
  BY <1>2, <1>3, <1>4 DEF Takes, Grant, Open
<1> HIDE DEF k
<1>6. /\ has' \in [Calls -> Shared \cup {None, Plain}] /\ acquired' \in Nat
      /\ available' \in [Hosts -> Nat] /\ h2' \in [Hosts -> SUBSET Shared]
      /\ peer' \in [Shared -> {"open", "refusing", "closed"}] /\ streams' \in [Shared -> Nat]
  BY <1>1, <1>3, <1>5, TakesTypes
<1>7. \A x \in Calls : x # c => has'[x] = has[x]
  BY <1>1, <1>3, <1>5, TakesChanges
<1>8. /\ pc' \in [Calls -> Phases] /\ \A x \in Calls : x # c => pc'[x] = pc[x]
      /\ pc'[c] \in {"using", "waiting"} /\ (pc'[c] = "waiting" => has' = has)
  BY <1>1, <1>2 DEF Grant, Open, PoolTypes, Phases
<1>9. opening' \in SUBSET Calls /\ connecting' \in SUBSET Hosts /\ opening' \subseteq opening \cup {c}
  BY <1>1, <1>2, <1>3 DEF Grant, Open, PoolTypes, k
<1>10. waiters' \in [Hosts -> Seq(Calls)]
  <2>1. waiters \in [Hosts -> Seq(Calls)] /\ Append(waiters[k], c) \in Seq(Calls)
    BY <1>1, <1>3 DEF PoolTypes
  <2>2. waiters' = waiters \/ waiters' = [waiters EXCEPT ![k] = Append(waiters[k], c)]
    BY <1>2
  <2> QED
    BY <2>1, <2>2
<1>11. PoolTypes'
  BY <1>1, <1>3, <1>6, <1>8, <1>9, <1>10 DEF PoolTypes
<1>12. Counts'
  BY <1>1, <1>3, <1>5, TakesCounts
<1>13. Holding'
  <2>1. \A x \in Calls : pc'[x] \in {"new", "waiting"} => has'[x] = None
    BY <1>1, <1>4, <1>7, <1>8 DEF Holding
  <2>2. \A x \in Calls : pc'[x] = "new" => x \notin opening'
    BY <1>1, <1>8, <1>9 DEF Holding
  <2> QED
    BY <1>1, <1>3, <1>5, <2>1, <2>2, TakesHolding DEF Holding
<1>14. \A q \in Hosts : \A i \in DOMAIN waiters[q] : waiters[q][i] \in Calls /\ waiters[q][i] # c
  <2> SUFFICES ASSUME NEW q \in Hosts, NEW i \in DOMAIN waiters[q]
               PROVE  waiters[q][i] \in Calls /\ waiters[q][i] # c
    OBVIOUS
  <2>1. waiters[q] \in Seq(Calls)
    BY <1>1 DEF PoolTypes
  <2>2. pc[waiters[q][i]] \in {"waiting", "gone"}
    BY <1>1 DEF Queued
  <2> QED
    BY <2>1, <2>2, <1>3
<1>15. CASE waiters' = waiters
  <2>1. Queued'
    <3>1. Shorter
      BY <1>1, <1>15, UnchangedShorter
    <3>2. \A q \in Hosts : \A i \in DOMAIN waiters'[q] :
            pc'[waiters'[q][i]] \in {"waiting", "gone"} /\ waiters'[q][i] \notin opening'
      BY <1>1, <1>8, <1>9, <1>14, <1>15 DEF Queued
    <3> QED
      BY <1>1, <1>3, <3>1, <3>2, QueuedKept
  <2>2. Served'
    <3> SUFFICES ASSUME ~token, ~stopped, NEW q \in Hosts, LiveWaiter(q)' PROVE Blocked(q)'
      BY <1>3 DEF Served
    <3>1. LiveWaiter(q)
      BY <1>8, <1>14, <1>15 DEF LiveWaiter
    <3>2. Blocked(q)
      BY <1>1, <1>3, <3>1 DEF Served
    <3> QED
      BY <1>1, <1>3, <1>5, <3>2, BlockedStays
  <2> QED
    BY <1>11, <1>12, <1>13, <2>1, <2>2 DEF PoolInv
<1>16. CASE /\ r.conn = None /\ ~r.open
            /\ waiters' = [waiters EXCEPT ![k] = Append(@, c)]
            /\ pc' = [pc EXCEPT ![c] = "waiting"]
            /\ UNCHANGED <<has, opening, connecting>>
  <2>1. \A q \in Hosts : q # k => waiters'[q] = waiters[q]
    BY <1>1, <1>16 DEF PoolTypes
  <2>2. /\ waiters[k] \in Seq(Calls) /\ waiters'[k] \in Seq(Calls)
        /\ Len(waiters'[k]) = Len(waiters[k]) + 1 /\ waiters'[k][Len(waiters[k]) + 1] = c
        /\ \A i \in 1..Len(waiters[k]) : waiters'[k][i] = waiters[k][i]
    BY <1>1, <1>3, <1>16 DEF PoolTypes
  <2>3. /\ DOMAIN waiters[k] = 1..Len(waiters[k]) /\ Len(waiters[k]) \in Nat
        /\ DOMAIN waiters'[k] = 1..(Len(waiters[k]) + 1)
    BY <2>2
  <2>4. Queued'
    <3> SUFFICES ASSUME NEW q \in Hosts, NEW i \in DOMAIN waiters'[q], NEW j \in DOMAIN waiters'[q]
                 PROVE  /\ host[waiters'[q][i]] = q /\ pc'[waiters'[q][i]] \in {"waiting", "gone"}
                        /\ waiters'[q][i] \notin opening
                        /\ i # j => waiters'[q][i] # waiters'[q][j]
      BY <1>3, <1>16 DEF Queued
    <3>1. CASE q # k
      BY <3>1, <2>1, <1>1, <1>8, <1>14 DEF Queued
    <3>2. CASE q = k
      <4>1. \A n \in DOMAIN waiters'[k] :
              \/ n \in DOMAIN waiters[k] /\ waiters'[k][n] = waiters[k][n]
              \/ n = Len(waiters[k]) + 1 /\ waiters'[k][n] = c
        BY <2>2, <2>3
      <4>2. host[c] = k /\ pc'[c] = "waiting" /\ c \notin opening
        BY <1>1, <1>4, <1>16 DEF k, PoolTypes
      <4>3. CASE i \in DOMAIN waiters[k] /\ waiters'[k][i] = waiters[k][i]
        <5>1. /\ host[waiters[k][i]] = k /\ pc[waiters[k][i]] \in {"waiting", "gone"}
              /\ waiters[k][i] \notin opening /\ waiters[k][i] # c
              /\ \A n \in DOMAIN waiters[k] : i # n => waiters[k][i] # waiters[k][n]
          BY <4>3, <1>1, <1>3, <1>14 DEF Queued
        <5> QED
          BY <3>2, <4>1, <4>3, <5>1, <1>3, <1>8, <1>14
      <4>4. CASE i = Len(waiters[k]) + 1 /\ waiters'[k][i] = c
        BY <3>2, <4>1, <4>2, <4>4, <1>3, <1>14
      <4> QED
        BY <3>2, <4>1, <4>3, <4>4
    <3> QED
      BY <3>1, <3>2
  <2>5. Served'
    <3> SUFFICES ASSUME ~token, ~stopped, NEW q \in Hosts, LiveWaiter(q)' PROVE Blocked(q)'
      BY <1>3 DEF Served
    <3>1. CASE q = k
      BY <3>1, <1>1, <1>3, <1>5, <1>16, BlockedNow
    <3>2. CASE q # k
      <4>1. LiveWaiter(q)
        BY <3>2, <2>1, <1>8, <1>14 DEF LiveWaiter
      <4>2. Blocked(q)
        BY <1>1, <1>3, <4>1 DEF Served
      <4> QED
        BY <1>1, <1>3, <1>5, <4>2, BlockedStays
    <3> QED
      BY <3>1, <3>2
  <2> QED
    BY <1>11, <1>12, <1>13, <2>4, <2>5 DEF PoolInv
<1> QED
  BY <1>2, <1>15, <1>16

LEMMA WakesKeeps == ASSUME PoolInv, PoolWakes PROVE PoolInv'
<1>1. PoolTypes /\ Queued /\ Holding /\ Counts
  BY DEF PoolInv
<1> DEFINE S == {k \in Hosts : waiters[k] # <<>>}
<1>2. /\ token' = FALSE /\ scan' \in SetToSeqs(S)
      /\ UNCHANGED <<host, pc, has, opening, stopped, acquired, available, h2, connecting,
                     waiters, peer, streams>>
  BY DEF PoolWakes
<1>3. scan' \in Seq(Hosts) /\ \A k \in S : \E i \in DOMAIN scan' : scan'[i] = k
  <2>1. S \in SUBSET Hosts
    OBVIOUS
  <2> HIDE DEF S
  <2> QED
    BY <1>2, <2>1, ScanFacts
<1>4. PoolTypes' /\ Queued' /\ Holding' /\ Counts'
  <2>1. PoolTypes'
    BY <1>1, <1>2, <1>3 DEF PoolTypes
  <2>2. Queued' /\ Holding' /\ Counts'
    BY <1>1, <1>2 DEF Queued, Holding, Counts
  <2> QED
    BY <2>1, <2>2
<1>5. Served'
  <2>1. \A k \in Hosts : LiveWaiter(k)' => k \in S
    BY <1>2 DEF LiveWaiter
  <2> QED
    BY <2>1, <1>3 DEF Served
<1> QED
  BY <1>4, <1>5 DEF PoolInv

\* The turns of the support task: the queue is empty, the first waiter is gone,
\* it gets a connection or an attempt, or it has to go on waiting.
LEMMA TurnKeeps == ASSUME PoolInv, PoolTurn PROVE PoolInv'
<1>1. PoolTypes /\ Queued /\ Holding /\ Counts /\ Served
  BY DEF PoolInv
<1> DEFINE k == Head(scan)
           w == waiters[k]
           c == Head(w)
<1>2. /\ k \in Hosts /\ scan # <<>> /\ w \in Seq(Calls) /\ Tail(scan) \in Seq(Hosts)
      /\ scan \in Seq(Hosts)
      /\ \A q \in Hosts : (\A i \in DOMAIN Tail(scan) : Tail(scan)[i] # q) =>
           q = k \/ \A i \in DOMAIN scan : scan[i] # q
  <2>1. scan \in Seq(Hosts) /\ scan # <<>>
    BY <1>1 DEF PoolTurn, Quiet, PoolTypes
  <2>2. k \in Hosts /\ Tail(scan) \in Seq(Hosts)
    BY <2>1
  <2>3. ASSUME NEW q \in Hosts, \A i \in DOMAIN Tail(scan) : Tail(scan)[i] # q,
               q # k, NEW i \in DOMAIN scan
        PROVE  scan[i] # q
    <3>1. CASE i = 1
      BY <3>1, <2>1, <2>3
    <3>2. CASE i # 1
      <4>1. i - 1 \in DOMAIN Tail(scan) /\ Tail(scan)[i - 1] = scan[i]
        BY <3>2, <2>1
      <4> QED
        BY <4>1, <2>3
    <3> QED
      BY <3>1, <3>2
  <2>4. w \in Seq(Calls)
    BY <1>1, <2>2 DEF PoolTypes
  <2> QED
    BY <2>1, <2>2, <2>3, <2>4
<1>3. UNCHANGED <<host, stopped, token>>
  BY DEF PoolTurn
<1>4. ASSUME w # <<>>
      PROVE  /\ c \in Calls /\ host[c] = k /\ pc[c] \in {"waiting", "gone"} /\ c \notin opening
             /\ Tail(w) \in Seq(Calls)
             /\ \A i \in DOMAIN Tail(w) : i + 1 \in DOMAIN w /\ Tail(w)[i] = w[i + 1]
             /\ \A i \in DOMAIN Tail(w) : Tail(w)[i] # c
  <2>1. 1 \in DOMAIN w /\ w[1] = c /\ c \in Calls
    BY <1>2, <1>4
  <2>2. /\ Tail(w) \in Seq(Calls)
        /\ \A i \in DOMAIN Tail(w) : i + 1 \in DOMAIN w /\ Tail(w)[i] = w[i + 1] /\ i + 1 # 1
    BY <1>2, <1>4
  <2>3. /\ host[c] = k /\ pc[c] \in {"waiting", "gone"} /\ c \notin opening
        /\ \A j \in DOMAIN w : 1 # j => w[j] # c
    BY <1>1, <1>2, <2>1 DEF Queued
  <2> QED
    BY <2>1, <2>2, <2>3
<1>5. ASSUME w # <<>>, Pop(k) PROVE Shorter
  <2>1. waiters' = [waiters EXCEPT ![k] = Tail(w)]
    BY <1>5 DEF Pop
  <2>2. waiters' \in [Hosts -> Seq(Calls)]
    BY <2>1, <1>1, <1>2, <1>4, <1>5 DEF PoolTypes
  <2>3. waiters'[k] = Tail(w) /\ \A q \in Hosts : q # k => waiters'[q] = waiters[q]
    BY <2>1, <1>1, <1>2 DEF PoolTypes
  <2>4. \E d \in Nat : \A i \in DOMAIN waiters'[k] :
          i + d \in DOMAIN waiters[k] /\ waiters'[k][i] = waiters[k][i + d]
    BY <2>3, <1>4, <1>5
  <2>5. ASSUME NEW q \in Hosts, q # k
        PROVE  \E d \in Nat : \A i \in DOMAIN waiters'[q] :
                 i + d \in DOMAIN waiters[q] /\ waiters'[q][i] = waiters[q][i + d]
    <3>1. waiters'[q] = waiters[q] /\ waiters[q] \in Seq(Calls)
      BY <2>3, <2>5, <1>1 DEF PoolTypes
    <3>2. \A i \in DOMAIN waiters[q] : i + 0 = i
      BY <3>1
    <3>3. \A i \in DOMAIN waiters'[q] : i + 0 \in DOMAIN waiters[q] /\ waiters'[q][i] = waiters[q][i + 0]
      BY <3>1, <3>2
    <3> QED
      BY <3>3
  <2> QED
    BY <2>2, <2>4, <2>5 DEF Shorter
<1>6. CASE /\ w = <<>> /\ scan' = Tail(scan)
           /\ UNCHANGED <<pc, has, opening, acquired, available, h2, connecting, waiters, peer,
                          streams>>
  <2>1. PoolTypes' /\ Queued' /\ Holding' /\ Counts'
    BY <1>1, <1>2, <1>3, <1>6 DEF PoolTypes, Queued, Holding, Counts
  <2>2. Served'
    <3> SUFFICES ASSUME ~token, ~stopped, NEW q \in Hosts, LiveWaiter(q),
                        \A i \in DOMAIN Tail(scan) : Tail(scan)[i] # q
                 PROVE  Blocked(q)
      BY <1>3, <1>6 DEF Served, LiveWaiter, Blocked, Saturated, AtLimit
    <3>1. q # k
      BY <1>6 DEF LiveWaiter
    <3> QED
      BY <3>1, <1>1, <1>2 DEF Served
  <2> QED
    BY <2>1, <2>2 DEF PoolInv
<1>7. CASE /\ w # <<>> /\ pc[c] = "gone" /\ Pop(k)
           /\ UNCHANGED <<pc, has, opening, acquired, available, h2, connecting, peer, streams,
                          scan>>
  <2>1. Shorter
    BY <1>5, <1>7
  <2>2. PoolTypes' /\ Holding' /\ Counts'
    BY <1>1, <1>3, <1>7, <2>1 DEF PoolTypes, Holding, Counts, Shorter
  <2>3. Queued'
    BY <1>1, <1>3, <1>4, <1>7, <2>1, QueuedOthers
  <2>4. Served'
    <3> SUFFICES ASSUME ~token, ~stopped, NEW q \in Hosts, LiveWaiter(q)',
                        \A i \in DOMAIN scan : scan[i] # q
                 PROVE  Blocked(q)
      BY <1>3, <1>7 DEF Served, Blocked, Saturated, AtLimit
    <3>1. LiveWaiter(q)
      BY <1>7, <2>1 DEF LiveWaiter, Shorter
    <3> QED
      BY <3>1, <1>1 DEF Served
  <2> QED
    BY <2>2, <2>3, <2>4 DEF PoolInv
<1>8. ASSUME w # <<>>, pc[c] # "gone", NEW r \in Acquire(k), Taken(k, r),
             \/ /\ Grant(c, r, "delivered") \/ Open(c, r)
                /\ Pop(k) /\ UNCHANGED scan
             \/ /\ r.conn = None /\ ~r.open
                /\ scan' = Tail(scan)
                /\ UNCHANGED <<pc, has, opening, connecting, waiters>>
      PROVE  PoolInv'
  <2>1. /\ c \in Calls /\ host[c] = k /\ pc[c] = "waiting" /\ has[c] = None /\ k \in Hosts
        /\ c \notin opening
    BY <1>1, <1>2, <1>4, <1>8 DEF Holding
  <2>2. Takes(c, k, r)
    BY <1>3, <1>8, <2>1 DEF Takes, Grant, Open
  <2>3. /\ has' \in [Calls -> Shared \cup {None, Plain}] /\ acquired' \in Nat
        /\ available' \in [Hosts -> Nat] /\ h2' \in [Hosts -> SUBSET Shared]
        /\ peer' \in [Shared -> {"open", "refusing", "closed"}] /\ streams' \in [Shared -> Nat]
    BY <1>1, <1>8, <2>1, <2>2, TakesTypes
  <2>4. Counts'
    BY <1>1, <1>8, <2>1, <2>2, TakesCounts
  <2>5. /\ \A q \in Hosts, d \in Calls : has'[d] \in h2'[q] => host'[d] = q
        /\ \A p, q \in Hosts : p # q => h2'[p] \cap h2'[q] = {}
    BY <1>1, <1>8, <2>1, <2>2, TakesHolding
  <2>6. \A d \in Calls : d # c => has'[d] = has[d]
    BY <1>1, <1>8, <2>1, <2>2, TakesChanges
  <2>7. CASE (Grant(c, r, "delivered") \/ Open(c, r)) /\ Pop(k) /\ UNCHANGED scan
    <3>1. Shorter
      BY <1>5, <1>8, <2>7
    <3>2. /\ pc' \in [Calls -> Phases] /\ \A x \in Calls : x # c => pc'[x] = pc[x]
          /\ pc'[c] \in {"delivered", "waiting"} /\ (pc'[c] = "waiting" => has' = has)
      BY <1>1, <2>1, <2>7 DEF Grant, Open, PoolTypes, Phases
    <3>3. /\ opening' \in SUBSET Calls /\ connecting' \in SUBSET Hosts
          /\ opening' \subseteq opening \cup {c}
      BY <1>1, <2>1, <2>7 DEF Grant, Open, PoolTypes
    <3>4. PoolTypes'
      BY <1>1, <1>3, <2>3, <2>7, <3>1, <3>2, <3>3 DEF PoolTypes, Shorter
    <3>5. Holding'
      <4>1. \A x \in Calls : pc'[x] \in {"new", "waiting"} => has'[x] = None
        BY <1>1, <2>1, <2>6, <3>2 DEF Holding
      <4>2. \A x \in Calls : pc'[x] = "new" => x \notin opening'
        BY <1>1, <3>2, <3>3 DEF Holding
      <4> QED
        BY <2>5, <4>1, <4>2 DEF Holding
    <3>6. waiters'[k] = Tail(w) /\ \A q \in Hosts : q # k => waiters'[q] = waiters[q]
      BY <1>1, <2>1, <2>7 DEF Pop, PoolTypes
    <3>7. Queued'
      <4> SUFFICES ASSUME NEW q \in Hosts, NEW i \in DOMAIN waiters'[q]
                   PROVE  pc'[waiters'[q][i]] \in {"waiting", "gone"} /\ waiters'[q][i] \notin opening'
        BY <1>1, <1>3, <3>1, QueuedKept
      <4>1. PICK d \in Nat : i + d \in DOMAIN waiters[q] /\ waiters'[q][i] = waiters[q][i + d]
        BY <3>1 DEF Shorter
      <4>2. /\ host[waiters'[q][i]] = q /\ pc[waiters'[q][i]] \in {"waiting", "gone"}
            /\ waiters'[q][i] \notin opening
        BY <4>1, <1>1 DEF Queued
      <4>3. waiters'[q][i] \in Calls
        BY <3>1 DEF Shorter
      <4>4. waiters'[q][i] # c
        <5>1. CASE q = k
          BY <5>1, <1>4, <1>8, <3>6
        <5>2. CASE q # k
          BY <5>2, <4>2, <2>1
        <5> QED
          BY <5>1, <5>2
      <4> QED
        BY <4>2, <4>3, <4>4, <3>2, <3>3
    <3>8. Served'
      <4> SUFFICES ASSUME ~token, ~stopped, NEW q \in Hosts, LiveWaiter(q)',
                          \A i \in DOMAIN scan : scan[i] # q
                   PROVE  Blocked(q)'
        BY <1>3, <2>7 DEF Served
      <4>1. q # k
        BY <1>2
      <4>2. LiveWaiter(q)
        <5>1. PICK i \in DOMAIN waiters[q] : pc'[waiters[q][i]] # "gone"
          BY <4>1, <3>6 DEF LiveWaiter
        <5>2. waiters[q][i] \in Calls
          BY <1>1 DEF PoolTypes
        <5>3. pc[waiters[q][i]] # "gone"
          BY <5>1, <5>2, <3>2, <1>8
        <5> QED
          BY <5>3 DEF LiveWaiter
      <4>3. Blocked(q)
        BY <1>1, <4>2 DEF Served
      <4> QED
        BY <4>3, <1>1, <1>8, <2>1, <2>2, BlockedStays
    <3> QED
      BY <2>4, <3>4, <3>5, <3>7, <3>8 DEF PoolInv
  <2>8. CASE /\ r.conn = None /\ ~r.open /\ scan' = Tail(scan)
             /\ UNCHANGED <<pc, has, opening, connecting, waiters>>
    <3>1. PoolTypes'
      BY <1>1, <1>2, <1>3, <2>3, <2>8 DEF PoolTypes
    <3>2. Queued'
      BY <1>1, <1>3, <2>8 DEF Queued
    <3>3. Holding'
      BY <1>1, <2>5, <2>8 DEF Holding
    <3>4. Served'
      <4> SUFFICES ASSUME ~token, ~stopped, NEW q \in Hosts, LiveWaiter(q),
                          \A i \in DOMAIN Tail(scan) : Tail(scan)[i] # q
                   PROVE  Blocked(q)'
        BY <1>3, <2>8 DEF Served, LiveWaiter
      <4>1. CASE q = k
        BY <4>1, <1>1, <1>8, <2>1, <2>2, <2>8, BlockedNow
      <4>2. CASE q # k
        <5>1. Blocked(q)
          BY <4>2, <1>1, <1>2 DEF Served
        <5> QED
          BY <5>1, <1>1, <1>8, <2>1, <2>2, BlockedStays
      <4> QED
        BY <4>1, <4>2
    <3> QED
      BY <2>4, <3>1, <3>2, <3>3, <3>4 DEF PoolInv
  <2> QED
    BY <1>8, <2>7, <2>8
<1> QED
  BY <1>6, <1>7, <1>8 DEF PoolTurn

-----------------------------------------------------------------------------
LEMMA PoolBegins == ASSUME PoolInit PROVE PoolInv
<1>1. PoolTypes
  <2>1. <<>> \in Seq(Calls) /\ <<>> \in Seq(Hosts)
    OBVIOUS
  <2>2. waiters \in [Hosts -> Seq(Calls)] /\ scan \in Seq(Hosts)
    BY <2>1 DEF PoolInit
  <2> QED
    BY <2>2 DEF PoolInit, PoolTypes, Phases
<1>2. Queued /\ Holding /\ Served
  BY PoolAssumption DEF PoolInit, Queued, Holding, Served, LiveWaiter
<1>3. Counts
  <2>1. \A x \in Shared \cup {Plain} : Holders(x, has) = {} /\ InUse(x, acquired, streams) = 0
    BY PoolAssumption DEF PoolInit, Holders, InUse, None, Plain
  <2>2. Counted(acquired, streams, has)
    BY <2>1, FS_EmptySet DEF Counted
  <2>3. \A s \in Shared : streams[s] <= MaxStreams
    BY PoolAssumption DEF PoolInit
  <2> QED
    BY <2>2, <2>3 DEF Counts
<1> QED
  BY <1>1, <1>2, <1>3 DEF PoolInv

LEMMA PoolStep == ASSUME PoolInv, [PoolNext]_poolVars PROVE PoolInv'
<1>1. CASE UNCHANGED poolVars
  <2>1. PoolTypes' /\ Queued' /\ Holding' /\ Counts'
    BY <1>1 DEF poolVars, PoolInv, PoolTypes, Queued, Holding, Counts
  <2>2. Served'
    BY <1>1, ServedSame DEF poolVars, PoolInv
  <2> QED
    BY <2>1, <2>2 DEF PoolInv
<1>2. CASE SupportTask \/ Stop
  BY <1>2, WakesKeeps, TurnKeeps, StopKeeps DEF SupportTask
<1>3. ASSUME NEW c \in Calls, Call(c) \/ CallStopped(c) \/ Progress(c) \/ GiveUp(c) PROVE PoolInv'
  BY <1>3, CallKeeps, CallStoppedKeeps, OpenFailsKeeps, OpensPlainKeeps, OpensSharedKeeps,
     ReceiveKeeps, FinishKeeps, GiveUpKeeps DEF Progress, OpenTask
<1>4. ASSUME NEW s \in Shared, PeerRefuses(s) \/ PeerCloses(s) PROVE PoolInv'
  BY <1>4, PeerKeeps
<1> QED
  BY <1>1, <1>2, <1>3, <1>4 DEF PoolNext

LEMMA PoolEnough == ASSUME PoolInv PROVE NoWaiterForgotten
BY DEF PoolInv, Served, NoWaiterForgotten, LiveWaiter, Quiet

\* While the support task sleeps no waiter could be served: acquire() would find
\* all connections of its host in full use, the pool at its limit or an attempt
\* under way, or somebody has yet to return a connection, which wakes the task
\* (acquire, check_availability, on_capacity, run_connection_pool).
THEOREM WaitersAreServed == PoolSpec => []NoWaiterForgotten
BY PoolBegins, PoolStep, PoolEnough, PTL DEF PoolSpec

\* The counters are exact: `acquired` is the number of callers that have a HTTP/1
\* connection, whatever becomes of them, and the streams of a HTTP/2 connection
\* are those that callers hold, never more than its limit (Acquired, OpenGuard,
\* H2Client::begin).
THEOREM UseIsCounted == PoolSpec => []Counts
<1>1. PoolInv => Counts
  BY DEF PoolInv
<1> QED
  BY <1>1, PoolBegins, PoolStep, PTL DEF PoolSpec

-----------------------------------------------------------------------------
(* Side by side. *)

LocalInv == CacheInv /\ WakeInv /\ PoolInv

LEMMA WakeIdle == ASSUME CacheInv, WakeInv, UNCHANGED vars PROVE (CacheInv /\ WakeInv)'
BY CacheStep, WakeStep

LEMMA PoolIdle == ASSUME PoolInv, UNCHANGED poolVars PROVE PoolInv'
BY PoolStep

\* Nobody sleeps through what it waits for, neither a caller with a pending check
\* (ReadinessScope::check) nor a call that waits for a connection (acquire,
\* check_availability, on_capacity).
THEOREM NobodyIsForgotten == LocalSpec => []NobodyForgotten
<1>1. LocalInit => LocalInv
  BY CacheInit, WakeInit, PoolBegins DEF LocalInit, LocalInv
<1>2. LocalInv /\ [LocalNext]_localVars => LocalInv'
  <2> SUFFICES ASSUME LocalInv, [LocalNext]_localVars PROVE LocalInv'
    OBVIOUS
  <2>1. CASE InReadiness /\ Next
    BY <2>1, CacheStep, WakeStep, PoolIdle DEF InReadiness, LocalInv
  <2>2. CASE InCallbacks
    BY <2>2, WakeIdle, PoolIdle DEF InCallbacks, LocalInv
  <2>3. CASE InPool /\ PoolNext
    BY <2>3, WakeIdle, PoolStep DEF InPool, LocalInv
  <2>4. CASE UNCHANGED localVars
    BY <2>4, WakeIdle, PoolIdle DEF localVars, LocalInv
  <2> QED
    BY <2>1, <2>2, <2>3, <2>4 DEF LocalNext
<1>3. LocalInv => NobodyForgotten
  BY WakeEnough, PoolEnough DEF LocalInv, NobodyForgotten
<1> QED
  BY <1>1, <1>2, <1>3, PTL DEF LocalSpec
=============================================================================
