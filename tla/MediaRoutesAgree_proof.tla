----------------------- MODULE MediaRoutesAgree_proof -----------------------
(* Between calls the routes are what the room says, for any number of users  *)
(* and transports: a proof of RoutesAgree.                                   *)
EXTENDS MediaRoutes_proof

\* Most leaves are first-order; those with arithmetic, records or sequences say SMT.
USE Zenon

\* The addresses of a subscriber are their own.
OwnAddresses(u, address) == \A k \in Kinds : address[k] \in {None, <<u, k>>}
Owned == \A u \in Users : sub[u] # None => OwnAddresses(u, sub[u].address)

\* No two streams have the same SSRC, and none has one that was not drawn.
Unique ==
    /\ \A u, v \in Users, k, j \in Kinds : pub[u][k] = pub[v][j] /\ pub[u][k] # 0 => u = v /\ k = j
    /\ \A u \in Users, k \in Kinds : pub[u][k] <= drawn

\* Steps the RPC thread may have before it: a subscriber has its own addresses,
\* routes are removed of what is no source any more, a new source is one.
Legal ==
    {x \in Item :
        /\ x.op = "addSubscriber" => OwnAddresses(x.user, x.new.address)
        /\ x.op = "removeRoutes" => x.ssrc \notin Sources
        /\ x.op = "bindPublisher" => x.ssrc = drawn /\ \A u \in Users, k \in Kinds : pub[u][k] # drawn}

\* A change of a subscriber is followed by a refresh; the publisher comes last.
Followed(w) ==
    \A i \in 1..Len(w) :
       /\ w[i].op \in {"addSubscriber", "set"} => i < Len(w) /\ w[i + 1] = RefreshRoom
       /\ w[i].op = "bindPublisher" => i = Len(w)

Orderly ==
    /\ \A i \in 1..Len(work["rpc"]) : work["rpc"][i] \in Legal
    /\ \A t \in Threads : Followed(work[t])

\* Calls are for a room, and without a room nobody publishes.
RoomOpen == room # "open" => Idle("rpc") /\ \A u \in Users, k \in Kinds : pub[u][k] = 0

Base == Owned /\ Unique /\ Orderly /\ RoomOpen

\* Steps that can be put in front of others.
Sound(a) == Followed(a) /\ \A i \in 1..Len(a) : a[i].op # "bindPublisher"

-----------------------------------------------------------------------------
(* What the RPC thread has before it *)

\* Replacing the first step leaves every change followed by its refresh.
LEMMA FollowedKept ==
    ASSUME NEW a \in Seq(Item), NEW w \in Seq(Item), w # <<>>, Sound(a), Followed(w)
    PROVE  Followed(a \o Tail(w))
<1> DEFINE n == a \o Tail(w)
<1>1. /\ Len(n) = Len(a) + Len(w) - 1 /\ Len(a) \in Nat /\ Len(w) \in Nat \ {0}
      /\ \A i \in 1..Len(a) : n[i] = a[i]
      /\ \A i \in 2..Len(w) : n[Len(a) + i - 1] = w[i]
      /\ \A i \in 1..Len(n) : i \notin 1..Len(a) =>
            i - Len(a) + 1 \in 2..Len(w) /\ n[i] = w[i - Len(a) + 1]
  BY Replaced, SMT
<1> HIDE DEF n
<1>2. ASSUME NEW i \in 1..Len(n)
      PROVE  /\ n[i].op \in {"addSubscriber", "set"} => i < Len(n) /\ n[i + 1] = RefreshRoom
             /\ n[i].op = "bindPublisher" => i = Len(n)
  <2>1. CASE i \in 1..Len(a)
    <3>1. n[i] = a[i] /\ (i < Len(a) => n[i + 1] = a[i + 1] /\ i < Len(n))
      <4>1. i < Len(a) => i + 1 \in 1..Len(a) /\ i < Len(n)
        BY <1>1, <2>1, SMT
      <4> QED
        BY <1>1, <2>1, <4>1
    <3>2. /\ a[i].op \in {"addSubscriber", "set"} => i < Len(a) /\ a[i + 1] = RefreshRoom
          /\ a[i].op # "bindPublisher"
      BY <2>1 DEF Sound, Followed
    <3> QED
      BY <3>1, <3>2
  <2>2. CASE i \notin 1..Len(a)
    <3>1. PICK j \in 2..Len(w) : j = i - Len(a) + 1 /\ n[i] = w[j]
      BY <1>1, <2>2
    <3>2. j < Len(w) => j + 1 \in 2..Len(w) /\ Len(a) + (j + 1) - 1 = i + 1 /\ i < Len(n)
      BY <1>1, <3>1, SMT
    <3>3. j < Len(w) => n[i + 1] = w[j + 1]
      BY <1>1, <3>2, SMT
    <3>4. j = Len(w) => i = Len(n)
      BY <1>1, <3>1, SMT
    <3>5. /\ w[j].op \in {"addSubscriber", "set"} => j < Len(w) /\ w[j + 1] = RefreshRoom
          /\ w[j].op = "bindPublisher" => j = Len(w)
      <4>1. j \in 1..Len(w)
        BY <3>1, SMT
      <4> QED
        BY <4>1 DEF Followed
    <3> QED
      BY <3>1, <3>2, <3>3, <3>4, <3>5
  <2> QED
    BY <2>1, <2>2
<1> QED
  BY <1>2 DEF Followed, n

\* A step that goes on with a call.
LEMMA OrderlyKept ==
    ASSUME Shape, Orderly, NEW t \in Threads, NEW a \in Seq(Item), ~Idle(t), Then(t, a), Sound(a),
           t = "rpc" => \A i \in 1..Len(a) : a[i] \in Legal',
           Legal \subseteq Legal' \/ (t = "rpc" /\ Len(work["rpc"]) = 1)
    PROVE  Orderly'
<1>1. /\ work[t] \in Seq(Item) /\ work[t] # <<>> /\ work'[t] = a \o Tail(work[t])
      /\ \A r \in Threads \ {t} : work'[r] = work[r]
  BY DEF Shape, Idle, Then
<1>2. ASSUME NEW r \in Threads PROVE Followed(work'[r])
  <2>1. CASE r = t
    BY <1>1, <2>1, FollowedKept DEF Orderly
  <2>2. CASE r # t
    BY <1>1, <2>2 DEF Orderly
  <2> QED
    BY <2>1, <2>2
<1>3. \A i \in 1..Len(work'["rpc"]) : work'["rpc"][i] \in Legal'
  <2>1. CASE t # "rpc"
    <3>1. work'["rpc"] = work["rpc"] /\ Legal \subseteq Legal'
      BY <1>1, <2>1 DEF Threads
    <3> QED
      BY <3>1 DEF Orderly
  <2>2. CASE t = "rpc"
    <3> DEFINE w == work["rpc"]
               n == a \o Tail(w)
    <3>1. /\ Len(n) = Len(a) + Len(w) - 1 /\ Len(a) \in Nat /\ Len(w) \in Nat \ {0}
          /\ \A i \in 1..Len(a) : n[i] = a[i]
          /\ \A i \in 1..Len(n) : i \notin 1..Len(a) =>
                i - Len(a) + 1 \in 2..Len(w) /\ n[i] = w[i - Len(a) + 1]
      BY <1>1, <2>2, Replaced, SMT
    <3>2. work'["rpc"] = n /\ \A j \in 1..Len(w) : w[j] \in Legal
      BY <1>1, <2>2 DEF Orderly
    <3> HIDE DEF n, w
    <3>3. ASSUME NEW i \in 1..Len(n) PROVE n[i] \in Legal'
      <4>1. CASE i \in 1..Len(a)
        BY <2>2, <3>1, <4>1
      <4>2. CASE i \notin 1..Len(a)
        <5>1. i - Len(a) + 1 \in 2..Len(w) /\ n[i] = w[i - Len(a) + 1]
          BY <3>1, <4>2
        <5>2. Legal \subseteq Legal' /\ i - Len(a) + 1 \in 1..Len(w)
          BY <3>1, <5>1, SMT DEF w
        <5> QED
          BY <3>2, <5>1, <5>2
      <4> QED
        BY <4>1, <4>2
    <3> QED
      BY <3>2, <3>3
  <2> QED
    BY <2>1, <2>2
<1> QED
  BY <1>2, <1>3 DEF Orderly

\* A step that begins a call.
LEMMA OrderlyBegun ==
    ASSUME Shape, Orderly, NEW t \in Threads, NEW a, Idle(t), work' = [work EXCEPT ![t] = a],
           Followed(a),
           t = "rpc" => \A i \in 1..Len(a) : a[i] \in Legal',
           t # "rpc" => Legal \subseteq Legal'
    PROVE  Orderly'
<1>1. work'[t] = a /\ \A r \in Threads \ {t} : work'[r] = work[r]
  BY DEF Shape
<1>2. \A r \in Threads : Followed(work'[r])
  BY <1>1 DEF Orderly
<1>3. \A i \in 1..Len(work'["rpc"]) : work'["rpc"][i] \in Legal'
  BY <1>1 DEF Orderly, Threads
<1> QED
  BY <1>2, <1>3 DEF Orderly

\* A step that leaves the work as it is, for an idle RPC thread.
LEMMA OrderlyIdle == ASSUME Shape, Orderly, UNCHANGED work, Idle("rpc") PROVE Orderly'
<1>1. Len(work'["rpc"]) = 0
  BY DEF Idle
<1> QED
  BY <1>1, SMT DEF Orderly

\* Legal depends on publishers_ and the SSRCs drawn.
LEMMA LegalSame == ASSUME UNCHANGED <<pub, drawn>> PROVE Legal' = Legal
<1>1. Sources' = Sources
  BY SourcesSame
<1> QED
  BY <1>1 DEF Legal

\* Most steps need not be followed by others.
LEMMA EasySteps ==
    ASSUME NEW a, \A i \in 1..Len(a) : a[i].op \notin {"addSubscriber", "set", "bindPublisher"}
    PROVE  Sound(a)
BY DEF Sound, Followed

\* A step of another kind is legal.
LEMMA EasyLegal ==
    ASSUME NEW x \in Item, x.op \notin {"addSubscriber", "removeRoutes", "bindPublisher"}
    PROVE  x \in Legal /\ x \in Legal'
BY DEF Legal

\* What comes after RoutesOff, and RoutesOff.
LEMMA OffSteps ==
    ASSUME NEW s \in 0..MaxSsrc, NEW b \in Seq(Item)
    PROVE  LET a == RoutesOff(s) \o b
               x == [op |-> "removeRoutes", ssrc |-> s]
           IN /\ a \in Seq(Item)
              /\ \A i \in 1..Len(a) : (s # 0 /\ a[i] = x) \/ \E j \in 1..Len(b) : a[i] = b[j]
              /\ \A j \in 1..Len(b) : \E i \in 1..Len(a) : a[i] = b[j]
<1> DEFINE o == RoutesOff(s)
           a == o \o b
           x == [op |-> "removeRoutes", ssrc |-> s]
<1>1. /\ o \in Seq(Item) /\ Len(o) \in {0, 1} /\ Len(b) \in Nat
      /\ Len(o) = 1 => s # 0 /\ o[1] = x
  <2>1. o \in Seq(Item) /\ Len(b) \in Nat
    BY RoutesOffItems, SeqLen
  <2>2. s = 0 => Len(o) = 0
    BY RoutesOffItems, NoItem
  <2>3. s # 0 => Len(o) = 1 /\ o[1] = x
    BY RoutesOffItems
  <2> HIDE DEF o, x
  <2>4. Len(o) \in {0, 1} /\ (Len(o) = 1 => s # 0)
    BY <2>2, <2>3, SMT
  <2> QED
    BY <2>1, <2>3, <2>4
<1>2. /\ a \in Seq(Item) /\ Len(a) = Len(o) + Len(b)
      /\ \A i \in 1..Len(a) : a[i] = IF i <= Len(o) THEN o[i] ELSE b[i - Len(o)]
  BY <1>1, SeqConcat
<1> HIDE DEF a, o, x
<1>3. ASSUME NEW i \in 1..Len(a)
      PROVE  (s # 0 /\ a[i] = x) \/ \E j \in 1..Len(b) : a[i] = b[j]
  <2>1. CASE i <= Len(o)
    <3>1. Len(o) = 1 /\ i = 1
      <4>1. CASE Len(o) = 0
        BY <1>1, <1>2, <2>1, <4>1, SMT
      <4>2. CASE Len(o) = 1
        BY <1>1, <1>2, <2>1, <4>2, SMT
      <4> QED
        BY <1>1, <4>1, <4>2
    <3> QED
      BY <1>1, <1>2, <2>1, <3>1
  <2>2. CASE ~(i <= Len(o))
    <3>1. i - Len(o) \in 1..Len(b)
      BY <1>1, <1>2, <2>2, SMT
    <3> QED
      BY <1>2, <2>2, <3>1
  <2> QED
    BY <2>1, <2>2
<1>4. ASSUME NEW j \in 1..Len(b)
      PROVE  \E i \in 1..Len(a) : a[i] = b[j]
  <2>1. j + Len(o) \in 1..Len(a) /\ ~(j + Len(o) <= Len(o)) /\ (j + Len(o)) - Len(o) = j
    BY <1>1, <1>2, SMT
  <2> QED
    BY <1>2, <2>1
<1> QED
  BY <1>2, <1>3, <1>4 DEF a, o, x

\* What is listed of a set is listed once.
LEMMA ListedOnce ==
    ASSUME NEW S, NEW list \in Orders(S)
    PROVE  /\ \A i, j \in 1..Len(list) : list[i] = list[j] => i = j
           /\ \A x \in S : \E i \in 1..Len(list) : list[i] = x
<1>1. DOMAIN list = 1..Len(list)
  BY Listing
<1>2. /\ IsInjective(list) /\ DOMAIN list = 1..Cardinality(S)
      /\ \A x \in S : \E i \in 1..Cardinality(S) : list[i] = x
  BY DEF Orders, Bijection, Injection, Surjection
<1> QED
  BY <1>1, <1>2 DEF IsInjective

\* A step for a user names one.
LEMMA UserOf == ASSUME NEW x \in UserItem PROVE x.user \in Users
BY SMT DEF UserItem

\* The step Lookup puts before its thread is well formed.
LEMMA ForgetItem ==
    ASSUME NEW s \in Ssrcs, NEW self \in SUBSET Users, NEW k \in Kinds, NEW b \in BOOLEAN
    PROVE  [op |-> "forget", ssrc |-> s, skip |-> self, kind |-> k, many |-> b] \in Item
<1>1. [op |-> "forget", ssrc |-> s, skip |-> self, kind |-> k, many |-> b] \in RefreshItem
  BY DEF RefreshItem
<1> QED
  BY <1>1 DEF Item

\* The routes a control call is about to remove are no source's.
LEMMA RemovedIsGone ==
    ASSUME Orderly, Len(work["rpc"]) \in Nat \ {0}, work["rpc"][1].op = "removeRoutes"
    PROVE  work["rpc"][1].ssrc \notin Sources
<1>1. 1 \in 1..Len(work["rpc"])
  BY SMT
<1>2. work["rpc"][1] \in Legal
  BY <1>1 DEF Orderly
<1> QED
  BY <1>2 DEF Legal

\* A refresh of the room looks up every source.
LEMMA RoomSteps ==
    ASSUME Shape, NEW t \in Threads, DoRefreshRoom(t)
    PROVE  \E a \in Seq(Item) :
              /\ Then(t, a)
              /\ \A i \in 1..Len(a) : a[i].op = "lookup"
              /\ room = "open" =>
                    \A s \in Sources : \E i \in 1..Len(a) : a[i] = [op |-> "lookup", ssrc |-> s]
<1> DEFINE S == IF room = "open" THEN Sources ELSE {}
<1>1. PICK list \in Orders(S) : Then(t, [i \in DOMAIN list |-> [op |-> "lookup", ssrc |-> list[i]]])
  BY DEF DoRefreshRoom
<1>2. S \subseteq Ssrcs
  BY SourcesSsrcs
<1>3. /\ DOMAIN list = 1..Len(list) /\ Len(list) \in Nat
      /\ \A i \in 1..Len(list) : list[i] \in S
      /\ \A x \in S : \E i \in 1..Len(list) : list[i] = x
  BY <1>2, Listing, ListedOnce, SMT
<1> DEFINE a == [i \in DOMAIN list |-> [op |-> "lookup", ssrc |-> list[i]]]
<1>4. a \in [1..Len(list) -> Item]
  BY <1>2, <1>3 DEF Item, SourceItem
<1>5. a \in Seq(Item) /\ Len(a) = Len(list)
  BY <1>3, <1>4, SeqOf, SeqLen
<1>6. \A i \in 1..Len(a) : a[i] = [op |-> "lookup", ssrc |-> list[i]]
  BY <1>3, <1>5
<1>7. \A x \in S : \E i \in 1..Len(a) : a[i] = [op |-> "lookup", ssrc |-> x]
  BY <1>3, <1>5, <1>6
<1>8. Then(t, a)
  BY <1>1
<1>9. room = "open" => \A s \in Sources : \E i \in 1..Len(a) : a[i] = [op |-> "lookup", ssrc |-> s]
  BY <1>7
<1>10. \A i \in 1..Len(a) : a[i].op = "lookup"
  BY <1>6, SMT
<1> HIDE DEF a
<1> QED
  BY <1>5, <1>8, <1>9, <1>10

\* What a step of a refresh puts before a thread is part of a refresh.
LEMMA RefreshSteps ==
    ASSUME Shape, NEW t \in Threads, Refresh(t)
    PROVE  ~Idle(t) /\ \E a \in Seq(Item) : /\ Then(t, a)
                                           /\ \A i \in 1..Len(a) : a[i].op \in RefreshOps \cup {"lookup"}
<1>0. work \in [Threads -> Seq(Item)] /\ ~Idle(t)
  BY DEF Shape, Refresh, DoRefreshRoom, Lookup, Forget, Clear, List, Add, Note, At
<1>1. CASE DoRefreshRoom(t)
  BY <1>0, <1>1, RoomSteps, SMT
<1>2. CASE List(t)
  BY <1>0, <1>2, ListSteps DEF RefreshOps
<1>3. ASSUME NEW x \in Item, x.op \in RefreshOps, Then(t, <<x>>)
      PROVE  \E a \in Seq(Item) : Then(t, a) /\ \A i \in 1..Len(a) : a[i].op \in RefreshOps \cup {"lookup"}
  <2>1. <<x>> \in Seq(Item) /\ \A i \in 1..Len(<<x>>) : <<x>>[i].op \in RefreshOps
    BY <1>3, OneItem, SMT
  <2> QED
    BY <1>3, <2>1
<1>4. CASE Then(t, <<>>)
  <2> DEFINE a == <<>>
  <2>1. a \in Seq(Item) /\ Len(a) = 0 /\ Then(t, a)
    BY <1>4, NoItem
  <2> HIDE DEF a
  <2>2. \A i \in 1..Len(a) : FALSE
    BY <2>1, SMT
  <2> QED
    BY <1>0, <2>1, <2>2
<1>5. CASE Lookup(t)
  <2>1. Arg(t) \in SourceItem
    BY <1>0, <1>5, ArgItem, ItemKind DEF Lookup
  <2> DEFINE x(self, k) == [op |-> "forget", ssrc |-> Arg(t).ssrc, skip |-> self, kind |-> k,
                            many |-> Cardinality({u \in Users : pub[u][k] # 0}) > 1]
  <2>2. \A self \in SUBSET Users, k \in Kinds : x(self, k) \in Item /\ x(self, k).op \in RefreshOps
    BY <2>1, SMT DEF Item, RefreshItem, SourceItem, RefreshOps
  <2>3. \/ \E self \in SUBSET Users, k \in Kinds : Then(t, <<x(self, k)>>)
        \/ Then(t, <<>>)
    BY <1>5 DEF Lookup, Kinds
  <2> HIDE DEF x
  <2> QED
    BY <1>0, <1>3, <1>4, <2>2, <2>3
<1>6. CASE Forget(t) \/ Clear(t)
  <2>1. Arg(t) \in RefreshItem
    BY <1>0, <1>6, ArgItem, ItemKind DEF Forget, Clear
  <2>2. \A op \in {"clear", "list"} : [Arg(t) EXCEPT !.op = op] \in Item /\ [Arg(t) EXCEPT !.op = op].op \in RefreshOps
    BY <2>1 DEF Item, RefreshItem, RefreshOps
  <2>3. \E op \in {"clear", "list"} : Then(t, <<[Arg(t) EXCEPT !.op = op]>>)
    BY <1>6 DEF Forget, Clear
  <2> QED
    BY <1>0, <1>3, <2>2, <2>3
<1>7. CASE Add(t)
  <2>1. Arg(t) \in TargetItem
    BY <1>0, <1>7, ArgItem, ItemKind DEF Add
  <2>2. [Arg(t) EXCEPT !.op = "note"] \in Item /\ [Arg(t) EXCEPT !.op = "note"].op \in RefreshOps
    BY <2>1 DEF Item, TargetItem, RefreshOps
  <2>3. Then(t, <<[Arg(t) EXCEPT !.op = "note"]>>)
    BY <1>7 DEF Add
  <2> QED
    BY <1>0, <1>3, <2>2, <2>3
<1>8. CASE Note(t)
  BY <1>0, <1>4, <1>8 DEF Note
<1> QED
  BY <1>1, <1>2, <1>5, <1>6, <1>7, <1>8 DEF Refresh

\* A refresh changes nothing of that.
LEMMA RefreshOrderly == ASSUME Shape, Orderly, NEW t \in Threads, Refresh(t) PROVE Orderly'
<1>1. PICK a \in Seq(Item) : Then(t, a) /\ \A i \in 1..Len(a) : a[i].op \in RefreshOps \cup {"lookup"}
  BY RefreshSteps
<1>2. ~Idle(t) /\ UNCHANGED <<pub, drawn>>
  BY RefreshSteps DEF Refresh, DoRefreshRoom, Lookup, Forget, Clear, List, Add, Note, members
<1>3. Sound(a)
  BY <1>1, EasySteps DEF RefreshOps
<1>4. ASSUME NEW i \in 1..Len(a) PROVE a[i] \in Legal'
  <2>1. a[i] \in Item /\ a[i].op \notin {"addSubscriber", "removeRoutes", "bindPublisher"}
    BY <1>1, SeqElement DEF RefreshOps
  <2> QED
    BY <2>1, EasyLegal
<1> QED
  BY <1>1, <1>2, <1>3, <1>4, LegalSame, OrderlyKept

\* A step that puts nothing of interest before its thread.
LEMMA EasyKept ==
    ASSUME Shape, Orderly, NEW t \in Threads, NEW a \in Seq(Item), ~Idle(t), Then(t, a),
           UNCHANGED <<pub, drawn>>,
           \A i \in 1..Len(a) : a[i].op \notin {"addSubscriber", "set", "removeRoutes", "bindPublisher"}
    PROVE  Orderly'
<1>1. Sound(a)
  BY EasySteps
<1>2. ASSUME NEW i \in 1..Len(a) PROVE a[i] \in Legal'
  <2>1. a[i] \in Item
    BY SeqElement
  <2> QED
    BY <2>1, EasyLegal
<1> QED
  BY <1>1, <1>2, LegalSame, OrderlyKept

\* A step that ends.
LEMMA EmptyKept ==
    ASSUME Shape, Orderly, NEW t \in Threads, ~Idle(t), Then(t, <<>>), UNCHANGED <<pub, drawn>>
    PROVE  Orderly'
<1> DEFINE a == <<>>
<1>1. a \in Seq(Item) /\ Len(a) = 0 /\ Then(t, a)
  BY NoItem
<1> HIDE DEF a
<1>2. \A i \in 1..Len(a) : FALSE
  BY <1>1, SMT
<1> QED
  BY <1>1, <1>2, EasyKept

\* The steps of SetupTransport and of CloseTransport.
LEMMA BeginOrderly ==
    ASSUME Shape, Orderly, Unique, NEW u \in Users,
           \/ \E k \in Kinds, publish \in BOOLEAN : SetupTransport(u, k, publish)
           \/ CloseTransport(u)
    PROVE  Orderly'
<1>0. "rpc" \in Threads
  BY DEF Threads
<1>1. ASSUME NEW x \in Item, NEW y \in Item, Idle("rpc"), work' = [work EXCEPT !["rpc"] = <<x, y>>],
             x \in Legal', y \in Legal', x.op \notin {"addSubscriber", "set", "bindPublisher"},
             y.op \notin {"addSubscriber", "set"}
      PROVE  Orderly'
  <2> DEFINE a == <<x, y>>
  <2>1. Len(a) = 2 /\ a[1] = x /\ a[2] = y
    BY TwoItems
  <2> HIDE DEF a
  <2>2. \A i \in 1..Len(a) : i = 1 \/ i = 2
    BY <2>1, SMT
  <2>3. Followed(a) /\ \A i \in 1..Len(a) : a[i] \in Legal'
    BY <1>1, <2>1, <2>2 DEF Followed
  <2>4. work' = [work EXCEPT !["rpc"] = a]
    BY <1>1 DEF a
  <2> QED
    BY <1>0, <1>1, <2>3, <2>4, OrderlyBegun
<1>2. ASSUME NEW k \in Kinds, NEW publish \in BOOLEAN, SetupTransport(u, k, publish)
      PROVE  Orderly'
  <2> DEFINE s == drawn + 1
             g == [op |-> "getSubscriber", user |-> u, kind |-> k, ssrc |-> IF publish THEN s ELSE 0]
             b == [op |-> "bindPublisher", user |-> u, kind |-> k, ssrc |-> s]
             w == [op |-> "answer", user |-> u, kind |-> k]
  <2>1. s \in Ssrcs /\ drawn' = s /\ pub' = pub
    BY <1>2, MediaRoutesAssumption, SMT DEF SetupTransport, Shape, Ssrcs, members
  <2>2. g \in Item /\ b \in Item /\ w \in Item
    BY <2>1, MediaRoutesAssumption, SMT DEF Item, StreamItem, BindItem, PlaceItem, Ssrcs
  <2>3. \A v \in Users, j \in Kinds : pub[v][j] # s
    <3>1. \A v \in Users, j \in Kinds : pub[v][j] <= drawn /\ pub[v][j] \in Int
      BY SMT DEF Unique, Shape
    <3>2. drawn \in Int
      BY SMT DEF Shape
    <3> QED
      BY <3>1, <3>2, SMT
  <2>4. g \in Legal' /\ w \in Legal'
    BY <2>2, EasyLegal
  <2>5. b \in Legal'
    BY <2>1, <2>2, <2>3 DEF Legal
  <2>6. Idle("rpc") /\ work' = [work EXCEPT !["rpc"] = IF publish THEN <<g, b>> ELSE <<g, w>>]
    BY <1>2 DEF SetupTransport
  <2>7. g.op = "getSubscriber" /\ b.op = "bindPublisher" /\ w.op = "answer"
    OBVIOUS
  <2> HIDE DEF g, b, w, s
  <2>8. work' = [work EXCEPT !["rpc"] = <<g, b>>] \/ work' = [work EXCEPT !["rpc"] = <<g, w>>]
    BY <2>6
  <2>9. CASE work' = [work EXCEPT !["rpc"] = <<g, b>>]
    BY <1>1, <2>2, <2>4, <2>5, <2>6, <2>7, <2>9
  <2>10. CASE work' = [work EXCEPT !["rpc"] = <<g, w>>]
    BY <1>1, <2>2, <2>4, <2>6, <2>7, <2>10
  <2> QED
    BY <2>8, <2>9, <2>10
<1>3. CASE CloseTransport(u)
  <2> DEFINE x == [op |-> "removeSubscriber", user |-> u]
             y == [op |-> "removePublisher", user |-> u]
  <2>1. x \in Item /\ y \in Item /\ x.op = "removeSubscriber" /\ y.op = "removePublisher"
    BY DEF Item, UserItem
  <2>2. Idle("rpc") /\ work' = [work EXCEPT !["rpc"] = <<x, y>>]
    BY <1>3 DEF CloseTransport
  <2> HIDE DEF x, y
  <2>3. x \in Legal' /\ y \in Legal'
    BY <2>1, EasyLegal
  <2> QED
    BY <1>1, <2>1, <2>2, <2>3
<1> QED
  BY <1>2, <1>3

\* Steps that put a change of a subscriber and its refresh before a thread.
LEMMA ChangeOrderly ==
    ASSUME Shape, Orderly, NEW t \in Threads, NEW x \in Item, ~Idle(t), Then(t, <<x, RefreshRoom>>),
           UNCHANGED <<pub, drawn>>, x \in Legal', x.op # "bindPublisher"
    PROVE  Orderly'
<1>1. RefreshRoom \in Item /\ RefreshRoom.op = "refreshRoom"
  BY DEF RefreshRoom, Item, RoomItem
<1> DEFINE a == <<x, RefreshRoom>>
<1>2. a \in Seq(Item) /\ Len(a) = 2 /\ a[1] = x /\ a[2] = RefreshRoom
  BY <1>1, TwoItems
<1>3. Then(t, a)
  OBVIOUS
<1> HIDE DEF a
<1>4. \A i \in 1..Len(a) : i = 1 \/ i = 2
  BY <1>2, SMT
<1>5. Followed(a)
  BY <1>1, <1>2, <1>4, SMT DEF Followed
<1>6. \A i \in 1..Len(a) : a[i] \in Legal' /\ a[i].op # "bindPublisher"
  BY <1>1, <1>2, <1>4, EasyLegal
<1> QED
  BY <1>2, <1>3, <1>5, <1>6, LegalSame, OrderlyKept DEF Sound

\* GetSubscriber copies addresses of the same user.
LEMMA GetOrderly == ASSUME Shape, Orderly, Owned, GetSubscriber PROVE Orderly'
<1>0. work \in [Threads -> Seq(Item)] /\ "rpc" \in Threads
  BY DEF Shape, Threads
<1>1. ~Idle("rpc") /\ Arg("rpc") \in StreamItem
  BY <1>0, ArgItem, ItemKind DEF GetSubscriber
<1> DEFINE u == Arg("rpc").user
           old == IF sub[u] = None THEN NoSubscriber ELSE sub[u]
           new == IF Arg("rpc").ssrc = 0 THEN old
                  ELSE [old EXCEPT !.ssrc[Arg("rpc").kind] = Arg("rpc").ssrc]
           x == [op |-> "addSubscriber", user |-> u, new |-> new]
<1>2. u \in Users /\ Arg("rpc").kind \in Kinds /\ Arg("rpc").ssrc \in 0..MaxSsrc
  BY <1>1 DEF StreamItem
<1>3. old \in Subscriber /\ OwnAddresses(u, old.address)
  <2>1. NoSubscriber \in Subscriber /\ OwnAddresses(u, NoSubscriber.address)
    BY MediaRoutesAssumption, SMT DEF NoSubscriber, Subscriber, OwnAddresses
  <2>2. sub[u] # None => sub[u] \in Subscriber /\ OwnAddresses(u, sub[u].address)
    BY <1>2 DEF Shape, Owned
  <2> QED
    BY <2>1, <2>2
<1>4. Then("rpc", <<x, RefreshRoom>>) /\ UNCHANGED <<pub, drawn>>
  BY DEF GetSubscriber, members
<1> HIDE DEF old, u
<1>5. new \in Subscriber /\ new.address = old.address
  BY <1>2, <1>3 DEF Subscriber
<1> HIDE DEF new
<1>6. x \in Item
  BY <1>2, <1>5 DEF Item, SubscriberItem
<1>7. x \in Legal' /\ x.op # "bindPublisher"
  BY <1>3, <1>5, <1>6 DEF Legal
<1> HIDE DEF x
<1> QED
  BY <1>0, <1>1, <1>4, <1>6, <1>7, ChangeOrderly

\* What BindPublisher has at hand.
LEMMA BindFacts ==
    ASSUME Shape, Orderly, BindPublisher
    PROVE  LET u == Arg("rpc").user
               k == Arg("rpc").kind
           IN /\ u \in Users /\ k \in Kinds /\ drawn \in Ssrcs
              /\ \A v \in Users, j \in Kinds : pub[v][j] # drawn
              /\ ~Idle("rpc") /\ Len(work["rpc"]) = 1
              /\ \/ /\ pub' = [pub EXCEPT ![u][k] = drawn] /\ Interfere("rpc")
                    /\ Then("rpc", RoutesOff(pub[u][k]) \o
                                   <<RefreshRoom, [op |-> "answer", user |-> u, kind |-> k]>>)
                 \/ pub' = pub /\ dirty' = dirty /\ Then("rpc", <<>>)
<1>0. work \in [Threads -> Seq(Item)] /\ "rpc" \in Threads
  BY DEF Shape, Threads
<1>1. /\ ~Idle("rpc") /\ Arg("rpc") \in BindItem /\ Arg("rpc").op = "bindPublisher"
      /\ Arg("rpc") = work["rpc"][1] /\ Len(work["rpc"]) \in Nat \ {0}
  BY <1>0, ArgItem, ItemKind DEF BindPublisher
<1>2. Arg("rpc") \in Legal /\ 1 = Len(work["rpc"])
  <2>1. 1 \in 1..Len(work["rpc"])
    BY <1>1, SMT
  <2>2. work["rpc"][1] \in Legal /\ Followed(work["rpc"])
    BY <1>0, <2>1 DEF Orderly
  <2>3. work["rpc"][1].op = "bindPublisher" => 1 = Len(work["rpc"])
    BY <2>1, <2>2 DEF Followed
  <2> QED
    BY <1>1, <2>2, <2>3
<1>3. Arg("rpc").ssrc = drawn /\ \A v \in Users, j \in Kinds : pub[v][j] # drawn
  BY <1>1, <1>2 DEF Legal
<1>4. Arg("rpc").user \in Users /\ Arg("rpc").kind \in Kinds /\ Arg("rpc").ssrc \in Ssrcs
  BY <1>1 DEF BindItem
<1>5. \/ /\ pub' = [pub EXCEPT ![Arg("rpc").user][Arg("rpc").kind] = Arg("rpc").ssrc] /\ Interfere("rpc")
         /\ Then("rpc", RoutesOff(pub[Arg("rpc").user][Arg("rpc").kind]) \o
               <<RefreshRoom, [op |-> "answer", user |-> Arg("rpc").user, kind |-> Arg("rpc").kind]>>)
      \/ pub' = pub /\ dirty' = dirty /\ Then("rpc", <<>>)
  BY DEF BindPublisher
<1> QED
  BY <1>1, <1>2, <1>3, <1>4, <1>5

\* A publisher's stream that is replaced is no source any more.
LEMMA BindOrderly == ASSUME Shape, Orderly, Unique, BindPublisher PROVE Orderly'
<1> DEFINE u == Arg("rpc").user
           k == Arg("rpc").kind
           old == pub[u][k]
           y == [op |-> "answer", user |-> u, kind |-> k]
           b == <<RefreshRoom, y>>
           a == RoutesOff(old) \o b
<1>0. "rpc" \in Threads
  BY DEF Threads
<1>1. /\ u \in Users /\ k \in Kinds /\ drawn \in Ssrcs
      /\ \A v \in Users, j \in Kinds : pub[v][j] # drawn
      /\ ~Idle("rpc") /\ Len(work["rpc"]) = 1
      /\ \/ pub' = [pub EXCEPT ![u][k] = drawn] /\ Then("rpc", a)
         \/ pub' = pub /\ Then("rpc", <<>>)
  BY BindFacts
<1>2. drawn' = drawn
  BY DEF BindPublisher
<1>3. CASE pub' = pub /\ Then("rpc", <<>>)
  BY <1>0, <1>1, <1>2, <1>3, EmptyKept
<1>4. CASE pub' = [pub EXCEPT ![u][k] = drawn] /\ Then("rpc", a)
  <2>1. old \in 0..MaxSsrc /\ pub \in [Users -> [Kinds -> 0..MaxSsrc]]
    BY <1>1 DEF Shape
  <2>2. y \in Item /\ RefreshRoom \in Item /\ y.op = "answer" /\ RefreshRoom.op = "refreshRoom"
    BY <1>1 DEF Item, PlaceItem, RoomItem, RefreshRoom
  <2> HIDE DEF y
  <2>3. b \in Seq(Item) /\ \A j \in 1..Len(b) : b[j] \in {RefreshRoom, y}
    <3>1. b \in Seq(Item) /\ Len(b) = 2 /\ b[1] = RefreshRoom /\ b[2] = y
      BY <2>2, TwoItems
    <3> HIDE DEF b
    <3> QED
      BY <3>1, SMT
  <2> HIDE DEF b
  <2> DEFINE x == [op |-> "removeRoutes", ssrc |-> old]
  <2>4. a \in Seq(Item) /\ \A i \in 1..Len(a) : (old # 0 /\ a[i] = x) \/ \E j \in 1..Len(b) : a[i] = b[j]
    BY <2>1, <2>3, OffSteps
  <2>5. \A i \in 1..Len(a) : (old # 0 /\ a[i] = x) \/ a[i] \in {RefreshRoom, y}
    BY <2>3, <2>4
  <2>6. ASSUME old # 0 PROVE old \notin Sources'
    <3> SUFFICES ASSUME NEW v \in Users, NEW j \in Kinds, pub'[v][j] = old PROVE FALSE
      BY SMT DEF Sources, Publishers
    <3>1. CASE v = u /\ j = k
      BY <1>1, <1>4, <2>1, <3>1
    <3>2. CASE ~(v = u /\ j = k)
      <4>1. pub'[v][j] = pub[v][j]
        BY <1>1, <1>4, <2>1, <3>2
      <4>2. pub[u][k] = pub[v][j] /\ pub[u][k] # 0
        BY <2>6, <4>1
      <4>3. u = v /\ k = j
        BY <1>1, <4>2, SMT DEF Unique
      <4> QED
        BY <3>2, <4>3
    <3> QED
      BY <3>1, <3>2
  <2>7. old # 0 => x \in Item
    BY <2>1, MediaRoutesAssumption, SMT DEF Item, SourceItem, Ssrcs
  <2>8. old # 0 => x \in Legal'
    BY <2>6, <2>7 DEF Legal
  <2>9. x.op = "removeRoutes"
    OBVIOUS
  <2> HIDE DEF x, a, old, u, k
  <2>10. Sound(a)
    BY <2>2, <2>5, <2>9, EasySteps
  <2>11. \A i \in 1..Len(a) : a[i] \in Legal'
    BY <2>2, <2>5, <2>8, EasyLegal
  <2> QED
    BY <1>0, <1>1, <1>4, <2>4, <2>10, <2>11, OrderlyKept
<1> QED
  BY <1>1, <1>3, <1>4

\* The same for the streams of a publisher who goes.
LEMMA RemoveOrderly == ASSUME Shape, Orderly, Unique, RemovePublisher PROVE Orderly'
<1>0. work \in [Threads -> Seq(Item)] /\ "rpc" \in Threads
  BY DEF Shape, Threads
<1> DEFINE u == Arg("rpc").user
           p == pub[u]
           x(s) == [op |-> "removeRoutes", ssrc |-> s]
           b == RoutesOff(p["video"])
           a == RoutesOff(p["audio"]) \o b
<1>1. ~Idle("rpc") /\ u \in Users /\ pub \in [Users -> [Kinds -> 0..MaxSsrc]]
  <2>1. ~Idle("rpc") /\ Arg("rpc") \in UserItem
    BY <1>0, ArgItem, ItemKind DEF RemovePublisher
  <2>2. u \in Users
    BY <2>1, UserOf
  <2> QED
    BY <2>1, <2>2 DEF Shape
<1>2. p["audio"] \in 0..MaxSsrc /\ p["video"] \in 0..MaxSsrc
  BY <1>1 DEF Kinds
<1>3. /\ pub' = [pub EXCEPT ![u] = [k \in Kinds |-> 0]] /\ drawn' = drawn
      /\ Then("rpc", a)
  BY DEF RemovePublisher
<1>4. \A v \in Users, j \in Kinds : pub'[v][j] = IF v = u THEN 0 ELSE pub[v][j]
  BY <1>1, <1>3
<1> HIDE DEF u
<1>5. Sources' \subseteq Sources
  BY <1>4, SMT DEF Sources, Publishers
<1>6. ASSUME NEW k \in Kinds, p[k] # 0 PROVE p[k] \notin Sources'
  <2> SUFFICES ASSUME NEW v \in Users, NEW j \in Kinds, pub'[v][j] = p[k] PROVE FALSE
    BY SMT DEF Sources, Publishers
  <2>1. v # u /\ pub[v][j] = pub[u][k]
    BY <1>4, <1>6
  <2> QED
    BY <1>1, <1>6, <2>1, SMT DEF Unique
<1>7. Legal \subseteq Legal'
  <2> SUFFICES ASSUME NEW y \in Legal PROVE y \in Legal'
    OBVIOUS
  <2>1. y \in Item /\ (y.op = "bindPublisher" => y.ssrc # 0)
    BY ItemKind, MediaRoutesAssumption, SMT DEF Legal, BindItem, Ssrcs
  <2>2. y.op = "bindPublisher" => y.ssrc = drawn' /\ \A v \in Users, j \in Kinds : pub'[v][j] # drawn'
    BY <1>3, <1>4, <2>1, SMT DEF Legal
  <2> QED
    BY <1>5, <2>1, <2>2 DEF Legal
<1>8. ASSUME NEW k \in Kinds, p[k] # 0 PROVE x(p[k]) \in Legal' /\ x(p[k]).op = "removeRoutes"
  <2>1. x(p[k]) \in Item
    BY <1>1, <1>8, MediaRoutesAssumption, SMT DEF Item, SourceItem, Ssrcs
  <2> QED
    BY <1>6, <1>8, <2>1 DEF Legal
<1> HIDE DEF p, x
<1>9. b \in Seq(Item) /\ \A i \in 1..Len(b) : p["video"] # 0 /\ b[i] = x(p["video"])
  <2>1. /\ b \in Seq(Item)
        /\ p["video"] = 0 => Len(b) = 0
        /\ p["video"] # 0 => Len(b) = 1 /\ b[1] = x(p["video"])
    BY <1>2, RoutesOffItems, NoItem DEF x
  <2> HIDE DEF b
  <2> QED
    BY <2>1, SMT
<1> HIDE DEF b
<1>10. a \in Seq(Item) /\ \A i \in 1..Len(a) : \E k \in Kinds : p[k] # 0 /\ a[i] = x(p[k])
  <2>1. /\ a \in Seq(Item)
        /\ \A i \in 1..Len(a) : (p["audio"] # 0 /\ a[i] = x(p["audio"])) \/ \E j \in 1..Len(b) : a[i] = b[j]
    BY <1>2, <1>9, OffSteps DEF x
  <2> QED
    BY <1>9, <2>1 DEF Kinds
<1> HIDE DEF a
<1>11. \A i \in 1..Len(a) : a[i] \in Legal' /\ a[i].op = "removeRoutes"
  BY <1>8, <1>10
<1> QED
  BY <1>0, <1>1, <1>3, <1>7, <1>10, <1>11, EasySteps, OrderlyKept

\* Every step of the RPC thread.
LEMMA RpcOrderly == ASSUME Shape, Orderly, Owned, Unique, Rpc PROVE Orderly'
<1>0. work \in [Threads -> Seq(Item)] /\ "rpc" \in Threads
  BY DEF Shape, Threads
<1>1. CASE CreateRoom \/ DestroyRoom
  BY <1>1, OrderlyIdle DEF CreateRoom, DestroyRoom
<1>2. ASSUME NEW x \in Item, x.op \in {"refreshRoom", "removeFeedback"}, ~Idle("rpc"), Then("rpc", <<x>>),
             UNCHANGED <<pub, drawn>>
      PROVE  Orderly'
  <2>1. <<x>> \in Seq(Item) /\ \A i \in 1..Len(<<x>>) : <<x>>[i] = x
    BY OneItem, SMT
  <2> QED
    BY <1>0, <1>2, <2>1, EasyKept
<1>3. CASE ~Idle("rpc") /\ Then("rpc", <<>>) /\ UNCHANGED <<pub, drawn>>
  BY <1>0, <1>3, EmptyKept
<1>4. CASE AddSubscriber \/ Answer \/ RemoveFeedback
  BY <1>3, <1>4 DEF AddSubscriber, Answer, RemoveFeedback, At, members
<1>5. CASE RemoveRoutes
  <2>1. ~Idle("rpc") /\ Arg("rpc") \in SourceItem
    BY <1>0, <1>5, ArgItem, ItemKind DEF RemoveRoutes
  <2> DEFINE x == [Arg("rpc") EXCEPT !.op = "removeFeedback"]
  <2>2. x \in Item /\ x.op = "removeFeedback" /\ Then("rpc", <<x>>) /\ UNCHANGED <<pub, drawn>>
    BY <1>5, <2>1 DEF RemoveRoutes, Item, SourceItem, members
  <2> HIDE DEF x
  <2> QED
    BY <1>2, <2>1, <2>2
<1>6. CASE RemoveSubscriber
  <2>1. RefreshRoom \in Item /\ RefreshRoom.op = "refreshRoom"
    BY DEF RefreshRoom, Item, RoomItem
  <2>2. /\ ~Idle("rpc") /\ UNCHANGED <<pub, drawn>>
        /\ Then("rpc", <<RefreshRoom>>) \/ Then("rpc", <<>>)
    BY <1>6 DEF RemoveSubscriber, At
  <2> QED
    BY <1>2, <1>3, <2>1, <2>2
<1> QED
  BY <1>1, <1>4, <1>5, <1>6, BeginOrderly, GetOrderly, BindOrderly, RemoveOrderly DEF Rpc, Kinds

\* Every step of the UDP thread.
LEMMA UdpOrderly == ASSUME Shape, Orderly, Udp PROVE Orderly'
<1>0. work \in [Threads -> Seq(Item)] /\ "udp" \in Threads /\ "udp" # "rpc"
  BY DEF Shape, Threads
<1>1. UNCHANGED <<pub, drawn>>
  BY DEF Udp, Stun, Find, Set, members
<1>2. ASSUME NEW u \in Users, NEW k \in Kinds, Stun(u, k)
      PROVE  Orderly'
  <2> DEFINE x == [op |-> "find", user |-> u, kind |-> k]
  <2>1. x \in Item /\ x.op = "find" /\ Idle("udp") /\ work' = [work EXCEPT !["udp"] = <<x>>]
    BY <1>2 DEF Item, PlaceItem, Stun
  <2> HIDE DEF x
  <2>2. Followed(<<x>>)
    <3>1. \A i \in 1..Len(<<x>>) : <<x>>[i] = x
      BY <2>1, OneItem, SMT
    <3> QED
      BY <2>1, <3>1, EasySteps DEF Sound
  <2> QED
    BY <1>0, <1>1, <2>1, <2>2, LegalSame, OrderlyBegun
<1>3. CASE Find
  <2>1. ~Idle("udp") /\ Arg("udp") \in PlaceItem
    BY <1>0, <1>3, ArgItem, ItemKind DEF Find
  <2> DEFINE x == [Arg("udp") EXCEPT !.op = "set"]
  <2>2. x \in Item /\ x.op = "set"
    BY <2>1 DEF Item, PlaceItem
  <2>3. Then("udp", <<x, RefreshRoom>>) \/ Then("udp", <<>>)
    BY <1>3 DEF Find
  <2> HIDE DEF x
  <2>4. x \in Legal'
    BY <2>2, EasyLegal
  <2> QED
    BY <1>0, <1>1, <2>1, <2>2, <2>3, <2>4, ChangeOrderly, EmptyKept
<1>4. CASE Set
  BY <1>0, <1>1, <1>4, EmptyKept DEF Set, At
<1> QED
  BY <1>2, <1>3, <1>4 DEF Udp

\* Every step.
LEMMA NextOrderly == ASSUME Shape, Orderly, Owned, Unique, Next PROVE Orderly'
BY RefreshOrderly, RpcOrderly, UdpOrderly DEF Next

-----------------------------------------------------------------------------
(* Whose addresses and SSRCs they are *)

\* The addresses of a subscriber stay their own.
LEMMA NextOwned == ASSUME Shape, Orderly, Owned, Next PROVE Owned'
<1>0. /\ work \in [Threads -> Seq(Item)] /\ "rpc" \in Threads /\ "udp" \in Threads
      /\ sub \in [Users -> Subscriber \cup {None}]
  BY DEF Shape, Threads
<1>1. CASE UNCHANGED sub
  BY <1>1 DEF Owned
<1>2. CASE AddSubscriber
  <2>1. /\ Arg("rpc") \in SubscriberItem /\ Arg("rpc").op = "addSubscriber"
        /\ Arg("rpc") = work["rpc"][1] /\ Len(work["rpc"]) \in Nat \ {0}
    BY <1>0, <1>2, ArgItem, ItemKind DEF AddSubscriber
  <2>2. Arg("rpc") \in Legal
    BY <2>1, SMT DEF Orderly
  <2>3. Arg("rpc").user \in Users /\ OwnAddresses(Arg("rpc").user, Arg("rpc").new.address)
    BY <2>1, <2>2 DEF Legal, SubscriberItem
  <2>4. sub' = [sub EXCEPT ![Arg("rpc").user] = Arg("rpc").new]
    BY <1>2 DEF AddSubscriber
  <2>5. \A u \in Users : sub'[u] = IF u = Arg("rpc").user THEN Arg("rpc").new ELSE sub[u]
    BY <1>0, <2>4
  <2> QED
    BY <2>3, <2>5 DEF Owned
<1>3. CASE RemoveSubscriber
  <2>1. \A u \in Users : sub'[u] = sub[u] \/ sub'[u] = None
    BY <1>0, <1>3 DEF RemoveSubscriber
  <2> QED
    BY <2>1 DEF Owned
<1>4. CASE DestroyRoom
  BY <1>4 DEF DestroyRoom, Owned
<1>5. CASE Set /\ ptr # None
  <2>1. Arg("udp") \in PlaceItem
    BY <1>0, <1>5, ArgItem, ItemKind DEF Set
  <2> DEFINE j == Arg("udp").kind
  <2>2. j \in Kinds /\ ptr \in Users /\ sub[ptr] # None /\ sub[ptr] \in Subscriber
    BY <1>5, <2>1 DEF PlaceItem, Shape
  <2>3. sub' = [sub EXCEPT ![ptr].address[j] = <<ptr, j>>]
    BY <1>5 DEF Set
  <2> HIDE DEF j
  <2>4. \A u \in Users : u # ptr => sub'[u] = sub[u]
    BY <1>0, <2>3
  <2>5. \A k \in Kinds : sub'[ptr].address[k] = IF k = j THEN <<ptr, j>> ELSE sub[ptr].address[k]
    BY <1>0, <2>2, <2>3 DEF Subscriber
  <2>6. OwnAddresses(ptr, sub'[ptr].address)
    BY <2>2, <2>5 DEF Owned, OwnAddresses
  <2> QED
    BY <2>4, <2>6 DEF Owned
<1>6. Set /\ ptr = None => UNCHANGED sub
  BY DEF Set
<1> QED
  BY <1>1, <1>2, <1>3, <1>4, <1>5, <1>6 DEF Next, Rpc, Udp, Refresh, DoRefreshRoom, Lookup, Forget, Clear,
     List, Add, Note, CreateRoom, SetupTransport, CloseTransport, GetSubscriber, BindPublisher, Answer,
     RemoveRoutes, RemoveFeedback, RemovePublisher, Stun, Find, members

\* SSRCs are not used twice.
LEMMA NextUnique == ASSUME Shape, Orderly, Unique, Next PROVE Unique'
<1>0. pub \in [Users -> [Kinds -> 0..MaxSsrc]] /\ drawn \in 0..MaxSsrc
  BY DEF Shape
<1>1. CASE UNCHANGED <<pub, drawn>>
  BY <1>1, SMT DEF Unique
<1>2. ASSUME NEW u \in Users, NEW k \in Kinds, NEW publish, SetupTransport(u, k, publish)
      PROVE  Unique'
  <2>1. pub' = pub /\ drawn' = drawn + 1
    BY <1>2 DEF SetupTransport, members
  <2>2. \A v \in Users, j \in Kinds : pub[v][j] <= drawn + 1
    <3>1. \A v \in Users, j \in Kinds : pub[v][j] <= drawn /\ pub[v][j] \in Int
      BY <1>0, SMT DEF Unique
    <3> QED
      BY <1>0, <3>1, SMT
  <2> QED
    BY <2>1, <2>2, SMT DEF Unique
<1>3. CASE BindPublisher
  <2> DEFINE u == Arg("rpc").user
             k == Arg("rpc").kind
  <2>1. /\ u \in Users /\ k \in Kinds /\ drawn \in Ssrcs
        /\ \A v \in Users, j \in Kinds : pub[v][j] # drawn
        /\ pub' = [pub EXCEPT ![u][k] = drawn] \/ pub' = pub
    BY <1>3, BindFacts
  <2>2. drawn' = drawn
    BY <1>3 DEF BindPublisher
  <2> HIDE DEF u, k
  <2>3. CASE pub' = [pub EXCEPT ![u][k] = drawn]
    <3>1. \A v \in Users, j \in Kinds : pub'[v][j] = IF v = u /\ j = k THEN drawn ELSE pub[v][j]
      BY <1>0, <2>1, <2>3
    <3>2. \A v \in Users, j \in Kinds : pub'[v][j] <= drawn
      BY <1>0, <3>1, SMT DEF Unique
    <3>3. ASSUME NEW v \in Users, NEW w \in Users, NEW i \in Kinds, NEW j \in Kinds,
                 pub'[v][i] = pub'[w][j], pub'[v][i] # 0
          PROVE  v = w /\ i = j
      <4>1. CASE v = u /\ i = k
        BY <2>1, <3>1, <3>3, <4>1, SMT
      <4>2. CASE w = u /\ j = k
        BY <2>1, <3>1, <3>3, <4>2, SMT
      <4>3. CASE ~(v = u /\ i = k) /\ ~(w = u /\ j = k)
        BY <3>1, <3>3, <4>3, SMT DEF Unique
      <4> QED
        BY <4>1, <4>2, <4>3
    <3> QED
      BY <2>2, <3>2, <3>3, SMT DEF Unique
  <2> QED
    BY <1>1, <2>1, <2>2, <2>3
<1>4. CASE RemovePublisher \/ DestroyRoom
  <2>1. drawn' = drawn /\ \A v \in Users, j \in Kinds : pub'[v][j] \in {0, pub[v][j]}
    BY <1>0, <1>4, SMT DEF RemovePublisher, DestroyRoom
  <2>2. \A v \in Users, j \in Kinds : pub'[v][j] <= drawn
    BY <1>0, <2>1, SMT DEF Unique
  <2>3. ASSUME NEW v \in Users, NEW w \in Users, NEW i \in Kinds, NEW j \in Kinds,
               pub'[v][i] = pub'[w][j], pub'[v][i] # 0
        PROVE  v = w /\ i = j
    <3>1. pub'[v][i] = pub[v][i] /\ pub'[w][j] = pub[w][j]
      BY <2>1, <2>3
    <3>2. pub[v][i] = pub[w][j] /\ pub[v][i] # 0
      BY <2>3, <3>1
    <3> QED
      BY <3>2, SMT DEF Unique
  <2> QED
    BY <2>1, <2>2, <2>3, SMT DEF Unique
<1> QED
  BY <1>1, <1>2, <1>3, <1>4 DEF Next, Rpc, Udp, Refresh, DoRefreshRoom, Lookup, Forget, Clear, Kinds,
     List, Add, Note, CreateRoom, CloseTransport, GetSubscriber, AddSubscriber, Answer,
     RemoveRoutes, RemoveFeedback, RemoveSubscriber, Stun, Find, Set, members

\* Without a room there are no calls.
LEMMA NextRoomOpen == ASSUME Shape, RoomOpen, Next PROVE RoomOpen'
<1>0. work \in [Threads -> Seq(Item)] /\ "rpc" \in Threads /\ "udp" \in Threads /\ "udp" # "rpc"
  BY DEF Shape, Threads
<1>1. CASE CreateRoom
  BY <1>1 DEF CreateRoom, RoomOpen
<1>2. CASE DestroyRoom
  BY <1>2 DEF DestroyRoom, RoomOpen, Idle
<1>3. CASE Rpc /\ ~CreateRoom /\ ~DestroyRoom
  <2>1. room = "open" /\ room' = room
    BY <1>3 DEF Rpc, SetupTransport, CloseTransport, GetSubscriber, AddSubscriber, BindPublisher, Answer,
       RemoveRoutes, RemoveFeedback, RemoveSubscriber, RemovePublisher, members, RoomOpen, At
  <2> QED
    BY <2>1 DEF RoomOpen
<1>4. CASE Udp
  <2>1. room' = room /\ pub' = pub
    BY <1>4 DEF Udp, Stun, Find, Set, members
  <2>2. work'["rpc"] = work["rpc"]
    BY <1>0, <1>4, UdpWork, MovesKept
  <2> QED
    BY <2>1, <2>2 DEF RoomOpen, Idle
<1>5. ASSUME NEW t \in Threads, Refresh(t)
      PROVE  RoomOpen'
  <2>1. room' = room /\ pub' = pub /\ ~Idle(t)
    BY <1>5, RefreshSteps DEF Refresh, DoRefreshRoom, Lookup, Forget, Clear, List, Add, Note, members
  <2>2. t # "rpc" => work'["rpc"] = work["rpc"]
    BY <1>0, <1>5, RefreshWork, MovesKept
  <2> QED
    BY <2>1, <2>2 DEF RoomOpen, Idle
<1> QED
  BY <1>1, <1>2, <1>3, <1>4, <1>5 DEF Next

\* All of that together.
LEMMA NextBase == ASSUME Shape, Base, Next PROVE Base'
BY NextOwned, NextUnique, NextOrderly, NextRoomOpen DEF Base

-----------------------------------------------------------------------------
(* How far a refresh is *)

\* Thread t refreshes source s.
On(t, s) == Refreshing(t) /\ Arg(t).ssrc = s

\* Steps of which a refresh of source s comes.
Calls(a, s) == \E i \in 1..Len(a) : a[i] = RefreshRoom \/ a[i] = [op |-> "lookup", ssrc |-> s]
Due(s) == \E t \in Threads : Calls(work[t], s)

\* The targets that are there and those to be added are the addresses A, each once.
Whole(there, w, A) ==
    /\ \A r, q \in there : r.to = q.to => r = q
    /\ \A r \in there : r.to \in A
    /\ \A i \in 1..Len(w) : w[i].op = "add" =>
          /\ w[i].to \in A /\ \A r \in there : r.to # w[i].to
          /\ \A j \in 1..Len(w) : w[j].op = "add" /\ w[j].to = w[i].to => i = j
    /\ \A x \in A : \/ \E r \in there : r.to = x
                    \/ \E i \in 1..Len(w) : w[i].op = "add" /\ w[i].to = x

\* Who gets nothing of the streams of u.
Skipped(u) == {v \in {u} : Cardinality(Subscribers) > 1}

\* What a refresh at step x, with steps w before it, knows and has done of a
\* source of kind k.
Prepared(x, w, there, k, skip, A) ==
    /\ x.op \in {"forget", "clear", "list"} => x.kind = k /\ x.skip = skip
    /\ x.op = "list" => there = {}
    /\ x.op \in {"add", "note"} => Whole(there, w, A)

\* A refresh that was left alone is right so far.
InOrder(t) ==
    \A s \in Ssrcs, u \in Users, k \in Kinds :
       On(t, s) /\ ~dirty[t] /\ pub[u][k] = s =>
          Prepared(Arg(t), work[t], routes[s], k, Skipped(u), Expected(u, k))

\* A source nobody refreshes or is about to refresh has the targets it ought to.
Settled ==
    \A s \in Ssrcs, u \in Users, k \in Kinds :
       pub[u][k] = s /\ s \notin stale /\ ~Due(s) /\ (\A t \in Threads : ~On(t, s)) =>
          GoesOnceTo(s, Expected(u, k))

\* Nothing is there yet: what is listed is added.
LEMMA WholeList ==
    ASSUME NEW a \in Seq(Item), NEW w \in Seq(Item), w # <<>>, InPiece(w), w[1].op \notin {"add", "note"}, NEW A,
           \A i \in 1..Len(a) : a[i].op = "add" /\ a[i].to \in A,
           \A i, j \in 1..Len(a) : a[i].to = a[j].to => i = j,
           \A x \in A : \E i \in 1..Len(a) : a[i].to = x
    PROVE  Whole({}, a \o Tail(w), A)
<1> DEFINE n == a \o Tail(w)
<1>1. /\ Len(n) = Len(a) + Len(w) - 1 /\ Len(a) \in Nat /\ Len(w) \in Nat \ {0}
      /\ \A i \in 1..Len(a) : n[i] = a[i]
      /\ \A i \in 1..Len(n) : i \notin 1..Len(a) =>
            i - Len(a) + 1 \in 2..Len(w) /\ n[i] = w[i - Len(a) + 1]
  BY Replaced, SMT
<1> HIDE DEF n
<1>2. ASSUME NEW i \in 1..Len(n), n[i].op = "add" PROVE i \in 1..Len(a) /\ n[i] = a[i]
  <2>1. ASSUME NEW j \in 2..Len(w) PROVE w[j].op # "add"
    <3>1. 1 \in 1..(j - 1)
      BY SMT
    <3> QED
      BY <3>1 DEF InPiece
  <2>2. CASE i \notin 1..Len(a)
    BY <1>1, <1>2, <2>1, <2>2, SMT
  <2> QED
    BY <1>1, <2>2
<1>3. \A i \in 1..Len(n) : n[i].op = "add" => n[i].to \in A
  BY <1>2
<1>4. \A i, j \in 1..Len(n) : n[i].op = "add" /\ n[j].op = "add" /\ n[i].to = n[j].to => i = j
  BY <1>2, SMT
<1>5. ASSUME NEW x \in A PROVE \E i \in 1..Len(n) : n[i].op = "add" /\ n[i].to = x
  <2>1. PICK i \in 1..Len(a) : a[i].to = x
    OBVIOUS
  <2>2. i \in 1..Len(n) /\ n[i] = a[i]
    BY <1>1, SMT
  <2> QED
    BY <2>1, <2>2, SMT
<1> QED
  BY <1>3, <1>4, <1>5 DEF Whole, n

\* The next target is added.
LEMMA WholeAdd ==
    ASSUME NEW w \in Seq(Item), w # <<>>, w[1].op = "add", NEW y \in Item, y.op = "note", NEW A, NEW there,
           Whole(there, w, A), NEW z, z.to = w[1].to
    PROVE  Whole(there \cup {z}, <<y>> \o Tail(w), A)
<1> DEFINE n == <<y>> \o Tail(w)
           R == there \cup {z}
<1>1. <<y>> \in Seq(Item) /\ Len(<<y>>) = 1 /\ <<y>>[1] = y
  BY OneItem
<1>2. /\ Len(n) = 1 + Len(w) - 1 /\ Len(w) \in Nat \ {0}
      /\ n[1] = y
      /\ \A i \in 2..Len(w) : n[1 + i - 1] = w[i]
  BY <1>1, Replaced, SMT
<1> HIDE DEF n
<1>3. Len(n) = Len(w) /\ n[1].op # "add" /\ \A i \in 2..Len(w) : n[i] = w[i]
  BY <1>2, SMT
<1>4. 1 \in 1..Len(w) /\ w[1].to \in A /\ \A r \in there : r.to # w[1].to
  BY <1>2, SMT DEF Whole
<1>5. \A r, q \in R : r.to = q.to => r = q
  BY <1>4, SMT DEF Whole
<1>6. \A r \in R : r.to \in A
  BY <1>4 DEF Whole
<1>7. ASSUME NEW i \in 1..Len(n), n[i].op = "add"
      PROVE  /\ n[i].to \in A /\ \A r \in R : r.to # n[i].to
             /\ \A j \in 1..Len(n) : n[j].op = "add" /\ n[j].to = n[i].to => i = j
  <2>1. i \in 2..Len(w) /\ i \in 1..Len(w) /\ n[i] = w[i] /\ i # 1
    BY <1>2, <1>3, <1>7, SMT
  <2>2. w[i].to # w[1].to /\ w[i].to \in A /\ \A r \in there : r.to # w[i].to
    BY <1>4, <1>7, <2>1, SMT DEF Whole
  <2>3. ASSUME NEW j \in 1..Len(n), n[j].op = "add", n[j].to = n[i].to PROVE i = j
    <3>1. j \in 1..Len(w) /\ n[j] = w[j]
      BY <1>2, <1>3, <2>3, SMT
    <3> QED
      BY <1>7, <2>1, <2>3, <3>1 DEF Whole
  <2> QED
    BY <2>1, <2>2, <2>3
<1>8. ASSUME NEW x \in A
      PROVE  (\E r \in R : r.to = x) \/ \E i \in 1..Len(n) : n[i].op = "add" /\ n[i].to = x
  <2>1. CASE \E r \in there : r.to = x
    BY <2>1
  <2>2. ASSUME NEW i \in 1..Len(w), w[i].op = "add", w[i].to = x
        PROVE  (\E r \in R : r.to = x) \/ \E j \in 1..Len(n) : n[j].op = "add" /\ n[j].to = x
    <3>1. CASE i = 1
      BY <2>2, <3>1
    <3>2. CASE i # 1
      <4>1. i \in 1..Len(n) /\ n[i] = w[i]
        BY <1>3, <3>2, SMT
      <4> QED
        BY <2>2, <4>1
    <3> QED
      BY <3>1, <3>2
  <2> QED
    BY <2>1, <2>2 DEF Whole
<1> HIDE DEF R
<1>9. Whole(R, n, A)
  BY <1>5, <1>6, <1>7, <1>8 DEF Whole
<1> QED
  BY <1>9 DEF R, n

\* A target is noted for feedback.
LEMMA WholeNote ==
    ASSUME NEW w \in Seq(Item), w # <<>>, w[1].op # "add", NEW A, NEW there, Whole(there, w, A)
    PROVE  Whole(there, <<>> \o Tail(w), A)
<1> DEFINE n == <<>> \o Tail(w)
<1>1. /\ Len(n) = 0 + Len(w) - 1 /\ Len(w) \in Nat \ {0}
      /\ \A i \in 2..Len(w) : n[0 + i - 1] = w[i]
  BY NoItem, Replaced, SMT
<1> HIDE DEF n
<1>2. \A i \in 1..Len(n) : i + 1 \in 1..Len(w) /\ n[i] = w[i + 1]
  <2> SUFFICES ASSUME NEW i \in 1..Len(n) PROVE i + 1 \in 1..Len(w) /\ n[i] = w[i + 1]
    OBVIOUS
  <2>1. i + 1 \in 2..Len(w) /\ 0 + (i + 1) - 1 = i
    BY <1>1, SMT
  <2> QED
    BY <1>1, <2>1, SMT
<1>3. ASSUME NEW i \in 1..Len(n), n[i].op = "add"
      PROVE  /\ n[i].to \in A /\ \A r \in there : r.to # n[i].to
             /\ \A j \in 1..Len(n) : n[j].op = "add" /\ n[j].to = n[i].to => i = j
  <2>1. ASSUME NEW j \in 1..Len(n), n[j].op = "add", n[j].to = n[i].to PROVE i = j
    <3>1. i + 1 = j + 1
      BY <1>2, <1>3, <2>1, SMT DEF Whole
    <3> QED
      BY <3>1, SMT
  <2> QED
    BY <1>2, <1>3, <2>1, SMT DEF Whole
<1>4. ASSUME NEW x \in A
      PROVE  (\E r \in there : r.to = x) \/ \E i \in 1..Len(n) : n[i].op = "add" /\ n[i].to = x
  <2>1. ASSUME NEW i \in 1..Len(w), w[i].op = "add", w[i].to = x
        PROVE  \E j \in 1..Len(n) : n[j].op = "add" /\ n[j].to = x
    <3>1. i # 1
      BY <2>1
    <3>2. i \in 2..Len(w) /\ i - 1 \in 1..Len(n) /\ 0 + i - 1 = i - 1
      BY <1>1, <3>1, SMT
    <3> QED
      BY <1>1, <2>1, <3>2
  <2> QED
    BY <2>1 DEF Whole
<1> QED
  BY <1>3, <1>4 DEF Whole, n

\* Nothing is left to add.
LEMMA WholeEnd ==
    ASSUME NEW w, NEW A, NEW there, Whole(there, w, A), \A i \in 1..Len(w) : w[i].op # "add"
    PROVE  {r.to : r \in there} = A /\ \A r, q \in there : r.to = q.to => r = q
BY SMT DEF Whole

-----------------------------------------------------------------------------
(* What a step does to that *)

\* A thread at a refresh.
LEMMA OnItem ==
    ASSUME work \in [Threads -> Seq(Item)], NEW t \in Threads, Refreshing(t)
    PROVE  /\ ~Idle(t) /\ Arg(t) \in Item /\ Arg(t).op \in RefreshOps /\ Arg(t).ssrc \in Ssrcs
           /\ work[t] \in Seq(Item) /\ work[t] # <<>> /\ Arg(t) = work[t][1]
<1>1. PICK op \in RefreshOps : At(t, op)
  BY DEF Refreshing, RefreshOps
<1>2. /\ ~Idle(t) /\ Arg(t) \in Item /\ Arg(t).op = op
      /\ work[t] \in Seq(Item) /\ work[t] # <<>> /\ Arg(t) = work[t][1]
  BY <1>1, ArgItem
<1>3. Arg(t) \in RefreshItem \/ Arg(t) \in TargetItem
  BY <1>2, ItemKind DEF RefreshOps
<1> QED
  BY <1>2, <1>3 DEF RefreshItem, TargetItem

\* Where a thread is after Then.
LEMMA HeadAfter ==
    ASSUME Shape, NEW t \in Threads, NEW a \in Seq(Item), ~Idle(t), Then(t, a)
    PROVE  /\ work'[t] = a \o Tail(work[t])
           /\ Len(a) > 0 => ~Idle(t)' /\ Arg(t)' = a[1]
           /\ Len(a) = 0 /\ Refreshing(t)' =>
                 Arg(t).op \in {"add", "note"} /\ Arg(t)'.op = "add" /\ Arg(t)'.ssrc = Arg(t).ssrc
<1> DEFINE w == work[t]
           n == a \o Tail(w)
<1>1. w \in Seq(Item) /\ w # <<>> /\ InPiece(w) /\ Arg(t) = w[1]
  BY SeqTail DEF Shape, Idle, Arg
<1>2. /\ n \in Seq(Item)
      /\ Len(n) = Len(a) + Len(w) - 1 /\ Len(a) \in Nat /\ Len(w) \in Nat \ {0}
      /\ \A i \in 1..Len(a) : n[i] = a[i]
      /\ \A i \in 1..Len(n) : i \notin 1..Len(a) =>
            i - Len(a) + 1 \in 2..Len(w) /\ n[i] = w[i - Len(a) + 1]
  BY <1>1, Replaced, SMT
<1>3. work'[t] = n
  BY DEF Then, Shape
<1> HIDE DEF n, w
<1>4. n # <<>> => Head(n) = n[1] /\ Len(n) \in Nat \ {0}
  BY <1>2, SeqTail, SeqLen
<1>5. ASSUME Len(a) > 0 PROVE ~Idle(t)' /\ Arg(t)' = a[1]
  <2>1. Len(n) > 0 /\ n[1] = a[1]
    BY <1>2, <1>5, SMT
  <2>2. n # <<>>
    BY <2>1, NoItem, SMT
  <2> QED
    BY <1>3, <1>4, <2>1, <2>2 DEF Idle, Arg
<1>6. ASSUME Len(a) = 0, Refreshing(t)'
      PROVE  Arg(t).op \in {"add", "note"} /\ Arg(t)'.op = "add" /\ Arg(t)'.ssrc = Arg(t).ssrc
  <2>1. n # <<>> /\ Arg(t)' = Head(n) /\ Head(n).op \in RefreshOps
    BY <1>3, <1>6 DEF Refreshing, At, Idle, Arg, RefreshOps
  <2>2. n[1] = w[2] /\ 2 \in 2..Len(w) /\ 1 \in 1..(2 - 1)
    BY <1>2, <1>4, <1>6, <2>1, SMT
  <2>3. w[2].op \in RefreshOps => w[2].op = "add" /\ w[1].op \in {"add", "note"} /\ w[1].ssrc = w[2].ssrc
    BY <1>1, <2>2 DEF InPiece
  <2> QED
    BY <1>1, <1>4, <2>1, <2>2, <2>3
<1> QED
  BY <1>3, <1>5, <1>6 DEF n, w

\* The same, of one step.
LEMMA HeadOne ==
    ASSUME Shape, NEW t \in Threads, NEW x \in Item, ~Idle(t), Then(t, <<x>>)
    PROVE  ~Idle(t)' /\ Arg(t)' = x
<1> DEFINE a == <<x>>
<1>1. a \in Seq(Item) /\ Len(a) = 1 /\ a[1] = x /\ Then(t, a)
  BY OneItem
<1> HIDE DEF a
<1> QED
  BY <1>1, HeadAfter, SMT

\* A refresh that is due stays so until it is begun.
LEMMA DueKept ==
    ASSUME Shape, NEW t \in Threads, Moves(t), NEW s, Due(s),
           ~Idle(t) => Arg(t).op \notin {"refreshRoom", "lookup"} \/ (Arg(t).op = "lookup" /\ Arg(t).ssrc # s)
    PROVE  Due(s)'
<1>0. work \in [Threads -> Seq(Item)]
  BY DEF Shape
<1> DEFINE c(x) == x = RefreshRoom \/ x = [op |-> "lookup", ssrc |-> s]
<1>1. PICK r \in Threads : \E i \in 1..Len(work[r]) : c(work[r][i])
  BY DEF Due, Calls
<1>2. CASE r # t
  <2>1. work'[r] = work[r]
    BY <1>2, MovesKept
  <2> QED
    BY <1>1, <2>1 DEF Due, Calls
<1>3. CASE UNCHANGED work
  BY <1>1, <1>3 DEF Due, Calls
<1>4. ASSUME r = t, NEW a \in Seq(Item), Goes(t, a)
      PROVE  Due(s)'
  <2> DEFINE w == work[t]
             n == a \o Tail(w)
  <2>1. w \in Seq(Item) /\ w # <<>> /\ ~Idle(t) /\ Arg(t) = w[1] /\ Len(w) \in Nat
    BY <1>0, <1>4, SeqLen, SeqTail DEF Goes, Idle, Arg
  <2>2. ~c(w[1])
    <3>1. CASE w[1] = RefreshRoom
      BY <2>1, <3>1, SMT DEF RefreshRoom
    <3>2. CASE w[1] = [op |-> "lookup", ssrc |-> s]
      <4>1. w[1].op = "lookup" /\ w[1].ssrc = s
        BY <3>2, SMT
      <4> QED
        BY <2>1, <4>1
    <3> QED
      BY <3>1, <3>2
  <2>3. PICK i \in 2..Len(w) : c(w[i])
    BY <1>1, <1>4, <2>1, <2>2, SMT
  <2>4. work'[t] = n
    BY <1>0, <1>4 DEF Goes, Then
  <2>5. /\ Len(n) = Len(a) + Len(w) - 1 /\ Len(a) \in Nat /\ Len(w) \in Nat \ {0}
        /\ n[Len(a) + i - 1] = w[i]
    BY <2>1, <2>3, Replaced, SMT
  <2> HIDE DEF n, w
  <2>6. Len(a) + i - 1 \in 1..Len(n)
    BY <2>3, <2>5, SMT
  <2> QED
    BY <2>3, <2>4, <2>5, <2>6 DEF Due, Calls
<1>5. r = t => ~Idle(t)
  BY <1>1, NoItem, SMT DEF Idle
<1> QED
  BY <1>2, <1>3, <1>4, <1>5 DEF Moves, Begins

\* What is put before a thread is due.
LEMMA DueNew ==
    ASSUME Shape, NEW t \in Threads, NEW a \in Seq(Item), ~Idle(t), Then(t, a), NEW s, Calls(a, s)
    PROVE  Due(s)'
<1> DEFINE n == a \o Tail(work[t])
<1>1. work[t] \in Seq(Item) /\ work[t] # <<>> /\ work'[t] = n
  BY DEF Idle, Shape, Then
<1>2. PICK j \in 1..Len(a) : a[j] = RefreshRoom \/ a[j] = [op |-> "lookup", ssrc |-> s]
  BY DEF Calls
<1>3. /\ Len(n) = Len(a) + Len(work[t]) - 1 /\ Len(a) \in Nat /\ Len(work[t]) \in Nat \ {0}
      /\ n[j] = a[j]
  BY <1>1, Replaced, SMT
<1> HIDE DEF n
<1>4. j \in 1..Len(n)
  BY <1>3, SMT
<1> QED
  BY <1>1, <1>2, <1>3, <1>4 DEF Due, Calls

\* A refresh is due when a subscriber has changed.
LEMMA DueNext ==
    ASSUME Shape, Orderly, NEW t \in Threads, NEW op \in {"addSubscriber", "set"}, At(t, op), Then(t, <<>>), NEW s
    PROVE  Due(s)'
<1> DEFINE w == work[t]
           n == <<>> \o Tail(w)
<1>0. work \in [Threads -> Seq(Item)]
  BY DEF Shape
<1>1. w \in Seq(Item) /\ w # <<>> /\ Len(w) \in Nat \ {0} /\ w[1].op = op /\ Followed(w)
  BY <1>0, ArgItem DEF Orderly
<1>2. 2 \in 2..Len(w) /\ w[2] = RefreshRoom
  BY <1>1, SMT DEF Followed
<1>3. Len(n) = 0 + Len(w) - 1 /\ n[0 + 2 - 1] = w[2]
  BY <1>1, <1>2, NoItem, Replaced, SMT
<1>4. work'[t] = n
  BY <1>0 DEF Then
<1> HIDE DEF n, w
<1>5. 1 \in 1..Len(n) /\ n[1] = RefreshRoom
  BY <1>2, <1>3, SMT
<1> QED
  BY <1>4, <1>5 DEF Due, Calls

\* Where sources ought to go depends on the subscribers.
LEMMA ExpectedSame ==
    ASSUME UNCHANGED sub, NEW u, NEW k
    PROVE  Expected(u, k)' = Expected(u, k) /\ Skipped(u)' = Skipped(u)
<1>1. Subscribers' = Subscribers
  BY DEF Subscribers
<1> QED
  BY <1>1 DEF Expected, Skipped

\* Without those who are skipped.
LEMMA ExpectedSkips ==
    ASSUME NEW u, NEW k
    PROVE  Expected(u, k) =
              {Target(sub[v].address, k) :
                 v \in {x \in Subscribers \ Skipped(u) : Target(sub[x].address, k) # None}}
BY DEF Expected, Skipped

\* A thread that was let alone, or knows that it was not.
LEMMA InOrderOther ==
    ASSUME Shape, NEW t \in Threads, Moves(t), InOrder(Other(t)),
           \/ dirty'[Other(t)] = Refreshing(Other(t))
           \/ UNCHANGED <<pub, sub, routes>> /\ dirty'[Other(t)] = dirty[Other(t)]
    PROVE  InOrder(Other(t))'
<1> DEFINE r == Other(t)
<1>1. Refreshing(r)' = Refreshing(r) /\ Arg(r)' = Arg(r) /\ r \in Threads \ {t}
  BY AtAfter
<1>2. work'[r] = work[r]
  BY <1>1, MovesKept
<1> HIDE DEF r
<1> SUFFICES ASSUME NEW s \in Ssrcs, NEW u \in Users, NEW k \in Kinds,
                    On(r, s)', ~dirty'[r], pub'[u][k] = s
             PROVE  Prepared(Arg(r), work[r], routes[s], k, Skipped(u), Expected(u, k))'
  BY DEF InOrder, r
<1>3. On(r, s)
  BY <1>1 DEF On
<1>4. UNCHANGED <<pub, sub, routes>> /\ ~dirty[r]
  BY <1>3 DEF On, r
<1>5. Prepared(Arg(r), work[r], routes[s], k, Skipped(u), Expected(u, k))
  BY <1>3, <1>4 DEF InOrder, r
<1>6. Expected(u, k)' = Expected(u, k) /\ Skipped(u)' = Skipped(u)
  BY <1>4, ExpectedSame
<1> QED
  BY <1>1, <1>2, <1>4, <1>5, <1>6

\* A thread that does something else.
LEMMA InOrderElse ==
    ASSUME Shape, NEW t \in Threads, Moves(t), ~Refreshing(t), ~At(t, "lookup")
    PROVE  InOrder(t)'
<1>1. ~Refreshing(t)'
  BY AtAfter
<1> QED
  BY <1>1 DEF InOrder, On

\* Lookup finds whose stream of which kind it is.
LEMMA LookupInOrder == ASSUME Shape, Unique, NEW t \in Threads, Lookup(t) PROVE InOrder(t)'
<1>0. work \in [Threads -> Seq(Item)]
  BY DEF Shape
<1>1. ~Idle(t) /\ Arg(t) \in SourceItem /\ Arg(t).op = "lookup"
  BY <1>0, ArgItem, ItemKind DEF Lookup
<1> SUFFICES ASSUME NEW s \in Ssrcs, NEW u \in Users, NEW k \in Kinds,
                    On(t, s)', ~dirty'[t], pub'[u][k] = s
             PROVE  Prepared(Arg(t), work[t], routes[s], k, Skipped(u), Expected(u, k))'
  BY DEF InOrder
<1> DEFINE j == IF \E v \in Users : pub[v]["video"] = Arg(t).ssrc THEN "video" ELSE "audio"
           self == {v \in Users : Cardinality(Subscribers) > 1 /\ \E i \in Kinds : pub[v][i] = Arg(t).ssrc}
           x == [op |-> "forget", ssrc |-> Arg(t).ssrc, skip |-> self, kind |-> j,
                 many |-> Cardinality({v \in Users : pub[v][j] # 0}) > 1]
<1>2. UNCHANGED <<pub, sub>> /\ (Then(t, <<x>>) \/ Then(t, <<>>))
  BY DEF Lookup, members
<1>3. x.op = "forget" /\ x.ssrc = Arg(t).ssrc /\ x.skip = self /\ x.kind = j
  OBVIOUS
<1>4. x \in Item
  <2>1. Arg(t).ssrc \in Ssrcs
    BY <1>1 DEF SourceItem
  <2>2. j \in Kinds /\ self \in SUBSET Users
    BY DEF Kinds
  <2> HIDE DEF j, self
  <2>3. (Cardinality({v \in Users : pub[v][j] # 0}) > 1) \in BOOLEAN
    BY SMT
  <2> QED
    BY <2>1, <2>2, <2>3, ForgetItem
<1> HIDE DEF x
<1>5. CASE Then(t, <<>>)
  BY <1>1, <1>5, NoItem, HeadAfter DEF On
<1>6. CASE Then(t, <<x>>)
  <2>1. Arg(t)' = x
    BY <1>1, <1>4, <1>6, HeadOne
  <2>2. Arg(t).ssrc = s /\ pub[u][k] = s /\ s # 0
    BY <1>2, <1>3, <2>1, MediaRoutesAssumption, SMT DEF On, Ssrcs
  <2>3. \A v \in Users, i \in Kinds : pub[v][i] = s => v = u /\ i = k
    BY <2>2, SMT DEF Unique
  <2>4. j = k
    BY <2>2, <2>3 DEF Kinds
  <2>5. self = Skipped(u)
    BY <2>2, <2>3 DEF Skipped
  <2>6. Skipped(u)' = Skipped(u)
    BY <1>2, ExpectedSame
  <2> HIDE DEF j, self
  <2> QED
    BY <1>3, <2>1, <2>4, <2>5, <2>6 DEF Prepared
<1> QED
  BY <1>2, <1>5, <1>6

\* Forget and Clear change nothing of what Lookup found; Clear leaves no target.
LEMMA ForgetInOrder == ASSUME Shape, NEW t \in Threads, InOrder(t), Forget(t) \/ Clear(t) PROVE InOrder(t)'
<1>0. work \in [Threads -> Seq(Item)] /\ DOMAIN routes = Ssrcs /\ Refreshing(t)
  BY DEF Shape, Forget, Clear, Refreshing
<1>1. ~Idle(t) /\ Arg(t) \in RefreshItem /\ Arg(t).op \in {"forget", "clear"}
  BY <1>0, ArgItem, ItemKind DEF Forget, Clear
<1>2. UNCHANGED <<pub, sub>> /\ dirty'[t] = dirty[t]
  BY DEF Forget, Clear, members, Interfere, Other, Threads, Shape
<1> SUFFICES ASSUME NEW s \in Ssrcs, NEW u \in Users, NEW k \in Kinds,
                    On(t, s)', ~dirty'[t], pub'[u][k] = s
             PROVE  Prepared(Arg(t), work[t], routes[s], k, Skipped(u), Expected(u, k))'
  BY DEF InOrder
<1>3. PICK op \in {"clear", "list"} : /\ Then(t, <<[Arg(t) EXCEPT !.op = op]>>)
                                      /\ op = "list" => routes' = [routes EXCEPT ![Arg(t).ssrc] = {}]
  BY DEF Forget, Clear, NoRoutes
<1> DEFINE x == [Arg(t) EXCEPT !.op = op]
<1>4. /\ x \in Item /\ x.op = op
      /\ x.ssrc = Arg(t).ssrc /\ x.kind = Arg(t).kind /\ x.skip = Arg(t).skip
  BY <1>1 DEF Item, RefreshItem
<1>5. Then(t, <<x>>)
  BY <1>3
<1> HIDE DEF x
<1>6. Arg(t)' = x
  BY <1>1, <1>4, <1>5, HeadOne
<1>7. On(t, s) /\ Arg(t).ssrc = s
  BY <1>0, <1>4, <1>6 DEF On
<1>8. Arg(t).kind = k /\ Arg(t).skip = Skipped(u)
  BY <1>1, <1>2, <1>7 DEF InOrder, Prepared
<1>9. Skipped(u)' = Skipped(u) /\ (op = "list" => routes'[s] = {})
  BY <1>0, <1>2, <1>3, <1>7, ExpectedSame
<1> QED
  BY <1>4, <1>6, <1>8, <1>9 DEF Prepared

\* An address of a subscriber tells whose it is.
LEMMA TargetOwn ==
    ASSUME NEW u, NEW address, OwnAddresses(u, address), NEW k \in Kinds, Target(address, k) # None
    PROVE  \E j \in Kinds : Target(address, k) = <<u, j>>
<1>1. (CHOOSE j \in Kinds : j # k) \in Kinds
  BY DEF Kinds
<1> QED
  BY <1>1 DEF Target, OwnAddresses

\* What List finds is what ought to be.
LEMMA ListWhole ==
    ASSUME Shape, Owned, NEW t \in Threads, InOrder(t), List(t), ~dirty[t],
           NEW s \in Ssrcs, NEW u \in Users, NEW k \in Kinds, Arg(t).ssrc = s, pub[u][k] = s
    PROVE  Whole(routes'[s], work'[t], Expected(u, k)')
<1>0. work \in [Threads -> Seq(Item)] /\ On(t, s)
  BY DEF Shape, List, Refreshing, On
<1>1. /\ ~Idle(t) /\ Arg(t).op = "list" /\ work[t] \in Seq(Item) /\ work[t] # <<>>
      /\ Arg(t) = work[t][1] /\ InPiece(work[t])
  BY <1>0, ArgItem DEF List, Shape
<1>2. Arg(t).kind = k /\ Arg(t).skip = Skipped(u) /\ routes[s] = {}
  BY <1>0, <1>1 DEF InOrder, Prepared
<1>3. UNCHANGED <<sub, routes>>
  BY DEF List, members
<1> DEFINE to == {v \in Subscribers \ Skipped(u) : Target(sub[v].address, k) # None}
           found == {v \in Subscribers \ Arg(t).skip : Target(sub[v].address, Arg(t).kind) # None}
           A == Expected(u, k)
<1>3a. found = to
  BY <1>2
<1>3b. \E a \in Seq(Item) :
         /\ Then(t, a)
         /\ \A i \in 1..Len(a) : a[i].op = "add" /\ a[i].ssrc = Arg(t).ssrc
         /\ \E list \in Orders(found) :
               /\ Len(list) = Len(a)
               /\ \A i \in 1..Len(a) : a[i].to = Target(sub[list[i]].address, Arg(t).kind)
  BY ListSteps
<1> HIDE DEF to, found, A
<1>4. PICK a \in Seq(Item), list \in Orders(to) :
         /\ Then(t, a) /\ Len(list) = Len(a)
         /\ \A i \in 1..Len(a) : a[i].op = "add" /\ a[i].to = Target(sub[list[i]].address, k)
  BY <1>2, <1>3a, <1>3b
<1> USE DEF to, A
<1>5. A = {Target(sub[v].address, k) : v \in to}
  BY ExpectedSkips
<1>6. ASSUME NEW v \in to, NEW x \in to, Target(sub[v].address, k) = Target(sub[x].address, k) PROVE v = x
  <2>1. \A y \in to : \E j \in Kinds : Target(sub[y].address, k) = <<y, j>>
    BY TargetOwn DEF Owned, Subscribers
  <2>2. PICK i \in Kinds, j \in Kinds : <<v, i>> = <<x, j>>
    BY <1>6, <2>1
  <2> QED
    BY <2>2
<1> HIDE DEF to, A
<1>7. /\ \A i \in 1..Len(list) : list[i] \in to
      /\ \A i, j \in 1..Len(list) : list[i] = list[j] => i = j
      /\ \A v \in to : \E i \in 1..Len(list) : list[i] = v
  <2>1. \A i \in 1..Len(list) : list[i] \in to
    BY Listing
  <2>2. \A i, j \in 1..Len(list) : list[i] = list[j] => i = j
    BY ListedOnce
  <2>3. \A v \in to : \E i \in 1..Len(list) : list[i] = v
    BY ListedOnce, SMT
  <2> QED
    BY <2>1, <2>2, <2>3
<1>8. \A i \in 1..Len(a) : a[i].op = "add" /\ a[i].to \in A
  BY <1>4, <1>7, <1>5
<1>9. ASSUME NEW i \in 1..Len(a), NEW j \in 1..Len(a), a[i].to = a[j].to PROVE i = j
  <2>1. i \in 1..Len(list) /\ j \in 1..Len(list)
    BY <1>4
  <2>2. list[i] \in to /\ list[j] \in to
    BY <1>7, <2>1
  <2>3. Target(sub[list[i]].address, k) = Target(sub[list[j]].address, k)
    BY <1>4, <1>9
  <2>4. list[i] = list[j]
    BY <1>6, <2>2, <2>3
  <2> QED
    BY <1>7, <2>1, <2>4
<1>10. \A x \in A : \E i \in 1..Len(a) : a[i].to = x
  BY <1>4, <1>7, <1>5, SMT
<1>11. Whole({}, a \o Tail(work[t]), A)
  BY <1>1, <1>8, <1>9, <1>10, WholeList
<1>12. work'[t] = a \o Tail(work[t])
  BY <1>1, <1>4, HeadAfter
<1>13. Expected(u, k)' = A
  BY <1>3, ExpectedSame DEF A
<1> QED
  BY <1>2, <1>3, <1>11, <1>12, <1>13

\* Add and Note go on with it.
LEMMA AddWhole ==
    ASSUME Shape, NEW t \in Threads, InOrder(t), Add(t) \/ Note(t), ~dirty[t],
           NEW s \in Ssrcs, NEW u \in Users, NEW k \in Kinds, Arg(t).ssrc = s, pub[u][k] = s
    PROVE  Whole(routes'[s], work'[t], Expected(u, k)')
<1>0. work \in [Threads -> Seq(Item)] /\ DOMAIN routes = Ssrcs /\ On(t, s)
  BY DEF Shape, Add, Note, Refreshing, On
<1>1. /\ ~Idle(t) /\ Arg(t) \in TargetItem /\ work[t] \in Seq(Item) /\ work[t] # <<>> /\ Arg(t) = work[t][1]
      /\ Add(t) => Arg(t).op = "add"
      /\ Note(t) => Arg(t).op = "note"
  BY <1>0, ArgItem, ItemKind DEF Add, Note
<1>2. Whole(routes[s], work[t], Expected(u, k))
  BY <1>0, <1>1 DEF InOrder, Prepared
<1>3. Expected(u, k)' = Expected(u, k)
  BY ExpectedSame DEF Add, Note, members
<1>4. CASE Add(t)
  <2> DEFINE y == [Arg(t) EXCEPT !.op = "note"]
  <2>1. y \in Item /\ y.op = "note"
    BY <1>1 DEF Item, TargetItem
  <2>2. Then(t, <<y>>)
    BY <1>4 DEF Add
  <2> HIDE DEF y
  <2>3. PICK z : z.to = Arg(t).to /\ routes' = [routes EXCEPT ![Arg(t).ssrc] = @ \cup {z}]
    <3> DEFINE same == {r \in routes[Arg(t).ssrc] : r.to = Arg(t).to /\ r.as = Arg(t).as}
               z == [to |-> Arg(t).to, as |-> Arg(t).as, copy |-> Cardinality(same)]
    <3>1. routes' = [routes EXCEPT ![Arg(t).ssrc] = @ \cup {z}]
      BY <1>4 DEF Add
    <3>2. z.to = Arg(t).to
      OBVIOUS
    <3> HIDE DEF z
    <3> QED
      BY <3>1, <3>2
  <2>4. routes'[s] = routes[s] \cup {z}
    BY <1>0, <2>3
  <2>5. Whole(routes[s] \cup {z}, <<y>> \o Tail(work[t]), Expected(u, k))
    BY <1>1, <1>2, <1>4, <2>1, <2>3, WholeAdd
  <2>6. work'[t] = <<y>> \o Tail(work[t])
    BY <1>1, <2>1, <2>2, OneItem, HeadAfter
  <2> QED
    BY <1>3, <2>4, <2>5, <2>6
<1>5. CASE Note(t)
  <2>1. routes' = routes /\ Then(t, <<>>)
    BY <1>5 DEF Note
  <2>2. Whole(routes[s], <<>> \o Tail(work[t]), Expected(u, k))
    BY <1>1, <1>2, <1>5, WholeNote
  <2>3. work'[t] = <<>> \o Tail(work[t])
    BY <1>1, <2>1, NoItem, HeadAfter
  <2> QED
    BY <1>3, <2>1, <2>2, <2>3
<1> QED
  BY <1>4, <1>5

\* From List on a refresh adds what is missing, and nothing else.
LEMMA AddsInOrder ==
    ASSUME Shape, Owned, NEW t \in Threads, InOrder(t), List(t) \/ Add(t) \/ Note(t)
    PROVE  InOrder(t)'
<1>0. work \in [Threads -> Seq(Item)] /\ ~Idle(t) /\ Moves(t)
  BY RefreshWork DEF Shape, List, Add, Note, At, Refresh
<1>1. UNCHANGED <<pub, sub>> /\ dirty'[t] = dirty[t]
  BY DEF List, Add, Note, members, Interfere, Other, Threads, Shape
<1> SUFFICES ASSUME NEW s \in Ssrcs, NEW u \in Users, NEW k \in Kinds,
                    On(t, s)', ~dirty'[t], pub'[u][k] = s
             PROVE  Prepared(Arg(t), work[t], routes[s], k, Skipped(u), Expected(u, k))'
  BY DEF InOrder
<1>2. Arg(t).ssrc = s
  BY <1>0, AtAfter DEF On
<1>3. Whole(routes'[s], work'[t], Expected(u, k)')
  BY <1>1, <1>2, ListWhole, AddWhole
<1>4. Arg(t)'.op \in {"add", "note"}
  <2>1. CASE List(t)
    <3>1. PICK a \in Seq(Item) : Then(t, a) /\ \A i \in 1..Len(a) : a[i].op = "add"
      BY <2>1, ListSteps
    <3>2. Len(a) > 0 \/ Len(a) = 0
      BY SeqLen, SMT
    <3>3. Len(a) > 0 => 1 \in 1..Len(a)
      BY SeqLen, SMT
    <3> QED
      BY <1>0, <3>1, <3>2, <3>3, HeadAfter DEF On
  <2>2. CASE Add(t)
    <3>1. Arg(t) \in TargetItem
      BY <1>0, <2>2, ArgItem, ItemKind DEF Add
    <3> DEFINE y == [Arg(t) EXCEPT !.op = "note"]
    <3>2. y \in Item /\ y.op = "note"
      BY <3>1 DEF Item, TargetItem
    <3>3. Then(t, <<y>>)
      BY <2>2 DEF Add
    <3> HIDE DEF y
    <3> QED
      BY <1>0, <3>2, <3>3, HeadOne
  <2>3. CASE Note(t)
    BY <1>0, <2>3, NoItem, HeadAfter DEF Note, On
  <2> QED
    BY <2>1, <2>2, <2>3
<1> QED
  BY <1>3, <1>4 DEF Prepared

\* What the RPC thread is at when it is not at a refresh.
LEMMA RpcSteps ==
    ASSUME Shape, Rpc
    PROVE  /\ Moves("rpc") /\ ~Refreshing("rpc") /\ ~At("rpc", "lookup") /\ ~At("rpc", "refreshRoom")
           /\ dirty' = dirty \/ Interfere("rpc")
           /\ UNCHANGED <<pub, sub, routes>> \/ Interfere("rpc")
           /\ stale' = stale
<1>0. work \in [Threads -> Seq(Item)] /\ "rpc" \in Threads
  BY DEF Shape, Threads
<1>1. Idle("rpc") \/ \E op \in {"getSubscriber", "addSubscriber", "bindPublisher", "answer",
            "removeRoutes", "removeFeedback", "removeSubscriber", "removePublisher"} : At("rpc", op)
  BY DEF Rpc, CreateRoom, DestroyRoom, SetupTransport, CloseTransport, GetSubscriber, AddSubscriber,
       BindPublisher, Answer, RemoveRoutes, RemoveFeedback, RemoveSubscriber, RemovePublisher
<1>2. ~Refreshing("rpc") /\ ~At("rpc", "lookup") /\ ~At("rpc", "refreshRoom")
  BY <1>0, <1>1 DEF Refreshing, At
<1>3. (dirty' = dirty \/ Interfere("rpc")) /\ stale' = stale
  BY DEF Rpc, CreateRoom, DestroyRoom, SetupTransport, CloseTransport, GetSubscriber, AddSubscriber,
       BindPublisher, Answer, RemoveRoutes, RemoveFeedback, RemoveSubscriber, RemovePublisher
<1>4. UNCHANGED <<pub, sub, routes>> \/ Interfere("rpc") \/ RemovePublisher \/ RemoveSubscriber
  BY DEF Rpc, CreateRoom, DestroyRoom, SetupTransport, CloseTransport, GetSubscriber, AddSubscriber,
       BindPublisher, Answer, RemoveRoutes, RemoveFeedback, members
<1>5. ASSUME RemovePublisher, ~Interfere("rpc") PROVE UNCHANGED <<pub, sub, routes>>
  <2>1. Arg("rpc").user \in Users
    BY <1>0, <1>5, ArgItem, ItemKind, SMT DEF RemovePublisher, UserItem
  <2>2. /\ Arg("rpc").user \notin Publishers /\ pub' = [pub EXCEPT ![Arg("rpc").user] = [k \in Kinds |-> 0]]
        /\ UNCHANGED <<sub, routes>>
    BY <1>5 DEF RemovePublisher
  <2> QED
    BY <2>1, <2>2, SMT DEF Publishers, Shape
<1>6. ASSUME RemoveSubscriber, ~Interfere("rpc") PROVE UNCHANGED <<pub, sub, routes>>
  <2>1. Arg("rpc").user \in Users
    BY <1>0, <1>6, ArgItem, ItemKind, SMT DEF RemoveSubscriber, UserItem
  <2>2. /\ sub[Arg("rpc").user] = None /\ sub' = [sub EXCEPT ![Arg("rpc").user] = None]
        /\ UNCHANGED <<pub, routes>>
    BY <1>6 DEF RemoveSubscriber
  <2> QED
    BY <2>1, <2>2 DEF Shape
<1> QED
  BY <1>2, <1>3, <1>4, <1>5, <1>6, RpcWork

\* The same for the UDP thread.
LEMMA UdpSteps ==
    ASSUME Shape, Udp
    PROVE  /\ Moves("udp") /\ ~Refreshing("udp") /\ ~At("udp", "lookup") /\ ~At("udp", "refreshRoom")
           /\ dirty' = dirty \/ Interfere("udp")
           /\ UNCHANGED sub \/ Set
           /\ Set => Interfere("udp") /\ Then("udp", <<>>) /\ At("udp", "set")
           /\ UNCHANGED <<pub, routes, stale>>
<1>1. Idle("udp") \/ \E op \in {"find", "set"} : At("udp", op)
  BY DEF Udp, Stun, Find, Set
<1>2. ~Refreshing("udp") /\ ~At("udp", "lookup") /\ ~At("udp", "refreshRoom")
  BY <1>1 DEF Refreshing, At
<1>3. (dirty' = dirty \/ Interfere("udp")) /\ UNCHANGED <<pub, routes, stale>>
  BY DEF Udp, Stun, Find, Set, members
<1>4. UNCHANGED sub \/ Set
  BY DEF Udp, Stun, Find, members
<1>5. Set => Interfere("udp") /\ Then("udp", <<>>) /\ At("udp", "set")
  BY DEF Set
<1> QED
  BY <1>2, <1>3, <1>4, <1>5, UdpWork

\* A refresh that is let alone is right so far, whatever is done.
LEMMA NextInOrder ==
    ASSUME Shape, Base, \A t \in Threads : InOrder(t), Next
    PROVE  \A t \in Threads : InOrder(t)'
<1>0. /\ "rpc" \in Threads /\ "udp" \in Threads /\ dirty \in [Threads -> BOOLEAN]
      /\ \A t \in Threads : Other(t) \in Threads /\ Threads = {t, Other(t)} /\ Other(t) # t
  BY DEF Threads, Other, Shape
<1>1. ASSUME NEW t \in Threads, Interfere(t) PROVE dirty'[Other(t)] = Refreshing(Other(t))
  BY <1>0, <1>1 DEF Interfere
<1>2. CASE Rpc
  <2>1. /\ Moves("rpc") /\ ~Refreshing("rpc") /\ ~At("rpc", "lookup")
        /\ dirty' = dirty \/ Interfere("rpc")
        /\ UNCHANGED <<pub, sub, routes>> \/ Interfere("rpc")
    BY <1>2, RpcSteps
  <2>2. InOrder("rpc")'
    BY <1>0, <2>1, InOrderElse
  <2>3. InOrder(Other("rpc"))'
    BY <1>0, <1>1, <2>1, InOrderOther
  <2> QED
    BY <1>0, <2>2, <2>3
<1>3. CASE Udp
  <2>1. /\ Moves("udp") /\ ~Refreshing("udp") /\ ~At("udp", "lookup")
        /\ dirty' = dirty \/ Interfere("udp")
        /\ UNCHANGED <<pub, sub, routes>> \/ Interfere("udp")
    BY <1>3, UdpSteps
  <2>2. InOrder("udp")'
    BY <1>0, <2>1, InOrderElse
  <2>3. InOrder(Other("udp"))'
    BY <1>0, <1>1, <2>1, InOrderOther
  <2> QED
    BY <1>0, <2>2, <2>3
<1>4. ASSUME NEW t \in Threads, Refresh(t)
      PROVE  InOrder(t)' /\ InOrder(Other(t))'
  <2>1. Moves(t)
    BY <1>4, RefreshWork
  <2>2. \/ Interfere(t)
        \/ UNCHANGED <<pub, sub, routes>> /\ dirty'[Other(t)] = dirty[Other(t)]
    BY <1>0, <1>4 DEF Refresh, DoRefreshRoom, Lookup, Forget, Clear, List, Add, Note, members
  <2>3. InOrder(Other(t))'
    BY <1>0, <1>1, <2>1, <2>2, InOrderOther
  <2>4. CASE DoRefreshRoom(t)
    <3>1. ~Refreshing(t) /\ ~At(t, "lookup")
      BY <2>4 DEF DoRefreshRoom, Refreshing, At
    <3> QED
      BY <2>1, <2>3, <3>1, InOrderElse
  <2> QED
    BY <1>4, <2>3, <2>4, LookupInOrder, ForgetInOrder, AddsInOrder DEF Refresh, Base
<1> QED
  BY <1>0, <1>2, <1>3, <1>4, SMT DEF Next

\* A source to which nothing happens.
LEMMA SettledKept ==
    ASSUME Settled, NEW s \in Ssrcs, NEW u \in Users, NEW k \in Kinds, pub[u][k] = s, s \notin stale,
           UNCHANGED sub, routes'[s] = routes[s], ~Due(s), \A t \in Threads : ~On(t, s)
    PROVE  GoesOnceTo(s, Expected(u, k))'
<1>1. GoesOnceTo(s, Expected(u, k))
  BY DEF Settled
<1>2. Expected(u, k)' = Expected(u, k)
  BY ExpectedSame
<1> QED
  BY <1>1, <1>2 DEF GoesOnceTo

\* What a thread works on that does not move.
LEMMA OnOther ==
    ASSUME Shape, NEW t \in Threads, Moves(t), NEW s
    PROVE  /\ On(Other(t), s)' = On(Other(t), s)
           /\ \A r \in Threads : r = t \/ r = Other(t)
<1>1. Refreshing(Other(t))' = Refreshing(Other(t)) /\ Arg(Other(t))' = Arg(Other(t)) /\ Threads = {t, Other(t)}
  BY AtAfter
<1> QED
  BY <1>1 DEF On

\* A step of a refresh, seen from a source.
LEMMA RefreshSettled ==
    ASSUME Shape, Base, Settled, NEW t \in Threads, InOrder(t), Refresh(t),
           NEW s \in Ssrcs, NEW u \in Users, NEW k \in Kinds, pub'[u][k] = s, s \notin stale', ~Due(s)',
           \A r \in Threads : ~On(r, s)'
    PROVE  GoesOnceTo(s, Expected(u, k))'
<1>0. /\ work \in [Threads -> Seq(Item)] /\ DOMAIN routes = Ssrcs /\ Moves(t) /\ Other(t) \in Threads
      /\ InPiece(work'[t]) /\ work'[t] \in Seq(Item) /\ ~Idle(t)
  BY RefreshWork, MovesKept, AtAfter, RefreshSteps DEF Shape
<1>1. UNCHANGED <<pub, sub, room>> /\ pub[u][k] = s
  BY DEF Refresh, DoRefreshRoom, Lookup, Forget, Clear, List, Add, Note, members
<1>2. s # 0 /\ s \in Sources /\ room = "open"
  <2>1. s # 0
    BY MediaRoutesAssumption, SMT DEF Ssrcs
  <2>2. s \in Sources
    BY <1>1, <2>1, SMT DEF Sources, Publishers
  <2> QED
    BY <1>1, <2>1, <2>2 DEF Base, RoomOpen
<1>3. ~On(Other(t), s)
  BY <1>0, OnOther
<1>4. CASE DoRefreshRoom(t)
  <2>1. PICK a \in Seq(Item) : Then(t, a) /\ \E i \in 1..Len(a) : a[i] = [op |-> "lookup", ssrc |-> s]
    BY <1>2, <1>4, RoomSteps
  <2>2. Calls(a, s)
    BY <2>1 DEF Calls
  <2> QED
    BY <1>0, <2>1, <2>2, DueNew
<1>5. ASSUME Arg(t).ssrc = s, Arg(t)'.op \in RefreshOps, ~Idle(t)', Arg(t)'.ssrc = s PROVE FALSE
  BY <1>5 DEF On, Refreshing, At, Arg, RefreshOps
<1>6. ASSUME Arg(t).ssrc # s, Arg(t).op # "refreshRoom", s \notin stale, routes'[s] = routes[s]
      PROVE  GoesOnceTo(s, Expected(u, k))'
  <2>1. ~Due(s)
    BY <1>0, <1>6, DueKept
  <2>2. ~On(t, s)
    BY <1>6 DEF On
  <2>3. \A r \in Threads : ~On(r, s)
    BY <1>0, <1>3, <2>2, OnOther
  <2> QED
    BY <1>1, <1>6, <2>1, <2>3, SettledKept
<1>7. ASSUME NEW x \in Item, x.op \in RefreshOps, x.ssrc = Arg(t).ssrc, Then(t, <<x>>), Arg(t).ssrc = s PROVE FALSE
  <2>1. Arg(t)' = x /\ ~Idle(t)'
    BY <1>0, <1>7, HeadOne
  <2> QED
    BY <1>5, <1>7, <2>1
<1>8. CASE Lookup(t)
  <2>1. Arg(t).op = "lookup" /\ Arg(t) \in SourceItem /\ routes' = routes /\ stale' = stale
    BY <1>0, <1>8, ArgItem, ItemKind DEF Lookup
  <2>2. CASE Arg(t).ssrc = s
    <3> DEFINE x(self, j) == [op |-> "forget", ssrc |-> Arg(t).ssrc, skip |-> self, kind |-> j,
                              many |-> Cardinality({v \in Users : pub[v][j] # 0}) > 1]
    <3>1. ASSUME NEW self \in SUBSET Users, NEW j \in Kinds
          PROVE  x(self, j) \in Item /\ x(self, j).op \in RefreshOps /\ x(self, j).ssrc = Arg(t).ssrc
      <4>1. Arg(t).ssrc \in Ssrcs
        BY <2>1 DEF SourceItem
      <4>2. (Cardinality({v \in Users : pub[v][j] # 0}) > 1) \in BOOLEAN
        BY SMT
      <4>3. x(self, j) \in Item
        BY <4>1, <4>2, ForgetItem
      <4>4. x(self, j).op = "forget" /\ x(self, j).ssrc = Arg(t).ssrc
        OBVIOUS
      <4> QED
        BY <4>3, <4>4 DEF RefreshOps
    <3>2. \E self \in SUBSET Users, j \in Kinds : Then(t, <<x(self, j)>>)
      BY <1>2, <1>8 DEF Lookup, Kinds
    <3> HIDE DEF x
    <3> QED
      BY <1>7, <2>2, <3>1, <3>2
  <2> QED
    BY <1>6, <2>1, <2>2
<1>9. CASE Forget(t) \/ Clear(t)
  <2>1. Arg(t) \in RefreshItem /\ Arg(t).op \in {"forget", "clear"}
    BY <1>0, <1>9, ArgItem, ItemKind DEF Forget, Clear
  <2>2. /\ Arg(t).ssrc # s => routes'[s] = routes[s]
        /\ stale' = stale
    BY <1>0, <1>9 DEF Forget, Clear
  <2>3. \A op \in {"clear", "list"} : /\ [Arg(t) EXCEPT !.op = op] \in Item
                                      /\ [Arg(t) EXCEPT !.op = op].op \in RefreshOps
                                      /\ [Arg(t) EXCEPT !.op = op].ssrc = Arg(t).ssrc
    BY <2>1 DEF Item, RefreshItem, RefreshOps
  <2>4. \E op \in {"clear", "list"} : Then(t, <<[Arg(t) EXCEPT !.op = op]>>)
    BY <1>9 DEF Forget, Clear
  <2>5. Arg(t).ssrc # s
    BY <1>7, <2>3, <2>4
  <2> QED
    BY <1>6, <2>1, <2>2, <2>5
<1>10. CASE Add(t)
  <2>1. Arg(t) \in TargetItem /\ Arg(t).op = "add"
    BY <1>0, <1>10, ArgItem, ItemKind DEF Add
  <2>2. /\ Arg(t).ssrc # s => routes'[s] = routes[s]
        /\ stale \subseteq stale'
    BY <1>0, <1>10 DEF Add
  <2>3. /\ [Arg(t) EXCEPT !.op = "note"] \in Item
        /\ [Arg(t) EXCEPT !.op = "note"].op \in RefreshOps
        /\ [Arg(t) EXCEPT !.op = "note"].ssrc = Arg(t).ssrc
    BY <2>1 DEF Item, TargetItem, RefreshOps
  <2>4. Then(t, <<[Arg(t) EXCEPT !.op = "note"]>>)
    BY <1>10 DEF Add
  <2>5. Arg(t).ssrc # s
    BY <1>7, <2>3, <2>4
  <2> QED
    BY <1>6, <2>1, <2>2, <2>5
<1>11. CASE List(t) \/ Note(t)
  <2>1. Arg(t).op \in {"list", "note"} /\ routes' = routes
    BY <1>0, <1>11, ArgItem DEF List, Note
  <2>2. CASE Arg(t).ssrc # s
    <3>1. s \notin stale
      BY <1>11, <2>2 DEF List, Note
    <3> QED
      BY <1>6, <2>1, <2>2, <3>1
  <2>3. CASE Arg(t).ssrc = s
    <3>1. ~dirty[t]
      BY <1>11, <2>3 DEF List, Note
    <3>2. Whole(routes'[s], work'[t], Expected(u, k)')
      BY <1>1, <1>11, <2>3, <3>1, ListWhole, AddWhole DEF Base
    <3>3. ASSUME NEW i \in 1..Len(work'[t]), work'[t][i].op = "add" PROVE FALSE
      <4> DEFINE w == work'[t]
      <4>1. Len(w) \in Nat /\ w # <<>> /\ Head(w) = w[1]
        BY <1>0, <3>3, SeqLen, NoItem, SeqTail, SMT
      <4>2. w[1].op \notin RefreshOps
        <5>1. ASSUME w[1].op \in RefreshOps PROVE FALSE
          <6>1. Refreshing(t)'
            BY <4>1, <5>1 DEF Refreshing, At, Idle, RefreshOps
          <6>2. On(t, s)'
            BY <1>0, <2>3, <6>1, AtAfter DEF On
          <6> QED
            BY <6>2
        <5> QED
          BY <5>1
      <4>3. i # 1
        BY <3>3, <4>2 DEF RefreshOps
      <4>4. i \in 2..Len(w) /\ 1 \in 1..(i - 1)
        BY <4>1, <4>3, SMT
      <4> QED
        BY <1>0, <3>3, <4>2, <4>4 DEF InPiece, RefreshOps
    <3>4. \A i \in 1..Len(work'[t]) : work'[t][i].op # "add"
      BY <3>3
    <3>5. /\ {r.to : r \in routes'[s]} = Expected(u, k)'
          /\ \A r, q \in routes'[s] : r.to = q.to => r = q
      BY <3>2, <3>4, WholeEnd, SMT
    <3> QED
      BY <3>5 DEF GoesOnceTo
  <2> QED
    BY <2>2, <2>3
<1> QED
  BY <1>4, <1>8, <1>9, <1>10, <1>11 DEF Refresh

\* A step of another kind.
LEMMA ElseSettled ==
    ASSUME Shape, Settled, NEW t \in Threads, Moves(t),
           ~Refreshing(t), ~At(t, "lookup"), ~At(t, "refreshRoom"), stale' = stale, UNCHANGED sub,
           NEW s \in Ssrcs, NEW u \in Users, NEW k \in Kinds, pub[u][k] = s, routes'[s] = routes[s],
           s \notin stale', ~Due(s)', \A r \in Threads : ~On(r, s)'
    PROVE  GoesOnceTo(s, Expected(u, k))'
<1>1. ~Due(s)
  <2>1. ~Idle(t) => Arg(t).op \notin {"refreshRoom", "lookup"}
    BY DEF At, Arg
  <2> QED
    BY <2>1, DueKept
<1>2. ~On(t, s) /\ ~On(Other(t), s)
  BY AtAfter, OnOther DEF On
<1> QED
  BY <1>1, <1>2, OnOther, SettledKept

\* A source that is not about to be refreshed has the targets it ought to.
LEMMA NextSettled ==
    ASSUME Shape, Base, \A t \in Threads : InOrder(t), Settled, Next
    PROVE  Settled'
<1>0. /\ work \in [Threads -> Seq(Item)] /\ "rpc" \in Threads /\ "udp" \in Threads /\ DOMAIN routes = Ssrcs
      /\ pub \in [Users -> [Kinds -> 0..MaxSsrc]] /\ Orderly
  BY DEF Shape, Threads, Base
<1> SUFFICES ASSUME NEW s \in Ssrcs, NEW u \in Users, NEW k \in Kinds, pub'[u][k] = s, s \notin stale',
                    ~Due(s)', \A r \in Threads : ~On(r, s)'
             PROVE  GoesOnceTo(s, Expected(u, k))'
  BY DEF Settled
<1>1. ASSUME NEW t \in Threads, Refresh(t) PROVE GoesOnceTo(s, Expected(u, k))'
  BY <1>1, RefreshSettled
<1>2. s # 0
  BY MediaRoutesAssumption, SMT DEF Ssrcs
<1>3. ASSUME NEW t \in Threads, NEW a \in Seq(Item), ~Idle(t), Then(t, a), NEW i \in 1..Len(a), a[i] = RefreshRoom
      PROVE  FALSE
  <2>1. Calls(a, s)
    BY <1>3 DEF Calls
  <2> QED
    BY <1>3, <2>1, DueNew
<1>4. CASE Udp
  <2>1. ~Set
    BY <1>0, <1>4, UdpSteps, DueNext
  <2> QED
    BY <1>0, <1>4, <2>1, UdpSteps, ElseSettled
<1>5. CASE Rpc
  <2>1. ASSUME UNCHANGED sub, pub[u][k] = s, routes'[s] = routes[s] PROVE GoesOnceTo(s, Expected(u, k))'
    BY <1>0, <1>5, <2>1, RpcSteps, ElseSettled
  <2>2. CASE DestroyRoom
    BY <1>2, <2>2 DEF DestroyRoom
  <2>3. CASE AddSubscriber
    BY <1>0, <2>3, DueNext DEF AddSubscriber
  <2>4. CASE RemoveSubscriber
    <3>1. ~Idle("rpc") /\ Arg("rpc") \in UserItem
      BY <1>0, <2>4, ArgItem, ItemKind DEF RemoveSubscriber
    <3>2. RefreshRoom \in Item
      BY DEF RefreshRoom, Item, RoomItem
    <3>3. ~Then("rpc", <<RefreshRoom>>)
      <4> DEFINE a == <<RefreshRoom>>
      <4>1. a \in Seq(Item) /\ 1 \in 1..Len(a) /\ a[1] = RefreshRoom
        BY <3>2, OneItem, SMT
      <4> HIDE DEF a
      <4>2. ~Then("rpc", a)
        BY <1>0, <1>3, <3>1, <4>1
      <4> QED
        BY <4>2 DEF a
    <3>4. UNCHANGED <<pub, routes>> /\ sub[Arg("rpc").user] = None /\ sub' = [sub EXCEPT ![Arg("rpc").user] = None]
      BY <2>4, <3>3 DEF RemoveSubscriber
    <3>5. sub' = sub
      BY <3>1, <3>4 DEF UserItem, Shape
    <3> QED
      BY <2>1, <3>4, <3>5
  <2>5. CASE BindPublisher
    <3> DEFINE v == Arg("rpc").user
               j == Arg("rpc").kind
               y == [op |-> "answer", user |-> v, kind |-> j]
               b == <<RefreshRoom, y>>
               a == RoutesOff(pub[v][j]) \o b
    <3>1. /\ v \in Users /\ j \in Kinds /\ ~Idle("rpc")
          /\ Then("rpc", a) \/ pub' = pub
      BY <2>5, BindFacts, <1>0
    <3>2. UNCHANGED <<sub, routes>>
      BY <2>5 DEF BindPublisher
    <3>3. RefreshRoom \in Item /\ y \in Item /\ pub[v][j] \in 0..MaxSsrc
      BY <1>0, <3>1 DEF Item, RoomItem, PlaceItem, RefreshRoom
    <3> HIDE DEF y, v, j
    <3>4. b \in Seq(Item) /\ b[1] = RefreshRoom /\ 1 \in 1..Len(b)
      BY <3>3, TwoItems, SMT
    <3> HIDE DEF b
    <3>5. a \in Seq(Item) /\ \E i \in 1..Len(a) : a[i] = b[1]
      BY <3>3, <3>4, OffSteps
    <3> HIDE DEF a
    <3>6. pub' = pub
      BY <1>0, <1>3, <3>1, <3>4, <3>5
    <3> QED
      BY <2>1, <3>2, <3>6
  <2>6. CASE RemovePublisher
    <3>1. UNCHANGED <<sub, routes>> /\ pub' = [pub EXCEPT ![Arg("rpc").user] = [j \in Kinds |-> 0]]
      BY <2>6 DEF RemovePublisher
    <3>2. pub[u][k] = s
      BY <1>0, <1>2, <3>1
    <3> QED
      BY <2>1, <3>1, <3>2
  <2>7. CASE RemoveRoutes
    <3>1. /\ Arg("rpc").op = "removeRoutes" /\ Arg("rpc") = work["rpc"][1] /\ Len(work["rpc"]) \in Nat \ {0}
      BY <1>0, <2>7, ArgItem DEF RemoveRoutes
    <3>2. UNCHANGED <<pub, sub>> /\ routes' = [routes EXCEPT ![Arg("rpc").ssrc] = NoRoutes]
      BY <2>7 DEF RemoveRoutes, members
    <3>3. Arg("rpc").ssrc \notin Sources
      BY <1>0, <3>1, RemovedIsGone
    <3>4. s \in Sources
      BY <1>2, <3>2, SMT DEF Sources, Publishers
    <3>5. routes'[s] = routes[s]
      BY <1>0, <3>2, <3>3, <3>4
    <3> QED
      BY <2>1, <3>2, <3>5
  <2>8. ASSUME UNCHANGED <<pub, sub, routes>> PROVE GoesOnceTo(s, Expected(u, k))'
    BY <2>1, <2>8
  <2> QED
    BY <1>5, <2>2, <2>3, <2>4, <2>5, <2>6, <2>7, <2>8 DEF Rpc, CreateRoom, SetupTransport, CloseTransport,
       GetSubscriber, Answer, RemoveFeedback, members
<1> QED
  BY <1>1, <1>4, <1>5 DEF Next

-----------------------------------------------------------------------------
\* Between calls every published stream goes once to every other subscriber whose
\* address is known, and to nobody else, unless its last refresh was interfered
\* with: for any number of users and of transports, however the threads interleave.
THEOREM RoutesFollowRoom == Spec => []RoutesAgree
<1> DEFINE Ordered == \A t \in Threads : InOrder(t)
           IInv == Shape /\ Base /\ Ordered /\ Settled
<1>1. Init => IInv
  <2> SUFFICES ASSUME Init PROVE Base /\ Ordered /\ Settled
    BY InitShape
  <2>1. /\ \A t \in Threads : work[t] = <<>> /\ Idle(t)
        /\ \A u \in Users : sub[u] = None
        /\ \A u \in Users, k \in Kinds : pub[u][k] = 0
        /\ drawn = 0 /\ "rpc" \in Threads
    BY DEF Init, Idle, Threads
  <2>2. Owned /\ Unique /\ RoomOpen
    BY <2>1, SMT DEF Owned, Unique, RoomOpen
  <2>3. Orderly
    BY <2>1, NoItem, SMT DEF Orderly, Followed
  <2>4. Ordered
    BY <2>1 DEF InOrder, On, Refreshing, At
  <2>5. Settled
    BY <2>1, MediaRoutesAssumption, SMT DEF Settled, Ssrcs
  <2> QED
    BY <2>2, <2>3, <2>4, <2>5 DEF Base
<1>2. IInv /\ [Next]_vars => IInv'
  <2> SUFFICES ASSUME IInv, [Next]_vars PROVE IInv'
    OBVIOUS
  <2>1. Shape'
    BY NextShape
  <2>2. CASE Next
    BY <2>1, <2>2, NextBase, NextInOrder, NextSettled
  <2>3. CASE UNCHANGED vars
    <3>1. Legal' = Legal /\ UNCHANGED <<room, pub, sub, drawn, work, dirty, routes, stale>>
      BY <2>3, LegalSame DEF vars
    <3>2. Owned' /\ Unique' /\ RoomOpen'
      BY <3>1, SMT DEF Base, Owned, Unique, RoomOpen, Idle
    <3>3. Orderly'
      BY <3>1 DEF Base, Orderly
    <3>4. \A u, k : Expected(u, k)' = Expected(u, k) /\ Skipped(u)' = Skipped(u)
      BY <3>1, ExpectedSame
    <3>5. \A t, s : On(t, s)' = On(t, s) /\ Arg(t)' = Arg(t)
      BY <3>1 DEF On, Refreshing, At, Idle, Arg
    <3>6. \A s : Due(s)' = Due(s)
      BY <3>1 DEF Due
    <3>7. Ordered'
      BY <3>1, <3>4, <3>5 DEF InOrder
    <3>8. Settled'
      BY <3>1, <3>4, <3>5, <3>6, SMT DEF Settled, GoesOnceTo
    <3> QED
      BY <2>1, <3>2, <3>3, <3>7, <3>8 DEF Base
  <2> QED
    BY <2>2, <2>3
<1>3. IInv => RoutesAgree
  <2> SUFFICES ASSUME IInv, Quiet, NEW u \in Publishers, NEW k \in Kinds, pub[u][k] \notin stale \cup {0}
               PROVE  GoesOnceTo(pub[u][k], Expected(u, k))
    BY DEF RoutesAgree
  <2>1. u \in Users /\ pub[u][k] \in Ssrcs
    BY MediaRoutesAssumption, SMT DEF Publishers, Shape, Ssrcs
  <2>2. \A s : ~Due(s)
    BY NoItem, SMT DEF Quiet, Idle, Due, Calls
  <2>3. \A t \in Threads, s \in Ssrcs : ~On(t, s)
    BY DEF Quiet, On, Refreshing, At
  <2> QED
    BY <2>1, <2>2, <2>3 DEF Settled
<1> QED
  BY <1>1, <1>2, <1>3, PTL DEF Spec
=============================================================================
