------------------------- MODULE MediaRoutes_proof -------------------------
(* Proofs about MediaRoutes for any number of users and transports.          *)
EXTENDS MediaRoutes, TLAPS

\* Most leaves are first-order; those with arithmetic, records or sequences say SMT.
USE Zenon

\* The steps a thread can have before it, by what they carry.
RoomItem == [op : {"refreshRoom"}]
SourceItem == [op : {"lookup", "removeRoutes", "removeFeedback"}, ssrc : Ssrcs]
RefreshItem == [op : {"forget", "clear", "list"}, ssrc : Ssrcs, skip : SUBSET Users, kind : Kinds, many : BOOLEAN]
TargetItem == [op : {"add", "note"}, ssrc : Ssrcs, to : Addresses, as : Rewrites]
UserItem == [op : {"removeSubscriber", "removePublisher"}, user : Users]
PlaceItem == [op : {"answer", "find", "set"}, user : Users, kind : Kinds]
StreamItem == [op : {"getSubscriber"}, user : Users, kind : Kinds, ssrc : 0..MaxSsrc]
BindItem == [op : {"bindPublisher"}, user : Users, kind : Kinds, ssrc : Ssrcs]
Subscriber == [address : [Kinds -> Addresses \cup {None}], ssrc : [Kinds -> 0..MaxSsrc]]
SubscriberItem == [op : {"addSubscriber"}, user : Users, new : Subscriber]

Item == RoomItem \cup SourceItem \cup RefreshItem \cup TargetItem \cup UserItem \cup PlaceItem
        \cup StreamItem \cup BindItem \cup SubscriberItem


RefreshOps == {"forget", "clear", "list", "add", "note"}

\* What a refresh does to one source comes first, and in one piece.
InPiece(w) ==
    \A i \in 2..Len(w) :
       /\ w[i].op \notin RefreshOps \ {"add"}
       /\ w[i].op = "add" =>
             \A j \in 1..(i - 1) : w[j].op \in {"add", "note"} /\ w[j].ssrc = w[i].ssrc

\* The types, and what the steps of the threads look like.
Shape ==
    /\ room \in {"none", "open", "gone"}
    /\ pub \in [Users -> [Kinds -> 0..MaxSsrc]]
    /\ sub \in [Users -> Subscriber \cup {None}]
    /\ tr \in [Users -> [Kinds -> {"none", "new", "answered", "selected"}]]
    /\ drawn \in 0..MaxSsrc
    /\ DOMAIN routes = Ssrcs
    /\ feedback \subseteq [at : Addresses, as : Rewrites, source : Ssrcs]
    /\ work \in [Threads -> Seq(Item)]
    /\ \A t \in Threads : InPiece(work[t])
    /\ ptr \in Users \cup {None} /\ (ptr # None => sub[ptr] # None)
    /\ dirty \in [Threads -> BOOLEAN]
    /\ stale \subseteq Ssrcs

\* What may follow a step x: the refresh of a source goes on, nothing else begins one.
Fits(a, x) ==
    /\ InPiece(a)
    /\ x.op \in {"add", "note"} =>
          \A i \in 1..Len(a) : a[i].op \in {"add", "note"} /\ a[i].ssrc = x.ssrc
    /\ Len(a) > 0 /\ a[1].op \in RefreshOps =>
          x.op \in RefreshOps \cup {"lookup"} /\ a[1].ssrc = x.ssrc

\* The routes of source s are to be removed.
Removes(a, s) == \E i \in 1..Len(a) : a[i] = [op |-> "removeRoutes", ssrc |-> s]

\* Steps of a call that are no part of a refresh.
Plain(a) == a \in Seq(Item) /\ \A i \in 1..Len(a) : a[i].op \notin RefreshOps

\* A call comes, or its first step is replaced by others.
Begins(t, a) == Idle(t) /\ work' = [work EXCEPT ![t] = a] /\ Plain(a)
Goes(t, a) == ~Idle(t) /\ Then(t, a) /\ Fits(a, Arg(t))
Moves(t) == UNCHANGED work \/ \E a \in Seq(Item) : Begins(t, a) \/ Goes(t, a)

-----------------------------------------------------------------------------
(* Sequences of steps *)

\* The length of a sequence.
LEMMA SeqLen ==
    ASSUME NEW S, NEW w \in Seq(S)
    PROVE  Len(w) \in Nat /\ DOMAIN w = 1..Len(w) /\ (w = <<>> <=> Len(w) = 0)
BY SMT

\* Its elements.
LEMMA SeqElement == ASSUME NEW S, NEW w \in Seq(S), NEW i \in 1..Len(w) PROVE w[i] \in S
BY SMT

\* Its first element and the rest.
LEMMA SeqTail ==
    ASSUME NEW S, NEW w \in Seq(S), w # <<>>
    PROVE  /\ Head(w) = w[1] /\ Head(w) \in S
           /\ Tail(w) \in Seq(S) /\ Len(Tail(w)) = Len(w) - 1
           /\ \A i \in 1..Len(Tail(w)) : Tail(w)[i] = w[i + 1]
BY SMT

\* Two sequences in a row.
LEMMA SeqConcat ==
    ASSUME NEW S, NEW a \in Seq(S), NEW b \in Seq(S)
    PROVE  /\ a \o b \in Seq(S) /\ Len(a \o b) = Len(a) + Len(b)
           /\ \A i \in 1..Len(a \o b) : (a \o b)[i] = IF i <= Len(a) THEN a[i] ELSE b[i - Len(a)]
BY SMT

\* A function that is a sequence.
LEMMA SeqOf == ASSUME NEW S, NEW n \in Nat, NEW f \in [1..n -> S] PROVE f \in Seq(S) /\ Len(f) = n
BY SMT

\* A step is one of its kind.
LEMMA ItemKind ==
    ASSUME NEW x \in Item
    PROVE  /\ x.op \in {"lookup", "removeRoutes", "removeFeedback"} => x \in SourceItem
           /\ x.op \in {"forget", "clear", "list"} => x \in RefreshItem
           /\ x.op \in {"add", "note"} => x \in TargetItem
           /\ x.op \in {"removeSubscriber", "removePublisher"} => x \in UserItem
           /\ x.op \in {"answer", "find", "set"} => x \in PlaceItem
           /\ x.op = "getSubscriber" => x \in StreamItem
           /\ x.op = "bindPublisher" => x \in BindItem
           /\ x.op = "addSubscriber" => x \in SubscriberItem
BY DEF Item, RoomItem, SourceItem, RefreshItem, TargetItem, UserItem, PlaceItem, StreamItem,
       BindItem, SubscriberItem

\* What Then makes of a sequence.
LEMMA Replaced ==
    ASSUME NEW S, NEW a \in Seq(S), NEW w \in Seq(S), w # <<>>
    PROVE  LET n == a \o Tail(w) IN
           /\ n \in Seq(S)
           /\ Len(n) = Len(a) + Len(w) - 1 /\ Len(a) \in Nat /\ Len(w) \in Nat \ {0}
           /\ \A i \in 1..Len(a) : n[i] = a[i]
           /\ \A i \in 2..Len(w) : n[Len(a) + i - 1] = w[i]
           /\ \A i \in 1..Len(n) : i \notin 1..Len(a) =>
                 i - Len(a) + 1 \in 2..Len(w) /\ n[i] = w[i - Len(a) + 1]
<1>1. Tail(w) \in Seq(S) /\ Len(Tail(w)) = Len(w) - 1 /\ Len(w) \in Nat \ {0}
  BY SeqTail, SeqLen
<1>2. \A i \in 1..(Len(w) - 1) : Tail(w)[i] = w[i + 1]
  BY <1>1, SeqTail
<1> DEFINE n == a \o Tail(w)
<1>3. /\ n \in Seq(S) /\ Len(n) = Len(a) + Len(Tail(w))
      /\ \A i \in 1..Len(n) : n[i] = IF i <= Len(a) THEN a[i] ELSE Tail(w)[i - Len(a)]
  BY <1>1, SeqConcat
<1>4. Len(a) \in Nat
  BY SeqLen
<1> HIDE DEF n
<1>5. \A i \in 1..Len(a) : n[i] = a[i]
  BY <1>1, <1>3, <1>4, SMT
<1>6. ASSUME NEW i \in 2..Len(w) PROVE n[Len(a) + i - 1] = w[i]
  BY <1>1, <1>2, <1>3, <1>4, SMT
<1>7. ASSUME NEW i \in 1..Len(n), i \notin 1..Len(a)
      PROVE  i - Len(a) + 1 \in 2..Len(w) /\ n[i] = w[i - Len(a) + 1]
  <2>1. i - Len(a) \in 1..(Len(w) - 1)
    BY <1>1, <1>3, <1>4, <1>7, SMT
  <2> QED
    BY <1>1, <1>2, <1>3, <1>4, <1>7, <2>1, SMT
<1> QED
  BY <1>1, <1>3, <1>4, <1>5, <1>6, <1>7 DEF n

\* What is listed of a set.
LEMMA Listing ==
    ASSUME NEW S, NEW list \in Orders(S)
    PROVE  /\ list \in Seq(S) /\ DOMAIN list = 1..Len(list) /\ Len(list) \in Nat
           /\ \A i \in 1..Len(list) : list[i] \in S
BY SeqLen, SeqElement DEF Orders

\* The sources are SSRCs.
LEMMA SourcesSsrcs == ASSUME Shape PROVE Sources \subseteq Ssrcs
BY MediaRoutesAssumption, SMT DEF Sources, Shape, Publishers, Ssrcs

\* The step a thread is at is well formed.
LEMMA ArgItem ==
    ASSUME work \in [Threads -> Seq(Item)], NEW t \in Threads, NEW op, At(t, op)
    PROVE  /\ ~Idle(t) /\ Arg(t) \in Item /\ Arg(t).op = op
           /\ work[t] \in Seq(Item) /\ work[t] # <<>> /\ Len(work[t]) \in Nat \ {0}
           /\ Arg(t) = work[t][1]
<1>1. work[t] \in Seq(Item) /\ work[t] # <<>>
  BY DEF At, Idle
<1>2. Head(work[t]) \in Item /\ Head(work[t]) = work[t][1] /\ Len(work[t]) \in Nat \ {0}
  BY <1>1, SeqTail, SeqLen, SeqElement
<1> QED
  BY <1>1, <1>2 DEF At, Arg

\* Short sequences of steps.
LEMMA NoItem == <<>> \in Seq(Item) /\ Len(<<>>) = 0
BY SMT

\* One step.
LEMMA OneItem == ASSUME NEW x \in Item PROVE <<x>> \in Seq(Item) /\ Len(<<x>>) = 1 /\ <<x>>[1] = x
BY SMT

\* Two steps.
LEMMA TwoItems ==
    ASSUME NEW x \in Item, NEW y \in Item
    PROVE  /\ <<x, y>> \in Seq(Item) /\ Len(<<x, y>>) = 2
           /\ <<x, y>>[1] = x /\ <<x, y>>[2] = y
BY SMT

\* RoutesOff is at most one step.
LEMMA RoutesOffItems ==
    ASSUME NEW s \in 0..MaxSsrc
    PROVE  /\ RoutesOff(s) \in Seq(Item)
           /\ s = 0 => RoutesOff(s) = <<>>
           /\ s # 0 => Len(RoutesOff(s)) = 1 /\ RoutesOff(s)[1] = [op |-> "removeRoutes", ssrc |-> s]
<1>1. CASE s = 0
  BY <1>1, NoItem DEF RoutesOff
<1>2. CASE s # 0
  <2>1. [op |-> "removeRoutes", ssrc |-> s] \in Item
    BY <1>2, MediaRoutesAssumption, SMT DEF Item, SourceItem, Ssrcs
  <2> QED
    BY <1>2, <2>1, OneItem DEF RoutesOff
<1> QED
  BY <1>1, <1>2

\* No step is no step of a refresh.
LEMMA NonePlain == Plain(<<>>)
BY NoItem, SMT DEF Plain

\* One step that is no part of a refresh.
LEMMA OnePlain == ASSUME NEW x \in Item, x.op \notin RefreshOps PROVE Plain(<<x>>)
BY OneItem, SMT DEF Plain

\* Two such steps.
LEMMA TwoPlain ==
    ASSUME NEW x \in Item, NEW y \in Item, x.op \notin RefreshOps, y.op \notin RefreshOps
    PROVE  Plain(<<x, y>>)
<1>1. /\ <<x, y>> \in Seq(Item) /\ Len(<<x, y>>) = 2
      /\ \A i \in 1..2 : <<x, y>>[i] = x \/ <<x, y>>[i] = y
  BY TwoItems, SMT
<1> QED
  BY <1>1 DEF Plain

\* Steps that are no part of a refresh can follow any step that is none either.
LEMMA PlainFits ==
    ASSUME NEW a, Plain(a), NEW x, x.op \notin {"add", "note"}
    PROVE  Fits(a, x)
<1>1. Len(a) \in Nat
  BY SeqLen DEF Plain
<1> QED
  BY <1>1, SMT DEF Plain, Fits, InPiece, RefreshOps

\* A thread that was idle begins a call.
LEMMA PlainBegins ==
    ASSUME NEW t \in Threads, NEW a, Plain(a), Idle(t), work' = [work EXCEPT ![t] = a]
    PROVE  Moves(t)
<1>1. a \in Seq(Item) /\ Begins(t, a)
  BY DEF Plain, Begins
<1> QED
  BY <1>1 DEF Moves

\* A thread goes on with a call.
LEMMA PlainGoes ==
    ASSUME NEW t \in Threads, NEW a, Plain(a), ~Idle(t), Then(t, a), Arg(t).op \notin {"add", "note"}
    PROVE  Moves(t)
<1>1. a \in Seq(Item) /\ Goes(t, a)
  BY PlainFits DEF Plain, Goes
<1> QED
  BY <1>1 DEF Moves

\* A refresh goes on with one step.
LEMMA OneFits ==
    ASSUME NEW y \in Item, NEW x, y.ssrc = x.ssrc, x.op \in RefreshOps \cup {"lookup"},
           x.op \in {"add", "note"} => y.op \in {"add", "note"}
    PROVE  <<y>> \in Seq(Item) /\ Fits(<<y>>, x)
BY OneItem, SMT DEF Fits, InPiece

\* A step can end without another.
LEMMA NoneFits == \A x : Fits(<<>>, x)
BY NoItem, SMT DEF Fits, InPiece

\* A refresh stays in one piece when the first step is replaced.
LEMMA PieceKept ==
    ASSUME NEW a \in Seq(Item), NEW w \in Seq(Item), w # <<>>, InPiece(w), Fits(a, w[1])
    PROVE  InPiece(a \o Tail(w))
<1> DEFINE n == a \o Tail(w)
<1>1. /\ Len(n) = Len(a) + Len(w) - 1 /\ Len(a) \in Nat /\ Len(w) \in Nat \ {0}
      /\ \A i \in 1..Len(a) : n[i] = a[i]
      /\ \A i \in 1..Len(n) : i \notin 1..Len(a) =>
            i - Len(a) + 1 \in 2..Len(w) /\ n[i] = w[i - Len(a) + 1]
  BY Replaced, SMT
<1> HIDE DEF n
<1> SUFFICES ASSUME NEW i \in 2..Len(n)
             PROVE  /\ n[i].op \notin RefreshOps \ {"add"}
                    /\ n[i].op = "add" => \A j \in 1..(i - 1) :
                                            n[j].op \in {"add", "note"} /\ n[j].ssrc = n[i].ssrc
  BY DEF InPiece, n
<1>2. CASE i \in 1..Len(a)
  <2>1. i \in 2..Len(a) /\ n[i] = a[i] /\ \A j \in 1..(i - 1) : n[j] = a[j]
    BY <1>1, <1>2, SMT
  <2>2. InPiece(a)
    BY DEF Fits
  <2>3. /\ a[i].op \notin RefreshOps \ {"add"}
        /\ a[i].op = "add" => \A j \in 1..(i - 1) : a[j].op \in {"add", "note"} /\ a[j].ssrc = a[i].ssrc
    BY <2>1, <2>2 DEF InPiece
  <2> QED
    BY <2>1, <2>3
<1>3. CASE i \notin 1..Len(a)
  <2> DEFINE m == i - Len(a) + 1
  <2>1. m \in 2..Len(w) /\ n[i] = w[m]
    BY <1>1, <1>3, SMT
  <2>2. n[i].op \notin RefreshOps \ {"add"}
    BY <2>1 DEF InPiece
  <2>3. ASSUME n[i].op = "add", NEW j \in 1..(i - 1)
        PROVE  n[j].op \in {"add", "note"} /\ n[j].ssrc = n[i].ssrc
    <3>1. \A l \in 1..(m - 1) : w[l].op \in {"add", "note"} /\ w[l].ssrc = w[m].ssrc
      BY <2>1, <2>3, SMT DEF InPiece
    <3>2. w[1].op \in {"add", "note"} /\ w[1].ssrc = w[m].ssrc
      BY <1>1, <2>1, <3>1, SMT
    <3>3. CASE j \in 1..Len(a)
      BY <1>1, <2>1, <3>2, <3>3 DEF Fits
    <3>4. CASE j \notin 1..Len(a)
      <4>1. j \in 1..Len(n) /\ j - Len(a) + 1 \in 1..(m - 1)
        BY <1>1, <2>3, <3>4, SMT
      <4> QED
        BY <1>1, <2>1, <3>1, <3>4, <4>1
    <3> QED
      BY <3>3, <3>4
  <2> QED
    BY <2>2, <2>3
<1> QED
  BY <1>2, <1>3

\* A thread that moves keeps its steps in order, and goes on with a refresh only
\* where it was at it.
LEMMA MovesKept ==
    ASSUME Shape, NEW t \in Threads, Moves(t)
    PROVE  /\ work' \in [Threads -> Seq(Item)]
           /\ \A r \in Threads : InPiece(work'[r])
           /\ \A r \in Threads \ {t} : work'[r] = work[r]
           /\ work'[t] # <<>> /\ Head(work'[t]).op \in RefreshOps =>
                 /\ ~Idle(t) /\ Arg(t).op \in RefreshOps \cup {"lookup"}
                 /\ Head(work'[t]).ssrc = Arg(t).ssrc
<1>0. work \in [Threads -> Seq(Item)] /\ \A r \in Threads : InPiece(work[r])
  BY DEF Shape
<1>1. CASE UNCHANGED work
  BY <1>0, <1>1 DEF Idle, Arg
<1>2. ASSUME NEW a \in Seq(Item), Begins(t, a)
      PROVE  /\ work' \in [Threads -> Seq(Item)]
             /\ \A r \in Threads : InPiece(work'[r])
             /\ \A r \in Threads \ {t} : work'[r] = work[r]
             /\ work'[t] # <<>> => Head(work'[t]).op \notin RefreshOps
  <2>1. /\ work' \in [Threads -> Seq(Item)] /\ work'[t] = a
        /\ \A r \in Threads \ {t} : work'[r] = work[r]
    BY <1>0, <1>2 DEF Begins
  <2>2. Len(a) \in Nat /\ (a # <<>> => Len(a) > 0 /\ Head(a) = a[1])
    BY SeqLen, SeqTail, SMT
  <2>3. InPiece(a)
    BY <1>2, <2>2, SMT DEF Begins, Plain, InPiece, RefreshOps
  <2>4. a # <<>> => Head(a).op \notin RefreshOps
    BY <1>2, <2>2, SMT DEF Begins, Plain
  <2> QED
    BY <1>0, <2>1, <2>3, <2>4
<1>3. ASSUME NEW a \in Seq(Item), Goes(t, a)
      PROVE  /\ work' \in [Threads -> Seq(Item)]
             /\ \A r \in Threads : InPiece(work'[r])
             /\ \A r \in Threads \ {t} : work'[r] = work[r]
             /\ work'[t] # <<>> /\ Head(work'[t]).op \in RefreshOps =>
                   /\ ~Idle(t) /\ Arg(t).op \in RefreshOps \cup {"lookup"}
                   /\ Head(work'[t]).ssrc = Arg(t).ssrc
  <2> DEFINE w == work[t]
             n == a \o Tail(w)
  <2>1. w \in Seq(Item) /\ w # <<>> /\ InPiece(w) /\ Fits(a, Arg(t)) /\ Arg(t) = w[1]
    BY <1>0, <1>3, SeqTail DEF Goes, Idle, Arg
  <2>2. /\ n \in Seq(Item)
        /\ Len(n) = Len(a) + Len(w) - 1 /\ Len(a) \in Nat /\ Len(w) \in Nat \ {0}
        /\ \A i \in 1..Len(a) : n[i] = a[i]
        /\ \A i \in 1..Len(n) : i \notin 1..Len(a) =>
              i - Len(a) + 1 \in 2..Len(w) /\ n[i] = w[i - Len(a) + 1]
    BY <2>1, Replaced, SMT
  <2>3. InPiece(n)
    BY <2>1, PieceKept
  <2>4. work' = [work EXCEPT ![t] = n]
    BY <1>3 DEF Goes, Then
  <2> HIDE DEF n, w
  <2>5. ASSUME n # <<>>, Head(n).op \in RefreshOps
        PROVE  Arg(t).op \in RefreshOps \cup {"lookup"} /\ Head(n).ssrc = Arg(t).ssrc
    <3>1. Len(n) \in Nat \ {0} /\ Head(n) = n[1]
      BY <2>2, <2>5, SeqLen, SeqTail
    <3>2. CASE Len(a) > 0
      <4>1. n[1] = a[1]
        BY <2>2, <3>2, SMT
      <4> QED
        BY <2>1, <2>5, <3>1, <3>2, <4>1 DEF Fits
    <3>3. CASE Len(a) = 0
      <4>1. n[1] = w[2] /\ 2 \in 2..Len(w)
        BY <2>2, <3>1, <3>3, SMT
      <4>2. w[2].op \in RefreshOps => w[1].op \in {"add", "note"} /\ w[1].ssrc = w[2].ssrc
        BY <2>1, <4>1, SMT DEF InPiece
      <4> QED
        BY <2>1, <2>5, <3>1, <4>1, <4>2 DEF RefreshOps
    <3> QED
      BY <2>2, <3>2, <3>3, SMT
  <2>6. work' \in [Threads -> Seq(Item)] /\ work'[t] = n /\ \A r \in Threads \ {t} : work'[r] = work[r]
    BY <1>0, <2>2, <2>4
  <2> QED
    BY <1>0, <1>3, <2>3, <2>5, <2>6 DEF Goes
<1> QED
  BY <1>1, <1>2, <1>3 DEF Moves

\* RoutesOff is no part of a refresh.
LEMMA RoutesOffPlain ==
    ASSUME NEW s \in 0..MaxSsrc
    PROVE  Plain(RoutesOff(s))
<1>1. CASE s = 0
  BY <1>1, NonePlain, RoutesOffItems
<1>2. CASE s # 0
  <2>1. [op |-> "removeRoutes", ssrc |-> s].op \notin RefreshOps
    BY DEF RefreshOps
  <2>2. [op |-> "removeRoutes", ssrc |-> s] \in Item
    BY <1>2, MediaRoutesAssumption, SMT DEF Item, SourceItem, Ssrcs
  <2> QED
    BY <1>2, <2>1, <2>2, OnePlain DEF RoutesOff
<1> QED
  BY <1>1, <1>2

\* RoutesOff removes the routes of its source.
LEMMA RoutesOffRemoves ==
    ASSUME NEW s \in 0..MaxSsrc, s # 0
    PROVE  Removes(RoutesOff(s), s)
BY RoutesOffItems, SMT DEF Removes

\* Steps that come after RoutesOff.
LEMMA OffPlain ==
    ASSUME NEW s \in 0..MaxSsrc, NEW b, Plain(b)
    PROVE  LET a == RoutesOff(s) \o b IN
           /\ Plain(a)
           /\ \A x : Removes(b, x) => Removes(a, x)
           /\ s # 0 => Removes(a, s)
<1> DEFINE a == RoutesOff(s) \o b
           x == [op |-> "removeRoutes", ssrc |-> s]
<1>0. b \in Seq(Item) /\ \A i \in 1..Len(b) : b[i].op \notin RefreshOps
  BY DEF Plain
<1>1. RoutesOff(s) \in Seq(Item) /\ Len(RoutesOff(s)) \in {0, 1} /\ Len(b) \in Nat
      /\ (s # 0 => Len(RoutesOff(s)) = 1 /\ RoutesOff(s)[1] = x) /\ (s = 0 => Len(RoutesOff(s)) = 0)
  BY <1>0, RoutesOffItems, NoItem, SeqLen
<1>2. a \in Seq(Item) /\ Len(a) = Len(RoutesOff(s)) + Len(b)
      /\ \A i \in 1..Len(a) : a[i] = IF i <= Len(RoutesOff(s)) THEN RoutesOff(s)[i] ELSE b[i - Len(RoutesOff(s))]
  BY <1>0, <1>1, SeqConcat
<1>3. x.op \notin RefreshOps
  BY DEF RefreshOps
<1> HIDE DEF a, x
<1>4. CASE s = 0
  <2>1. Len(a) = Len(b) /\ \A i \in 1..Len(a) : a[i] = b[i]
    BY <1>1, <1>2, <1>4, SMT
  <2>2. Plain(a)
    BY <1>0, <1>2, <2>1 DEF Plain
  <2>3. \A y : Removes(b, y) => Removes(a, y)
    BY <2>1 DEF Removes
  <2> QED
    BY <1>4, <2>2, <2>3 DEF a
<1>5. CASE s # 0
  <2> DEFINE o == RoutesOff(s)
  <2>a. Len(o) = 1 /\ o[1] = x
    BY <1>1, <1>5
  <2>b. \A i \in 1..Len(a) : a[i] = IF i <= 1 THEN o[i] ELSE b[i - 1]
    BY <1>2, <2>a
  <2>c. Len(a) = Len(b) + 1
    BY <1>1, <1>2, <2>a, SMT
  <2> HIDE DEF o
  <2>0. Len(a) = Len(b) + 1 /\ a[1] = x
    BY <1>1, <2>a, <2>b, <2>c, SMT
  <2>1. ASSUME NEW i \in 1..Len(b)
        PROVE  i + 1 \in 1..Len(a) /\ a[i + 1] = b[i]
    <3>1. i + 1 \in 1..Len(a) /\ ~(i + 1 <= 1) /\ (i + 1) - 1 = i
      BY <1>1, <2>0, SMT
    <3> QED
      BY <2>b, <3>1
  <2>2. \A i \in 1..Len(a) : i = 1 \/ (i - 1 \in 1..Len(b) /\ a[i] = b[i - 1])
    BY <1>1, <2>b, <2>c, SMT
  <2>3. \A i \in 1..Len(a) : a[i].op \notin RefreshOps
    BY <1>0, <1>3, <2>0, <2>2
  <2>4. Plain(a)
    BY <1>2, <2>3 DEF Plain
  <2>5. \A i \in 1..Len(b) : \E j \in 1..Len(a) : a[j] = b[i]
    BY <2>1
  <2>6. \A y : Removes(b, y) => Removes(a, y)
    BY <2>5 DEF Removes
  <2>7. Removes(a, s)
    BY <1>1, <2>0, SMT DEF Removes, x
  <2> QED
    BY <2>4, <2>6, <2>7 DEF a
<1> QED
  BY <1>4, <1>5

\* What List puts before a thread: a target of the source for each subscriber.
LEMMA ListSteps ==
    ASSUME Shape, NEW t \in Threads, List(t)
    PROVE  LET to == {u \in Subscribers \ Arg(t).skip : Target(sub[u].address, Arg(t).kind) # None} IN
           \E a \in Seq(Item) :
              /\ Then(t, a)
              /\ \A i \in 1..Len(a) : a[i].op = "add" /\ a[i].ssrc = Arg(t).ssrc
              /\ \E list \in Orders(to) :
                    /\ Len(list) = Len(a)
                    /\ \A i \in 1..Len(a) : a[i].to = Target(sub[list[i]].address, Arg(t).kind)
<1>1. Arg(t) \in RefreshItem
  BY ArgItem, ItemKind DEF List, Shape
<1> DEFINE k == Arg(t).kind
           to == {u \in Subscribers \ Arg(t).skip : Target(sub[u].address, k) # None}
           add(u) == [op |-> "add", ssrc |-> Arg(t).ssrc, to |-> Target(sub[u].address, k),
                      as |-> Rewritten(u, Arg(t).ssrc, k, Arg(t).many)]
<1>2. PICK list \in Orders(to) : Then(t, [i \in DOMAIN list |-> add(list[i])])
  BY DEF List
<1>3. list \in Seq(to) /\ DOMAIN list = 1..Len(list) /\ Len(list) \in Nat
      /\ \A i \in 1..Len(list) : list[i] \in to
  BY Listing
<1>4. ASSUME NEW u \in to PROVE add(u) \in Item
  <2>1. u \in Users /\ sub[u] \in Subscriber /\ Target(sub[u].address, k) # None
    BY DEF Subscribers, Shape
  <2>2. k \in Kinds /\ Arg(t).ssrc \in Ssrcs /\ Arg(t).many \in BOOLEAN
    BY <1>1 DEF RefreshItem
  <2>3. Target(sub[u].address, k) \in Addresses
    <3>1. (CHOOSE j \in Kinds : j # k) \in Kinds
      BY <2>2 DEF Kinds
    <3> QED
      BY <2>1, <2>2, <3>1 DEF Target, Subscriber
  <2>4. Rewritten(u, Arg(t).ssrc, k, Arg(t).many) \in Rewrites
    <3>1. sub[u].ssrc[k] \in 0..MaxSsrc
      BY <2>1, <2>2 DEF Subscriber
    <3>2. sub[u].ssrc[k] # 0 => sub[u].ssrc[k] \in Ssrcs
      BY <3>1, MediaRoutesAssumption, SMT DEF Ssrcs
    <3> HIDE DEF k
    <3> QED
      BY <2>1, <2>2, <3>2, SMT DEF Rewritten, Rewrites
  <2> QED
    BY <2>2, <2>3, <2>4 DEF Item, TargetItem
<1> HIDE DEF add, to
<1> DEFINE a == [i \in DOMAIN list |-> add(list[i])]
<1>5. a \in [1..Len(list) -> Item]
  BY <1>3, <1>4
<1>6. a \in Seq(Item) /\ Len(a) = Len(list)
  BY <1>3, <1>5, SeqOf, SeqLen
<1>7. \A i \in 1..Len(a) : /\ a[i].op = "add" /\ a[i].ssrc = Arg(t).ssrc
                            /\ a[i].to = Target(sub[list[i]].address, k)
  BY <1>3, <1>6 DEF add
<1>8. Then(t, a)
  BY <1>2
<1> HIDE DEF a
<1> QED
  BY <1>6, <1>7, <1>8 DEF to

\* What a refresh step leaves of its thread's work.
LEMMA RefreshWork == ASSUME Shape, NEW t \in Threads, Refresh(t) PROVE Moves(t)
<1>0. work \in [Threads -> Seq(Item)]
  BY DEF Shape
<1>1. CASE DoRefreshRoom(t)
  <2>1. ~Idle(t) /\ Arg(t).op = "refreshRoom"
    BY <1>0, <1>1, ArgItem DEF DoRefreshRoom
  <2>2. PICK list \in Orders(IF room = "open" THEN Sources ELSE {}) :
           Then(t, [i \in DOMAIN list |-> [op |-> "lookup", ssrc |-> list[i]]])
    BY <1>1 DEF DoRefreshRoom
  <2>3. DOMAIN list = 1..Len(list) /\ Len(list) \in Nat /\ \A i \in 1..Len(list) : list[i] \in Ssrcs
    BY SourcesSsrcs, Listing, SMT
  <2> DEFINE a == [i \in DOMAIN list |-> [op |-> "lookup", ssrc |-> list[i]]]
  <2>4. a \in [1..Len(list) -> Item]
    BY <2>3 DEF Item, SourceItem
  <2>5. a \in Seq(Item) /\ Len(a) = Len(list)
    BY <2>3, <2>4, SeqOf, SeqLen
  <2>6. \A i \in 1..Len(a) : a[i].op \notin RefreshOps
    BY <2>3, <2>5 DEF RefreshOps
  <2>7. Fits(a, Arg(t))
    BY <2>1, <2>5, <2>6, PlainFits DEF Plain
  <2> QED
    BY <2>1, <2>2, <2>5, <2>7 DEF Moves, Goes
<1>2. CASE Lookup(t)
  <2>1. ~Idle(t) /\ Arg(t) \in SourceItem /\ Arg(t).op = "lookup"
    BY <1>0, <1>2, ArgItem, ItemKind DEF Lookup
  <2> DEFINE x(self, k) == [op |-> "forget", ssrc |-> Arg(t).ssrc, skip |-> self, kind |-> k,
                            many |-> Cardinality({u \in Users : pub[u][k] # 0}) > 1]
  <2>2. \A self \in SUBSET Users, k \in Kinds : x(self, k) \in Item
    BY <2>1, SMT DEF Item, RefreshItem, SourceItem
  <2>3. \A self \in SUBSET Users, k \in Kinds : <<x(self, k)>> \in Seq(Item) /\ Fits(<<x(self, k)>>, Arg(t))
    BY <2>1, <2>2, OneFits
  <2>4. \/ \E self \in SUBSET Users, k \in Kinds : Then(t, <<x(self, k)>>)
        \/ Then(t, <<>>)
    BY <1>2 DEF Lookup, Kinds
  <2> HIDE DEF x
  <2> QED
    BY <2>1, <2>3, <2>4, NoItem, NoneFits DEF Moves, Goes
<1>3. CASE Forget(t)
  <2>1. ~Idle(t) /\ Arg(t) \in RefreshItem /\ Arg(t).op = "forget"
    BY <1>0, <1>3, ArgItem, ItemKind DEF Forget
  <2>2. [Arg(t) EXCEPT !.op = "clear"] \in Item /\ [Arg(t) EXCEPT !.op = "clear"].ssrc = Arg(t).ssrc
    BY <2>1 DEF Item, RefreshItem
  <2> QED
    BY <1>3, <2>1, <2>2, OneFits DEF Forget, Moves, Goes, RefreshOps
<1>4. CASE Clear(t)
  <2>1. ~Idle(t) /\ Arg(t) \in RefreshItem /\ Arg(t).op = "clear"
    BY <1>0, <1>4, ArgItem, ItemKind DEF Clear
  <2>2. [Arg(t) EXCEPT !.op = "list"] \in Item /\ [Arg(t) EXCEPT !.op = "list"].ssrc = Arg(t).ssrc
    BY <2>1 DEF Item, RefreshItem
  <2> QED
    BY <1>4, <2>1, <2>2, OneFits DEF Clear, Moves, Goes, RefreshOps
<1>5. CASE List(t)
  <2>1. ~Idle(t) /\ Arg(t).op = "list"
    BY <1>0, <1>5, ArgItem DEF List
  <2>2. PICK a \in Seq(Item) : Then(t, a) /\ \A i \in 1..Len(a) : a[i].op = "add" /\ a[i].ssrc = Arg(t).ssrc
    BY <1>5, ListSteps
  <2>3. Len(a) \in Nat
    BY SeqLen
  <2>4. InPiece(a)
    BY <2>2, <2>3, SMT DEF InPiece, RefreshOps
  <2>5. Fits(a, Arg(t))
    BY <2>1, <2>2, <2>3, <2>4, SMT DEF Fits, RefreshOps
  <2> QED
    BY <2>1, <2>2, <2>5 DEF Moves, Goes
<1>6. CASE Add(t)
  <2>1. ~Idle(t) /\ Arg(t) \in TargetItem /\ Arg(t).op = "add"
    BY <1>0, <1>6, ArgItem, ItemKind DEF Add
  <2>2. /\ [Arg(t) EXCEPT !.op = "note"] \in Item /\ [Arg(t) EXCEPT !.op = "note"].ssrc = Arg(t).ssrc
        /\ [Arg(t) EXCEPT !.op = "note"].op = "note"
    BY <2>1 DEF Item, TargetItem
  <2> QED
    BY <1>6, <2>1, <2>2, OneFits DEF Add, Moves, Goes, RefreshOps
<1>7. CASE Note(t)
  <2>1. ~Idle(t)
    BY <1>7 DEF Note, At
  <2> QED
    BY <1>7, <2>1, NoItem, NoneFits DEF Note, Moves, Goes
<1> QED
  BY <1>1, <1>2, <1>3, <1>4, <1>5, <1>6, <1>7 DEF Refresh

\* What a step of the RPC thread leaves of its work.
LEMMA RpcWork == ASSUME Shape, Rpc PROVE Moves("rpc")
<1>0. work \in [Threads -> Seq(Item)] /\ "rpc" \in Threads
  BY DEF Shape, Threads
<1>1. CASE CreateRoom \/ DestroyRoom
  BY <1>1 DEF CreateRoom, DestroyRoom, Moves
<1>3. ASSUME NEW u \in Users, NEW k \in Kinds, NEW publish \in BOOLEAN, SetupTransport(u, k, publish)
      PROVE  Moves("rpc")
  <2>1. drawn + 1 \in Ssrcs
    BY <1>3, MediaRoutesAssumption, SMT DEF SetupTransport, Shape, Ssrcs
  <2> DEFINE s == drawn + 1
             g == [op |-> "getSubscriber", user |-> u, kind |-> k, ssrc |-> IF publish THEN s ELSE 0]
             b == [op |-> "bindPublisher", user |-> u, kind |-> k, ssrc |-> s]
             w == [op |-> "answer", user |-> u, kind |-> k]
  <2>2. g \in Item /\ b \in Item /\ w \in Item
    BY <2>1, MediaRoutesAssumption, SMT DEF Item, StreamItem, BindItem, PlaceItem, Ssrcs
  <2>3. g.op \notin RefreshOps /\ b.op \notin RefreshOps /\ w.op \notin RefreshOps
    BY DEF RefreshOps
  <2>4. Idle("rpc") /\ work' = [work EXCEPT !["rpc"] = IF publish THEN <<g, b>> ELSE <<g, w>>]
    BY <1>3 DEF SetupTransport
  <2> HIDE DEF g, b, w, s
  <2>5. Plain(<<g, b>>) /\ Plain(<<g, w>>)
    BY <2>2, <2>3, TwoPlain
  <2>6. work' = [work EXCEPT !["rpc"] = <<g, b>>] \/ work' = [work EXCEPT !["rpc"] = <<g, w>>]
    BY <2>4
  <2> QED
    BY <1>0, <2>4, <2>5, <2>6, PlainBegins
<1>4. ASSUME NEW u \in Users, CloseTransport(u)
      PROVE  Moves("rpc")
  <2> DEFINE x == [op |-> "removeSubscriber", user |-> u]
             y == [op |-> "removePublisher", user |-> u]
  <2>1. x \in Item /\ y \in Item /\ x.op \notin RefreshOps /\ y.op \notin RefreshOps
    BY DEF Item, UserItem, RefreshOps
  <2>2. Idle("rpc") /\ work' = [work EXCEPT !["rpc"] = <<x, y>>]
    BY <1>4 DEF CloseTransport
  <2> HIDE DEF x, y
  <2>3. Plain(<<x, y>>)
    BY <2>1, TwoPlain
  <2> QED
    BY <1>0, <2>2, <2>3, PlainBegins
<1>5. CASE GetSubscriber
  <2>1. ~Idle("rpc") /\ Arg("rpc") \in StreamItem /\ Arg("rpc").op = "getSubscriber"
    BY <1>0, <1>5, ArgItem, ItemKind DEF GetSubscriber
  <2>2. NoSubscriber \in Subscriber
    BY MediaRoutesAssumption, SMT DEF NoSubscriber, Subscriber
  <2>3. PICK new \in Subscriber :
           Then("rpc", <<[op |-> "addSubscriber", user |-> Arg("rpc").user, new |-> new], RefreshRoom>>)
    BY <1>5, <2>1, <2>2 DEF GetSubscriber, Shape, Subscriber, StreamItem
  <2> DEFINE x == [op |-> "addSubscriber", user |-> Arg("rpc").user, new |-> new]
  <2>4. x \in Item /\ RefreshRoom \in Item /\ x.op \notin RefreshOps /\ RefreshRoom.op \notin RefreshOps
    BY <2>1 DEF Item, SubscriberItem, RoomItem, RefreshRoom, StreamItem, RefreshOps
  <2> HIDE DEF x
  <2>5. Plain(<<x, RefreshRoom>>) /\ Then("rpc", <<x, RefreshRoom>>)
    BY <2>3, <2>4, TwoPlain DEF x
  <2> QED
    BY <1>0, <2>1, <2>5, PlainGoes
<1>6. CASE AddSubscriber \/ Answer \/ RemoveFeedback
  <2>1. ~Idle("rpc") /\ Then("rpc", <<>>) /\ Arg("rpc").op \notin {"add", "note"}
    BY <1>6 DEF AddSubscriber, Answer, RemoveFeedback, At, Arg
  <2> QED
    BY <1>0, <2>1, NonePlain, PlainGoes
<1>7. CASE BindPublisher
  <2>1. ~Idle("rpc") /\ Arg("rpc") \in BindItem /\ Arg("rpc").op = "bindPublisher"
    BY <1>0, <1>7, ArgItem, ItemKind DEF BindPublisher
  <2> DEFINE u == Arg("rpc").user
             k == Arg("rpc").kind
             y == [op |-> "answer", user |-> u, kind |-> k]
             a == RoutesOff(pub[u][k]) \o <<RefreshRoom, y>>
  <2>2. pub[u][k] \in 0..MaxSsrc
    BY <2>1, SMT DEF BindItem, Shape
  <2>3. RefreshRoom \in Item /\ y \in Item /\ RefreshRoom.op \notin RefreshOps /\ y.op \notin RefreshOps
    BY <2>1 DEF Item, RoomItem, PlaceItem, RefreshRoom, BindItem, RefreshOps
  <2>4. Then("rpc", a) \/ Then("rpc", <<>>)
    BY <1>7 DEF BindPublisher
  <2> HIDE DEF u, k, y
  <2>5. Plain(<<RefreshRoom, y>>)
    BY <2>3, TwoPlain
  <2>6. Plain(a)
    BY <2>2, <2>5, OffPlain
  <2> HIDE DEF a
  <2> QED
    BY <1>0, <2>1, <2>4, <2>6, NonePlain, PlainGoes
<1>8. CASE RemoveRoutes
  <2>1. ~Idle("rpc") /\ Arg("rpc") \in SourceItem /\ Arg("rpc").op = "removeRoutes"
    BY <1>0, <1>8, ArgItem, ItemKind DEF RemoveRoutes
  <2> DEFINE x == [Arg("rpc") EXCEPT !.op = "removeFeedback"]
  <2>2. x \in Item /\ x.op \notin RefreshOps /\ Then("rpc", <<x>>)
    BY <1>8, <2>1 DEF RemoveRoutes, Item, SourceItem, RefreshOps
  <2> HIDE DEF x
  <2> QED
    BY <1>0, <2>1, <2>2, OnePlain, PlainGoes
<1>9. CASE RemoveSubscriber
  <2>1. ~Idle("rpc") /\ Arg("rpc").op = "removeSubscriber"
    BY <1>0, <1>9, ArgItem DEF RemoveSubscriber
  <2>2. RefreshRoom \in Item /\ RefreshRoom.op \notin RefreshOps
    BY DEF Item, RoomItem, RefreshRoom, RefreshOps
  <2>3. Then("rpc", <<RefreshRoom>>) \/ Then("rpc", <<>>)
    BY <1>9 DEF RemoveSubscriber
  <2> QED
    BY <1>0, <2>1, <2>2, <2>3, OnePlain, NonePlain, PlainGoes
<1>10. CASE RemovePublisher
  <2>1. ~Idle("rpc") /\ Arg("rpc") \in UserItem /\ Arg("rpc").op = "removePublisher"
    BY <1>0, <1>10, ArgItem, ItemKind DEF RemovePublisher
  <2> DEFINE p == pub[Arg("rpc").user]
             b == RoutesOff(p["video"])
             a == RoutesOff(p["audio"]) \o b
  <2>2. p["audio"] \in 0..MaxSsrc /\ p["video"] \in 0..MaxSsrc
    BY <2>1, SMT DEF UserItem, Shape, Kinds
  <2>3. Then("rpc", a)
    BY <1>10 DEF RemovePublisher
  <2> HIDE DEF p
  <2>4. Plain(b)
    BY <2>2, RoutesOffPlain
  <2> HIDE DEF b
  <2>5. Plain(a)
    BY <2>2, <2>4, OffPlain
  <2> HIDE DEF a
  <2> QED
    BY <1>0, <2>1, <2>3, <2>5, PlainGoes
<1> QED
  BY <1>1, <1>3, <1>4, <1>5, <1>6, <1>7, <1>8, <1>9, <1>10 DEF Rpc, Kinds

\* What a step of the UDP thread leaves of its work.
LEMMA UdpWork == ASSUME Shape, Udp PROVE Moves("udp")
<1>0. work \in [Threads -> Seq(Item)] /\ "udp" \in Threads
  BY DEF Shape, Threads
<1>1. ASSUME NEW u \in Users, NEW k \in Kinds, Stun(u, k)
      PROVE  Moves("udp")
  <2> DEFINE x == [op |-> "find", user |-> u, kind |-> k]
  <2>1. x \in Item /\ x.op \notin RefreshOps /\ Idle("udp") /\ work' = [work EXCEPT !["udp"] = <<x>>]
    BY <1>1 DEF Item, PlaceItem, RefreshOps, Stun
  <2> HIDE DEF x
  <2> QED
    BY <1>0, <2>1, OnePlain, PlainBegins
<1>2. CASE Find
  <2>1. ~Idle("udp") /\ Arg("udp") \in PlaceItem /\ Arg("udp").op = "find"
    BY <1>0, <1>2, ArgItem, ItemKind DEF Find
  <2> DEFINE x == [Arg("udp") EXCEPT !.op = "set"]
  <2>2. x \in Item /\ RefreshRoom \in Item /\ x.op \notin RefreshOps /\ RefreshRoom.op \notin RefreshOps
    BY <2>1 DEF Item, PlaceItem, RoomItem, RefreshRoom, RefreshOps
  <2>3. Then("udp", <<x, RefreshRoom>>) \/ Then("udp", <<>>)
    BY <1>2 DEF Find
  <2> HIDE DEF x
  <2> QED
    BY <1>0, <2>1, <2>2, <2>3, TwoPlain, NonePlain, PlainGoes
<1>3. CASE Set
  <2>1. ~Idle("udp") /\ Then("udp", <<>>) /\ Arg("udp").op \notin {"add", "note"}
    BY <1>3 DEF Set, At, Arg
  <2> QED
    BY <1>0, <2>1, NonePlain, PlainGoes
<1> QED
  BY <1>1, <1>2, <1>3 DEF Udp

-----------------------------------------------------------------------------
(* The shape of the state *)

\* Nothing is there in the beginning.
LEMMA InitShape == Init => Shape
<1> SUFFICES ASSUME Init PROVE Shape
  OBVIOUS
<1>1. work \in [Threads -> Seq(Item)] /\ \A t \in Threads : InPiece(work[t])
  BY NoItem, SMT DEF Init, InPiece
<1> QED
  BY <1>1, MediaRoutesAssumption, SMT DEF Init, Shape, NoRoutes, Ssrcs

\* A step of a refresh keeps the shape.
LEMMA RefreshShape == ASSUME Shape, NEW t \in Threads, Refresh(t) PROVE Shape'
<1>0. work \in [Threads -> Seq(Item)]
  BY DEF Shape
<1>w. work' \in [Threads -> Seq(Item)] /\ \A r \in Threads : InPiece(work'[r])
  BY RefreshWork, MovesKept
<1>d. dirty' \in [Threads -> BOOLEAN]
  BY DEF Refresh, DoRefreshRoom, Lookup, Forget, Clear, List, Add, Note, Shape, Interfere, Refreshing, At
<1>1. CASE DoRefreshRoom(t)
  BY <1>1, <1>w, <1>d DEF DoRefreshRoom, Shape, members
<1>2. CASE Lookup(t)
  BY <1>2, <1>w, <1>d DEF Lookup, Shape, members
<1>3. CASE Forget(t)
  BY <1>3, <1>w, <1>d DEF Forget, Shape, members
<1>4. CASE Clear(t)
  BY <1>4, <1>w, <1>d DEF Clear, Shape, members
<1>5. CASE List(t)
  <2>1. Arg(t).ssrc \in Ssrcs
    BY <1>0, <1>5, ArgItem, ItemKind, SMT DEF List, RefreshItem
  <2> QED
    BY <1>5, <2>1, <1>w, <1>d DEF List, Shape, members
<1>6. CASE Add(t)
  <2>1. Arg(t).ssrc \in Ssrcs
    BY <1>0, <1>6, ArgItem, ItemKind, SMT DEF Add, TargetItem
  <2> QED
    BY <1>6, <2>1, <1>w, <1>d DEF Add, Shape, members
<1>7. CASE Note(t)
  <2>1. Arg(t) \in TargetItem
    BY <1>0, <1>7, ArgItem, ItemKind DEF Note
  <2>2. [at |-> Arg(t).to, as |-> Arg(t).as, source |-> Arg(t).ssrc] \in
           [at : Addresses, as : Rewrites, source : Ssrcs]
    BY <2>1 DEF TargetItem
  <2> QED
    BY <1>7, <2>1, <2>2, <1>w, <1>d DEF Note, Shape, members, TargetItem
<1> QED
  BY <1>1, <1>2, <1>3, <1>4, <1>5, <1>6, <1>7 DEF Refresh

\* A step of the RPC thread keeps the shape.
LEMMA RpcShape == ASSUME Shape, Rpc PROVE Shape'
<1>0. work \in [Threads -> Seq(Item)] /\ "rpc" \in Threads
  BY DEF Shape, Threads
<1>w. work' \in [Threads -> Seq(Item)] /\ \A r \in Threads : InPiece(work'[r])
  BY <1>0, RpcWork, MovesKept
<1>d. dirty' \in [Threads -> BOOLEAN]
  BY DEF Rpc, CreateRoom, DestroyRoom, SetupTransport, CloseTransport, GetSubscriber, AddSubscriber,
         BindPublisher, Answer, RemoveRoutes, RemoveFeedback, RemoveSubscriber, RemovePublisher,
         Shape, Interfere, Refreshing, At
<1>1. CASE CreateRoom
  BY <1>1, <1>w, <1>d DEF CreateRoom, Shape
<1>2. CASE DestroyRoom
  <2>1. pub' \in [Users -> [Kinds -> 0..MaxSsrc]] /\ sub' \in [Users -> Subscriber \cup {None}]
    BY <1>2, MediaRoutesAssumption, SMT DEF DestroyRoom
  <2> QED
    BY <1>2, <2>1, <1>w, <1>d DEF DestroyRoom, Shape
<1>3. ASSUME NEW u \in Users, NEW k \in Kinds, NEW publish \in BOOLEAN, SetupTransport(u, k, publish)
      PROVE  Shape'
  <2>1. drawn' \in 0..MaxSsrc
    BY <1>3, MediaRoutesAssumption, SMT DEF SetupTransport, Shape
  <2> QED
    BY <1>3, <2>1, <1>w, <1>d DEF SetupTransport, Shape, members
<1>4. ASSUME NEW u \in Users, CloseTransport(u)
      PROVE  Shape'
  BY <1>4, <1>w, <1>d DEF CloseTransport, Shape, members
<1>5. CASE GetSubscriber
  BY <1>5, <1>w, <1>d DEF GetSubscriber, Shape, members
<1>6. CASE AddSubscriber
  <2>1. Arg("rpc").user \in Users /\ Arg("rpc").new \in Subscriber
    BY <1>0, <1>6, ArgItem, ItemKind, SMT DEF AddSubscriber, SubscriberItem
  <2>2. /\ sub \in [Users -> Subscriber \cup {None}] /\ sub' = [sub EXCEPT ![Arg("rpc").user] = Arg("rpc").new]
        /\ ptr \in Users \cup {None} /\ (ptr # None => sub[ptr] # None)
        /\ ptr' = IF ptr = Arg("rpc").user THEN None ELSE ptr
    BY <1>6 DEF AddSubscriber, Shape
  <2>3. /\ sub' \in [Users -> Subscriber \cup {None}]
        /\ ptr' \in Users \cup {None} /\ (ptr' # None => sub'[ptr'] # None)
    BY <2>1, <2>2
  <2> QED
    BY <1>6, <2>3, <1>w, <1>d DEF AddSubscriber, Shape
<1>7. CASE BindPublisher
  <2>1. Arg("rpc").user \in Users /\ Arg("rpc").kind \in Kinds /\ Arg("rpc").ssrc \in 0..MaxSsrc
    BY <1>0, <1>7, ArgItem, ItemKind, MediaRoutesAssumption, SMT DEF BindPublisher, BindItem, Ssrcs
  <2>2. pub' = [pub EXCEPT ![Arg("rpc").user][Arg("rpc").kind] = Arg("rpc").ssrc] \/ pub' = pub
    BY <1>7 DEF BindPublisher
  <2>0. pub \in [Users -> [Kinds -> 0..MaxSsrc]]
    BY DEF Shape
  <2>3. pub' \in [Users -> [Kinds -> 0..MaxSsrc]]
    <3> DEFINE S == 0..MaxSsrc
    <3>1. pub \in [Users -> [Kinds -> S]] /\ Arg("rpc").ssrc \in S
      BY <2>0, <2>1
    <3> HIDE DEF S
    <3>2. pub' \in [Users -> [Kinds -> S]]
      BY <2>1, <2>2, <3>1, SMT
    <3> QED
      BY <3>2 DEF S
  <2> QED
    BY <1>7, <2>3, <1>w, <1>d DEF BindPublisher, Shape
<1>8. CASE Answer
  <2>1. Arg("rpc").user \in Users /\ Arg("rpc").kind \in Kinds
    BY <1>0, <1>8, ArgItem, ItemKind, SMT DEF Answer, PlaceItem
  <2> QED
    BY <1>8, <2>1, <1>w, <1>d DEF Answer, Shape, members
<1>9. CASE RemoveRoutes
  BY <1>9, <1>w, <1>d DEF RemoveRoutes, Shape, members
<1>10. CASE RemoveFeedback
  BY <1>10, <1>w, <1>d DEF RemoveFeedback, Shape, members
<1>11. CASE RemoveSubscriber
  <2>1. Arg("rpc").user \in Users
    BY <1>0, <1>11, ArgItem, ItemKind, SMT DEF RemoveSubscriber, UserItem
  <2> QED
    BY <1>11, <2>1, <1>w, <1>d DEF RemoveSubscriber, Shape
<1>12. CASE RemovePublisher
  <2>1. Arg("rpc").user \in Users
    BY <1>0, <1>12, ArgItem, ItemKind, SMT DEF RemovePublisher, UserItem
  <2>2. pub' \in [Users -> [Kinds -> 0..MaxSsrc]]
    BY <1>12, <2>1, MediaRoutesAssumption, SMT DEF RemovePublisher, Shape
  <2> QED
    BY <1>12, <2>2, <1>w, <1>d DEF RemovePublisher, Shape
<1> QED
  BY <1>1, <1>2, <1>3, <1>4, <1>5, <1>6, <1>7, <1>8, <1>9, <1>10, <1>11, <1>12 DEF Rpc, Kinds

\* A step of the UDP thread keeps the shape.
LEMMA UdpShape == ASSUME Shape, Udp PROVE Shape'
<1>0. work \in [Threads -> Seq(Item)] /\ "udp" \in Threads
  BY DEF Shape, Threads
<1>w. work' \in [Threads -> Seq(Item)] /\ \A r \in Threads : InPiece(work'[r])
  BY <1>0, UdpWork, MovesKept
<1>d. dirty' \in [Threads -> BOOLEAN]
  BY DEF Udp, Stun, Find, Set, Shape, Interfere, Refreshing, At
<1>1. ASSUME NEW u \in Users, NEW k \in Kinds, Stun(u, k)
      PROVE  Shape'
  BY <1>1, <1>w, <1>d DEF Stun, Shape, members
<1>2. CASE Find
  <2>1. Arg("udp").user \in Users
    BY <1>0, <1>2, ArgItem, ItemKind, SMT DEF Find, PlaceItem
  <2> QED
    BY <1>2, <2>1, <1>w, <1>d DEF Find, Shape
<1>3. CASE Set
  <2>1. Arg("udp").kind \in Kinds
    BY <1>0, <1>3, ArgItem, ItemKind, SMT DEF Set, PlaceItem
  <2>2. sub' \in [Users -> Subscriber \cup {None}]
    <3>1. CASE ptr = None
      BY <1>3, <3>1 DEF Set, Shape
    <3>2. CASE ptr # None
      <4>1. ptr \in Users /\ sub[ptr] \in Subscriber
        BY <3>2 DEF Shape
      <4>2. <<ptr, Arg("udp").kind>> \in Addresses
        BY <2>1, <4>1 DEF Addresses
      <4>3. [sub[ptr] EXCEPT !.address[Arg("udp").kind] = <<ptr, Arg("udp").kind>>] \in Subscriber
        BY <2>1, <4>1, <4>2 DEF Subscriber
      <4>4. sub' = [sub EXCEPT ![ptr] =
                       [sub[ptr] EXCEPT !.address[Arg("udp").kind] = <<ptr, Arg("udp").kind>>]]
        BY <1>3, <3>2, <4>1 DEF Set, Shape, Subscriber
      <4> QED
        BY <4>1, <4>3, <4>4 DEF Shape
    <3> QED
      BY <3>1, <3>2
  <2> QED
    BY <1>3, <2>2, <1>w, <1>d DEF Set, Shape
<1> QED
  BY <1>1, <1>2, <1>3 DEF Udp

\* Every step keeps the shape.
LEMMA NextShape == Shape /\ [Next]_vars => Shape'
<1> SUFFICES ASSUME Shape, [Next]_vars PROVE Shape'
  OBVIOUS
<1>1. CASE UNCHANGED vars
  BY <1>1 DEF vars, Shape
<1> QED
  BY <1>1, RefreshShape, RpcShape, UdpShape DEF Next

-----------------------------------------------------------------------------
(* Sources without routes *)

\* The RPC thread is about to remove the routes of s.
Pending(s) == Removes(work["rpc"], s)

\* A refresh that was left alone works on a source of the room.
Clean == \A t \in Threads : Refreshing(t) /\ ~dirty[t] => Arg(t).ssrc \in Sources

\* Who has routes is a source, or known for stale, or about to lose them.
Accounted ==
    \A s \in Ssrcs : routes[s] # NoRoutes => s \in Sources \cup stale \/ room # "open" \/ Pending(s)

\* Nothing happens before there is a room.
Before ==
    room = "none" =>
       /\ \A t \in Threads : Idle(t)
       /\ \A s \in Ssrcs : routes[s] = NoRoutes
       /\ \A u \in Users, k \in Kinds : tr[u][k] = "none"

\* Where a thread stands after it has moved.
LEMMA AtAfter ==
    ASSUME Shape, NEW t \in Threads, Moves(t)
    PROVE  /\ Refreshing(t)' => /\ Refreshing(t) \/ At(t, "lookup")
                                /\ Arg(t)'.ssrc = Arg(t).ssrc
           /\ Refreshing(Other(t))' = Refreshing(Other(t)) /\ Arg(Other(t))' = Arg(Other(t))
           /\ Other(t) \in Threads \ {t} /\ Threads = {t, Other(t)}
<1>1. Other(t) \in Threads \ {t} /\ Threads = {t, Other(t)}
  BY DEF Threads, Other
<1>2. /\ work'[Other(t)] = work[Other(t)]
      /\ work'[t] # <<>> /\ Head(work'[t]).op \in RefreshOps =>
                 /\ ~Idle(t) /\ Arg(t).op \in RefreshOps \cup {"lookup"}
                 /\ Head(work'[t]).ssrc = Arg(t).ssrc
  BY <1>1, MovesKept
<1> QED
  BY <1>1, <1>2 DEF Refreshing, At, Idle, Arg, RefreshOps

\* The other thread is interfered with whenever sources change.
LEMMA CleanKept ==
    ASSUME Shape, Clean, NEW t \in Threads, Moves(t),
           \/ Sources' = Sources
           \/ ~Refreshing(t) /\ ~At(t, "lookup") /\ dirty'[Other(t)] = Refreshing(Other(t)),
           Refreshing(Other(t)) => dirty'[Other(t)] = dirty[Other(t)] \/ dirty'[Other(t)],
           Refreshing(t) => dirty'[t] = dirty[t],
           At(t, "lookup") => dirty'[t] = (Arg(t).ssrc \notin Sources)
    PROVE  Clean'
<1>1. ASSUME Refreshing(Other(t))', ~dirty'[Other(t)]
      PROVE  Arg(Other(t))'.ssrc \in Sources'
  <2>1. Refreshing(Other(t)) /\ Arg(Other(t))' = Arg(Other(t)) /\ Other(t) \in Threads
    BY <1>1, AtAfter
  <2>2. Sources' = Sources /\ ~dirty[Other(t)]
    BY <1>1, <2>1 DEF Shape
  <2> QED
    BY <2>1, <2>2 DEF Clean
<1>2. ASSUME Refreshing(t)', ~dirty'[t]
      PROVE  Arg(t)'.ssrc \in Sources'
  <2>1. (Refreshing(t) \/ At(t, "lookup")) /\ Arg(t)'.ssrc = Arg(t).ssrc
    BY <1>2, AtAfter
  <2>2. Sources' = Sources
    BY <2>1
  <2>3. CASE At(t, "lookup")
    BY <1>2, <2>1, <2>2, <2>3
  <2>4. CASE Refreshing(t)
    BY <1>2, <2>1, <2>2, <2>4 DEF Clean
  <2> QED
    BY <2>1, <2>3, <2>4
<1>3. Threads = {t, Other(t)}
  BY AtAfter
<1> QED
  BY <1>1, <1>2, <1>3 DEF Clean

\* The sources are what publishers_ says.
LEMMA SourcesSame == ASSUME UNCHANGED pub PROVE Sources' = Sources
BY SMT DEF Sources, Publishers

\* A thread at another step is not refreshing.
LEMMA NotRefreshing ==
    ASSUME NEW t \in Threads,
           Idle(t) \/ \E op : At(t, op) /\ op \notin RefreshOps \cup {"lookup"}
    PROVE  ~Refreshing(t) /\ ~At(t, "lookup")
BY DEF Refreshing, At, RefreshOps

\* Every step keeps Clean.
LEMMA NextClean == ASSUME Shape, Clean, Next PROVE Clean'
<1>0. /\ work \in [Threads -> Seq(Item)] /\ dirty \in [Threads -> BOOLEAN]
      /\ \A t \in Threads : Other(t) \in Threads /\ Other(t) # t
      /\ "rpc" \in Threads /\ "udp" \in Threads
  BY DEF Shape, Threads, Other
<1>1. ASSUME NEW t \in Threads, Refresh(t)
      PROVE  Clean'
  <2>1. Sources' = Sources
    BY <1>1, SourcesSame DEF Refresh, DoRefreshRoom, Lookup, Forget, Clear, List, Add, Note, members
  <2>2. Refreshing(Other(t)) => dirty'[Other(t)] = dirty[Other(t)] \/ dirty'[Other(t)]
    BY <1>0, <1>1 DEF Refresh, DoRefreshRoom, Lookup, Forget, Clear, List, Add, Note, Interfere
  <2>3. ~At(t, "lookup") => dirty'[t] = dirty[t]
    BY <1>0, <1>1 DEF Refresh, DoRefreshRoom, Lookup, Forget, Clear, List, Add, Note, Interfere
  <2>4. At(t, "lookup") => Lookup(t) /\ ~Refreshing(t)
    BY <1>1 DEF Refresh, DoRefreshRoom, Forget, Clear, List, Add, Note, At, Refreshing
  <2>5. At(t, "lookup") => dirty'[t] = (Arg(t).ssrc \notin Sources)
    BY <1>0, <2>4 DEF Lookup
  <2> QED
    BY <1>1, <2>1, <2>2, <2>3, <2>4, <2>5, RefreshWork, CleanKept
<1>2. CASE Udp
  <2>1. Idle("udp") \/ \E op \in {"find", "set"} : At("udp", op)
    BY <1>2 DEF Udp, Stun, Find, Set
  <2>2. ~Refreshing("udp") /\ ~At("udp", "lookup")
    BY <1>0, <2>1, NotRefreshing DEF RefreshOps
  <2>3. Sources' = Sources
    BY <1>2, SourcesSame DEF Udp, Stun, Find, Set, members
  <2>4. Refreshing(Other("udp")) => dirty'[Other("udp")] = dirty[Other("udp")] \/ dirty'[Other("udp")]
    BY <1>0, <1>2 DEF Udp, Stun, Find, Set, Interfere
  <2> QED
    BY <1>0, <1>2, <2>2, <2>3, <2>4, UdpWork, CleanKept
<1>3. CASE Rpc
  <2>1. Idle("rpc") \/ \E op \in {"getSubscriber", "addSubscriber", "bindPublisher", "answer",
              "removeRoutes", "removeFeedback", "removeSubscriber", "removePublisher"} : At("rpc", op)
    BY <1>3 DEF Rpc, CreateRoom, DestroyRoom, SetupTransport, CloseTransport, GetSubscriber, AddSubscriber,
         BindPublisher, Answer, RemoveRoutes, RemoveFeedback, RemoveSubscriber, RemovePublisher
  <2>2. ~Refreshing("rpc") /\ ~At("rpc", "lookup")
    BY <1>0, <2>1, NotRefreshing DEF RefreshOps
  <2>3. dirty' = dirty \/ Interfere("rpc")
    BY <1>3 DEF Rpc, CreateRoom, DestroyRoom, SetupTransport, CloseTransport, GetSubscriber, AddSubscriber,
         BindPublisher, Answer, RemoveRoutes, RemoveFeedback, RemoveSubscriber, RemovePublisher
  <2>4. Interfere("rpc") => dirty'[Other("rpc")] = Refreshing(Other("rpc"))
    BY <1>0 DEF Interfere
  <2>5. Sources' = Sources \/ Interfere("rpc")
    <3>1. UNCHANGED pub \/ Interfere("rpc") \/ RemovePublisher
      BY <1>3 DEF Rpc, CreateRoom, DestroyRoom, SetupTransport, CloseTransport, GetSubscriber, AddSubscriber,
           BindPublisher, Answer, RemoveRoutes, RemoveFeedback, RemoveSubscriber, members
    <3>2. ASSUME RemovePublisher, ~Interfere("rpc") PROVE UNCHANGED pub
      <4>1. Arg("rpc").user \in Users
        BY <1>0, <3>2, ArgItem, ItemKind, SMT DEF RemovePublisher, UserItem
      <4>2. Arg("rpc").user \notin Publishers /\ pub' = [pub EXCEPT ![Arg("rpc").user] = [k \in Kinds |-> 0]]
        BY <3>2 DEF RemovePublisher
      <4> QED
        BY <4>1, <4>2, SMT DEF Publishers, Shape
    <3> QED
      BY <3>1, <3>2, SourcesSame
  <2>6. Refreshing(Other("rpc")) => dirty'[Other("rpc")] = dirty[Other("rpc")] \/ dirty'[Other("rpc")]
    BY <2>3, <2>4
  <2> QED
    BY <1>0, <1>3, <2>2, <2>4, <2>5, <2>6, RpcWork, CleanKept
<1> QED
  BY <1>1, <1>2, <1>3 DEF Next

\* What is about to lose its routes still is, unless this is the step.
LEMMA PendingKept ==
    ASSUME Shape, NEW t \in Threads, Moves(t), NEW s, Pending(s),
           t = "rpc" => Arg("rpc") # [op |-> "removeRoutes", ssrc |-> s]
    PROVE  Pending(s)'
<1>0. work \in [Threads -> Seq(Item)] /\ "rpc" \in Threads
  BY DEF Shape, Threads
<1>1. CASE t # "rpc"
  <2>1. work'["rpc"] = work["rpc"]
    BY <1>0, <1>1, MovesKept
  <2> QED
    BY <2>1 DEF Pending, Removes
<1>2. CASE t = "rpc"
  <2> DEFINE w == work["rpc"]
  <2>1. PICK i \in 1..Len(w) : w[i] = [op |-> "removeRoutes", ssrc |-> s]
    BY DEF Pending, Removes
  <2>2. w \in Seq(Item) /\ w # <<>> /\ ~Idle("rpc") /\ Arg("rpc") = w[1] /\ Len(w) \in Nat
    BY <1>0, <2>1, SeqLen, SeqTail, SMT DEF Idle, Arg
  <2>3. i \in 2..Len(w)
    BY <1>2, <2>1, <2>2, SMT
  <2>4. CASE UNCHANGED work
    BY <2>4 DEF Pending, Removes
  <2>5. ASSUME NEW a \in Seq(Item), Goes("rpc", a)
        PROVE  Pending(s)'
    <3>1. work'["rpc"] = a \o Tail(w)
      BY <1>0, <2>5 DEF Goes, Then
    <3>2. /\ Len(a \o Tail(w)) = Len(a) + Len(w) - 1 /\ Len(a) \in Nat /\ Len(w) \in Nat \ {0}
          /\ (a \o Tail(w))[Len(a) + i - 1] = w[i]
      BY <2>2, <2>3, Replaced, SMT
    <3>3. Len(a) + i - 1 \in 1..Len(a \o Tail(w))
      BY <2>3, <3>2, SMT
    <3> QED
      BY <2>1, <3>1, <3>2, <3>3 DEF Pending, Removes
  <2> QED
    BY <1>2, <2>2, <2>4, <2>5 DEF Moves, Begins
<1> QED
  BY <1>1, <1>2

\* What a step puts before the RPC thread is pending.
LEMMA PendingNew ==
    ASSUME Shape, ~Idle("rpc"), NEW a, Plain(a), Then("rpc", a), NEW s, Removes(a, s)
    PROVE  Pending(s)'
<1> DEFINE w == work["rpc"]
           n == a \o Tail(w)
<1>1. w \in Seq(Item) /\ w # <<>> /\ work'["rpc"] = n
  BY DEF Idle, Shape, Then, Threads
<1>2. PICK j \in 1..Len(a) : a[j] = [op |-> "removeRoutes", ssrc |-> s]
  BY DEF Removes
<1>3. a \in Seq(Item)
  BY DEF Plain
<1> HIDE DEF w
<1>4. /\ Len(n) = Len(a) + Len(w) - 1 /\ Len(a) \in Nat /\ Len(w) \in Nat \ {0}
      /\ \A i \in 1..Len(a) : n[i] = a[i]
  BY <1>1, <1>3, Replaced, SMT
<1> HIDE DEF n
<1>5. j \in 1..Len(n) /\ n[j] = a[j]
  BY <1>4, SMT
<1> QED
  BY <1>1, <1>2, <1>5 DEF Pending, Removes

\* A source that somebody still publishes.
LEMMA StillSource ==
    ASSUME NEW s, s # 0, NEW v \in Users, NEW j \in Kinds, pub'[v][j] = s
    PROVE  s \in Sources'
BY SMT DEF Sources, Publishers

\* Whose stream a source is.
LEMMA SourceOf ==
    ASSUME NEW s \in Sources
    PROVE  s # 0 /\ \E v \in Users, j \in Kinds : pub[v][j] = s
BY SMT DEF Sources, Publishers

\* A publisher that sets up another stream gives up the source it had.
LEMMA BindPending ==
    ASSUME Shape, BindPublisher, NEW s \in Sources
    PROVE  s \in Sources' \/ Pending(s)'
<1> DEFINE u == Arg("rpc").user
           k == Arg("rpc").kind
           y == [op |-> "answer", user |-> u, kind |-> k]
           a == RoutesOff(pub[u][k]) \o <<RefreshRoom, y>>
<1>0. work \in [Threads -> Seq(Item)] /\ "rpc" \in Threads
  BY DEF Shape, Threads
<1>1. ~Idle("rpc") /\ Arg("rpc") \in BindItem
  BY <1>0, ArgItem, ItemKind DEF BindPublisher
<1>2. u \in Users /\ k \in Kinds /\ pub[u][k] \in 0..MaxSsrc
  BY <1>1, SMT DEF BindItem, Shape
<1>3. RefreshRoom \in Item /\ y \in Item /\ RefreshRoom.op \notin RefreshOps /\ y.op \notin RefreshOps
  BY <1>2 DEF Item, RoomItem, PlaceItem, RefreshRoom, RefreshOps
<1>4. UNCHANGED pub \/ (Then("rpc", a) /\ pub' = [pub EXCEPT ![u][k] = Arg("rpc").ssrc])
  BY DEF BindPublisher
<1> HIDE DEF u, k, y
<1>5. Plain(<<RefreshRoom, y>>)
  BY <1>3, TwoPlain
<1>6. Plain(a) /\ (pub[u][k] # 0 => Removes(a, pub[u][k]))
  BY <1>2, <1>5, OffPlain
<1> HIDE DEF a
<1>7. CASE UNCHANGED pub
  BY <1>7, SourcesSame
<1>8. CASE Then("rpc", a) /\ pub' = [pub EXCEPT ![u][k] = Arg("rpc").ssrc]
  <2>1. PICK v \in Users, j \in Kinds : s # 0 /\ pub[v][j] = s
    BY SourceOf
  <2>2. CASE v = u /\ j = k
    BY <1>1, <1>6, <1>8, <2>1, <2>2, PendingNew
  <2>3. CASE ~(v = u /\ j = k)
    <3>1. pub'[v][j] = s
      BY <1>2, <1>8, <2>1, <2>3 DEF Shape
    <3> QED
      BY <2>1, <3>1, StillSource
  <2> QED
    BY <2>2, <2>3
<1> QED
  BY <1>4, <1>7, <1>8

\* Who leaves gives up all sources.
LEMMA RemovePending ==
    ASSUME Shape, RemovePublisher, NEW s \in Sources
    PROVE  s \in Sources' \/ Pending(s)'
<1> DEFINE u == Arg("rpc").user
           p == pub[u]
           b == RoutesOff(p["video"])
           a == RoutesOff(p["audio"]) \o b
<1>0. work \in [Threads -> Seq(Item)] /\ "rpc" \in Threads
  BY DEF Shape, Threads
<1>1. ~Idle("rpc") /\ Arg("rpc") \in UserItem
  BY <1>0, ArgItem, ItemKind DEF RemovePublisher
<1>2. u \in Users
  BY <1>1 DEF UserItem
<1>3. p["audio"] \in 0..MaxSsrc /\ p["video"] \in 0..MaxSsrc
  BY <1>2, SMT DEF Shape, Kinds
<1>4. Then("rpc", a) /\ pub' = [pub EXCEPT ![u] = [k \in Kinds |-> 0]]
  BY DEF RemovePublisher
<1>5. PICK v \in Users, j \in Kinds : s # 0 /\ pub[v][j] = s
  BY SourceOf
<1>6. v = u => s = p["audio"] \/ s = p["video"]
  BY <1>5 DEF Kinds
<1>7. v # u => pub'[v][j] = s
  BY <1>4, <1>5 DEF Shape
<1> HIDE DEF u, p
<1>8. Plain(b) /\ (p["video"] # 0 => Removes(b, p["video"]))
  BY <1>3, RoutesOffPlain, RoutesOffRemoves
<1> HIDE DEF b
<1>9. /\ Plain(a) /\ (\A x : Removes(b, x) => Removes(a, x))
      /\ p["audio"] # 0 => Removes(a, p["audio"])
  BY <1>3, <1>8, OffPlain
<1> HIDE DEF a
<1>10. CASE v = u
  <2>1. Removes(a, s)
    BY <1>5, <1>6, <1>8, <1>9, <1>10
  <2> QED
    BY <1>1, <1>4, <1>9, <2>1, PendingNew
<1>11. CASE v # u
  BY <1>5, <1>7, <1>11, StillSource
<1> QED
  BY <1>10, <1>11

\* What has targets stays accounted for.
LEMMA NextAccounted == ASSUME Shape, Clean, Accounted, Before, Next PROVE Accounted'
<1>0. work \in [Threads -> Seq(Item)] /\ "rpc" \in Threads /\ "udp" \in Threads
  BY DEF Shape, Threads
<1> SUFFICES ASSUME NEW s \in Ssrcs, routes'[s] # NoRoutes, room' = "open"
             PROVE  s \in (Sources \cup stale)' \/ Pending(s)'
  BY DEF Accounted, NoRoutes
<1>1. ASSUME NEW t \in Threads, Refresh(t)
      PROVE  s \in (Sources \cup stale)' \/ Pending(s)'
  <2>1. Sources' = Sources /\ room = "open"
    BY <1>1, SourcesSame DEF Refresh, DoRefreshRoom, Lookup, Forget, Clear, List, Add, Note, members
  <2>2. Pending(s) => Pending(s)'
    <3>1. Arg(t).op # "removeRoutes"
      <4>1. PICK op \in RefreshOps \cup {"refreshRoom", "lookup"} : At(t, op)
        BY <1>1 DEF Refresh, DoRefreshRoom, Lookup, Forget, Clear, List, Add, Note, RefreshOps
      <4> QED
        BY <4>1 DEF At, Arg, RefreshOps
    <3> QED
      BY <1>1, <3>1, RefreshWork, PendingKept, SMT
  <2>3. CASE DoRefreshRoom(t) \/ Lookup(t) \/ Forget(t)
    <3>1. routes' = routes /\ stale' = stale
      BY <2>3 DEF DoRefreshRoom, Lookup, Forget
    <3> QED
      BY <2>1, <2>2, <3>1 DEF Accounted
  <2>4. CASE Clear(t)
    <3>1. routes[s] # NoRoutes /\ stale' = stale
      BY <2>4 DEF Clear, Shape
    <3> QED
      BY <2>1, <2>2, <3>1 DEF Accounted
  <2>5. CASE List(t)
    <3>1. routes[s] # NoRoutes /\ (s = Arg(t).ssrc /\ ~dirty[t] => s \in Sources)
      BY <2>5 DEF List, Clean, Refreshing
    <3>2. s \in stale => s \in stale' \/ s \in Sources
      BY <2>5, <3>1 DEF List
    <3> QED
      BY <2>1, <2>2, <3>1, <3>2 DEF Accounted
  <2>6. CASE Add(t)
    <3>1. stale \subseteq stale'
      BY <2>6 DEF Add
    <3>2. CASE s = Arg(t).ssrc
      BY <2>1, <2>6, <3>2 DEF Add, Clean, Refreshing
    <3>3. CASE s # Arg(t).ssrc
      <4>1. routes[s] # NoRoutes
        BY <2>6, <3>3 DEF Add, Shape
      <4> QED
        BY <2>1, <2>2, <3>1, <4>1 DEF Accounted
    <3> QED
      BY <3>2, <3>3
  <2>7. CASE Note(t)
    <3>1. routes' = routes /\ stale \subseteq stale'
      BY <2>7 DEF Note
    <3> QED
      BY <2>1, <2>2, <3>1 DEF Accounted
  <2> QED
    BY <1>1, <2>3, <2>4, <2>5, <2>6, <2>7 DEF Refresh
<1>2. CASE Udp
  <2>1. routes' = routes /\ stale' = stale /\ Sources' = Sources /\ room' = room
    BY <1>2, SourcesSame DEF Udp, Stun, Find, Set, members
  <2>2. Pending(s) => Pending(s)'
    BY <1>0, <1>2, UdpWork, PendingKept
  <2> QED
    BY <2>1, <2>2 DEF Accounted
<1>3. CASE Rpc
  <2>1. CASE CreateRoom
    BY <2>1 DEF CreateRoom, Before
  <2>2. CASE ~CreateRoom
    <3>1. room = "open" /\ stale' = stale
      BY <1>3, <2>2 DEF Rpc, DestroyRoom, SetupTransport, CloseTransport, GetSubscriber, AddSubscriber,
         BindPublisher, Answer, RemoveRoutes, RemoveFeedback, RemoveSubscriber, RemovePublisher, members
    <3>2. routes[s] # NoRoutes
      BY <1>3, <2>2 DEF Rpc, DestroyRoom, SetupTransport, CloseTransport, GetSubscriber, AddSubscriber,
         BindPublisher, Answer, RemoveRoutes, RemoveFeedback, RemoveSubscriber, RemovePublisher, Shape
    <3>3. Pending(s) => Pending(s)'
      <4>1. CASE Arg("rpc") = [op |-> "removeRoutes", ssrc |-> s] /\ Pending(s)
        <5>1. ~Idle("rpc")
          BY <4>1, SMT DEF Pending, Removes, Idle
        <5>0. Arg("rpc").op = "removeRoutes"
          BY <4>1, SMT
        <5>2. RemoveRoutes
          BY <1>3, <2>2, <5>0, <5>1 DEF Rpc, DestroyRoom, SetupTransport, CloseTransport, GetSubscriber,
             AddSubscriber, BindPublisher, Answer, RemoveFeedback, RemoveSubscriber, RemovePublisher, At, Arg
        <5> QED
          BY <4>1, <5>2, SMT DEF RemoveRoutes, Shape
      <4>2. CASE Arg("rpc") # [op |-> "removeRoutes", ssrc |-> s]
        BY <1>0, <1>3, <4>2, RpcWork, PendingKept
      <4> QED
        BY <4>1, <4>2
    <3>4. s \in Sources => s \in Sources' \/ Pending(s)'
      <4>1. CASE UNCHANGED pub
        BY <4>1, SourcesSame
      <4>2. CASE BindPublisher
        BY <4>2, BindPending
      <4>3. CASE RemovePublisher
        BY <4>3, RemovePending
      <4> QED
        BY <1>3, <2>2, <4>1, <4>2, <4>3 DEF Rpc, DestroyRoom, SetupTransport, CloseTransport, GetSubscriber,
           AddSubscriber, Answer, RemoveRoutes, RemoveFeedback, RemoveSubscriber, members
    <3> QED
      BY <3>1, <3>2, <3>3, <3>4 DEF Accounted
  <2> QED
    BY <2>1, <2>2
<1> QED
  BY <1>1, <1>2, <1>3 DEF Next

\* Every step keeps Before.
LEMMA NextBefore == ASSUME Shape, Before, Next PROVE Before'
<1>1. room' = "none" => room = "none"
  BY DEF Next, Rpc, Udp, Refresh, DoRefreshRoom, Lookup, Forget, Clear, List, Add, Note, CreateRoom, DestroyRoom,
         SetupTransport, CloseTransport, GetSubscriber, AddSubscriber, BindPublisher, Answer, RemoveRoutes,
         RemoveFeedback, RemoveSubscriber, RemovePublisher, Stun, Find, Set, members
<1>2. ASSUME room = "none" PROVE room' = "open"
  <2>1. "rpc" \in Threads /\ "udp" \in Threads /\ \A t \in Threads : Idle(t)
    BY <1>2 DEF Before, Threads
  <2>2. \A u \in Users, k \in Kinds : tr[u][k] = "none"
    BY <1>2 DEF Before
  <2>3. ~Udp
    BY <2>1, <2>2 DEF Udp, Stun, Find, Set, At
  <2>4. \A t \in Threads : ~Refresh(t)
    BY <2>1 DEF Refresh, DoRefreshRoom, Lookup, Forget, Clear, List, Add, Note, At
  <2>5. CreateRoom
    BY <1>2, <2>1, <2>3, <2>4 DEF Next, Rpc, DestroyRoom, SetupTransport, CloseTransport, GetSubscriber,
       AddSubscriber, BindPublisher, Answer, RemoveRoutes, RemoveFeedback, RemoveSubscriber, RemovePublisher, At
  <2> QED
    BY <2>5 DEF CreateRoom
<1> QED
  BY <1>1, <1>2 DEF Before

\* Between calls only sources of publishers have targets, for any number of users
\* and of transports, and however the two threads interleave.
THEOREM OnlySourcesRouted == Spec => []NoOrphanRoutes
<1> DEFINE IInv == Shape /\ Clean /\ Accounted /\ Before
<1>1. Init => IInv
  <2> SUFFICES ASSUME Init PROVE Clean /\ Accounted /\ Before
    BY InitShape
  <2> QED
    BY DEF Init, Clean, Accounted, Before, Refreshing, At, Idle
<1>2. IInv /\ [Next]_vars => IInv'
  <2> SUFFICES ASSUME IInv, [Next]_vars PROVE IInv'
    OBVIOUS
  <2>1. Shape'
    BY NextShape
  <2>2. CASE Next
    BY <2>1, <2>2, NextClean, NextAccounted, NextBefore
  <2>3. CASE UNCHANGED vars
    <3>1. Clean'
      BY <2>3, SMT DEF vars, Clean, Refreshing, At, Idle, Arg, Sources, Publishers
    <3>2. Accounted'
      <4> SUFFICES ASSUME NEW s \in Ssrcs, routes'[s] # NoRoutes, room' = "open"
                   PROVE  s \in Sources' \cup stale' \/ Pending(s)'
        BY DEF Accounted, NoRoutes
      <4>1. Sources' = Sources /\ (Pending(s) => Pending(s)')
        BY <2>3, SourcesSame DEF vars, Pending, Removes
      <4> QED
        BY <2>3, <4>1 DEF vars, Accounted
    <3>3. Before'
      BY <2>3 DEF vars, Before, NoRoutes, Idle
    <3> QED
      BY <2>1, <3>1, <3>2, <3>3
  <2> QED
    BY <2>2, <2>3
<1>3. IInv => NoOrphanRoutes
  <2> SUFFICES ASSUME IInv, Quiet, room = "open", NEW s \in Ssrcs \ (Sources \cup stale)
               PROVE  routes[s] = NoRoutes
    BY DEF NoOrphanRoutes
  <2>1. ~Pending(s)
    BY SMT DEF Quiet, Idle, Pending, Removes, Threads
  <2> QED
    BY <2>1 DEF Accounted
<1> QED
  BY <1>1, <1>2, <1>3, PTL DEF Spec
=============================================================================
