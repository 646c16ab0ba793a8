-------------------------- MODULE ServerConnsProofs --------------------------
(* Proofs about the connections of a server (ServerConns): no two request handlers have
   one ID, and a client whose ID in the pool is its own gets the reply to what it asked. *)
EXTENDS ServerConns, SequenceTheorems, TLAPS

(***************************************************************************)
(* What is where                                                           *)
(***************************************************************************)
Req      == [client : Clients, n : Nat, kind : AllKinds]
ReqOf(c) == {r \in Req : r.client = c}
PoolIds  == {PoolId(c) : c \in Clients}
PoolMaps == UNION {[S -> Req] : S \in SUBSET PoolIds}

ConnStates    == {"none", "open", "sending", "serving", "upgrade", "multi", "closing"}
HandlerStates == {"none", "new", "idle", "busy", "pool"}
HandlerRecs   == [st : HandlerStates, id : Nat, req : Req \cup {None}]
IdRecs        == [new : Seq(Nat), reusable : Seq(Nat), canReuse : Seq(Nat), next : Nat,
                  late : SUBSET Nat]
PoolRecs      == [locked : Nat, map : PoolMaps, toB : Seq(Req), stuck : BOOLEAN,
                  closed : BOOLEAN]

ConnTypes ==
    /\ conn \in [Conns -> ConnStates]
    /\ broken \in [Conns -> BOOLEAN]
    /\ accepts \in [Conns -> Nat]
    /\ sock \in [Conns -> Seq(Req \cup {Multi})]
    /\ lastReply \in [Conns -> Req \cup {None}]
    /\ sent \in [Clients -> Nat]
    /\ waiting \in [Clients -> Req \cup {None}]
    /\ handler \in [Clients -> HandlerRecs]
    /\ tmChan \in [Clients -> Seq(Req \cup {Lost})]
    /\ replies \in Seq([client : Group, reply : Req])

PoolTypes ==
    /\ reqs \in Seq([req : Req, chan : Req])
    /\ pool \in [PoolConns -> PoolRecs]
    /\ boxes \subseteq [chan : Req, reply : Req]

(***************************************************************************)
(* IDs of the handlers                                                     *)
(***************************************************************************)
Elems(s)   == {s[i] : i \in 1..Len(s)}
DupFree(s) == \A i, j \in 1..Len(s) : s[i] = s[j] => i = j

LiveIds == {handler[c].id : c \in {d \in Clients : Live(d)}}
FreeIds == Elems(ids.new) \cup Elems(ids.reusable) \cup Elems(ids.canReuse)

FreeOnce ==
    /\ DupFree(ids.new) /\ DupFree(ids.reusable) /\ DupFree(ids.canReuse)
    /\ Elems(ids.new) \cap Elems(ids.reusable) = {}
    /\ Elems(ids.new) \cap Elems(ids.canReuse) = {}
    /\ Elems(ids.reusable) \cap Elems(ids.canReuse) = {}

\* Every ID made so far is in one place.
OnePlace ==
    /\ FreeIds \cap ids.late = {} /\ FreeIds \cap leaked = {} /\ FreeIds \cap LiveIds = {}
    /\ ids.late \cap leaked = {} /\ ids.late \cap LiveIds = {} /\ leaked \cap LiveIds = {}
    /\ \A i \in FreeIds \cup ids.late \cup leaked \cup LiveIds : i < ids.next

OwnIds == \A c, d \in Clients :
             Live(c) /\ Live(d) /\ handler[c].id = handler[d].id => c = d

IdInv == /\ ids \in IdRecs /\ leaked \subseteq Nat
         /\ FreeOnce /\ OnePlace /\ OwnIds

(***************************************************************************)
(* A connection of one client                                              *)
(***************************************************************************)
\* Whom the connection of client c has a handler for, and what the handler does.
SingleShape(c) ==
    /\ conn[{c}] \in {"none", "open", "sending", "serving"}
    /\ conn[{c}] = "none" => handler[c].st = "none"
    /\ conn[{c}] \in {"open", "sending"} => handler[c].st \in {"new", "idle"}
    /\ conn[{c}] = "serving" => /\ handler[c].st \in {"busy", "pool"}
                                /\ handler[c].req \in ReqOf(c)
    /\ tmChan[c] = <<>>
    /\ sock[{c}] # <<>> =>
          conn[{c}] = "open" /\ Len(sock[{c}]) = 1 /\ sock[{c}][1] \in ReqOf(c)

\* The one request a client that is connected has under way is the one it waits for.
SingleWaits(c) ==
    /\ broken[{c}] \/ conn[{c}] = "none" => waiting[c] = None
    /\ ~broken[{c}] =>
         /\ conn[{c}] = "open" /\ sock[{c}] = <<>> => waiting[c] = None
         /\ conn[{c}] = "open" /\ sock[{c}] # <<>> => waiting[c] = sock[{c}][1]
         /\ conn[{c}] = "serving" => waiting[c] = handler[c].req
         /\ conn[{c}] = "sending" => /\ waiting[c] \in ReqOf(c)
                                     /\ \/ waiting[c].kind = "unknown"
                                        \/ Alone(c) => lastReply[{c}] = waiting[c]

SingleInv == \A c \in Singles : SingleShape(c) /\ SingleWaits(c)

(***************************************************************************)
(* The connection the clients of the group share                           *)
(***************************************************************************)
\* The upgrade comes first; then only requests of the group are read.
GroupSock ==
    /\ \A i \in 1..Len(sock[Group]) :
          \/ sock[Group][i] \in Req /\ sock[Group][i].client \in Group
          \/ i = 1 /\ conn[Group] = "open" /\ sock[Group][i] = Multi
    /\ conn[Group] = "open" /\ sock[Group] # <<>> => sock[Group][1] = Multi
    /\ conn[Group] = "open" /\ sock[Group] = <<>> => broken[Group]

GroupShape ==
    /\ conn[Group] \in {"none", "open", "upgrade", "multi", "closing"}
    /\ conn[Group] = "none" => \A c \in Group : ~Live(c)
    /\ conn[Group] = "open" => \A c \in Group : Live(c) <=> c = Front(Group)
    /\ conn[Group] = "upgrade" => \E c \in Group : ~Live(c)
    /\ conn[Group] = "multi" => \A c \in Group : Live(c)
    /\ conn[Group] = "closing" => broken[Group]
    /\ conn[Group] \in {"none", "open", "upgrade"} => replies = <<>>
    /\ broken[Group] \/ conn[Group] = "none" => \A c \in Group : waiting[c] = None

GroupClient(c) ==
    /\ handler[c].st \in {"busy", "pool"} =>
          /\ conn[Group] \in {"multi", "closing"}
          /\ handler[c].req \in ReqOf(c)
    /\ tmChan[c] # <<>> =>
          /\ Live(c) /\ conn[Group] \in {"multi", "closing"}
          /\ Len(tmChan[c]) = 1 /\ tmChan[c][1] \in ReqOf(c) \cup {Lost}
          /\ IF tmChan[c][1] = Lost THEN conn[Group] = "closing"
                                    ELSE tmChan[c][1].kind # "unknown"

GroupInv == Group # {} => GroupSock /\ GroupShape /\ \A c \in Group : GroupClient(c)

(***************************************************************************)
(* The way of a request of the group, from the connection to its reply     *)
(***************************************************************************)
Answered(r) == r.kind \notin {"abort", "unknown"}

SockAt(c, i)  == /\ i \in 1..Len(sock[Group])
                 /\ sock[Group][i] \in ReqOf(c) /\ Answered(sock[Group][i])
InSock(c)     == \E i \in 1..Len(sock[Group]) : SockAt(c, i)
InChan(c)     == tmChan[c] # <<>> /\ tmChan[c][1] # Lost /\ Answered(tmChan[c][1])
InHandler(c)  == handler[c].st \in {"busy", "pool"}
ReplyAt(c, i) == i \in 1..Len(replies) /\ replies[i].client = c
InReplies(c)  == \E i \in 1..Len(replies) : ReplyAt(c, i)

\* What the client awaits is what is on its way, and it is there once.
WayOnce(c) ==
    /\ \A i, j \in 1..Len(sock[Group]) : SockAt(c, i) /\ SockAt(c, j) => i = j
    /\ \A i, j \in 1..Len(replies) : ReplyAt(c, i) /\ ReplyAt(c, j) => i = j
    /\ InSock(c) => ~InChan(c) /\ ~InHandler(c) /\ ~InReplies(c)
    /\ InChan(c) => ~InHandler(c) /\ ~InReplies(c)
    /\ InHandler(c) => ~InReplies(c)

WayWaits(c) ==
    /\ \A i \in 1..Len(sock[Group]) : SockAt(c, i) => waiting[c] = sock[Group][i]
    /\ InChan(c) => waiting[c] = tmChan[c][1]
    /\ InHandler(c) => waiting[c] = handler[c].req
    /\ \A i \in 1..Len(replies) : ReplyAt(c, i) => waiting[c] = replies[i].reply

WayInv == \A c \in Group : Alone(c) /\ ~broken[Group] => WayOnce(c) /\ WayWaits(c)

(***************************************************************************)
(* The way of a request through the pool                                   *)
(***************************************************************************)
\* A reply goes to the channel of a client with the ID of the request.
MapInv == \A p \in PoolConns :
    /\ \A i \in DOMAIN pool[p].map : PoolId(pool[p].map[i].client) = i
    /\ \A i \in 1..Len(pool[p].toB) : PoolId(pool[p].toB[i].client) \in DOMAIN pool[p].map

ChanInv == \A i \in 1..Len(reqs) : reqs[i].chan = reqs[i].req

ReqAt(c, i)    == i \in 1..Len(reqs) /\ reqs[i].req.client = c
ToBAt(c, p, i) == p \in PoolConns /\ i \in 1..Len(pool[p].toB) /\ pool[p].toB[i].client = c
InReqs(c)      == \E i \in 1..Len(reqs) : ReqAt(c, i)
InToB(c)       == \E p \in PoolConns : \E i \in 1..Len(pool[p].toB) : ToBAt(c, p, i)
InBoxes(c)     == \E b \in boxes : b.chan.client = c

\* The request of a client that shares its ID with nobody is in the pool once.
OutOnce(c) ==
    /\ \A i, j \in 1..Len(reqs) : ReqAt(c, i) /\ ReqAt(c, j) => i = j
    /\ \A p, q \in PoolConns : \A i \in 1..Len(pool[p].toB) : \A j \in 1..Len(pool[q].toB) :
          ToBAt(c, p, i) /\ ToBAt(c, q, j) => p = q /\ i = j
    /\ InReqs(c) => ~InToB(c) /\ ~InBoxes(c)
    /\ InToB(c) => ~InBoxes(c)
    /\ InReqs(c) \/ InToB(c) \/ InBoxes(c) => handler[c].st = "pool"

\* Its handler waits for it, with the channel the connection has stored last.
OutWaits(c) ==
    /\ \A i \in 1..Len(reqs) : ReqAt(c, i) => reqs[i].req = handler[c].req
    /\ \A p \in PoolConns : \A i \in 1..Len(pool[p].toB) :
          ToBAt(c, p, i) => /\ pool[p].toB[i] = handler[c].req
                            /\ pool[p].map[PoolId(c)] = handler[c].req
    /\ \A b \in boxes : b.chan.client = c => b.chan = handler[c].req /\ b.reply = b.chan

OutInv == \A c \in Clients : Alone(c) => OutOnce(c) /\ OutWaits(c)

PoolInv == PoolTypes /\ MapInv /\ ChanInv /\ OutInv

ConnInv == ConnTypes /\ IdInv /\ SingleInv /\ GroupInv /\ WayInv /\ PoolInv /\ ReplyIsOwn

-----------------------------------------------------------------------------
(* Connections and requests *)

LEMMA Alien ==
    /\ None \notin Req /\ Multi \notin Req /\ Lost \notin Req
    /\ None # Multi /\ None # Lost /\ Multi # Lost
<1>1. \A r \in Req : DOMAIN r = {"client", "n", "kind"}
  BY DEF Req
<1>2. DOMAIN None = {"client"} /\ DOMAIN Multi = {"client"} /\ DOMAIN Lost = {"client"}
  BY DEF None, Multi, Lost
<1>3. {"client", "n", "kind"} # {"client"}
  OBVIOUS
<1>4. None.client = "none" /\ Multi.client = "multi" /\ Lost.client = "lost"
  BY DEF None, Multi, Lost
<1> QED BY <1>1, <1>2, <1>3, <1>4

LEMMA SingleConn ==
    ASSUME NEW c \in Singles
    PROVE  /\ c \in Clients /\ c \notin Group /\ {c} \in Conns /\ {c} # Group
           /\ ConnOf(c) = {c} /\ Front({c}) = c
BY ServerConnsAssumption DEF Clients, Conns, ConnOf, Front

LEMMA GroupConn ==
    ASSUME Group # {}
    PROVE  /\ Group \in Conns /\ Front(Group) \in Group
           /\ \A c \in Group : c \in Clients /\ c \notin Singles /\ ConnOf(c) = Group
BY ServerConnsAssumption DEF Clients, Conns, ConnOf, Front

LEMMA ConnCases ==
    ASSUME NEW k \in Conns
    PROVE  \/ \E c \in Singles : k = {c}
           \/ k = Group /\ Group # {}
BY DEF Conns

LEMMA FrontOf ==
    ASSUME NEW k \in Conns
    PROVE  Front(k) \in k /\ k \subseteq Clients
<1>1. k # {} /\ k \subseteq Clients
  BY DEF Conns, Clients
<1> QED BY <1>1 DEF Front

LEMMA ClientConn ==
    ASSUME NEW c \in Clients
    PROVE  ConnOf(c) \in Conns /\ c \in ConnOf(c)
BY SingleConn, GroupConn DEF Clients, ConnOf

-----------------------------------------------------------------------------
(* Sequences of IDs *)

LEMMA ElemsEmpty == Elems(<<>>) = {} /\ DupFree(<<>>)
BY DEF Elems, DupFree

LEMMA ElemsAppend ==
    ASSUME NEW S, NEW s \in Seq(S), NEW x \in S
    PROVE  /\ Append(s, x) \in Seq(S)
           /\ Elems(Append(s, x)) = Elems(s) \cup {x}
           /\ DupFree(s) /\ x \notin Elems(s) => DupFree(Append(s, x))
<1>1. /\ Append(s, x) \in Seq(S) /\ Len(Append(s, x)) = Len(s) + 1
      /\ \A i \in 1..Len(s) : Append(s, x)[i] = s[i]
      /\ Append(s, x)[Len(s) + 1] = x /\ Len(s) \in Nat
  OBVIOUS
<1>2. Elems(Append(s, x)) = Elems(s) \cup {x}
  BY <1>1 DEF Elems
<1>3. ASSUME DupFree(s), x \notin Elems(s)
      PROVE  DupFree(Append(s, x))
  BY <1>1, <1>3 DEF DupFree, Elems
<1> QED BY <1>1, <1>2, <1>3

LEMMA ElemsTail ==
    ASSUME NEW S, NEW s \in Seq(S), s # <<>>
    PROVE  /\ Tail(s) \in Seq(S) /\ Head(s) \in S
           /\ Head(s) \in Elems(s)
           /\ Elems(Tail(s)) \subseteq Elems(s)
           /\ DupFree(s) => DupFree(Tail(s)) /\ Head(s) \notin Elems(Tail(s))
<1>1. /\ Tail(s) \in Seq(S) /\ Len(Tail(s)) = Len(s) - 1 /\ Len(s) \in Nat /\ Len(s) > 0
      /\ \A i \in 1..Len(Tail(s)) : Tail(s)[i] = s[i + 1]
      /\ Head(s) = s[1]
  OBVIOUS
<1>2. Head(s) \in S /\ Head(s) \in Elems(s) /\ Elems(Tail(s)) \subseteq Elems(s)
  BY <1>1 DEF Elems
<1>3. ASSUME DupFree(s)
      PROVE  DupFree(Tail(s)) /\ Head(s) \notin Elems(Tail(s))
  BY <1>1, <1>3 DEF DupFree, Elems
<1> QED BY <1>1, <1>2, <1>3

\* The last ID given back is the one used again.
LEMMA ElemsLast ==
    ASSUME NEW S, NEW s \in Seq(S), s # <<>>
    PROVE  /\ ReusedTaken(s) \in Seq(S) /\ s[Len(s)] \in S /\ s[Len(s)] \in Elems(s)
           /\ Elems(s) = Elems(ReusedTaken(s)) \cup {s[Len(s)]}
           /\ DupFree(s) => DupFree(ReusedTaken(s)) /\ s[Len(s)] \notin Elems(ReusedTaken(s))
<1> DEFINE t == SubSeq(s, 1, Len(s) - 1)
<1>1. Len(s) \in Nat /\ Len(s) > 0
  OBVIOUS
<1>2. /\ t \in Seq(S) /\ Len(t) = Len(s) - 1
      /\ \A i \in 1..Len(t) : t[i] = s[i]
  <2>1. \A i \in 1..(Len(s) - 1) : s[i] \in S
    BY <1>1
  <2>2. t \in Seq(S)
    BY <1>1, <2>1, SubSeqProperties
  <2>3. Len(t) = Len(s) - 1
    <3>1. Len(t) = IF 1 <= Len(s) - 1 THEN Len(s) - 1 - 1 + 1 ELSE 0
      BY <1>1, <2>1, SubSeqProperties
    <3> HIDE DEF t
    <3>2. CASE Len(s) = 1
      BY <3>1, <3>2
    <3>3. CASE Len(s) > 1
      BY <1>1, <3>1, <3>3
    <3>0. \A n \in Nat : n > 0 => n = 1 \/ n > 1
      OBVIOUS
    <3>4. Len(s) = 1 \/ Len(s) > 1
      BY ONLY <1>1, <3>0
    <3> QED BY ONLY <3>2, <3>3, <3>4
  <2>4. ASSUME NEW i \in 1..Len(t)
        PROVE  t[i] = s[i]
    BY <1>1, <2>1, <2>3, SubSeqProperties
  <2> QED BY <2>2, <2>3, <2>4
<1>3. ReusedTaken(s) = t
  BY DEF ReusedTaken
<1> HIDE DEF t
<1>4. s[Len(s)] \in S /\ s[Len(s)] \in Elems(s) /\ Elems(s) = Elems(t) \cup {s[Len(s)]}
  BY <1>1, <1>2 DEF Elems
<1>5. ASSUME DupFree(s)
      PROVE  DupFree(t) /\ s[Len(s)] \notin Elems(t)
  BY <1>1, <1>2, <1>5 DEF DupFree, Elems
<1> QED BY <1>2, <1>3, <1>4, <1>5

LEMMA ElemsConcat ==
    ASSUME NEW S, NEW s \in Seq(S), NEW t \in Seq(S)
    PROVE  /\ s \o t \in Seq(S)
           /\ Elems(s \o t) = Elems(s) \cup Elems(t)
           /\ DupFree(s) /\ DupFree(t) /\ Elems(s) \cap Elems(t) = {} => DupFree(s \o t)
<1> DEFINE u == s \o t
<1>1. /\ u \in Seq(S) /\ Len(u) = Len(s) + Len(t) /\ Len(s) \in Nat /\ Len(t) \in Nat
      /\ \A i \in 1..Len(s) : u[i] = s[i]
  OBVIOUS
<1>2. \A i \in 1..Len(t) : u[Len(s) + i] = t[i]
  OBVIOUS
<1> HIDE DEF u
<1>3. \A i \in 1..Len(u) : \/ i \in 1..Len(s) /\ u[i] = s[i]
                           \/ i - Len(s) \in 1..Len(t) /\ u[i] = t[i - Len(s)]
  <2> SUFFICES ASSUME NEW i \in 1..Len(u), i \notin 1..Len(s)
               PROVE  i - Len(s) \in 1..Len(t) /\ u[i] = t[i - Len(s)]
    BY <1>1
  <2>1. i - Len(s) \in 1..Len(t) /\ Len(s) + (i - Len(s)) = i
    BY ONLY <1>1, i \in 1..Len(u), i \notin 1..Len(s)
  <2>2. u[Len(s) + (i - Len(s))] = t[i - Len(s)]
    BY <1>2, <2>1
  <2> QED BY <2>1, <2>2
<1>4. Elems(u) = Elems(s) \cup Elems(t)
  <2>1. Elems(u) \subseteq Elems(s) \cup Elems(t)
    BY <1>3 DEF Elems
  <2>2. Elems(s) \subseteq Elems(u)
    BY <1>1 DEF Elems
  <2>3. ASSUME NEW i \in 1..Len(t)
        PROVE  t[i] \in Elems(u)
    <3>1. Len(s) + i \in 1..Len(u) /\ u[Len(s) + i] = t[i]
      BY <1>1, <1>2
    <3> QED BY <3>1 DEF Elems
  <2> QED BY <2>1, <2>2, <2>3 DEF Elems
<1>5. ASSUME DupFree(s), DupFree(t), Elems(s) \cap Elems(t) = {}
      PROVE  DupFree(u)
  <2> SUFFICES ASSUME NEW i \in 1..Len(u), NEW j \in 1..Len(u), u[i] = u[j]
               PROVE  i = j
    BY DEF DupFree
  <2>1. \A x \in 1..Len(s), y \in 1..Len(t) : s[x] # t[y]
    BY <1>5 DEF Elems
  <2>2. CASE i \in 1..Len(s) /\ u[i] = s[i] /\ j \in 1..Len(s) /\ u[j] = s[j]
    BY <1>5, <2>2 DEF DupFree
  <2>3. CASE /\ i - Len(s) \in 1..Len(t) /\ u[i] = t[i - Len(s)]
             /\ j - Len(s) \in 1..Len(t) /\ u[j] = t[j - Len(s)]
    <3>1. i - Len(s) = j - Len(s)
      BY <1>5, <2>3 DEF DupFree
    <3> QED BY <1>1, <3>1
  <2>4. CASE /\ i \in 1..Len(s) /\ u[i] = s[i]
             /\ j - Len(s) \in 1..Len(t) /\ u[j] = t[j - Len(s)]
    BY <2>1, <2>4
  <2>5. CASE /\ j \in 1..Len(s) /\ u[j] = s[j]
             /\ i - Len(s) \in 1..Len(t) /\ u[i] = t[i - Len(s)]
    BY <2>1, <2>5
  <2> QED BY <1>3, <2>2, <2>3, <2>4, <2>5
<1> QED BY <1>1, <1>4, <1>5 DEF u

-----------------------------------------------------------------------------
(* IDs: from the generator to a handler and back *)

LEMMA IdTaken ==
    ASSUME IdInv, handler \in [Clients -> HandlerRecs],
           NEW c \in Clients, ~Live(c), ids.new # <<>>,
           NEW s \in HandlerStates \ {"none"},
           handler' = [handler EXCEPT ![c] = [st |-> s, id |-> Head(ids.new), req |-> None]],
           ids' = TakeId, leaked' = leaked
    PROVE  IdInv'
<1> DEFINE h == Head(ids.new)
<1>1. /\ ids \in IdRecs /\ leaked \subseteq Nat /\ FreeOnce /\ OnePlace /\ OwnIds
      /\ ids.new \in Seq(Nat) /\ ids.reusable \in Seq(Nat) /\ ids.canReuse \in Seq(Nat)
      /\ ids.next \in Nat /\ ids.late \subseteq Nat
  BY DEF IdInv, IdRecs
<1>2. /\ Tail(ids.new) \in Seq(Nat) /\ h \in Nat /\ h \in Elems(ids.new)
      /\ Elems(Tail(ids.new)) \subseteq Elems(ids.new) /\ DupFree(Tail(ids.new))
      /\ h \notin Elems(Tail(ids.new))
  BY <1>1, ElemsTail DEF FreeOnce
<1>3. /\ ids'.new = Tail(ids.new) /\ ids'.reusable = ids.reusable
      /\ ids'.canReuse = ids.canReuse /\ ids'.next = ids.next /\ ids'.late = ids.late
      /\ ids' \in IdRecs
  BY <1>1, <1>2 DEF TakeId, IdRecs
<1>4. /\ handler'[c].st # "none" /\ handler'[c].id = h
      /\ \A d \in Clients \ {c} : handler'[d] = handler[d]
  OBVIOUS
<1> HIDE DEF h
<1>5. LiveIds' \subseteq LiveIds \cup {h}
  BY <1>4 DEF LiveIds, Live
<1>6. h \in FreeIds /\ h \notin LiveIds
  BY <1>1, <1>2 DEF FreeIds, OnePlace
<1>7. FreeIds' \subseteq FreeIds /\ h \notin FreeIds'
  BY <1>1, <1>2, <1>3 DEF FreeIds, FreeOnce
<1>8. FreeOnce'
  BY <1>1, <1>2, <1>3 DEF FreeOnce
<1>9. OnePlace'
  BY <1>1, <1>3, <1>5, <1>6, <1>7 DEF OnePlace
<1>10. OwnIds'
  <2>1. \A d \in Clients \ {c} : Live(d) => handler[d].id # h
    BY <1>6 DEF LiveIds
  <2> QED BY <1>1, <1>4, <2>1 DEF OwnIds, Live
<1> QED BY <1>1, <1>3, <1>8, <1>9, <1>10 DEF IdInv

LEMMA IdReturned ==
    ASSUME IdInv, handler \in [Clients -> HandlerRecs],
           NEW c \in Clients, Live(c), Ends(c), leaked' = leaked
    PROVE  IdInv'
<1> DEFINE h == handler[c].id
<1>1. /\ ids \in IdRecs /\ leaked \subseteq Nat /\ FreeOnce /\ OnePlace /\ OwnIds
      /\ ids.new \in Seq(Nat) /\ ids.reusable \in Seq(Nat) /\ ids.canReuse \in Seq(Nat)
      /\ ids.next \in Nat /\ ids.late \subseteq Nat
  BY DEF IdInv, IdRecs
<1>2. h \in Nat /\ h \in LiveIds
  BY DEF HandlerRecs, LiveIds
<1>3. /\ handler'[c].st = "none"
      /\ \A d \in Clients \ {c} : handler'[d] = handler[d]
  BY DEF Ends, NoHandler
<1>4. \A d \in Clients \ {c} : Live(d) => handler[d].id # h
  BY <1>1 DEF OwnIds
<1> HIDE DEF h
<1>5. LiveIds' \subseteq LiveIds /\ h \notin LiveIds'
  BY <1>3, <1>4 DEF LiveIds, Live
<1>6. OwnIds'
  BY SMTT(60), <1>1, <1>3 DEF OwnIds, Live
<1>7. h \notin FreeIds /\ h \notin ids.late /\ h \notin leaked /\ h < ids.next
  BY <1>1, <1>2 DEF OnePlace
<1>8. CASE Len(ids.canReuse) < ReuseSize
  <2>1. /\ ids'.new = ids.new /\ ids'.reusable = ids.reusable /\ ids'.late = ids.late
        /\ ids'.canReuse = Append(ids.canReuse, h) /\ ids'.next = ids.next
        /\ ids' \in IdRecs
    <3>1. ids' = [ids EXCEPT !.canReuse = Append(@, h)]
      BY <1>8 DEF Ends, ReturnId, h
    <3>2. ids' = [new |-> ids.new, reusable |-> ids.reusable, next |-> ids.next,
                  canReuse |-> Append(ids.canReuse, h), late |-> ids.late]
      BY <1>1, <3>1 DEF IdRecs
    <3> QED BY <1>1, <1>2, <3>2, ElemsAppend DEF IdRecs
  <2>2. /\ Elems(ids'.canReuse) = Elems(ids.canReuse) \cup {h}
        /\ DupFree(ids.canReuse) /\ h \notin Elems(ids.canReuse) => DupFree(ids'.canReuse)
    BY SMTT(60), <1>1, <1>2, <2>1, ElemsAppend
  <2>3. h \notin Elems(ids.new) /\ h \notin Elems(ids.reusable) /\ h \notin Elems(ids.canReuse)
    BY <1>7 DEF FreeIds
  <2>4. FreeIds' = FreeIds \cup {h}
    BY <2>1, <2>2 DEF FreeIds
  <2>5. FreeOnce'
    BY <1>1, <2>1, <2>2, <2>3 DEF FreeOnce
  <2>6. OnePlace'
    BY <1>1, <1>2, <1>5, <1>7, <2>1, <2>4 DEF OnePlace
  <2> QED BY <1>1, <1>6, <2>1, <2>5, <2>6 DEF IdInv
<1>9. CASE ~(Len(ids.canReuse) < ReuseSize)
  <2>1. /\ ids'.new = ids.new /\ ids'.reusable = ids.reusable
        /\ ids'.late = ids.late \cup {h}
        /\ ids'.canReuse = ids.canReuse /\ ids'.next = ids.next
        /\ ids' \in IdRecs
    <3>1. ids' = [ids EXCEPT !.late = @ \cup {h}]
      BY <1>9 DEF Ends, ReturnId, h
    <3>2. ids' = [new |-> ids.new, reusable |-> ids.reusable, next |-> ids.next,
                  canReuse |-> ids.canReuse, late |-> ids.late \cup {h}]
      BY <1>1, <3>1 DEF IdRecs
    <3> QED BY <1>1, <1>2, <3>2 DEF IdRecs
  <2>2. FreeIds' = FreeIds
    BY <2>1 DEF FreeIds
  <2>3. FreeOnce'
    BY <1>1, <2>1 DEF FreeOnce
  <2>4. OnePlace'
    BY ZenonT(60), <1>1, <1>2, <1>5, <1>7, <2>1, <2>2 DEF OnePlace
  <2> QED BY <1>1, <1>6, <2>1, <2>3, <2>4 DEF IdInv
<1> QED BY <1>8, <1>9

LEMMA IdLeaked ==
    ASSUME IdInv, handler \in [Clients -> HandlerRecs],
           NEW c \in Clients, Live(c), ids' = ids,
           leaked' = leaked \cup {handler[c].id},
           handler' = [handler EXCEPT ![c] = NoHandler]
    PROVE  IdInv'
<1> DEFINE h == handler[c].id
<1>1. /\ ids \in IdRecs /\ leaked \subseteq Nat /\ FreeOnce /\ OnePlace /\ OwnIds
      /\ ids.next \in Nat
  BY DEF IdInv, IdRecs
<1>2. h \in Nat /\ h \in LiveIds /\ leaked' = leaked \cup {h}
  BY DEF HandlerRecs, LiveIds
<1>3. /\ handler'[c].st = "none"
      /\ \A d \in Clients \ {c} : handler'[d] = handler[d]
  BY DEF NoHandler
<1>4. \A d \in Clients \ {c} : Live(d) => handler[d].id # h
  BY <1>1 DEF OwnIds
<1> HIDE DEF h
<1>5. LiveIds' \subseteq LiveIds /\ h \notin LiveIds'
  BY <1>3, <1>4 DEF LiveIds, Live
<1>6. OwnIds'
  BY <1>1, <1>3 DEF OwnIds, Live
<1>7. FreeIds' = FreeIds /\ FreeOnce'
  BY <1>1 DEF FreeIds, FreeOnce
<1>8. OnePlace'
  BY ZenonT(60), <1>1, <1>2, <1>5, <1>7 DEF OnePlace
<1> QED BY <1>1, <1>2, <1>6, <1>7, <1>8 DEF IdInv

\* A handler that goes on keeps its ID.
LEMMA IdKept ==
    ASSUME IdInv, ids' = ids, leaked' = leaked,
           \A c \in Clients : /\ (handler'[c].st # "none") = Live(c)
                              /\ handler'[c].id = handler[c].id
    PROVE  IdInv'
<1>1. LiveIds' = LiveIds
  BY DEF LiveIds, Live
<1>2. FreeIds' = FreeIds /\ FreeOnce'
  BY DEF FreeIds, FreeOnce, IdInv
<1>3. OwnIds'
  BY DEF OwnIds, Live, IdInv
<1>4. OnePlace'
  BY <1>1, <1>2 DEF OnePlace, IdInv
<1> QED BY <1>2, <1>3, <1>4 DEF IdInv

LEMMA IdGenerated ==
    ASSUME IdInv, handler \in [Clients -> HandlerRecs], GenerateTMIDs
    PROVE  IdInv'
<1>1. /\ ids \in IdRecs /\ leaked \subseteq Nat /\ FreeOnce /\ OnePlace /\ OwnIds
      /\ ids.new \in Seq(Nat) /\ ids.reusable \in Seq(Nat) /\ ids.canReuse \in Seq(Nat)
      /\ ids.next \in Nat /\ ids.late \subseteq Nat
  BY DEF IdInv, IdRecs
<1>2. leaked' = leaked /\ handler' = handler
  BY DEF GenerateTMIDs
<1>3. LiveIds' = LiveIds /\ OwnIds'
  BY <1>1, <1>2 DEF LiveIds, OwnIds, Live
<1>4. Elems(<<>>) = {} /\ DupFree(<<>>)
  BY ElemsEmpty
<1>5. CASE ids.reusable # <<>>
  <2> DEFINE h == ids.reusable[Len(ids.reusable)]
             t == ReusedTaken(ids.reusable)
  <2>1. /\ t \in Seq(Nat) /\ h \in Nat /\ h \in Elems(ids.reusable)
        /\ Elems(ids.reusable) = Elems(t) \cup {h} /\ DupFree(t) /\ h \notin Elems(t)
    BY <1>1, <1>5, ElemsLast DEF FreeOnce
  <2>2. ids' = [ids EXCEPT !.new = Append(@, h), !.reusable = t \o ids.canReuse,
                           !.canReuse = <<>>]
    BY <1>5 DEF GenerateTMIDs
  <2> HIDE DEF h, t
  <2>3. /\ Append(ids.new, h) \in Seq(Nat)
        /\ Elems(Append(ids.new, h)) = Elems(ids.new) \cup {h}
        /\ DupFree(ids.new) /\ h \notin Elems(ids.new) => DupFree(Append(ids.new, h))
    BY <1>1, <2>1, ElemsAppend
  <2>4. /\ t \o ids.canReuse \in Seq(Nat)
        /\ Elems(t \o ids.canReuse) = Elems(t) \cup Elems(ids.canReuse)
        /\ DupFree(t) /\ DupFree(ids.canReuse) /\ Elems(t) \cap Elems(ids.canReuse) = {}
             => DupFree(t \o ids.canReuse)
    BY <1>1, <2>1, ElemsConcat
  <2>5. /\ ids'.new = Append(ids.new, h) /\ ids'.reusable = t \o ids.canReuse
        /\ ids'.canReuse = <<>> /\ ids'.next = ids.next /\ ids'.late = ids.late
        /\ ids' \in IdRecs
    <3>1. ids' = [new |-> Append(ids.new, h), reusable |-> t \o ids.canReuse,
                  canReuse |-> <<>>, next |-> ids.next, late |-> ids.late]
      BY <1>1, <2>2 DEF IdRecs
    <3>2. <<>> \in Seq(Nat)
      OBVIOUS
    <3> QED BY <1>1, <2>3, <2>4, <3>1, <3>2 DEF IdRecs
  <2>6. FreeIds' = FreeIds
    BY <1>4, <2>1, <2>3, <2>4, <2>5 DEF FreeIds
  <2>7. FreeOnce'
    <3>1. h \notin Elems(ids.new) /\ h \notin Elems(ids.canReuse)
      BY <1>1, <2>1 DEF FreeOnce
    <3>2. DupFree(ids'.new) /\ DupFree(ids'.reusable) /\ DupFree(ids'.canReuse)
      BY <1>1, <1>4, <2>1, <2>3, <2>4, <2>5, <3>1 DEF FreeOnce
    <3> QED BY ZenonT(60), <1>1, <1>4, <2>1, <2>3, <2>4, <2>5, <3>1, <3>2 DEF FreeOnce
  <2>8. OnePlace'
    BY <1>1, <1>2, <1>3, <2>5, <2>6 DEF OnePlace
  <2> QED BY <1>1, <1>2, <1>3, <2>5, <2>7, <2>8 DEF IdInv
<1>6. CASE ids.reusable = <<>>
  <2> DEFINE h == ids.next
  <2>1. ids' = [ids EXCEPT !.new = Append(@, h), !.next = @ + 1,
                           !.reusable = ids.canReuse, !.canReuse = <<>>]
    BY <1>6 DEF GenerateTMIDs
  <2>2. h \in Nat
    BY <1>1
  <2>3. /\ Append(ids.new, h) \in Seq(Nat)
        /\ Elems(Append(ids.new, h)) = Elems(ids.new) \cup {h}
        /\ DupFree(ids.new) /\ h \notin Elems(ids.new) => DupFree(Append(ids.new, h))
    BY <1>1, <2>2, ElemsAppend
  <2>4. /\ ids'.new = Append(ids.new, h) /\ ids'.reusable = ids.canReuse
        /\ ids'.canReuse = <<>> /\ ids'.next = h + 1 /\ ids'.late = ids.late
        /\ ids' \in IdRecs
    <3>1. ids' = [new |-> Append(ids.new, h), reusable |-> ids.canReuse,
                  canReuse |-> <<>>, next |-> h + 1, late |-> ids.late]
      BY <1>1, <2>1 DEF IdRecs
    <3>2. <<>> \in Seq(Nat)
      OBVIOUS
    <3> QED BY <1>1, <2>2, <2>3, <3>1, <3>2 DEF IdRecs
  <2>5. \A i \in FreeIds \cup ids.late \cup leaked \cup LiveIds : i < h
    BY <1>1 DEF OnePlace
  <2>6. FreeIds \cup ids.late \cup leaked \cup LiveIds \subseteq Nat
    <3>1. Elems(ids.new) \subseteq Nat /\ Elems(ids.reusable) \subseteq Nat
          /\ Elems(ids.canReuse) \subseteq Nat
      BY ONLY <1>1, ElementOfSeq DEF Elems
    <3>2. LiveIds \subseteq Nat
      BY DEF LiveIds, HandlerRecs
    <3> QED BY <1>1, <3>1, <3>2 DEF FreeIds
  <2> HIDE DEF h
  <2>7. h \notin FreeIds \cup ids.late \cup leaked \cup LiveIds
    BY <2>2, <2>5, <2>6
  <2>8. FreeIds' \subseteq FreeIds \cup {h}
    BY <1>4, <2>3, <2>4 DEF FreeIds
  <2>9. FreeOnce'
    <3>1. h \notin Elems(ids.new) /\ h \notin Elems(ids.canReuse)
      BY <2>7 DEF FreeIds
    <3> QED BY <1>1, <1>4, <2>3, <2>4, <3>1 DEF FreeOnce
  <2>10. OnePlace'
    <3>1. \A i \in FreeIds' \cup ids'.late \cup leaked' \cup LiveIds' : i < ids'.next
      BY <1>2, <1>3, <2>2, <2>4, <2>5, <2>6, <2>8
    <3>2. /\ FreeIds' \cap ids'.late = {} /\ FreeIds' \cap leaked' = {}
          /\ FreeIds' \cap LiveIds' = {}
      BY <1>1, <1>2, <1>3, <2>4, <2>7, <2>8 DEF OnePlace
    <3> QED BY <1>1, <1>2, <1>3, <2>4, <3>1, <3>2 DEF OnePlace
  <2> QED BY <1>1, <1>2, <1>3, <2>4, <2>9, <2>10 DEF IdInv
<1> QED BY <1>5, <1>6

LEMMA IdLate ==
    ASSUME IdInv, ReturnLate
    PROVE  IdInv'
<1>1. /\ ids \in IdRecs /\ leaked \subseteq Nat /\ FreeOnce /\ OnePlace /\ OwnIds
      /\ ids.new \in Seq(Nat) /\ ids.reusable \in Seq(Nat) /\ ids.canReuse \in Seq(Nat)
      /\ ids.next \in Nat /\ ids.late \subseteq Nat
  BY DEF IdInv, IdRecs
<1>2. PICK h \in ids.late : ids' = [ids EXCEPT !.canReuse = Append(@, h), !.late = @ \ {h}]
  BY DEF ReturnLate
<1>3. leaked' = leaked /\ handler' = handler
  BY DEF ReturnLate
<1>4. LiveIds' = LiveIds /\ OwnIds'
  BY <1>1, <1>3 DEF LiveIds, OwnIds, Live
<1>5. /\ Append(ids.canReuse, h) \in Seq(Nat)
      /\ Elems(Append(ids.canReuse, h)) = Elems(ids.canReuse) \cup {h}
      /\ DupFree(ids.canReuse) /\ h \notin Elems(ids.canReuse)
           => DupFree(Append(ids.canReuse, h))
  BY <1>1, ElemsAppend
<1>6. /\ ids'.new = ids.new /\ ids'.reusable = ids.reusable
      /\ ids'.canReuse = Append(ids.canReuse, h) /\ ids'.next = ids.next
      /\ ids'.late = ids.late \ {h} /\ ids' \in IdRecs
  BY <1>1, <1>2, <1>5 DEF IdRecs
<1>7. h \notin Elems(ids.new) /\ h \notin Elems(ids.reusable) /\ h \notin Elems(ids.canReuse)
  BY <1>1 DEF FreeIds, OnePlace
<1>8. FreeIds' = FreeIds \cup {h}
  BY <1>5, <1>6 DEF FreeIds
<1>9. FreeOnce'
  BY <1>1, <1>5, <1>6, <1>7 DEF FreeOnce
<1>10. OnePlace'
  BY <1>1, <1>3, <1>4, <1>6, <1>8 DEF OnePlace
<1> QED BY <1>1, <1>3, <1>4, <1>6, <1>9, <1>10 DEF IdInv

-----------------------------------------------------------------------------
(* What a step does not touch *)

SameSingle(c) ==
    /\ conn'[{c}] = conn[{c}] /\ broken'[{c}] = broken[{c}] /\ sock'[{c}] = sock[{c}]
    /\ lastReply'[{c}] = lastReply[{c}] /\ waiting'[c] = waiting[c]
    /\ handler'[c] = handler[c] /\ tmChan'[c] = tmChan[c]

SameGroup == Group # {} =>
    /\ conn'[Group] = conn[Group] /\ broken'[Group] = broken[Group]
    /\ sock'[Group] = sock[Group] /\ replies' = replies
    /\ \A c \in Group : /\ waiting'[c] = waiting[c] /\ handler'[c] = handler[c]
                        /\ tmChan'[c] = tmChan[c]

\* Handlers that wait for the pool go on waiting.
PoolWaits ==
    \A c \in Clients : handler[c].st = "pool" =>
        handler'[c].st = "pool" /\ handler'[c].req = handler[c].req

LEMMA SingleQuiet ==
    ASSUME NEW c \in Singles, SingleShape(c), SingleWaits(c), SameSingle(c)
    PROVE  SingleShape(c)' /\ SingleWaits(c)'
<1>1. SingleShape(c)'
  BY DEF SingleShape, SameSingle
<1>2. SingleWaits(c)'
  BY DEF SingleWaits, SameSingle
<1> QED BY <1>1, <1>2

LEMMA SinglesQuiet ==
    ASSUME SingleInv, \A c \in Singles : SameSingle(c)
    PROVE  SingleInv'
BY SingleQuiet DEF SingleInv

LEMMA SinglesButOne ==
    ASSUME SingleInv, NEW d \in Singles,
           \A c \in Singles \ {d} : SameSingle(c),
           SingleShape(d)', SingleWaits(d)'
    PROVE  SingleInv'
BY SingleQuiet DEF SingleInv

LEMMA GroupQuiet ==
    ASSUME GroupInv, WayInv, SameGroup
    PROVE  GroupInv' /\ WayInv'
<1>1. ASSUME Group # {}
      PROVE  GroupInv'
  <2>1. GroupSock /\ GroupShape /\ \A c \in Group : GroupClient(c)
    BY <1>1 DEF GroupInv
  <2>2. GroupSock'
    BY <1>1, <2>1 DEF GroupSock, SameGroup
  <2>3. GroupShape'
    BY <1>1, <2>1, GroupConn DEF GroupShape, SameGroup, Live
  <2>4. ASSUME NEW c \in Group
        PROVE  GroupClient(c)'
    BY <2>1, <2>4 DEF GroupClient, SameGroup, Live
  <2> QED BY <2>2, <2>3, <2>4 DEF GroupInv
<1>2. ASSUME NEW c \in Group, Alone(c), ~broken'[Group]
      PROVE  WayOnce(c)' /\ WayWaits(c)'
  <2>1. WayOnce(c) /\ WayWaits(c)
    BY <1>2 DEF WayInv, SameGroup
  <2>2. /\ InSock(c)' = InSock(c) /\ InChan(c)' = InChan(c) /\ InHandler(c)' = InHandler(c)
        /\ InReplies(c)' = InReplies(c)
        /\ \A i \in 1..Len(sock[Group]) : SockAt(c, i)' = SockAt(c, i)
        /\ \A i \in 1..Len(replies) : ReplyAt(c, i)' = ReplyAt(c, i)
    BY DEF InSock, InChan, InHandler, InReplies, SockAt, ReplyAt, SameGroup
  <2>3. WayOnce(c)'
    BY <2>1, <2>2 DEF WayOnce, SameGroup
  <2>4. WayWaits(c)'
    BY <2>1, <2>2 DEF WayWaits, SameGroup
  <2> QED BY <2>3, <2>4
<1> QED BY <1>1, <1>2 DEF GroupInv, WayInv

LEMMA PoolQuiet ==
    ASSUME PoolInv, UNCHANGED <<reqs, pool, boxes>>, PoolWaits
    PROVE  PoolInv'
<1>1. PoolTypes' /\ MapInv' /\ ChanInv'
  BY DEF PoolInv, PoolTypes, MapInv, ChanInv
<1>2. ASSUME NEW c \in Clients, Alone(c)
      PROVE  OutOnce(c)' /\ OutWaits(c)'
  <2>1. OutOnce(c) /\ OutWaits(c)
    BY <1>2 DEF PoolInv, OutInv
  <2>2. /\ InReqs(c)' = InReqs(c) /\ InToB(c)' = InToB(c) /\ InBoxes(c)' = InBoxes(c)
        /\ \A i : ReqAt(c, i)' = ReqAt(c, i)
        /\ \A p, i : ToBAt(c, p, i)' = ToBAt(c, p, i)
    BY DEF InReqs, InToB, InBoxes, ReqAt, ToBAt
  <2>3. InReqs(c) \/ InToB(c) \/ InBoxes(c) =>
           handler'[c].st = "pool" /\ handler'[c].req = handler[c].req
    BY <2>1 DEF OutOnce, PoolWaits
  <2>4. OutOnce(c)'
    BY <2>1, <2>2, <2>3 DEF OutOnce
  <2>5. OutWaits(c)'
    BY <2>1, <2>2, <2>3 DEF OutWaits, InReqs, InToB, InBoxes
  <2> QED BY <2>4, <2>5
<1> QED BY <1>1, <1>2 DEF PoolInv, OutInv

LEMMA RepliesType ==
    ASSUME ConnTypes
    PROVE  \A i \in 1..Len(replies) : replies[i].client \in Group /\ replies[i].reply \in Req
<1>1. replies \in Seq([client : Group, reply : Req])
  BY DEF ConnTypes
<1>2. \A i \in 1..Len(replies) : replies[i] \in [client : Group, reply : Req]
  BY <1>1, ElementOfSeq
<1> QED BY <1>2

\* Nothing of a client on the way.
LEMMA WayEmpty ==
    ASSUME NEW c \in Group, ~InSock(c)', ~InChan(c)', ~InHandler(c)', ~InReplies(c)'
    PROVE  WayOnce(c)' /\ WayWaits(c)'
<1>1. /\ \A i \in 1..Len(sock'[Group]) : ~SockAt(c, i)'
      /\ \A i \in 1..Len(replies') : ~ReplyAt(c, i)'
  BY DEF InSock, InReplies
<1>2. WayOnce(c)'
  BY <1>1 DEF WayOnce
<1>3. WayWaits(c)'
  BY <1>1 DEF WayWaits
<1> QED BY <1>2, <1>3

-----------------------------------------------------------------------------
(* Clients *)

LEMMA AcceptStep ==
    ASSUME ConnInv, NEW k \in Conns, Accept(k)
    PROVE  ConnInv'
<1> DEFINE f == Front(k)
<1>1. /\ ConnTypes /\ IdInv /\ SingleInv /\ GroupInv /\ WayInv /\ PoolInv /\ ReplyIsOwn
  BY DEF ConnInv
<1>2. f \in k /\ f \in Clients /\ k \subseteq Clients
  BY FrontOf
<1> HIDE DEF f
<1>3. /\ conn[k] = "none" /\ ids.new # <<>>
      /\ \A c \in k : handler[c].st = "none"
      /\ conn' = [conn EXCEPT ![k] = "open"]
      /\ accepts' = [accepts EXCEPT ![k] = @ + 1]
      /\ broken' = [broken EXCEPT ![k] = FALSE]
      /\ sock' = [sock EXCEPT ![k] = IF k = Group THEN <<Multi>> ELSE <<>>]
      /\ lastReply' = [lastReply EXCEPT ![k] = None]
      /\ handler' = [handler EXCEPT ![f] =
                        [st |-> "new", id |-> Head(ids.new), req |-> None]]
      /\ ids' = TakeId
  BY DEF Accept, f
<1>4. UNCHANGED <<clientVars, groupVars, leaked, poolVars, upVars>>
  BY DEF Accept
<1>5. ReplyIsOwn'
  BY <1>1, <1>4 DEF ReplyIsOwn, clientVars
<1>6. IdInv'
  <2>1. handler \in [Clients -> HandlerRecs] /\ ~Live(f) /\ leaked' = leaked
    BY <1>1, <1>2, <1>3, <1>4 DEF ConnTypes, Live
  <2>2. "new" \in HandlerStates \ {"none"}
    BY DEF HandlerStates
  <2> QED BY <1>1, <1>2, <1>3, <2>1, <2>2, IdTaken
<1>7. ConnTypes'
  <2>1. Head(ids.new) \in Nat
    BY <1>1, <1>3, ElemsTail DEF IdInv, IdRecs
  <2>2. handler' \in [Clients -> HandlerRecs]
    BY <1>1, <1>3, <2>1 DEF ConnTypes, HandlerRecs, HandlerStates
  <2>3. sock' \in [Conns -> Seq(Req \cup {Multi})]
    <3>1. <<Multi>> \in Seq(Req \cup {Multi}) /\ <<>> \in Seq(Req \cup {Multi})
      OBVIOUS
    <3> QED BY <1>1, <1>3, <3>1 DEF ConnTypes
  <2> QED BY SMTT(60), <1>1, <1>3, <1>4, <2>2, <2>3 DEF ConnTypes, ConnStates, clientVars, groupVars
<1>8. PoolInv'
  <2>1. PoolWaits
    BY <1>1, <1>2, <1>3 DEF PoolWaits, ConnTypes
  <2> QED BY <1>1, <1>4, <2>1, PoolQuiet DEF poolVars
<1>9. CASE \E d \in Singles : k = {d}
  <2>1. PICK d \in Singles : k = {d}
    BY <1>9
  <2>2. f = d /\ k # Group /\ d \notin Group /\ d \in Clients
    BY <2>1, SingleConn DEF f
  <2>3. \A c \in Singles \ {d} : SameSingle(c)
    BY <1>1, <1>3, <1>4, <2>1, <2>2, SingleConn
       DEF SameSingle, ConnTypes, clientVars, groupVars
  <2>4. SameGroup
    BY <1>1, <1>3, <1>4, <2>1, <2>2, GroupConn
       DEF SameGroup, ConnTypes, clientVars, groupVars
  <2>5. /\ conn'[{d}] = "open" /\ broken'[{d}] = FALSE /\ sock'[{d}] = <<>>
        /\ handler'[d].st = "new" /\ tmChan'[d] = tmChan[d] /\ waiting'[d] = waiting[d]
    BY <1>1, <1>3, <1>4, <2>1, <2>2 DEF ConnTypes, clientVars, groupVars
  <2>6. SingleShape(d) /\ SingleWaits(d)
    BY <1>1 DEF SingleInv
  <2>7. SingleShape(d)'
    BY <2>5, <2>6 DEF SingleShape
  <2>8. SingleWaits(d)'
    BY <1>3, <2>1, <2>5, <2>6 DEF SingleWaits
  <2> QED BY <1>1, <1>5, <1>6, <1>7, <1>8, <2>3, <2>4, <2>7, <2>8, SinglesButOne, GroupQuiet
          DEF ConnInv
<1>10. CASE k = Group /\ Group # {}
  <2>1. \A c \in Singles : SameSingle(c)
    BY <1>1, <1>2, <1>3, <1>4, <1>10, SingleConn
       DEF SameSingle, ConnTypes, clientVars, groupVars
  <2>2. /\ conn'[Group] = "open" /\ broken'[Group] = FALSE /\ sock'[Group] = <<Multi>>
        /\ replies' = replies
        /\ \A c \in Group : /\ handler'[c].st = IF c = f THEN "new" ELSE "none"
                            /\ tmChan'[c] = tmChan[c]
    BY <1>1, <1>2, <1>3, <1>4, <1>10 DEF ConnTypes, groupVars
  <2>3. GroupShape /\ \A c \in Group : GroupClient(c)
    BY <1>1, <1>10 DEF GroupInv
  <2>4. replies = <<>>
    BY <1>3, <1>10, <2>3 DEF GroupShape
  <2>5. \A c \in Group : tmChan[c] = <<>>
    BY <1>3, <1>10, <2>3 DEF GroupClient, Live
  <2>6. GroupSock'
    BY <2>2 DEF GroupSock
  <2>7. GroupShape'
    BY <1>10, <2>2, <2>4 DEF GroupShape, Live, f
  <2>8. \A c \in Group : GroupClient(c)'
    BY <2>2, <2>5 DEF GroupClient
  <2>9. ASSUME NEW c \in Group
        PROVE  WayOnce(c)' /\ WayWaits(c)'
    <3>1. ~InSock(c)'
      BY <2>2, Alien DEF InSock, SockAt, ReqOf
    <3>2. ~InChan(c)' /\ ~InHandler(c)' /\ ~InReplies(c)'
      BY <2>2, <2>4, <2>5 DEF InChan, InHandler, InReplies
    <3> QED BY <3>1, <3>2, WayEmpty
  <2> QED BY <1>1, <1>5, <1>6, <1>7, <1>8, <2>1, <2>6, <2>7, <2>8, <2>9, SinglesQuiet
          DEF ConnInv, GroupInv, WayInv
<1> QED BY <1>9, <1>10, ConnCases

LEMMA ConnectionLostStep ==
    ASSUME ConnInv, NEW k \in Conns, ConnectionLost(k)
    PROVE  ConnInv'
<1>1. /\ ConnTypes /\ IdInv /\ SingleInv /\ GroupInv /\ WayInv /\ PoolInv /\ ReplyIsOwn
  BY DEF ConnInv
<1>2. PICK rest \in {sock[k], <<>>} : sock' = [sock EXCEPT ![k] = rest]
  BY DEF ConnectionLost
<1>3. /\ broken' = [broken EXCEPT ![k] = TRUE]
      /\ waiting' = [c \in Clients |-> IF c \in k THEN None ELSE waiting[c]]
      /\ UNCHANGED <<sent, misled, conn, accepts, lastReply, handler, groupVars, idVars,
                     poolVars, upVars>>
  BY DEF ConnectionLost
<1>4. ReplyIsOwn' /\ IdInv'
  BY <1>1, <1>3, IdKept DEF ReplyIsOwn, idVars, Live
<1>5. ConnTypes'
  <2>1. rest \in Seq(Req \cup {Multi})
    <3>1. sock[k] \in Seq(Req \cup {Multi}) /\ <<>> \in Seq(Req \cup {Multi})
      BY <1>1 DEF ConnTypes
    <3> QED BY <1>2, <3>1
  <2>2. sock' \in [Conns -> Seq(Req \cup {Multi})]
    BY <1>1, <1>2, <2>1 DEF ConnTypes
  <2> QED BY <1>1, <1>3, <2>2 DEF ConnTypes, groupVars
<1>6. PoolInv'
  BY <1>1, <1>3, PoolQuiet DEF PoolWaits, poolVars
<1>7. CASE \E d \in Singles : k = {d}
  <2>1. PICK d \in Singles : k = {d}
    BY <1>7
  <2>2. k # Group /\ d \notin Group /\ d \in Clients
    BY <2>1, SingleConn
  <2>3. \A c \in Singles \ {d} : SameSingle(c)
    BY <1>1, <1>2, <1>3, <2>1, <2>2, SingleConn DEF SameSingle, ConnTypes, groupVars
  <2>4. SameGroup
    BY <1>1, <1>2, <1>3, <2>1, <2>2, GroupConn DEF SameGroup, ConnTypes, groupVars
  <2>5. /\ conn'[{d}] = conn[{d}] /\ broken'[{d}] = TRUE /\ sock'[{d}] \in {sock[{d}], <<>>}
        /\ handler'[d] = handler[d] /\ tmChan'[d] = tmChan[d] /\ waiting'[d] = None
    BY <1>1, <1>2, <1>3, <2>1, <2>2 DEF ConnTypes, groupVars
  <2>6. SingleShape(d) /\ SingleWaits(d)
    BY <1>1 DEF SingleInv
  <2>7. SingleShape(d)'
    BY <2>5, <2>6 DEF SingleShape
  <2>8. SingleWaits(d)'
    BY <2>5 DEF SingleWaits
  <2> QED BY <1>1, <1>4, <1>5, <1>6, <2>3, <2>4, <2>7, <2>8, SinglesButOne, GroupQuiet
          DEF ConnInv
<1>8. CASE k = Group /\ Group # {}
  <2>1. \A c \in Singles : SameSingle(c)
    BY <1>1, <1>2, <1>3, <1>8, SingleConn DEF SameSingle, ConnTypes, groupVars
  <2>2. /\ conn' = conn /\ broken'[Group] = TRUE /\ sock'[Group] \in {sock[Group], <<>>}
        /\ replies' = replies /\ handler' = handler /\ tmChan' = tmChan
        /\ \A c \in Group : waiting'[c] = None
    BY <1>1, <1>2, <1>3, <1>8, GroupConn DEF ConnTypes, groupVars
  <2>3. GroupSock /\ GroupShape /\ \A c \in Group : GroupClient(c)
    BY <1>1, <1>8 DEF GroupInv
  <2>4. GroupSock'
    BY <2>2, <2>3 DEF GroupSock
  <2>5. GroupShape'
    BY <2>2, <2>3 DEF GroupShape, Live
  <2>6. \A c \in Group : GroupClient(c)'
    BY <2>2, <2>3 DEF GroupClient, Live
  <2>7. WayInv'
    BY <2>2 DEF WayInv
  <2> QED BY <1>1, <1>4, <1>5, <1>6, <2>1, <2>4, <2>5, <2>6, <2>7, SinglesQuiet
          DEF ConnInv, GroupInv
<1> QED BY <1>7, <1>8, ConnCases

LEMMA ClientSendStep ==
    ASSUME ConnInv, NEW c \in Clients, ClientSend(c)
    PROVE  ConnInv'
<1> DEFINE k == ConnOf(c)
<1>1. /\ ConnTypes /\ IdInv /\ SingleInv /\ GroupInv /\ WayInv /\ PoolInv /\ ReplyIsOwn
  BY DEF ConnInv
<1>2. k \in Conns
  BY ClientConn
<1> HIDE DEF k
<1>3. /\ conn[k] # "none" /\ ~broken[k] /\ waiting[c] = None /\ sent[c] < MaxReqs(c)
      /\ sent' = [sent EXCEPT ![c] = @ + 1]
      /\ UNCHANGED <<misled, conn, broken, accepts, lastReply, handler, groupVars, idVars,
                     poolVars, upVars>>
  BY DEF ClientSend, k
<1>4. PICK kind \in KindsOf(c, sent[c] + 1) :
         LET r == [client |-> c, n |-> sent[c] + 1, kind |-> kind] IN
         /\ sock' = [sock EXCEPT ![k] = Append(@, r)]
         /\ waiting' = IF k = Group /\ kind \in {"abort", "unknown"}
                       THEN waiting ELSE [waiting EXCEPT ![c] = r]
  BY DEF ClientSend, k
<1> DEFINE r == [client |-> c, n |-> sent[c] + 1, kind |-> kind]
<1>5. r \in ReqOf(c) /\ r \in Req /\ r.client = c /\ r.kind = kind
  <2>1. sent[c] \in Nat /\ MaxReqs(c) \in Nat
    BY <1>1, ServerConnsAssumption DEF ConnTypes
  <2>2. sent[c] + 1 \in 1..MaxReqs(c)
    BY <1>3, <2>1
  <2>3. kind \in AllKinds
    BY <2>2, ServerConnsAssumption
  <2> QED BY <2>1, <2>3 DEF ReqOf, Req
<1>6. /\ sock' = [sock EXCEPT ![k] = Append(@, r)]
      /\ waiting' = IF k = Group /\ kind \in {"abort", "unknown"}
                    THEN waiting ELSE [waiting EXCEPT ![c] = r]
  BY <1>4
<1> HIDE DEF r
<1>7. ReplyIsOwn' /\ IdInv'
  BY <1>1, <1>3, IdKept DEF ReplyIsOwn, idVars, Live
<1>8. /\ Append(sock[k], r) \in Seq(Req \cup {Multi})
      /\ Len(Append(sock[k], r)) = Len(sock[k]) + 1 /\ Len(sock[k]) \in Nat
      /\ \A i \in 1..Len(sock[k]) : Append(sock[k], r)[i] = sock[k][i]
      /\ Append(sock[k], r)[Len(sock[k]) + 1] = r
  BY <1>1, <1>2, <1>5 DEF ConnTypes
<1>9. ConnTypes'
  <2>1. sock' \in [Conns -> Seq(Req \cup {Multi})]
    BY <1>1, <1>6, <1>8 DEF ConnTypes
  <2>2. waiting' \in [Clients -> Req \cup {None}]
    BY <1>1, <1>5, <1>6 DEF ConnTypes
  <2>3. sent' \in [Clients -> Nat]
    BY <1>1, <1>3 DEF ConnTypes
  <2> QED BY <1>1, <1>3, <2>1, <2>2, <2>3 DEF ConnTypes, groupVars
<1>10. PoolInv'
  BY <1>1, <1>3, PoolQuiet DEF PoolWaits, poolVars
<1>11. CASE c \in Singles
  <2>1. k = {c} /\ k # Group /\ c \notin Group
    BY <1>11, SingleConn DEF k
  <2>2. \A d \in Singles \ {c} : SameSingle(d)
    BY <1>1, <1>3, <1>6, <2>1, SingleConn DEF SameSingle, ConnTypes, groupVars
  <2>3. SameGroup
    BY <1>1, <1>3, <1>6, <2>1, GroupConn DEF SameGroup, ConnTypes, groupVars
  <2>4. SingleShape(c) /\ SingleWaits(c)
    BY <1>1, <1>11 DEF SingleInv
  <2>5. conn[{c}] = "open" /\ sock[{c}] = <<>>
    BY <1>3, <2>1, <2>4, Alien DEF SingleShape, SingleWaits, ReqOf
  <2>6. /\ sock'[{c}] # <<>> /\ Len(sock'[{c}]) = 1 /\ sock'[{c}][1] = r
    <3>1. sock'[{c}] = Append(<<>>, r)
      BY <1>1, <1>2, <1>6, <2>1, <2>5 DEF ConnTypes
    <3> QED BY <3>1
  <2>7. /\ conn'[{c}] = "open" /\ broken'[{c}] = broken[{c}] /\ ~broken[{c}]
        /\ handler'[c] = handler[c] /\ tmChan'[c] = tmChan[c] /\ waiting'[c] = r
    BY <1>1, <1>2, <1>3, <1>6, <2>1, <2>5 DEF ConnTypes, groupVars
  <2>8. SingleShape(c)'
    BY <1>5, <2>4, <2>5, <2>6, <2>7 DEF SingleShape
  <2>9. SingleWaits(c)'
    BY <2>6, <2>7 DEF SingleWaits
  <2> QED BY <1>1, <1>7, <1>9, <1>10, <1>11, <2>2, <2>3, <2>8, <2>9, SinglesButOne, GroupQuiet
          DEF ConnInv
<1>12. CASE c \in Group
  <2>1. k = Group /\ Group # {} /\ Group \in Conns
    BY <1>12, GroupConn DEF k
  <2>2. \A d \in Singles : SameSingle(d)
    BY <1>1, <1>3, <1>6, <1>12, <2>1, SingleConn DEF SameSingle, ConnTypes, groupVars
  <2>3. GroupSock /\ GroupShape /\ \A d \in Group : GroupClient(d)
    BY <1>1, <2>1 DEF GroupInv
  <2>4. /\ conn' = conn /\ broken' = broken /\ replies' = replies /\ handler' = handler
        /\ tmChan' = tmChan
    BY <1>3 DEF groupVars
  <2>5. /\ Len(sock'[Group]) = Len(sock[Group]) + 1 /\ Len(sock[Group]) \in Nat
        /\ \A i \in 1..Len(sock[Group]) : sock'[Group][i] = sock[Group][i]
        /\ sock'[Group][Len(sock[Group]) + 1] = r
        /\ sock'[Group] \in Seq(Req \cup {Multi}) /\ sock[Group] \in Seq(Req \cup {Multi})
    BY <1>1, <1>6, <1>8, <2>1 DEF ConnTypes
  <2>6. /\ waiting'[c] = IF Answered(r) THEN r ELSE waiting[c]
        /\ \A d \in Group \ {c} : waiting'[d] = waiting[d]
    BY <1>1, <1>5, <1>6, <2>1, GroupConn DEF ConnTypes, Answered
  <2>7. GroupSock'
    <3>1. conn[Group] = "open" => sock[Group] # <<>> /\ sock[Group][1] = Multi
      BY <1>3, <2>1, <2>3 DEF GroupSock
    <3>2. ASSUME NEW i \in 1..Len(sock'[Group])
          PROVE  \/ sock'[Group][i] \in Req /\ sock'[Group][i].client \in Group
                 \/ i = 1 /\ conn'[Group] = "open" /\ sock'[Group][i] = Multi
      <4>1. CASE i \in 1..Len(sock[Group])
        BY <2>3, <2>4, <2>5, <4>1 DEF GroupSock
      <4>2. CASE i = Len(sock[Group]) + 1
        BY <1>5, <1>12, <2>5, <4>2
      <4> QED BY <2>5, <4>1, <4>2
    <3>3. conn'[Group] = "open" => sock'[Group] # <<>> /\ sock'[Group][1] = Multi
      BY <2>4, <2>5, <3>1
    <3> QED BY <3>2, <3>3 DEF GroupSock
  <2>8. GroupShape'
    BY <1>3, <2>1, <2>3, <2>4 DEF GroupShape, Live
  <2>9. \A d \in Group : GroupClient(d)'
    BY <2>3, <2>4 DEF GroupClient, Live
  <2>10. ASSUME NEW d \in Group, Alone(d), ~broken'[Group]
         PROVE  WayOnce(d)' /\ WayWaits(d)'
    <3>1. WayOnce(d) /\ WayWaits(d)
      BY <1>1, <2>4, <2>10 DEF WayInv
    <3>2. /\ \A i \in 1..Len(sock[Group]) : SockAt(d, i)' = SockAt(d, i)
          /\ \A i \in 1..Len(sock'[Group]) : i \notin 1..Len(sock[Group]) =>
                i = Len(sock[Group]) + 1 /\ (SockAt(d, i)' <=> d = c /\ Answered(r))
      <4>1. ASSUME NEW i \in 1..Len(sock[Group])
            PROVE  SockAt(d, i)' = SockAt(d, i)
        BY <2>5 DEF SockAt
      <4>2. ASSUME NEW i \in 1..Len(sock'[Group]), i \notin 1..Len(sock[Group])
            PROVE  i = Len(sock[Group]) + 1 /\ (SockAt(d, i)' <=> d = c /\ Answered(r))
        <5>1. i = Len(sock[Group]) + 1 /\ sock'[Group][i] = r
          BY <2>5, <4>2
        <5> QED BY <1>5, <5>1 DEF SockAt, ReqOf
      <4> QED BY <4>1, <4>2
    <3>3. /\ InChan(d)' = InChan(d) /\ InHandler(d)' = InHandler(d)
          /\ InReplies(d)' = InReplies(d)
          /\ \A i \in 1..Len(replies) : ReplyAt(d, i)' = ReplyAt(d, i)
      BY <2>4 DEF InChan, InHandler, InReplies, ReplyAt
    <3>4. CASE d = c /\ Answered(r)
      <4>1. /\ \A i \in 1..Len(sock[Group]) : ~SockAt(d, i)
            /\ ~InChan(d) /\ ~InHandler(d)
            /\ \A i \in 1..Len(replies) : ~ReplyAt(d, i)
        <5>1. \A i \in 1..Len(sock[Group]) : SockAt(d, i) => sock[Group][i] \in Req
          BY DEF SockAt, ReqOf
        <5>2. InChan(d) => tmChan[d][1] \in Req
          BY <2>3 DEF InChan, GroupClient, ReqOf
        <5>3. InHandler(d) => handler[d].req \in Req
          BY <2>3 DEF InHandler, GroupClient, ReqOf
        <5>4. \A i \in 1..Len(replies) : replies[i].reply \in Req
          BY <1>1, RepliesType
        <5> QED BY <1>3, <3>1, <3>4, <5>1, <5>2, <5>3, <5>4, Alien DEF WayWaits
      <4>2. ~InReplies(d)
        BY <4>1 DEF InReplies
      <4>3. \A i \in 1..Len(sock'[Group]) : SockAt(d, i)' => i = Len(sock[Group]) + 1
        BY <2>5, <3>2, <4>1
      <4>4. WayOnce(d)'
        BY <2>4, <2>5, <3>3, <4>1, <4>2, <4>3 DEF WayOnce
      <4>5. WayWaits(d)'
        BY <2>4, <2>5, <2>6, <3>3, <3>4, <4>1, <4>3 DEF WayWaits
      <4> QED BY <4>4, <4>5
    <3>5. CASE ~(d = c /\ Answered(r))
      <4>1. waiting'[d] = waiting[d]
        BY <2>6, <3>5
      <4>2. \A i \in 1..Len(sock'[Group]) : SockAt(d, i)' =>
               i \in 1..Len(sock[Group]) /\ SockAt(d, i)
        BY <2>5, <3>2, <3>5
      <4>3. InSock(d)' => InSock(d)
        BY <4>2 DEF InSock
      <4>4. WayOnce(d)'
        BY <2>4, <3>1, <3>3, <4>2, <4>3 DEF WayOnce
      <4>5. WayWaits(d)'
        BY <2>4, <2>5, <3>1, <3>3, <4>1, <4>2 DEF WayWaits
      <4> QED BY <4>4, <4>5
    <3> QED BY <3>4, <3>5
  <2> QED BY <1>1, <1>7, <1>9, <1>10, <2>2, <2>7, <2>8, <2>9, <2>10, SinglesQuiet
          DEF ConnInv, GroupInv, WayInv
<1> QED BY <1>11, <1>12 DEF Clients

-----------------------------------------------------------------------------
(* processConnection *)

LEMMA OneMessage ==
    ASSUME NEW S, NEW s \in Seq(S), s # <<>>
    PROVE  /\ Head(s) = s[1] /\ Head(s) \in S /\ Tail(s) \in Seq(S)
           /\ Len(s) = 1 => Tail(s) = <<>>
<1>1. Len(s) \in Nat /\ Len(s) > 0 /\ Head(s) = s[1] /\ Tail(s) \in Seq(S)
      /\ Len(Tail(s)) = Len(s) - 1
  OBVIOUS
<1>2. Head(s) \in S
  BY <1>1, ElementOfSeq
<1>3. ASSUME Len(s) = 1
      PROVE  Tail(s) = <<>>
  <2>1. Len(Tail(s)) = 0
    BY <1>1, <1>3
  <2> QED BY <1>1, <2>1, EmptySeq
<1> QED BY <1>1, <1>2, <1>3

\* A step of the connection of one client leaves the others alone.
LEMMA SingleStep ==
    ASSUME ConnInv, NEW d \in Singles,
           ConnTypes', IdInv', PoolInv', ReplyIsOwn', SingleShape(d)', SingleWaits(d)',
           \A j \in Conns \ {{d}} : /\ conn'[j] = conn[j] /\ broken'[j] = broken[j]
                                    /\ sock'[j] = sock[j] /\ lastReply'[j] = lastReply[j],
           \A c \in Clients \ {d} : waiting'[c] = waiting[c] /\ handler'[c] = handler[c],
           UNCHANGED <<tmChan, replies>>
    PROVE  ConnInv'
<1>1. \A c \in Singles \ {d} : SameSingle(c)
  BY SingleConn DEF SameSingle
<1>2. SameGroup
  BY GroupConn, SingleConn DEF SameGroup
<1>3. SingleInv'
  BY <1>1, SinglesButOne DEF ConnInv
<1>4. GroupInv' /\ WayInv'
  BY <1>2, GroupQuiet DEF ConnInv
<1> QED BY <1>3, <1>4 DEF ConnInv

LEMMA ProcessProtoStep ==
    ASSUME ConnInv, NEW k \in Conns, ProcessProto(k)
    PROVE  ConnInv'
<1> DEFINE r == Head(sock[k])
<1>1. /\ ConnTypes /\ IdInv /\ SingleInv /\ GroupInv /\ WayInv /\ PoolInv /\ ReplyIsOwn
  BY DEF ConnInv
<1>2. /\ conn[k] = "open" /\ sock[k] # <<>> /\ r # Multi
      /\ sock' = [sock EXCEPT ![k] = Tail(@)]
      /\ UNCHANGED <<clientVars, broken, accepts, groupVars, idVars, reqs, pool, boxes, bUp>>
  BY DEF ProcessProto
<1>3. sock[k] \in Seq(Req \cup {Multi}) /\ r = sock[k][1] /\ Tail(sock[k]) \in Seq(Req \cup {Multi})
  BY <1>1, <1>2, OneMessage DEF ConnTypes
<1>4. k # Group \/ Group = {}
  BY <1>1, <1>2, <1>3 DEF GroupInv, GroupSock
<1>5. PICK d \in Singles : k = {d}
  BY <1>4, ConnCases
<1>6. Front(k) = d /\ d \in Clients
  BY <1>5, SingleConn
<1>7. SingleShape(d) /\ SingleWaits(d)
  BY <1>1 DEF SingleInv
<1>8. /\ Len(sock[k]) = 1 /\ r \in ReqOf(d) /\ r \in Req /\ sock'[k] = <<>>
      /\ handler[d].st \in {"new", "idle"}
  <2>1. Len(sock[k]) = 1 /\ r \in ReqOf(d) /\ handler[d].st \in {"new", "idle"}
    BY <1>2, <1>3, <1>5, <1>7 DEF SingleShape
  <2>2. Tail(sock[k]) = <<>>
    BY <1>2, <1>3, <2>1, OneMessage
  <2> QED BY <1>1, <1>2, <2>1, <2>2 DEF ConnTypes, ReqOf
<1>9. \/ /\ r.kind = "unknown"
         /\ conn' = [conn EXCEPT ![k] = "sending"]
         /\ UNCHANGED <<lastReply, handler>>
      \/ /\ r.kind = "abort"
         /\ conn' = [conn EXCEPT ![k] = "sending"]
         /\ lastReply' = [lastReply EXCEPT ![k] = r]
         /\ handler' = [handler EXCEPT ![d].st = "idle"]
      \/ /\ conn' = [conn EXCEPT ![k] = "serving"]
         /\ handler' = [handler EXCEPT ![d].st = "busy", ![d].req = r]
         /\ UNCHANGED lastReply
  BY <1>6 DEF ProcessProto
<1>10. waiting' = waiting /\ misled' = misled /\ tmChan' = tmChan /\ replies' = replies
       /\ ids' = ids /\ leaked' = leaked /\ broken' = broken /\ sent' = sent
       /\ accepts' = accepts
  BY <1>2 DEF clientVars, groupVars, idVars
<1> HIDE DEF r
<1>11. ReplyIsOwn'
  BY <1>1, <1>10 DEF ReplyIsOwn
<1>12. /\ \A c \in Clients \ {d} : handler'[c] = handler[c]
       /\ handler'[d].st \in {"new", "idle", "busy"} /\ handler'[d].id = handler[d].id
       /\ handler'[d].req \in {handler[d].req, r}
       /\ handler' \in [Clients -> HandlerRecs]
  <2>1. handler \in [Clients -> HandlerRecs]
    BY <1>1 DEF ConnTypes
  <2> QED BY <1>6, <1>8, <1>9, <2>1 DEF HandlerRecs, HandlerStates
<1>13. IdInv'
  BY <1>1, <1>8, <1>10, <1>12, IdKept DEF Live
<1>14. ConnTypes'
  <2>1. sock' \in [Conns -> Seq(Req \cup {Multi})]
    BY <1>1, <1>2, <1>3 DEF ConnTypes
  <2>2. conn \in [Conns -> ConnStates] /\ lastReply \in [Conns -> Req \cup {None}]
    BY <1>1 DEF ConnTypes
  <2>3. conn' \in [Conns -> ConnStates]
    BY <1>9, <2>2 DEF ConnStates
  <2>4. lastReply' \in [Conns -> Req \cup {None}]
    BY <1>8, <1>9, <2>2
  <2> QED BY <1>1, <1>10, <1>12, <2>1, <2>3, <2>4 DEF ConnTypes
<1>15. PoolInv'
  <2>1. PoolWaits
    BY <1>8, <1>12 DEF PoolWaits
  <2> QED BY <1>1, <1>2, <2>1, PoolQuiet
<1>16. \A j \in Conns \ {{d}} : /\ conn'[j] = conn[j] /\ sock'[j] = sock[j]
                                /\ lastReply'[j] = lastReply[j]
  BY <1>1, <1>2, <1>5, <1>9 DEF ConnTypes
<1>17. \/ /\ r.kind = "unknown" /\ conn'[k] = "sending" /\ handler'[d] = handler[d]
       \/ /\ conn'[k] = "sending" /\ lastReply'[k] = r /\ handler'[d].st = "idle"
       \/ /\ conn'[k] = "serving" /\ handler'[d].st = "busy" /\ handler'[d].req = r
  BY <1>1, <1>6, <1>9 DEF ConnTypes, HandlerRecs
<1>18. SingleShape(d)'
  BY <1>5, <1>7, <1>8, <1>10, <1>17 DEF SingleShape
<1>19. ~broken[k] => waiting[d] = r
  BY <1>2, <1>3, <1>5, <1>7 DEF SingleWaits
<1>20. SingleWaits(d)'
  BY <1>2, <1>5, <1>7, <1>8, <1>10, <1>17, <1>19 DEF SingleWaits
<1> QED BY <1>10, <1>11, <1>12, <1>13, <1>14, <1>15, <1>16, <1>18, <1>20, SingleStep

LEMMA SendReplyStep ==
    ASSUME ConnInv, NEW k \in Conns, SendReply(k)
    PROVE  ConnInv'
<1>1. /\ ConnTypes /\ IdInv /\ SingleInv /\ GroupInv /\ WayInv /\ PoolInv /\ ReplyIsOwn
  BY DEF ConnInv
<1>2. /\ conn[k] = "sending"
      /\ UNCHANGED <<sent, broken, accepts, sock, lastReply, groupVars, ids, poolVars, upVars>>
  BY DEF SendReply
<1>3. PICK d \in Singles : k = {d}
  BY <1>1, <1>2, ConnCases DEF GroupInv, GroupShape
<1>4. Front(k) = d /\ d \in Clients
  BY <1>3, SingleConn
<1>5. SingleShape(d) /\ SingleWaits(d)
  BY <1>1 DEF SingleInv
<1>6. handler[d].st \in {"new", "idle"} /\ sock[k] = <<>> /\ tmChan[d] = <<>>
  BY <1>2, <1>3, <1>5 DEF SingleShape
<1>7. tmChan' = tmChan /\ replies' = replies
  BY <1>2 DEF groupVars
<1>8. \/ /\ ~broken[k]
         /\ Receives(d, lastReply[k])
         /\ conn' = [conn EXCEPT ![k] = "open"]
         /\ UNCHANGED <<handler, leaked>>
      \/ /\ broken[k]
         /\ conn' = [conn EXCEPT ![k] = "open"]
         /\ UNCHANGED <<waiting, misled, handler, leaked>>
      \/ /\ broken[k]
         /\ conn' = [conn EXCEPT ![k] = "none"]
         /\ leaked' = leaked \cup {handler[d].id}
         /\ handler' = [handler EXCEPT ![d] = NoHandler]
         /\ UNCHANGED <<waiting, misled>>
  BY <1>4 DEF SendReply
<1>9. ReplyIsOwn'
  <2>1. CASE misled' = misled
    BY <1>1, <2>1 DEF ReplyIsOwn
  <2>2. CASE ~broken[k] /\ Receives(d, lastReply[k])
    <3>1. waiting[d].kind = "unknown" \/ (Alone(d) => lastReply[k] = waiting[d])
      BY <1>2, <1>3, <1>5, <2>2 DEF SingleWaits
    <3>2. misled' = misled \/ (misled' = misled \cup {d} /\ ~Alone(d))
      BY <2>2, <3>1 DEF Receives
    <3> QED BY <1>1, <3>2 DEF ReplyIsOwn
  <2> QED BY <1>8, <2>1, <2>2
<1>10. /\ conn'[k] \in {"open", "none"} /\ \A j \in Conns \ {k} : conn'[j] = conn[j]
       /\ conn'[k] = "open" => handler'[d] = handler[d]
       /\ conn'[k] = "none" => handler'[d] = NoHandler
       /\ \A c \in Clients \ {d} : handler'[c] = handler[c]
       /\ conn' \in [Conns -> ConnStates]
       /\ handler' \in [Clients -> HandlerRecs]
  <2>1. /\ conn \in [Conns -> ConnStates] /\ handler \in [Clients -> HandlerRecs]
        /\ {"open", "none"} \subseteq ConnStates /\ NoHandler \in HandlerRecs
    BY <1>1 DEF ConnTypes, ConnStates, NoHandler, HandlerRecs, HandlerStates
  <2>2. CASE conn' = [conn EXCEPT ![k] = "open"] /\ handler' = handler
    BY <2>1, <2>2
  <2>3. CASE /\ conn' = [conn EXCEPT ![k] = "none"]
             /\ handler' = [handler EXCEPT ![d] = NoHandler]
    BY <1>4, <2>1, <2>3
  <2> QED BY <1>8, <2>2, <2>3
<1>11. /\ waiting'[d] = None /\ \A c \in Clients \ {d} : waiting'[c] = waiting[c]
       /\ waiting' \in [Clients -> Req \cup {None}]
  <2>1. CASE broken[k]
    BY <1>1, <1>3, <1>4, <1>5, <1>8, <2>1 DEF ConnTypes, SingleWaits
  <2>2. CASE ~broken[k]
    BY <1>1, <1>4, <1>8, <2>2 DEF ConnTypes, Receives
  <2> QED BY <2>1, <2>2
<1>12. IdInv'
  <2>1. CASE UNCHANGED <<handler, leaked>>
    BY <1>1, <1>2, <2>1, IdKept DEF Live
  <2>2. CASE leaked' = leaked \cup {handler[d].id} /\ handler' = [handler EXCEPT ![d] = NoHandler]
    <3>1. Live(d) /\ handler \in [Clients -> HandlerRecs] /\ ids' = ids
      BY <1>1, <1>2, <1>6 DEF Live, ConnTypes
    <3> QED BY <1>1, <1>4, <2>2, <3>1, IdLeaked
  <2> QED BY <1>8, <2>1, <2>2
<1>13. ConnTypes'
  BY <1>1, <1>2, <1>7, <1>10, <1>11 DEF ConnTypes
<1>14. PoolInv'
  <2>1. PoolWaits
    BY <1>6, <1>10 DEF PoolWaits
  <2> QED BY <1>1, <1>2, <2>1, PoolQuiet DEF poolVars
<1>15. SingleShape(d)'
  BY <1>2, <1>3, <1>6, <1>7, <1>10 DEF SingleShape, NoHandler
<1>16. SingleWaits(d)'
  BY <1>2, <1>3, <1>6, <1>10, <1>11 DEF SingleWaits
<1> QED BY <1>2, <1>3, <1>7, <1>9, <1>10, <1>11, <1>12, <1>13, <1>14, <1>15, <1>16, SingleStep

\* A step of the connection of the group leaves the others alone.
LEMMA GroupStep ==
    ASSUME ConnInv, Group # {}, ConnTypes', IdInv', PoolInv', ReplyIsOwn',
           GroupSock', GroupShape', \A c \in Group : GroupClient(c)', WayInv',
           \A j \in Conns \ {Group} : /\ conn'[j] = conn[j] /\ broken'[j] = broken[j]
                                      /\ sock'[j] = sock[j] /\ lastReply'[j] = lastReply[j],
           \A c \in Clients \ Group : /\ waiting'[c] = waiting[c] /\ handler'[c] = handler[c]
                                      /\ tmChan'[c] = tmChan[c]
    PROVE  ConnInv'
<1>1. \A c \in Singles : SameSingle(c)
  BY SingleConn DEF SameSingle
<1>2. SingleInv'
  BY <1>1, SinglesQuiet DEF ConnInv
<1>3. GroupInv'
  BY DEF GroupInv
<1> QED BY <1>2, <1>3 DEF ConnInv

\* What lostConnRequest leaves of the handlers.
LEMMA EndsFacts ==
    ASSUME ConnTypes, NEW c \in Clients, Ends(c)
    PROVE  /\ handler' \in [Clients -> HandlerRecs]
           /\ handler'[c] = NoHandler /\ handler'[c].st = "none"
           /\ \A d \in Clients \ {c} : handler'[d] = handler[d]
<1>1. handler \in [Clients -> HandlerRecs] /\ NoHandler \in HandlerRecs /\ NoHandler.st = "none"
  BY DEF ConnTypes, NoHandler, HandlerRecs, HandlerStates
<1>2. handler' = [handler EXCEPT ![c] = NoHandler]
  BY DEF Ends
<1> QED BY <1>1, <1>2

LEMMA ReadLostStep ==
    ASSUME ConnInv, NEW k \in Conns, ReadLost(k)
    PROVE  ConnInv'
<1> DEFINE f == Front(k)
<1>1. /\ ConnTypes /\ IdInv /\ SingleInv /\ GroupInv /\ WayInv /\ PoolInv /\ ReplyIsOwn
  BY DEF ConnInv
<1>2. /\ conn[k] = "open" /\ broken[k] /\ sock[k] = <<>> /\ Ends(f)
      /\ conn' = [conn EXCEPT ![k] = "none"]
      /\ UNCHANGED <<clientVars, broken, accepts, sock, lastReply, groupVars, leaked, reqs,
                     pool, boxes, bUp>>
  BY DEF ReadLost
<1>3. f \in k /\ f \in Clients
  BY FrontOf
<1>4. /\ waiting' = waiting /\ misled' = misled /\ sent' = sent /\ tmChan' = tmChan
      /\ replies' = replies
  BY <1>2 DEF clientVars, groupVars
<1>5. handler[f].st # "none" /\ handler[f].st # "pool"
  <2>1. ASSUME NEW d \in Singles, k = {d}
        PROVE  handler[f].st # "none" /\ handler[f].st # "pool"
    <3>1. SingleShape(d) /\ f = d
      BY <1>1, <1>3, <2>1 DEF SingleInv
    <3> QED BY <1>2, <2>1, <3>1 DEF SingleShape
  <2>2. CASE k = Group /\ Group # {}
    <3>1. GroupShape /\ GroupClient(f) /\ f \in Group /\ f = Front(Group)
      BY <1>1, <1>3, <2>2 DEF GroupInv
    <3> QED BY <1>2, <2>2, <3>1 DEF GroupShape, GroupClient, Live
  <2> QED BY <2>1, <2>2, ConnCases
<1>6. /\ handler' \in [Clients -> HandlerRecs] /\ handler'[f].st = "none"
      /\ \A d \in Clients \ {f} : handler'[d] = handler[d]
  BY <1>1, <1>2, <1>3, EndsFacts
<1>7. /\ conn' \in [Conns -> ConnStates] /\ conn'[k] = "none"
      /\ \A j \in Conns \ {k} : conn'[j] = conn[j]
  BY <1>1, <1>2 DEF ConnTypes, ConnStates
<1>8. ConnTypes' /\ ReplyIsOwn'
  BY <1>1, <1>2, <1>4, <1>6, <1>7 DEF ConnTypes, ReplyIsOwn
<1>9. IdInv'
  <2>1. handler \in [Clients -> HandlerRecs] /\ Live(f)
    BY <1>1, <1>5 DEF ConnTypes, Live
  <2> QED BY <1>1, <1>2, <1>3, <2>1, IdReturned
<1>10. PoolInv'
  <2>1. PoolWaits
    BY <1>5, <1>6 DEF PoolWaits
  <2> QED BY <1>1, <1>2, <2>1, PoolQuiet
<1> HIDE DEF f
<1>11. CASE \E d \in Singles : k = {d}
  <2>1. PICK d \in Singles : k = {d}
    BY <1>11
  <2>2. f = d
    BY <1>3, <2>1
  <2>3. SingleShape(d) /\ SingleWaits(d)
    BY <1>1 DEF SingleInv
  <2>4. SingleShape(d)'
    BY <1>2, <1>4, <1>6, <1>7, <2>1, <2>2, <2>3 DEF SingleShape
  <2>5. SingleWaits(d)'
    BY <1>2, <1>4, <1>7, <2>1, <2>3 DEF SingleWaits
  <2> QED BY <1>2, <1>4, <1>6, <1>7, <1>8, <1>9, <1>10, <2>1, <2>2, <2>4, <2>5, SingleStep
<1>12. CASE k = Group /\ Group # {}
  <2>1. GroupSock /\ GroupShape /\ \A c \in Group : GroupClient(c)
    BY <1>1, <1>12 DEF GroupInv
  <2>2. GroupSock'
    BY <1>2, <1>7, <1>12, <2>1 DEF GroupSock
  <2>3. \A c \in Group : handler'[c].st = "none"
    <3>1. f = Front(Group)
      BY <1>12 DEF f
    <3> QED BY <1>2, <1>6, <1>12, <2>1, <3>1, GroupConn DEF GroupShape, Live
  <2>4. GroupShape'
    BY <1>2, <1>4, <1>7, <1>12, <2>1, <2>3 DEF GroupShape, Live
  <2>5. ASSUME NEW c \in Group
        PROVE  GroupClient(c)'
    <3>1. tmChan[c] = <<>>
      BY <1>2, <1>12, <2>1 DEF GroupClient
    <3> QED BY <1>4, <2>3, <3>1 DEF GroupClient
  <2>6. WayInv'
    BY <1>2, <1>12 DEF WayInv
  <2> QED BY <1>2, <1>3, <1>4, <1>6, <1>7, <1>8, <1>9, <1>10, <1>12, <2>2, <2>4, <2>5, <2>6,
             GroupStep
<1> QED BY <1>11, <1>12, ConnCases

-----------------------------------------------------------------------------
(* Multi-client connections *)

\* Reading a message takes the first one from the connection.
LEMMA SockTail ==
    ASSUME NEW c \in Group, sock[Group] \in Seq(Req \cup {Multi}), sock[Group] # <<>>,
           sock'[Group] = Tail(sock[Group])
    PROVE  /\ Len(sock[Group]) \in Nat /\ Len(sock'[Group]) = Len(sock[Group]) - 1
           /\ \A i \in 1..Len(sock'[Group]) :
                 /\ i + 1 \in 1..Len(sock[Group]) /\ i + 1 # 1
                 /\ sock'[Group][i] = sock[Group][i + 1]
                 /\ SockAt(c, i)' => SockAt(c, i + 1)
           /\ 1 \in 1..Len(sock[Group])
<1>1. /\ Len(sock[Group]) \in Nat /\ Len(sock[Group]) > 0
      /\ Len(Tail(sock[Group])) = Len(sock[Group]) - 1
      /\ \A i \in 1..Len(Tail(sock[Group])) : Tail(sock[Group])[i] = sock[Group][i + 1]
  OBVIOUS
<1>2. ASSUME NEW i \in 1..Len(sock'[Group])
      PROVE  i + 1 \in 1..Len(sock[Group]) /\ i + 1 # 1
  BY <1>1
<1>3. \A i \in 1..Len(sock'[Group]) : sock'[Group][i] = sock[Group][i + 1]
  BY <1>1
<1>4. ASSUME NEW i \in 1..Len(sock'[Group])
      PROVE  SockAt(c, i)' => SockAt(c, i + 1)
  BY <1>2, <1>3 DEF SockAt
<1> QED BY <1>1, <1>2, <1>3, <1>4

LEMMA WaySockTail ==
    ASSUME NEW c \in Group, sock[Group] \in Seq(Req \cup {Multi}), sock[Group] # <<>>,
           sock'[Group] = Tail(sock[Group]), WayOnce(c), WayWaits(c)
    PROVE  /\ InSock(c)' => InSock(c)
           /\ SockAt(c, 1) => ~InSock(c)'
           /\ \A i, j \in 1..Len(sock'[Group]) : SockAt(c, i)' /\ SockAt(c, j)' => i = j
           /\ \A i \in 1..Len(sock'[Group]) : SockAt(c, i)' => waiting[c] = sock'[Group][i]
<1>1. /\ \A i \in 1..Len(sock'[Group]) :
            /\ i + 1 \in 1..Len(sock[Group]) /\ i + 1 # 1
            /\ sock'[Group][i] = sock[Group][i + 1]
            /\ SockAt(c, i)' => SockAt(c, i + 1)
      /\ 1 \in 1..Len(sock[Group])
  BY SockTail
<1>2. /\ \A i, j \in 1..Len(sock[Group]) : SockAt(c, i) /\ SockAt(c, j) => i = j
      /\ \A i \in 1..Len(sock[Group]) : SockAt(c, i) => waiting[c] = sock[Group][i]
  BY DEF WayOnce, WayWaits
<1>3. InSock(c)' => InSock(c)
  BY <1>1 DEF InSock
<1>4. SockAt(c, 1) => ~InSock(c)'
  BY <1>1, <1>2 DEF InSock
<1>5. ASSUME NEW i \in 1..Len(sock'[Group]), NEW j \in 1..Len(sock'[Group]),
             SockAt(c, i)', SockAt(c, j)'
      PROVE  i = j
  <2>1. i + 1 = j + 1
    BY <1>1, <1>2, <1>5
  <2> QED BY <2>1
<1>6. \A i \in 1..Len(sock'[Group]) : SockAt(c, i)' => waiting[c] = sock'[Group][i]
  BY <1>1, <1>2
<1> QED BY <1>3, <1>4, <1>5, <1>6

LEMMA StartUpgradeStep ==
    ASSUME ConnInv, NEW k \in Conns, StartUpgrade(k)
    PROVE  ConnInv'
<1> DEFINE f == Front(Group)
<1>1. /\ ConnTypes /\ IdInv /\ SingleInv /\ GroupInv /\ WayInv /\ PoolInv /\ ReplyIsOwn
  BY DEF ConnInv
<1>2. /\ conn[k] = "open" /\ sock[k] # <<>> /\ Head(sock[k]) = Multi
      /\ sock' = [sock EXCEPT ![k] = Tail(@)] /\ Ends(Front(k))
      /\ conn' = [conn EXCEPT ![k] = "upgrade"]
      /\ UNCHANGED <<clientVars, broken, accepts, lastReply, tmChan, replies, leaked, reqs,
                     pool, boxes, bUp>>
  BY DEF StartUpgrade
<1>3. sock[k] \in Seq(Req \cup {Multi}) /\ Head(sock[k]) = sock[k][1]
      /\ Tail(sock[k]) \in Seq(Req \cup {Multi})
  BY <1>1, <1>2, OneMessage DEF ConnTypes
<1>4. k = Group /\ Group # {}
  <2>1. ASSUME NEW d \in Singles, k = {d}
        PROVE  FALSE
    <3>1. SingleShape(d)
      BY <1>1 DEF SingleInv
    <3>2. sock[{d}][1] \in ReqOf(d)
      BY <1>2, <2>1, <3>1 DEF SingleShape
    <3> QED BY <1>2, <1>3, <2>1, <3>2, Alien DEF ReqOf
  <2> QED BY <2>1, ConnCases
<1>5. f \in Group /\ f \in Clients /\ Ends(f)
  BY <1>2, <1>4, GroupConn
<1>6. waiting' = waiting /\ misled' = misled /\ sent' = sent
  BY <1>2 DEF clientVars
<1>7. GroupSock /\ GroupShape /\ \A c \in Group : GroupClient(c)
  BY <1>1, <1>4 DEF GroupInv
<1> HIDE DEF f
<1>8. handler[f].st # "none" /\ \A c \in Group : handler[c].st \notin {"busy", "pool"}
  BY <1>2, <1>4, <1>5, <1>7 DEF GroupShape, GroupClient, Live, f
<1>9. /\ handler' \in [Clients -> HandlerRecs] /\ handler'[f].st = "none"
      /\ \A d \in Clients \ {f} : handler'[d] = handler[d]
  BY <1>1, <1>5, EndsFacts
<1>10. /\ conn' \in [Conns -> ConnStates] /\ conn'[Group] = "upgrade"
       /\ \A j \in Conns \ {Group} : conn'[j] = conn[j]
  BY <1>1, <1>2, <1>4 DEF ConnTypes, ConnStates
<1>11. /\ sock' \in [Conns -> Seq(Req \cup {Multi})] /\ sock'[Group] = Tail(sock[Group])
       /\ \A j \in Conns \ {Group} : sock'[j] = sock[j]
  BY <1>1, <1>2, <1>3, <1>4 DEF ConnTypes
<1>12. ConnTypes' /\ ReplyIsOwn'
  BY <1>1, <1>2, <1>6, <1>9, <1>10, <1>11 DEF ConnTypes, ReplyIsOwn
<1>13. IdInv'
  <2>1. handler \in [Clients -> HandlerRecs] /\ Live(f)
    BY <1>1, <1>8 DEF ConnTypes, Live
  <2> QED BY <1>1, <1>2, <1>5, <2>1, IdReturned
<1>14. PoolInv'
  <2>1. PoolWaits
    BY <1>5, <1>8, <1>9 DEF PoolWaits
  <2> QED BY <1>1, <1>2, <2>1, PoolQuiet
<1>15. GroupSock'
  <2>1. \A i \in 1..Len(sock'[Group]) : /\ i + 1 \in 1..Len(sock[Group]) /\ i + 1 # 1
                                        /\ sock'[Group][i] = sock[Group][i + 1]
    BY <1>2, <1>3, <1>4, <1>5, <1>11, SockTail
  <2>2. \A i \in 1..Len(sock[Group]) : i # 1 =>
           sock[Group][i] \in Req /\ sock[Group][i].client \in Group
    BY <1>7 DEF GroupSock
  <2> QED BY <1>10, <2>1, <2>2 DEF GroupSock
<1>16. replies = <<>> /\ \A c \in Group : tmChan[c] = <<>>
  BY <1>2, <1>4, <1>7 DEF GroupShape, GroupClient
<1>17. GroupShape'
  BY <1>2, <1>5, <1>6, <1>7, <1>9, <1>10, <1>16 DEF GroupShape, Live
<1>18. \A c \in Group : handler'[c].st \notin {"busy", "pool"}
  BY <1>8, <1>9, GroupConn
<1>19. \A c \in Group : GroupClient(c)'
  BY <1>2, <1>16, <1>18 DEF GroupClient
<1>20. ASSUME NEW c \in Group, Alone(c), ~broken'[Group]
       PROVE  WayOnce(c)' /\ WayWaits(c)'
  <2>1. WayOnce(c) /\ WayWaits(c)
    BY <1>1, <1>2, <1>20 DEF WayInv
  <2>2. ~InChan(c)' /\ ~InHandler(c)' /\ ~InReplies(c)'
    BY <1>2, <1>16, <1>18 DEF InChan, InHandler, InReplies
  <2>3. /\ \A i, j \in 1..Len(sock'[Group]) : SockAt(c, i)' /\ SockAt(c, j)' => i = j
        /\ \A i \in 1..Len(sock'[Group]) : SockAt(c, i)' => waiting[c] = sock'[Group][i]
    BY <1>2, <1>3, <1>4, <1>11, <2>1, WaySockTail
  <2>4. \A i \in 1..Len(replies') : ~ReplyAt(c, i)'
    BY <2>2 DEF InReplies
  <2>5. WayOnce(c)'
    BY <2>2, <2>3, <2>4 DEF WayOnce
  <2>6. WayWaits(c)'
    BY <1>6, <2>2, <2>3, <2>4 DEF WayWaits
  <2> QED BY <2>5, <2>6
<1>21. WayInv'
  BY <1>20 DEF WayInv
<1> QED BY <1>2, <1>4, <1>5, <1>6, <1>9, <1>10, <1>11, <1>12, <1>13, <1>14, <1>15, <1>17, <1>19,
           <1>21, GroupStep

\* A step that moves no request of a client.
LEMMA WayKept ==
    ASSUME NEW c \in Group, WayOnce(c), WayWaits(c), sock'[Group] = sock[Group],
           replies' = replies, waiting'[c] = waiting[c], tmChan'[c] = tmChan[c],
           InHandler(c)' <=> InHandler(c), InHandler(c) => handler'[c].req = handler[c].req
    PROVE  WayOnce(c)' /\ WayWaits(c)'
<1>1. /\ InSock(c)' = InSock(c) /\ InChan(c)' = InChan(c) /\ InReplies(c)' = InReplies(c)
      /\ \A i \in 1..Len(sock[Group]) : SockAt(c, i)' = SockAt(c, i)
      /\ \A i \in 1..Len(replies) : ReplyAt(c, i)' = ReplyAt(c, i)
  BY DEF InSock, InChan, InReplies, SockAt, ReplyAt
<1>2. WayOnce(c)'
  BY <1>1 DEF WayOnce
<1>3. WayWaits(c)'
  BY <1>1 DEF WayWaits
<1> QED BY <1>2, <1>3

LEMMA UpgradeClientStep ==
    ASSUME ConnInv, NEW k \in Conns, UpgradeClient(k)
    PROVE  ConnInv'
<1> DEFINE u == CHOOSE c \in Group : ~Live(c)
<1>1. /\ ConnTypes /\ IdInv /\ SingleInv /\ GroupInv /\ WayInv /\ PoolInv /\ ReplyIsOwn
  BY DEF ConnInv
<1>2. conn[k] = "upgrade" /\ ids.new # <<>>
  BY DEF UpgradeClient
<1>3. k = Group /\ Group # {}
  <2>1. ASSUME NEW d \in Singles, k = {d}
        PROVE  FALSE
    BY <1>1, <1>2, <2>1 DEF SingleInv, SingleShape
  <2> QED BY <2>1, ConnCases
<1>4. /\ handler' = [handler EXCEPT ![u] = [st |-> "idle", id |-> Head(ids.new), req |-> None]]
      /\ ids' = TakeId
      /\ conn' = IF \A d \in Group \ {u} : Live(d) THEN [conn EXCEPT ![Group] = "multi"]
                                                   ELSE conn
      /\ UNCHANGED <<clientVars, broken, accepts, sock, lastReply, groupVars, leaked, reqs,
                     pool, boxes, bUp>>
  BY <1>3 DEF UpgradeClient
<1>5. GroupSock /\ GroupShape /\ \A c \in Group : GroupClient(c)
  BY <1>1, <1>3 DEF GroupInv
<1>6. u \in Group /\ ~Live(u) /\ u \in Clients
  <2>1. \E c \in Group : ~Live(c)
    BY <1>2, <1>3, <1>5 DEF GroupShape
  <2>2. u \in Group /\ ~Live(u)
    BY <2>1
  <2> QED BY <2>2, GroupConn
<1> HIDE DEF u
<1>7. /\ waiting' = waiting /\ misled' = misled /\ sent' = sent /\ tmChan' = tmChan
      /\ replies' = replies
  BY <1>4 DEF clientVars, groupVars
<1>8. /\ handler'[u].st = "idle" /\ handler' \in [Clients -> HandlerRecs]
      /\ \A d \in Clients \ {u} : handler'[d] = handler[d]
  <2>1. Head(ids.new) \in Nat
    BY <1>1, <1>2, ElemsTail DEF IdInv, IdRecs
  <2>2. handler \in [Clients -> HandlerRecs]
    BY <1>1 DEF ConnTypes
  <2> QED BY <1>4, <1>6, <2>1, <2>2 DEF HandlerRecs, HandlerStates
<1>9. /\ conn' \in [Conns -> ConnStates]
      /\ conn'[Group] = IF \A d \in Group \ {u} : Live(d) THEN "multi" ELSE "upgrade"
      /\ \A j \in Conns \ {Group} : conn'[j] = conn[j]
  BY <1>1, <1>2, <1>3, <1>4 DEF ConnTypes, ConnStates
<1>10. ConnTypes' /\ ReplyIsOwn'
  BY <1>1, <1>4, <1>7, <1>8, <1>9 DEF ConnTypes, ReplyIsOwn
<1>11. IdInv'
  <2>1. handler \in [Clients -> HandlerRecs] /\ leaked' = leaked
    BY <1>1, <1>4 DEF ConnTypes
  <2>2. "idle" \in HandlerStates \ {"none"}
    BY DEF HandlerStates
  <2> QED BY <1>1, <1>2, <1>4, <1>6, <2>1, <2>2, IdTaken
<1>12. PoolInv'
  <2>1. PoolWaits
    BY <1>6, <1>8 DEF PoolWaits, Live
  <2> QED BY <1>1, <1>4, <2>1, PoolQuiet
<1>13. GroupSock'
  BY <1>2, <1>3, <1>4, <1>5, <1>9 DEF GroupSock
<1>14. replies = <<>> /\ \A c \in Group : tmChan[c] = <<>> /\ handler[c].st \notin {"busy", "pool"}
  BY <1>2, <1>3, <1>5 DEF GroupShape, GroupClient
<1>15. GroupShape'
  <2>1. CASE \A d \in Group \ {u} : Live(d)
    <3>1. \A c \in Group : handler'[c].st # "none"
      BY <1>8, <2>1, GroupConn DEF Live
    <3> QED BY <1>4, <1>5, <1>7, <1>9, <2>1, <3>1 DEF GroupShape, Live
  <2>2. CASE ~(\A d \in Group \ {u} : Live(d))
    <3>1. \E c \in Group : handler'[c].st = "none"
      BY <1>8, <2>2, GroupConn DEF Live
    <3> QED BY <1>4, <1>5, <1>7, <1>9, <1>14, <2>2, <3>1 DEF GroupShape, Live
  <2> QED BY <2>1, <2>2
<1>16. \A c \in Group : handler'[c].st \notin {"busy", "pool"}
  BY <1>8, <1>14, GroupConn
<1>17. \A c \in Group : GroupClient(c)'
  BY <1>7, <1>14, <1>16 DEF GroupClient
<1>18. ASSUME NEW c \in Group, Alone(c), ~broken'[Group]
       PROVE  WayOnce(c)' /\ WayWaits(c)'
  <2>1. WayOnce(c) /\ WayWaits(c)
    BY <1>1, <1>4, <1>18 DEF WayInv
  <2>2. ~InHandler(c) /\ ~InHandler(c)'
    BY <1>14, <1>16 DEF InHandler
  <2> QED BY <1>4, <1>7, <2>1, <2>2, WayKept
<1>19. WayInv'
  BY <1>18 DEF WayInv
<1> QED BY <1>3, <1>4, <1>6, <1>7, <1>8, <1>9, <1>10, <1>11, <1>12, <1>13, <1>15, <1>17, <1>19,
           GroupStep

LEMMA MultiReadStep ==
    ASSUME ConnInv, NEW k \in Conns, MultiRead(k)
    PROVE  ConnInv'
<1> DEFINE r == Head(sock[Group])
<1>1. /\ ConnTypes /\ IdInv /\ SingleInv /\ GroupInv /\ WayInv /\ PoolInv /\ ReplyIsOwn
  BY DEF ConnInv
<1>2. conn[k] = "multi" /\ sock[k] # <<>>
  BY DEF MultiRead
<1>3. k = Group /\ Group # {}
  <2>1. ASSUME NEW d \in Singles, k = {d}
        PROVE  FALSE
    BY <1>1, <1>2, <2>1 DEF SingleInv, SingleShape
  <2> QED BY <2>1, ConnCases
<1>4. /\ sock' = [sock EXCEPT ![Group] = Tail(@)]
      /\ \/ r.kind = "unknown" /\ UNCHANGED tmChan
         \/ /\ r.kind # "unknown" /\ tmChan[r.client] = <<>>
            /\ tmChan' = [tmChan EXCEPT ![r.client] = <<r>>]
      /\ UNCHANGED <<clientVars, conn, broken, accepts, lastReply, handler, replies, sender,
                     idVars, poolVars, upVars>>
  BY <1>3 DEF MultiRead
<1>5. GroupSock /\ GroupShape /\ \A c \in Group : GroupClient(c)
  BY <1>1, <1>3 DEF GroupInv
<1>6. /\ sock[Group] \in Seq(Req \cup {Multi}) /\ r = sock[Group][1]
      /\ Tail(sock[Group]) \in Seq(Req \cup {Multi}) /\ sock[Group] # <<>>
      /\ 1 \in 1..Len(sock[Group])
  BY <1>1, <1>2, <1>3, OneMessage DEF ConnTypes
<1>7. r \in Req /\ r.client \in Group /\ r.client \in Clients /\ r \in ReqOf(r.client)
      /\ r # Lost
  BY <1>2, <1>3, <1>5, <1>6, GroupConn, Alien DEF GroupSock, ReqOf
<1> DEFINE a == r.client
<1>8. /\ waiting' = waiting /\ misled' = misled /\ sent' = sent /\ ids' = ids
      /\ leaked' = leaked /\ handler' = handler /\ replies' = replies
      /\ broken' = broken /\ conn' = conn
  BY <1>4 DEF clientVars, idVars
<1>9. /\ sock' \in [Conns -> Seq(Req \cup {Multi})] /\ sock'[Group] = Tail(sock[Group])
      /\ \A j \in Conns \ {Group} : sock'[j] = sock[j]
  BY <1>1, <1>3, <1>4, <1>6 DEF ConnTypes
<1>10. /\ tmChan' \in [Clients -> Seq(Req \cup {Lost})]
       /\ \A c \in Clients \ {a} : tmChan'[c] = tmChan[c]
       /\ \/ r.kind = "unknown" /\ tmChan'[a] = tmChan[a]
          \/ r.kind # "unknown" /\ tmChan'[a] = <<r>>
  <2>1. <<r>> \in Seq(Req \cup {Lost}) /\ tmChan \in [Clients -> Seq(Req \cup {Lost})]
    BY <1>1, <1>7 DEF ConnTypes
  <2> HIDE DEF r
  <2> QED BY <1>4, <1>7, <2>1
<1> HIDE DEF r, a
<1>11. ConnTypes' /\ ReplyIsOwn'
  BY <1>1, <1>4, <1>8, <1>9, <1>10 DEF ConnTypes, ReplyIsOwn
<1>12. IdInv'
  BY <1>1, <1>8, IdKept DEF Live
<1>13. PoolInv'
  BY <1>1, <1>4, PoolQuiet DEF PoolWaits, poolVars
<1>14. GroupSock'
  <2>1. \A i \in 1..Len(sock'[Group]) : /\ i + 1 \in 1..Len(sock[Group])
                                        /\ sock'[Group][i] = sock[Group][i + 1]
    BY <1>6, <1>7, <1>9, SockTail
  <2>2. \A i \in 1..Len(sock[Group]) :
           sock[Group][i] \in Req /\ sock[Group][i].client \in Group
    BY <1>2, <1>3, <1>5 DEF GroupSock
  <2> QED BY <1>2, <1>3, <1>8, <2>1, <2>2 DEF GroupSock
<1>15. GroupShape'
  BY <1>5, <1>8 DEF GroupShape, Live
<1>16. ASSUME NEW c \in Group
       PROVE  GroupClient(c)'
  <2>1. CASE tmChan'[c] = tmChan[c]
    BY <1>5, <1>8, <2>1 DEF GroupClient, Live
  <2>2. CASE c = a /\ r.kind # "unknown" /\ tmChan'[c] = <<r>>
    <3>1. Live(c)
      BY <1>2, <1>3, <1>5 DEF GroupShape
    <3>2. Len(<<r>>) = 1 /\ <<r>>[1] = r
      OBVIOUS
    <3>3. r \in ReqOf(c)
      BY <1>7, <2>2 DEF a
    <3> QED BY <1>2, <1>3, <1>5, <1>7, <1>8, <2>2, <3>1, <3>2, <3>3 DEF GroupClient, Live
  <2> QED BY <1>10, <2>1, <2>2, GroupConn
<1>17. ASSUME NEW c \in Group, Alone(c), ~broken'[Group]
       PROVE  WayOnce(c)' /\ WayWaits(c)'
  <2>1. WayOnce(c) /\ WayWaits(c)
    BY <1>1, <1>8, <1>17 DEF WayInv
  <2>2. /\ InSock(c)' => InSock(c)
        /\ SockAt(c, 1) => ~InSock(c)'
        /\ \A i, j \in 1..Len(sock'[Group]) : SockAt(c, i)' /\ SockAt(c, j)' => i = j
        /\ \A i \in 1..Len(sock'[Group]) : SockAt(c, i)' => waiting[c] = sock'[Group][i]
    BY <1>6, <1>9, <2>1, WaySockTail
  <2>3. /\ InHandler(c)' = InHandler(c) /\ InReplies(c)' = InReplies(c)
        /\ \A i \in 1..Len(replies) : ReplyAt(c, i)' = ReplyAt(c, i)
    BY <1>8 DEF InHandler, InReplies, ReplyAt
  <2>4. CASE tmChan'[c] = tmChan[c] \/ (~Answered(r) /\ tmChan'[c] = <<r>>)
    <3>1. InChan(c)' => InChan(c) /\ tmChan'[c] = tmChan[c]
      BY <2>4 DEF InChan
    <3>2. WayOnce(c)'
      BY <1>8, <2>1, <2>2, <2>3, <3>1 DEF WayOnce
    <3>3. WayWaits(c)'
      BY <1>8, <2>1, <2>2, <2>3, <3>1 DEF WayWaits
    <3> QED BY <3>2, <3>3
  <2>5. CASE c = a /\ Answered(r) /\ tmChan'[c] = <<r>>
    <3>1. SockAt(c, 1)
      BY <1>6, <1>7, <2>5 DEF SockAt, a
    <3>2. InSock(c)
      BY <1>6, <3>1 DEF InSock
    <3>3. ~InSock(c)' /\ ~InHandler(c)' /\ ~InReplies(c)'
      BY <2>1, <2>2, <2>3, <3>1, <3>2 DEF WayOnce
    <3>4. waiting[c] = r
      BY <1>6, <2>1, <3>1 DEF WayWaits
    <3>5. tmChan'[c][1] = r
      BY <2>5
    <3>6. /\ \A i \in 1..Len(sock'[Group]) : ~SockAt(c, i)'
          /\ \A i \in 1..Len(replies') : ~ReplyAt(c, i)'
      BY <3>3 DEF InSock, InReplies
    <3>7. WayOnce(c)'
      BY <3>3, <3>6 DEF WayOnce
    <3>8. WayWaits(c)'
      BY <1>8, <3>3, <3>4, <3>5, <3>6 DEF WayWaits
    <3> QED BY <3>7, <3>8
  <2>6. tmChan'[c] = tmChan[c] \/ (c = a /\ tmChan'[c] = <<r>>)
    <3>1. c \in Clients
      BY GroupConn
    <3> QED BY <1>10, <3>1
  <2> QED BY <2>4, <2>5, <2>6
<1>18. WayInv'
  BY <1>17 DEF WayInv
<1>19. \A c \in Clients \ Group : tmChan'[c] = tmChan[c]
  BY <1>7, <1>10 DEF a
<1> QED BY <1>3, <1>4, <1>8, <1>9, <1>11, <1>12, <1>13, <1>14, <1>15, <1>16, <1>18, <1>19, GroupStep

LEMMA MultiLostStep ==
    ASSUME ConnInv, NEW k \in Conns, MultiLost(k)
    PROVE  ConnInv'
<1> DEFINE untold == {c \in Group : Live(c) /\ tmChan[c] # <<Lost>>}
           u == Front(untold)
<1>1. /\ ConnTypes /\ IdInv /\ SingleInv /\ GroupInv /\ WayInv /\ PoolInv /\ ReplyIsOwn
  BY DEF ConnInv
<1>2. conn[k] \in {"multi", "closing"} /\ broken[k]
  BY DEF MultiLost
<1>3. k = Group /\ Group # {}
  <2>1. ASSUME NEW d \in Singles, k = {d}
        PROVE  FALSE
    BY <1>1, <1>2, <2>1 DEF SingleInv, SingleShape
  <2> QED BY <2>1, ConnCases
<1>4. /\ untold # {} /\ tmChan[u] = <<>>
      /\ tmChan' = [tmChan EXCEPT ![u] = <<Lost>>]
      /\ conn' = [conn EXCEPT ![Group] = "closing"]
      /\ UNCHANGED <<clientVars, broken, accepts, sock, lastReply, handler, replies, sender,
                     idVars, poolVars, upVars>>
  BY <1>3 DEF MultiLost
<1>5. u \in Group /\ Live(u) /\ u \in Clients
  <2>1. u \in untold
    BY <1>4 DEF Front
  <2> QED BY <2>1, GroupConn
<1> HIDE DEF u
<1>6. /\ waiting' = waiting /\ misled' = misled /\ sent' = sent /\ ids' = ids
      /\ leaked' = leaked /\ handler' = handler /\ replies' = replies
      /\ broken' = broken /\ sock' = sock
  BY <1>4 DEF clientVars, idVars
<1>7. /\ conn' \in [Conns -> ConnStates] /\ conn'[Group] = "closing"
      /\ \A j \in Conns \ {Group} : conn'[j] = conn[j]
  BY <1>1, <1>3, <1>4 DEF ConnTypes, ConnStates
<1>8. /\ tmChan' \in [Clients -> Seq(Req \cup {Lost})] /\ tmChan'[u] = <<Lost>>
      /\ \A c \in Clients \ {u} : tmChan'[c] = tmChan[c]
  <2>1. <<Lost>> \in Seq(Req \cup {Lost}) /\ tmChan \in [Clients -> Seq(Req \cup {Lost})]
    BY <1>1 DEF ConnTypes
  <2> QED BY <1>4, <1>5, <2>1
<1>9. ConnTypes' /\ ReplyIsOwn'
  BY <1>1, <1>4, <1>6, <1>7, <1>8 DEF ConnTypes, ReplyIsOwn
<1>10. IdInv'
  BY <1>1, <1>6, IdKept DEF Live
<1>11. PoolInv'
  BY <1>1, <1>4, PoolQuiet DEF PoolWaits, poolVars
<1>12. GroupSock /\ GroupShape /\ \A c \in Group : GroupClient(c)
  BY <1>1, <1>3 DEF GroupInv
<1>13. GroupSock'
  BY <1>2, <1>3, <1>6, <1>7, <1>12 DEF GroupSock
<1>14. GroupShape'
  BY <1>2, <1>3, <1>6, <1>7, <1>12 DEF GroupShape
<1>15. ASSUME NEW c \in Group
       PROVE  GroupClient(c)'
  <2>1. CASE c = u
    <3>1. Len(<<Lost>>) = 1 /\ <<Lost>>[1] = Lost
      OBVIOUS
    <3> QED BY <1>5, <1>6, <1>7, <1>8, <1>12, <2>1, <3>1 DEF GroupClient, Live
  <2>2. CASE c # u
    <3>1. tmChan'[c] = tmChan[c]
      BY <1>8, <2>2, GroupConn
    <3> QED BY <1>6, <1>7, <1>12, <3>1 DEF GroupClient, Live
  <2> QED BY <2>1, <2>2
<1>16. WayInv'
  BY <1>2, <1>3, <1>6 DEF WayInv
<1>17. \A c \in Clients \ Group : tmChan'[c] = tmChan[c]
  BY <1>5, <1>8
<1> QED BY <1>3, <1>4, <1>6, <1>7, <1>9, <1>10, <1>11, <1>13, <1>14, <1>15, <1>16, <1>17, GroupStep

LEMMA MultiTakeStep ==
    ASSUME ConnInv, NEW c \in Clients, MultiTake(c)
    PROVE  ConnInv'
<1> DEFINE r == Head(tmChan[c])
           last == \A d \in Group \ {c} : ~Live(d)
<1>1. /\ ConnTypes /\ IdInv /\ SingleInv /\ GroupInv /\ WayInv /\ PoolInv /\ ReplyIsOwn
  BY DEF ConnInv
<1>2. tmChan[c] # <<>> /\ handler[c].st = "idle" /\ tmChan' = [tmChan EXCEPT ![c] = <<>>]
  BY DEF MultiTake
<1>3. c \in Group /\ Group # {} /\ ConnOf(c) = Group
  <2>1. c \notin Singles
    BY <1>1, <1>2 DEF SingleInv, SingleShape
  <2> QED BY <2>1, GroupConn DEF Clients
<1>4. /\ \/ /\ r = Lost
            /\ Ends(c)
            /\ conn' = IF last THEN [conn EXCEPT ![Group] = "none"] ELSE conn
            /\ replies' = IF last THEN <<>> ELSE replies
         \/ /\ r # Lost /\ r.kind = "abort"
            /\ UNCHANGED <<handler, ids, conn, replies>>
         \/ /\ r # Lost /\ r.kind # "abort"
            /\ handler' = [handler EXCEPT ![c].st = "busy", ![c].req = r]
            /\ UNCHANGED <<ids, conn, replies>>
      /\ UNCHANGED <<clientVars, broken, accepts, sock, lastReply, leaked, poolVars, upVars>>
  BY <1>3 DEF MultiTake
<1>5. GroupSock /\ GroupShape /\ \A d \in Group : GroupClient(d)
  BY <1>1, <1>3 DEF GroupInv
<1>6. /\ r = tmChan[c][1] /\ r \in ReqOf(c) \cup {Lost} /\ conn[Group] \in {"multi", "closing"}
      /\ IF r = Lost THEN conn[Group] = "closing" ELSE r.kind # "unknown"
  <2>1. tmChan[c] \in Seq(Req \cup {Lost})
    BY <1>1 DEF ConnTypes
  <2>2. r = tmChan[c][1]
    BY <1>2, <2>1, OneMessage
  <2> QED BY <1>2, <1>3, <1>5, <2>2 DEF GroupClient
<1> HIDE DEF r, last
<1>7. /\ waiting' = waiting /\ misled' = misled /\ sent' = sent
  BY <1>4 DEF clientVars
<1>8. /\ tmChan' \in [Clients -> Seq(Req \cup {Lost})] /\ tmChan'[c] = <<>>
      /\ \A d \in Clients \ {c} : tmChan'[d] = tmChan[d]
  <2>1. <<>> \in Seq(Req \cup {Lost}) /\ tmChan \in [Clients -> Seq(Req \cup {Lost})]
    BY <1>1 DEF ConnTypes
  <2> QED BY <1>2, <2>1
<1>9. ReplyIsOwn'
  BY <1>1, <1>7 DEF ReplyIsOwn
<1>10. handler \in [Clients -> HandlerRecs] /\ Live(c)
  BY <1>1, <1>2 DEF ConnTypes, Live
<1>11. CASE r = Lost
  <2>1. /\ Ends(c) /\ conn' = IF last THEN [conn EXCEPT ![Group] = "none"] ELSE conn
        /\ replies' = IF last THEN <<>> ELSE replies
    BY <1>4, <1>11
  <2>2. /\ handler' \in [Clients -> HandlerRecs] /\ handler'[c].st = "none"
        /\ \A d \in Clients \ {c} : handler'[d] = handler[d]
    BY <1>1, <2>1, EndsFacts
  <2>3. IdInv'
    BY <1>1, <1>4, <1>10, <2>1, IdReturned
  <2>4. PoolInv'
    <3>1. PoolWaits
      BY <1>2, <2>2 DEF PoolWaits
    <3> QED BY <1>1, <1>4, <3>1, PoolQuiet DEF poolVars
  <2>5. /\ conn' \in [Conns -> ConnStates]
        /\ conn'[Group] = IF last THEN "none" ELSE "closing"
        /\ \A j \in Conns \ {Group} : conn'[j] = conn[j]
    <3>1. conn \in [Conns -> ConnStates] /\ Group \in Conns /\ "none" \in ConnStates
      BY <1>1, <1>3, GroupConn DEF ConnTypes, ConnStates
    <3> QED BY <1>6, <1>11, <2>1, <3>1
  <2>6. replies' \in Seq([client : Group, reply : Req])
    <3>1. replies \in Seq([client : Group, reply : Req])
          /\ <<>> \in Seq([client : Group, reply : Req])
      BY <1>1 DEF ConnTypes
    <3> QED BY <2>1, <3>1
  <2>7. ConnTypes'
    BY <1>1, <1>4, <1>7, <1>8, <2>2, <2>5, <2>6 DEF ConnTypes
  <2>8. broken[Group] /\ broken' = broken /\ sock' = sock
    BY <1>4, <1>5, <1>6, <1>11 DEF GroupShape
  <2>9. GroupSock'
    BY <1>5, <1>6, <2>5, <2>8 DEF GroupSock
  <2>10. last => \A d \in Group : handler'[d].st = "none"
    BY <1>3, <2>2, GroupConn DEF last, Live
  <2>11. GroupShape'
    BY <1>5, <1>7, <2>1, <2>5, <2>8, <2>10 DEF GroupShape, Live
  <2>12. ASSUME NEW d \in Group
         PROVE  GroupClient(d)'
    <3>1. CASE d = c
      BY <1>8, <2>2, <3>1 DEF GroupClient
    <3>2. CASE d # c
      <4>1. handler'[d] = handler[d] /\ tmChan'[d] = tmChan[d]
        BY <1>8, <2>2, <3>2, GroupConn
      <4>2. last => handler[d].st = "none"
        BY <3>2 DEF last, Live
      <4> QED BY <1>5, <2>5, <4>1, <4>2 DEF GroupClient, Live
    <3> QED BY <3>1, <3>2
  <2>13. WayInv'
    BY <2>8 DEF WayInv
  <2> QED BY <1>3, <1>4, <1>7, <1>8, <1>9, <2>2, <2>3, <2>4, <2>5, <2>7, <2>8, <2>9, <2>11, <2>12,
             <2>13, GroupStep
<1>12. CASE r # Lost
  <2>1. /\ \/ r.kind = "abort" /\ handler' = handler
           \/ /\ r.kind # "abort"
              /\ handler' = [handler EXCEPT ![c].st = "busy", ![c].req = r]
        /\ ids' = ids /\ conn' = conn /\ replies' = replies /\ leaked' = leaked
        /\ broken' = broken /\ sock' = sock
    BY <1>4, <1>12
  <2>2. r \in ReqOf(c) /\ r \in Req
    BY <1>6, <1>12 DEF ReqOf
  <2>3. /\ handler' \in [Clients -> HandlerRecs]
        /\ \A d \in Clients \ {c} : handler'[d] = handler[d]
        /\ handler'[c].id = handler[c].id
        /\ \/ r.kind = "abort" /\ handler'[c] = handler[c]
           \/ r.kind # "abort" /\ handler'[c].st = "busy" /\ handler'[c].req = r
    BY <1>10, <2>1, <2>2 DEF HandlerRecs, HandlerStates
  <2>4. IdInv'
    BY <1>1, <1>2, <2>1, <2>3, IdKept DEF Live
  <2>5. PoolInv'
    <3>1. PoolWaits
      BY <1>2, <2>3 DEF PoolWaits
    <3> QED BY <1>1, <1>4, <3>1, PoolQuiet DEF poolVars
  <2>6. ConnTypes'
    BY <1>1, <1>4, <1>7, <1>8, <2>1, <2>3 DEF ConnTypes
  <2>7. GroupSock'
    BY <1>5, <2>1 DEF GroupSock
  <2>8. GroupShape'
    <3>1. \A d \in Group : (handler'[d].st # "none") <=> (handler[d].st # "none")
      BY <1>2, <2>3, GroupConn
    <3> QED BY <1>5, <1>7, <2>1, <3>1, GroupConn DEF GroupShape, Live
  <2>9. ASSUME NEW d \in Group
        PROVE  GroupClient(d)'
    <3>1. CASE d = c
      BY <1>2, <1>5, <1>6, <1>8, <2>1, <2>2, <2>3, <3>1 DEF GroupClient
    <3>2. CASE d # c
      <4>1. handler'[d] = handler[d] /\ tmChan'[d] = tmChan[d]
        BY <1>8, <2>3, <3>2, GroupConn
      <4> QED BY <1>5, <2>1, <4>1 DEF GroupClient, Live
    <3> QED BY <3>1, <3>2
  <2>10. ASSUME NEW d \in Group, Alone(d), ~broken'[Group]
         PROVE  WayOnce(d)' /\ WayWaits(d)'
    <3>1. WayOnce(d) /\ WayWaits(d)
      BY <1>1, <2>1, <2>10 DEF WayInv
    <3>2. CASE d # c
      <4>1. handler'[d] = handler[d] /\ tmChan'[d] = tmChan[d]
        BY <1>8, <2>3, <3>2, GroupConn
      <4>2. InHandler(d)' <=> InHandler(d)
        BY <4>1 DEF InHandler
      <4> QED BY <1>7, <2>1, <3>1, <4>1, <4>2, WayKept
    <3>3. CASE d = c
      <4>1. /\ InSock(d)' = InSock(d) /\ InReplies(d)' = InReplies(d)
            /\ \A i \in 1..Len(sock[Group]) : SockAt(d, i)' = SockAt(d, i)
            /\ \A i \in 1..Len(replies) : ReplyAt(d, i)' = ReplyAt(d, i)
        BY <2>1 DEF InSock, InReplies, SockAt, ReplyAt
      <4>2. ~InHandler(d) /\ ~InChan(d)'
        BY <1>2, <1>8, <3>3 DEF InHandler, InChan
      <4>3. InHandler(d)' => InChan(d) /\ handler'[d].req = tmChan[d][1]
        BY <1>2, <1>6, <1>12, <2>3, <3>3 DEF InHandler, InChan, Answered
      <4>4. WayOnce(d)'
        BY <2>1, <3>1, <4>1, <4>2, <4>3 DEF WayOnce
      <4>5. WayWaits(d)'
        BY <1>7, <2>1, <3>1, <4>1, <4>2, <4>3 DEF WayWaits
      <4> QED BY <4>4, <4>5
    <3> QED BY <3>2, <3>3
  <2>11. WayInv'
    BY <2>10 DEF WayInv
  <2> QED BY <1>3, <1>4, <1>7, <1>8, <1>9, <2>1, <2>3, <2>4, <2>5, <2>6, <2>7, <2>8, <2>9, <2>11,
             GroupStep
<1> QED BY <1>11, <1>12

LEMMA SendMultiReplyStep ==
    ASSUME ConnInv, SendMultiReply
    PROVE  ConnInv'
<1> DEFINE c == Head(replies).client
           reply == Head(replies).reply
<1>1. /\ ConnTypes /\ IdInv /\ SingleInv /\ GroupInv /\ WayInv /\ PoolInv /\ ReplyIsOwn
  BY DEF ConnInv
<1>2. /\ replies # <<>> /\ replies' = Tail(replies)
      /\ \/ ~broken[Group] /\ Receives(c, reply)
         \/ broken[Group] /\ UNCHANGED <<waiting, misled>>
      /\ UNCHANGED <<sent, connVars, handler, tmChan, idVars, poolVars, upVars>>
  BY DEF SendMultiReply
<1>3. /\ replies \in Seq([client : Group, reply : Req]) /\ Head(replies) = replies[1]
      /\ Head(replies) \in [client : Group, reply : Req]
      /\ Tail(replies) \in Seq([client : Group, reply : Req])
  BY <1>1, <1>2, OneMessage DEF ConnTypes
<1>4. /\ Len(replies) \in Nat /\ Len(replies) > 0 /\ Len(replies') = Len(replies) - 1
      /\ \A i \in 1..Len(replies') : replies'[i] = replies[i + 1]
  BY <1>2, <1>3
<1>5. c \in Group /\ Group # {} /\ c \in Clients /\ reply \in Req
      /\ c = replies[1].client /\ reply = replies[1].reply
  BY <1>3, GroupConn
<1> HIDE DEF c, reply
<1>6. /\ conn' = conn /\ broken' = broken /\ accepts' = accepts /\ sock' = sock
      /\ lastReply' = lastReply /\ ids' = ids /\ leaked' = leaked
  BY <1>2 DEF connVars, idVars
<1>7. GroupSock /\ GroupShape /\ \A d \in Group : GroupClient(d)
  BY <1>1, <1>5 DEF GroupInv
<1>8. 1 \in 1..Len(replies) /\ ReplyAt(c, 1)
  BY <1>4, <1>5 DEF ReplyAt
<1>9. ReplyIsOwn'
  <2>1. CASE misled' = misled
    BY <1>1, <2>1 DEF ReplyIsOwn
  <2>2. CASE ~broken[Group] /\ Receives(c, reply)
    <3>1. Alone(c) => waiting[c] = reply
      BY <1>1, <1>5, <1>8, <2>2 DEF WayInv, WayWaits
    <3>2. misled' = misled \/ (misled' = misled \cup {c} /\ ~Alone(c))
      BY <2>2, <3>1 DEF Receives
    <3> QED BY <1>1, <3>2 DEF ReplyIsOwn
  <2> QED BY <1>2, <2>1, <2>2
<1>10. /\ \A d \in Clients \ {c} : waiting'[d] = waiting[d]
       /\ waiting' \in [Clients -> Req \cup {None}]
       /\ ~broken[Group] => waiting'[c] = None
       /\ broken[Group] => waiting' = waiting
  <2>1. waiting \in [Clients -> Req \cup {None}]
    BY <1>1 DEF ConnTypes
  <2> QED BY <1>2, <1>5, <2>1 DEF Receives
<1>11. ConnTypes'
  BY <1>1, <1>2, <1>3, <1>6, <1>10 DEF ConnTypes
<1>12. IdInv'
  BY <1>1, <1>2, <1>6, IdKept DEF Live
<1>13. PoolInv'
  BY <1>1, <1>2, PoolQuiet DEF PoolWaits, poolVars
<1>14. GroupSock'
  BY <1>6, <1>7 DEF GroupSock
<1>15. GroupShape'
  BY <1>2, <1>6, <1>7, <1>10 DEF GroupShape, Live
<1>16. \A d \in Group : GroupClient(d)'
  BY <1>2, <1>6, <1>7 DEF GroupClient, Live
<1>17. ASSUME NEW d \in Group, Alone(d), ~broken'[Group]
       PROVE  WayOnce(d)' /\ WayWaits(d)'
  <2>1. WayOnce(d) /\ WayWaits(d)
    BY <1>1, <1>6, <1>17 DEF WayInv
  <2>2. /\ InSock(d)' = InSock(d) /\ InChan(d)' = InChan(d) /\ InHandler(d)' = InHandler(d)
        /\ \A i \in 1..Len(sock[Group]) : SockAt(d, i)' = SockAt(d, i)
    BY <1>2, <1>6 DEF InSock, InChan, InHandler, SockAt
  <2>3. ASSUME NEW i \in 1..Len(replies')
        PROVE  /\ i + 1 \in 1..Len(replies) /\ i + 1 # 1
               /\ ReplyAt(d, i)' => ReplyAt(d, i + 1)
               /\ replies'[i] = replies[i + 1]
    <3>1. i + 1 \in 1..Len(replies) /\ i + 1 # 1 /\ replies'[i] = replies[i + 1]
      BY <1>4
    <3> QED BY <3>1 DEF ReplyAt
  <2>4. /\ \A i, j \in 1..Len(replies) : ReplyAt(d, i) /\ ReplyAt(d, j) => i = j
        /\ \A i \in 1..Len(replies) : ReplyAt(d, i) => waiting[d] = replies[i].reply
    BY <2>1 DEF WayOnce, WayWaits
  <2>5. CASE d = c
    <3>1. InReplies(d) /\ ~InSock(d) /\ ~InChan(d) /\ ~InHandler(d)
      BY <1>8, <2>1, <2>5 DEF InReplies, WayOnce
    <3>2. ~InReplies(d)'
      BY <1>8, <2>3, <2>4, <2>5 DEF InReplies
    <3> QED BY <2>2, <3>1, <3>2, WayEmpty
  <2>6. CASE d # c
    <3>1. waiting'[d] = waiting[d]
      BY <1>10, <2>6, GroupConn
    <3>2. InReplies(d)' => InReplies(d)
      BY <2>3 DEF InReplies
    <3>3. ASSUME NEW i \in 1..Len(replies'), NEW j \in 1..Len(replies'),
                 ReplyAt(d, i)', ReplyAt(d, j)'
          PROVE  i = j
      <4>1. i + 1 = j + 1
        BY <2>3, <2>4, <3>3
      <4> QED BY <4>1
    <3>4. \A i \in 1..Len(replies') : ReplyAt(d, i)' => waiting[d] = replies'[i].reply
      BY <2>3, <2>4
    <3>5. WayOnce(d)'
      BY <1>6, <2>1, <2>2, <3>2, <3>3 DEF WayOnce
    <3>6. WayWaits(d)'
      BY <1>2, <1>6, <2>1, <2>2, <3>1, <3>4 DEF WayWaits
    <3> QED BY <3>5, <3>6
  <2> QED BY <2>5, <2>6
<1>18. WayInv'
  BY <1>17 DEF WayInv
<1>19. \A d \in Clients \ Group : waiting'[d] = waiting[d]
  BY <1>5, <1>10
<1> QED BY <1>2, <1>5, <1>6, <1>9, <1>11, <1>12, <1>13, <1>14, <1>15, <1>16, <1>18, <1>19, GroupStep

-----------------------------------------------------------------------------
(* Request handlers *)

\* A handler at work has a request of its client.
LEMMA AtWork ==
    ASSUME ConnInv, NEW c \in Clients, handler[c].st \in {"busy", "pool"}
    PROVE  /\ handler[c].req \in ReqOf(c) /\ handler[c].req \in Req
           /\ c \in Singles => conn[{c}] = "serving"
<1>1. CASE c \in Singles
  <2>1. SingleShape(c)
    BY <1>1 DEF ConnInv, SingleInv
  <2>2. conn[{c}] = "serving"
    BY <2>1 DEF SingleShape
  <2> QED BY <2>1, <2>2 DEF SingleShape, ReqOf
<1>2. CASE c \in Group
  <2>1. GroupClient(c)
    BY <1>2 DEF ConnInv, GroupInv
  <2> QED BY <1>2, <2>1, GroupConn DEF GroupClient, ReqOf
<1> QED BY <1>1, <1>2 DEF Clients

LEMMA HandlerRepliesStep ==
    ASSUME ConnInv, NEW c \in Clients, handler[c].st \in {"busy", "pool"},
           NEW result \in Req, Alone(c) => result = handler[c].req,
           HandlerReplies(c, result), PoolInv'
    PROVE  ConnInv'
<1> DEFINE k == ConnOf(c)
<1>1. /\ ConnTypes /\ IdInv /\ SingleInv /\ GroupInv /\ WayInv /\ PoolInv /\ ReplyIsOwn
  BY DEF ConnInv
<1>2. /\ handler' = [handler EXCEPT ![c].st = "idle", ![c].req = None]
      /\ \/ /\ k # Group
            /\ conn' = [conn EXCEPT ![k] = "sending"]
            /\ lastReply' = [lastReply EXCEPT ![k] = result]
            /\ UNCHANGED replies
         \/ /\ k = Group
            /\ replies' = Append(replies, [client |-> c, reply |-> result])
            /\ UNCHANGED <<conn, lastReply>>
      /\ UNCHANGED <<clientVars, broken, accepts, sock, tmChan, sender, idVars>>
  BY DEF HandlerReplies
<1>3. /\ waiting' = waiting /\ misled' = misled /\ sent' = sent /\ ids' = ids
      /\ leaked' = leaked
  BY <1>2 DEF clientVars, idVars
<1>4. /\ handler' \in [Clients -> HandlerRecs]
      /\ handler'[c].st = "idle" /\ handler'[c].id = handler[c].id
      /\ \A d \in Clients \ {c} : handler'[d] = handler[d]
  <2>1. handler \in [Clients -> HandlerRecs]
    BY <1>1 DEF ConnTypes
  <2> QED BY ZenonT(60), <1>2, <2>1 DEF HandlerRecs, HandlerStates
<1>5. IdInv'
  BY <1>1, <1>3, <1>4, IdKept DEF Live
<1>6. ReplyIsOwn'
  BY <1>1, <1>3 DEF ReplyIsOwn
<1>7. CASE c \in Singles
  <2>1. k = {c} /\ k # Group /\ k \in Conns
    BY <1>7, SingleConn
  <2>2. /\ conn' = [conn EXCEPT ![k] = "sending"]
        /\ lastReply' = [lastReply EXCEPT ![k] = result] /\ replies' = replies
    BY <1>2, <2>1
  <2> HIDE DEF k
  <2>3. /\ conn' \in [Conns -> ConnStates] /\ conn'[k] = "sending"
        /\ \A j \in Conns \ {k} : conn'[j] = conn[j]
    BY <1>1, <2>1, <2>2 DEF ConnTypes, ConnStates
  <2>4. /\ lastReply' \in [Conns -> Req \cup {None}] /\ lastReply'[k] = result
        /\ \A j \in Conns \ {k} : lastReply'[j] = lastReply[j]
    BY <1>1, <2>1, <2>2 DEF ConnTypes
  <2>5. ConnTypes'
    BY <1>1, <1>2, <1>3, <1>4, <2>2, <2>3, <2>4 DEF ConnTypes
  <2>6. SingleShape(c) /\ SingleWaits(c)
    BY <1>1, <1>7 DEF SingleInv
  <2>7. conn[{c}] = "serving" /\ handler[c].req \in ReqOf(c)
    BY <1>7, AtWork
  <2>8. SingleShape(c)'
    BY <1>2, <1>4, <2>1, <2>3, <2>6, <2>7 DEF SingleShape
  <2>9. SingleWaits(c)'
    BY <1>2, <1>3, <2>1, <2>3, <2>4, <2>6, <2>7 DEF SingleWaits
  <2> QED BY <1>2, <1>3, <1>4, <1>5, <1>6, <1>7, <2>1, <2>2, <2>3, <2>4, <2>5, <2>8, <2>9,
             SingleStep
<1>8. CASE c \in Group
  <2>1. k = Group /\ Group # {}
    BY <1>8, GroupConn
  <2> DEFINE m == [client |-> c, reply |-> result]
  <2>2. /\ replies' = Append(replies, m) /\ conn' = conn /\ lastReply' = lastReply
        /\ broken' = broken /\ sock' = sock /\ tmChan' = tmChan /\ accepts' = accepts
    BY <1>2, <2>1
  <2>3. m \in [client : Group, reply : Req] /\ m.client = c /\ m.reply = result
    BY <1>8
  <2> HIDE DEF m
  <2>4. replies \in Seq([client : Group, reply : Req])
    BY <1>1 DEF ConnTypes
  <2>5. /\ replies' \in Seq([client : Group, reply : Req])
        /\ Len(replies) \in Nat /\ Len(replies') = Len(replies) + 1
        /\ \A i \in 1..Len(replies) : replies'[i] = replies[i]
        /\ replies'[Len(replies) + 1] = m
    BY <2>2, <2>3, <2>4, AppendProperties
  <2>6. ConnTypes'
    BY <1>1, <1>3, <1>4, <2>2, <2>5 DEF ConnTypes
  <2>7. GroupSock /\ GroupShape /\ \A d \in Group : GroupClient(d)
    BY <1>1, <2>1 DEF GroupInv
  <2>8. GroupSock'
    BY <2>2, <2>7 DEF GroupSock
  <2>9. conn[Group] \in {"multi", "closing"}
    BY <1>8, <2>7 DEF GroupClient
  <2>10. GroupShape'
    <3>1. \A d \in Group : (handler'[d].st # "none") <=> (handler[d].st # "none")
      BY <1>4, GroupConn
    <3> QED BY <1>3, <2>2, <2>7, <2>9, <3>1 DEF GroupShape, Live
  <2>11. ASSUME NEW d \in Group
         PROVE  GroupClient(d)'
    <3>1. CASE d = c
      BY <1>4, <2>2, <2>7, <3>1 DEF GroupClient, Live
    <3>2. CASE d # c
      <4>1. handler'[d] = handler[d]
        BY <1>4, <3>2, GroupConn
      <4> QED BY <2>2, <2>7, <4>1 DEF GroupClient, Live
    <3> QED BY <3>1, <3>2
  <2>12. ASSUME NEW d \in Group, Alone(d), ~broken'[Group]
         PROVE  WayOnce(d)' /\ WayWaits(d)'
    <3>1. WayOnce(d) /\ WayWaits(d)
      BY <1>1, <2>2, <2>12 DEF WayInv
    <3>2. /\ InSock(d)' = InSock(d) /\ InChan(d)' = InChan(d)
          /\ \A i \in 1..Len(sock[Group]) : SockAt(d, i)' = SockAt(d, i)
      BY <2>2 DEF InSock, InChan, SockAt
    <3>3. ASSUME NEW i \in 1..Len(replies')
          PROVE  \/ /\ i \in 1..Len(replies) /\ replies'[i] = replies[i]
                    /\ ReplyAt(d, i)' => ReplyAt(d, i)
                 \/ /\ i = Len(replies) + 1 /\ replies'[i] = m
                    /\ ReplyAt(d, i)' => d = c
      <4>1. \/ i \in 1..Len(replies) /\ replies'[i] = replies[i]
            \/ i = Len(replies) + 1 /\ replies'[i] = m
        BY <2>5
      <4> QED BY <2>3, <4>1 DEF ReplyAt
    <3>4. CASE d = c
      <4>1. InHandler(d) /\ ~InHandler(d)'
        BY <1>4, <3>4 DEF InHandler
      <4>2. ~InSock(d) /\ ~InChan(d) /\ ~InReplies(d) /\ waiting[d] = result
        BY <2>12, <3>1, <3>4, <4>1 DEF WayOnce, WayWaits
      <4>3. \A i \in 1..Len(replies') : ReplyAt(d, i)' => i = Len(replies) + 1 /\ replies'[i] = m
        BY <3>3, <4>2 DEF InReplies
      <4>4. \A i \in 1..Len(sock[Group]) : ~SockAt(d, i)
        BY <4>2 DEF InSock
      <4>5. WayOnce(d)'
        BY <2>2, <3>2, <4>1, <4>2, <4>3, <4>4 DEF WayOnce
      <4>6. WayWaits(d)'
        BY <1>3, <2>2, <2>3, <3>2, <4>1, <4>2, <4>3, <4>4 DEF WayWaits
      <4> QED BY <4>5, <4>6
    <3>5. CASE d # c
      <4>1. handler'[d] = handler[d]
        BY <1>4, <3>5, GroupConn
      <4>2. InHandler(d)' = InHandler(d)
        BY <4>1 DEF InHandler
      <4>3. \A i \in 1..Len(replies') : ReplyAt(d, i)' =>
               i \in 1..Len(replies) /\ ReplyAt(d, i) /\ replies'[i] = replies[i]
        BY <3>3, <3>5
      <4>4. InReplies(d)' => InReplies(d)
        BY <4>3 DEF InReplies
      <4>5. WayOnce(d)'
        BY <2>2, <3>1, <3>2, <4>2, <4>3, <4>4 DEF WayOnce
      <4>6. WayWaits(d)'
        BY <1>3, <2>2, <3>1, <3>2, <4>1, <4>2, <4>3 DEF WayWaits
      <4> QED BY <4>5, <4>6
    <3> QED BY <3>4, <3>5
  <2>13. WayInv'
    BY <2>12 DEF WayInv
  <2> QED BY <1>3, <1>4, <1>5, <1>6, <1>8, <2>1, <2>2, <2>6, <2>8, <2>10, <2>11, <2>13, GroupStep
<1> QED BY <1>7, <1>8 DEF Clients

LEMMA OutEmpty ==
    ASSUME NEW c \in Clients, ~InReqs(c)', ~InToB(c)', ~InBoxes(c)'
    PROVE  OutOnce(c)' /\ OutWaits(c)'
<1>1. /\ \A i \in 1..Len(reqs') : ~ReqAt(c, i)'
      /\ \A p \in PoolConns : \A i \in 1..Len(pool'[p].toB) : ~ToBAt(c, p, i)'
      /\ \A b \in boxes' : b.chan.client # c
  BY DEF InReqs, InToB, InBoxes
<1>2. OutOnce(c)'
  BY <1>1 DEF OutOnce
<1>3. OutWaits(c)'
  BY <1>1 DEF OutWaits
<1> QED BY <1>2, <1>3

LEMMA OutFewer ==
    ASSUME NEW c \in Clients, OutOnce(c), OutWaits(c), reqs' = reqs, pool' = pool,
           boxes' \subseteq boxes, handler'[c] = handler[c]
    PROVE  OutOnce(c)' /\ OutWaits(c)'
<1>1. /\ InReqs(c)' = InReqs(c) /\ InToB(c)' = InToB(c) /\ (InBoxes(c)' => InBoxes(c))
      /\ \A i : ReqAt(c, i)' = ReqAt(c, i)
      /\ \A p, i : ToBAt(c, p, i)' = ToBAt(c, p, i)
  BY DEF InReqs, InToB, InBoxes, ReqAt, ToBAt
<1>2. OutOnce(c)'
  <2>1. \A i, j \in 1..Len(reqs') : ReqAt(c, i)' /\ ReqAt(c, j)' => i = j
    BY <1>1 DEF OutOnce
  <2>2. \A p, q \in PoolConns : \A i \in 1..Len(pool'[p].toB) : \A j \in 1..Len(pool'[q].toB) :
          ToBAt(c, p, i)' /\ ToBAt(c, q, j)' => p = q /\ i = j
    BY <1>1 DEF OutOnce
  <2> QED BY <1>1, <2>1, <2>2 DEF OutOnce
<1>3. OutWaits(c)'
  <2>1. \A b \in boxes' : b.chan.client = c => b.chan = handler[c].req /\ b.reply = b.chan
    BY DEF OutWaits
  <2>2. \A p \in PoolConns : \A i \in 1..Len(pool'[p].toB) :
          ToBAt(c, p, i)' => /\ pool'[p].toB[i] = handler[c].req
                             /\ pool'[p].map[PoolId(c)] = handler[c].req
    BY <1>1 DEF OutWaits
  <2>3. \A i \in 1..Len(reqs') : ReqAt(c, i)' => reqs'[i].req = handler[c].req
    BY <1>1 DEF OutWaits
  <2> QED BY <2>1, <2>2, <2>3 DEF OutWaits
<1> QED BY <1>2, <1>3

LEMMA ServeLocalStep ==
    ASSUME ConnInv, NEW c \in Clients, ServeLocal(c)
    PROVE  ConnInv'
<1>1. /\ handler[c].st = "busy" /\ HandlerReplies(c, handler[c].req)
      /\ boxes' = boxes /\ reqs' = reqs /\ pool' = pool
      /\ handler' = [handler EXCEPT ![c].st = "idle", ![c].req = None]
  BY DEF ServeLocal, HandlerReplies
<1>2. handler[c].req \in Req
  BY <1>1, AtWork
<1>3. PoolWaits
  BY <1>1 DEF ConnInv, ConnTypes, PoolWaits
<1>4. PoolInv'
  BY <1>1, <1>3, PoolQuiet DEF ConnInv
<1> QED BY <1>1, <1>2, <1>4, HandlerRepliesStep

LEMMA ReceiveReplyStep ==
    ASSUME ConnInv, NEW c \in Clients, ReceiveReply(c)
    PROVE  ConnInv'
<1>1. handler[c].st = "pool"
  BY DEF ReceiveReply
<1>2. PICK b \in boxes : /\ b.chan = handler[c].req /\ boxes' = boxes \ {b}
                         /\ HandlerReplies(c, b.reply)
  BY DEF ReceiveReply
<1>3. /\ reqs' = reqs /\ pool' = pool
      /\ handler' = [handler EXCEPT ![c].st = "idle", ![c].req = None]
  BY <1>2 DEF HandlerReplies
<1>4. ConnTypes /\ PoolInv /\ PoolTypes /\ OutInv
  BY DEF ConnInv, PoolInv
<1>5. \A x \in boxes : x \in [chan : Req, reply : Req]
  BY <1>4 DEF PoolTypes
<1>6. handler[c].req \in Req /\ handler[c].req.client = c
  BY <1>1, AtWork DEF ReqOf
<1>7. b.reply \in Req
  BY <1>5
<1>8. InBoxes(c)
  BY <1>2, <1>6 DEF InBoxes
<1>9. Alone(c) => b.reply = handler[c].req
  BY <1>2, <1>4, <1>6 DEF OutInv, OutWaits
<1>10. \A d \in Clients \ {c} : handler'[d] = handler[d]
  BY <1>3, <1>4 DEF ConnTypes
<1>11. PoolTypes' /\ MapInv' /\ ChanInv'
  BY <1>2, <1>3, <1>4 DEF PoolInv, PoolTypes, MapInv, ChanInv
<1>12. ASSUME NEW d \in Clients, Alone(d)
       PROVE  OutOnce(d)' /\ OutWaits(d)'
  <2>1. OutOnce(d) /\ OutWaits(d)
    BY <1>4, <1>12 DEF OutInv
  <2>2. /\ InReqs(d)' = InReqs(d) /\ InToB(d)' = InToB(d)
        /\ \A i : ReqAt(d, i)' = ReqAt(d, i)
        /\ \A p, i : ToBAt(d, p, i)' = ToBAt(d, p, i)
    BY <1>3 DEF InReqs, InToB, ReqAt, ToBAt
  <2>3. CASE d = c
    <3>1. ~InReqs(d) /\ ~InToB(d)
      BY <1>8, <2>1, <2>3 DEF OutOnce
    <3>2. ASSUME NEW x \in boxes, x.chan.client = c
          PROVE  x = b
      <4>1. x.chan = b.chan /\ x.reply = b.reply
        BY <1>2, <1>6, <2>1, <2>3, <3>2 DEF OutWaits
      <4> QED BY <1>5, <4>1
    <3>3. ~InBoxes(d)'
      BY <1>2, <2>3, <3>2 DEF InBoxes
    <3> QED BY <2>2, <3>1, <3>3, OutEmpty
  <2>4. CASE d # c
    <3>1. handler'[d] = handler[d]
      BY <1>10, <2>4
    <3>2. boxes' \subseteq boxes
      BY <1>2
    <3> QED BY <1>3, <2>1, <3>1, <3>2, OutFewer
  <2> QED BY <2>3, <2>4
<1>13. PoolInv'
  BY <1>11, <1>12 DEF PoolInv, OutInv
<1> QED BY <1>1, <1>2, <1>7, <1>9, <1>13, HandlerRepliesStep

LEMMA SendRequestStep ==
    ASSUME ConnInv, NEW c \in Clients, handler[c].st = "busy", SendRequest(c)
    PROVE  ConnInv'
<1> DEFINE m == [req |-> handler[c].req, chan |-> handler[c].req]
<1>1. /\ ConnTypes /\ IdInv /\ SingleInv /\ GroupInv /\ WayInv /\ PoolInv /\ ReplyIsOwn
  BY DEF ConnInv
<1>2. /\ reqs' = Append(reqs, m) /\ handler' = [handler EXCEPT ![c].st = "pool"]
      /\ UNCHANGED <<clientVars, connVars, groupVars, idVars, nConns, pool, boxes, upVars>>
  BY DEF SendRequest
<1>3. handler[c].req \in Req /\ handler[c].req.client = c
  BY AtWork DEF ReqOf
<1>4. m \in [req : Req, chan : Req] /\ m.req = handler[c].req /\ m.chan = m.req
  BY <1>3
<1> HIDE DEF m
<1>5. /\ conn' = conn /\ broken' = broken /\ sock' = sock /\ lastReply' = lastReply
      /\ accepts' = accepts /\ waiting' = waiting /\ misled' = misled /\ sent' = sent
      /\ tmChan' = tmChan /\ replies' = replies /\ ids' = ids /\ leaked' = leaked
      /\ pool' = pool /\ boxes' = boxes
  BY <1>2 DEF connVars, clientVars, groupVars, idVars
<1>6. /\ handler' \in [Clients -> HandlerRecs]
      /\ handler'[c].st = "pool" /\ handler'[c].id = handler[c].id
      /\ handler'[c].req = handler[c].req
      /\ \A d \in Clients \ {c} : handler'[d] = handler[d]
  <2>1. handler \in [Clients -> HandlerRecs]
    BY <1>1 DEF ConnTypes
  <2> QED BY <1>2, <2>1 DEF HandlerRecs, HandlerStates
<1>7. ConnTypes' /\ ReplyIsOwn'
  BY <1>1, <1>5, <1>6 DEF ConnTypes, ReplyIsOwn
<1>8. IdInv'
  BY <1>1, <1>5, <1>6, IdKept DEF Live
<1>9. /\ reqs \in Seq([req : Req, chan : Req]) /\ reqs' \in Seq([req : Req, chan : Req])
      /\ Len(reqs) \in Nat /\ Len(reqs') = Len(reqs) + 1
      /\ \A i \in 1..Len(reqs) : reqs'[i] = reqs[i]
      /\ reqs'[Len(reqs) + 1] = m
  <2>1. reqs \in Seq([req : Req, chan : Req])
    BY <1>1 DEF PoolInv, PoolTypes
  <2> QED BY <1>2, <1>4, <2>1, AppendProperties
<1>10. \A i \in 1..Len(reqs') : \/ i \in 1..Len(reqs) /\ reqs'[i] = reqs[i]
                                \/ i = Len(reqs) + 1 /\ reqs'[i] = m
  BY <1>9
<1>11. PoolTypes' /\ MapInv'
  BY <1>1, <1>5, <1>9 DEF PoolInv, PoolTypes, MapInv
<1>12. ChanInv'
  BY <1>1, <1>4, <1>10 DEF PoolInv, ChanInv
<1>13. ASSUME NEW d \in Clients, Alone(d)
       PROVE  OutOnce(d)' /\ OutWaits(d)'
  <2>1. OutOnce(d) /\ OutWaits(d)
    BY <1>1, <1>13 DEF PoolInv, OutInv
  <2>2. /\ InBoxes(d)' = InBoxes(d) /\ InToB(d)' = InToB(d)
        /\ \A p, i : ToBAt(d, p, i)' = ToBAt(d, p, i)
    BY <1>5 DEF InBoxes, InToB, ToBAt
  <2>3. CASE d = c
    <3>1. ~InReqs(d) /\ ~InToB(d) /\ ~InBoxes(d)
      BY <2>1, <2>3 DEF OutOnce
    <3>2. \A i \in 1..Len(reqs') : ReqAt(d, i)' => i = Len(reqs) + 1 /\ reqs'[i] = m
      BY <1>10, <3>1 DEF InReqs, ReqAt
    <3>3. /\ \A p \in PoolConns : \A i \in 1..Len(pool[p].toB) : ~ToBAt(d, p, i)
          /\ \A b \in boxes : b.chan.client # d
      BY <3>1 DEF InToB, InBoxes
    <3>4. OutOnce(d)'
      BY <1>5, <1>6, <2>2, <2>3, <3>1, <3>2, <3>3 DEF OutOnce
    <3>5. OutWaits(d)'
      BY <1>4, <1>5, <1>6, <2>2, <2>3, <3>2, <3>3 DEF OutWaits
    <3> QED BY <3>4, <3>5
  <2>4. CASE d # c
    <3>1. handler'[d] = handler[d]
      BY <1>6, <2>4
    <3>2. \A i \in 1..Len(reqs') : ReqAt(d, i)' =>
             i \in 1..Len(reqs) /\ ReqAt(d, i) /\ reqs'[i] = reqs[i]
      BY <1>3, <1>4, <1>10, <2>4 DEF ReqAt
    <3>3. InReqs(d)' => InReqs(d)
      BY <3>2 DEF InReqs
    <3>4. OutOnce(d)'
      BY <1>5, <2>1, <2>2, <3>1, <3>2, <3>3 DEF OutOnce
    <3>5. OutWaits(d)'
      BY <1>5, <2>1, <2>2, <3>1, <3>2 DEF OutWaits
    <3> QED BY <3>4, <3>5
  <2> QED BY <2>3, <2>4
<1>14. PoolInv'
  BY <1>11, <1>12, <1>13 DEF PoolInv, OutInv
<1>15. CASE c \in Singles
  <2>1. SingleShape(c) /\ SingleWaits(c) /\ conn[{c}] = "serving"
    BY <1>1, <1>15, AtWork DEF SingleInv
  <2>2. SingleShape(c)'
    BY <1>5, <1>6, <2>1 DEF SingleShape
  <2>3. SingleWaits(c)'
    BY <1>5, <1>6, <2>1 DEF SingleWaits
  <2> QED BY <1>5, <1>6, <1>7, <1>8, <1>14, <1>15, <2>2, <2>3, SingleStep
<1>16. CASE c \in Group
  <2>1. GroupSock /\ GroupShape /\ \A d \in Group : GroupClient(d)
    BY <1>1, <1>16 DEF GroupInv
  <2>2. GroupSock'
    BY <1>5, <2>1 DEF GroupSock
  <2>3. GroupShape'
    <3>1. \A d \in Group : (handler'[d].st # "none") <=> (handler[d].st # "none")
      BY <1>6, GroupConn
    <3> QED BY <1>5, <2>1, <3>1 DEF GroupShape, Live
  <2>4. ASSUME NEW d \in Group
        PROVE  GroupClient(d)'
    <3>1. CASE d = c
      BY <1>5, <1>6, <2>1, <3>1 DEF GroupClient, Live
    <3>2. CASE d # c
      BY <1>5, <1>6, <2>1, <3>2, GroupConn DEF GroupClient, Live
    <3> QED BY <3>1, <3>2
  <2>5. ASSUME NEW d \in Group, Alone(d), ~broken'[Group]
        PROVE  WayOnce(d)' /\ WayWaits(d)'
    <3>1. WayOnce(d) /\ WayWaits(d)
      BY <1>1, <1>5, <2>5 DEF WayInv
    <3>2. (InHandler(d)' <=> InHandler(d)) /\ (InHandler(d) => handler'[d].req = handler[d].req)
      BY <1>6, GroupConn DEF InHandler
    <3> QED BY <1>5, <3>1, <3>2, WayKept
  <2>6. WayInv'
    BY <2>5 DEF WayInv
  <2>7. Group # {} /\ \A d \in Clients \ Group : handler'[d] = handler[d]
    BY <1>6, <1>16
  <2> QED BY <1>5, <1>7, <1>8, <1>14, <2>2, <2>3, <2>4, <2>6, <2>7, GroupStep
<1> QED BY <1>15, <1>16 DEF Clients

LEMMA HandlersStep ==
    ASSUME ConnInv, NEW c \in Clients, HandlerStep(c)
    PROVE  ConnInv'
<1>1. CASE HandleRemoteStatic(c) \/ StartTxnForRemote(c)
  <2>1. handler[c].st = "busy" /\ SendRequest(c)
    BY <1>1 DEF HandleRemoteStatic, StartTxnForRemote
  <2> QED BY <2>1, SendRequestStep
<1> QED BY <1>1, MultiTakeStep, ServeLocalStep, ReceiveReplyStep DEF HandlerStep

-----------------------------------------------------------------------------
(* The pool and the other server *)

LEMMA PoolStep ==
    ASSUME ConnInv, PoolInv', UNCHANGED <<clientVars, connVars, handler, tmChan, replies, idVars>>
    PROVE  ConnInv'
<1>1. /\ conn' = conn /\ broken' = broken /\ sock' = sock /\ lastReply' = lastReply
      /\ accepts' = accepts /\ waiting' = waiting /\ misled' = misled /\ sent' = sent
      /\ tmChan' = tmChan /\ replies' = replies /\ ids' = ids /\ leaked' = leaked
      /\ handler' = handler
  BY DEF connVars, clientVars, idVars
<1>2. ConnTypes' /\ ReplyIsOwn'
  BY <1>1 DEF ConnInv, ConnTypes, ReplyIsOwn
<1>3. IdInv'
  BY <1>1, IdKept DEF ConnInv, Live
<1>4. \A c \in Singles : SameSingle(c)
  BY <1>1 DEF SameSingle
<1>5. SameGroup
  BY <1>1 DEF SameGroup
<1> QED BY <1>2, <1>3, <1>4, <1>5, SinglesQuiet, GroupQuiet DEF ConnInv

LEMMA MapValues ==
    ASSUME NEW M \in PoolMaps, NEW i \in DOMAIN M
    PROVE  M[i] \in Req
BY DEF PoolMaps

\* What is in a connection of the pool.
LEMMA PoolRecFacts ==
    ASSUME PoolTypes, NEW p \in PoolConns
    PROVE  /\ pool[p] \in PoolRecs /\ pool[p].map \in PoolMaps /\ pool[p].toB \in Seq(Req)
           /\ pool[p].locked \in Nat /\ Len(pool[p].toB) \in Nat
           /\ \A i \in 1..Len(pool[p].toB) : pool[p].toB[i] \in Req
<1>1. pool[p] \in PoolRecs
  BY DEF PoolTypes
<1>2. pool[p].map \in PoolMaps /\ pool[p].toB \in Seq(Req) /\ pool[p].locked \in Nat
  BY <1>1 DEF PoolRecs
<1>3. Len(pool[p].toB) \in Nat
  BY <1>2
<1>4. \A i \in 1..Len(pool[p].toB) : pool[p].toB[i] \in Req
  BY SMTT(60), <1>2, ElementOfSeq
<1> QED BY <1>1, <1>2, <1>3, <1>4

LEMMA PoolSendStep ==
    ASSUME ConnInv, NEW p \in PoolConns, PoolSend(p)
    PROVE  ConnInv'
<1> DEFINE m == Head(reqs)
           id == PoolId(m.req.client)
           toB == IF bUp THEN Append(pool[p].toB, m.req) ELSE pool[p].toB
           locked == IF NeedsLock(m.req) THEN pool[p].locked + 1 ELSE pool[p].locked
           map == [i \in DOMAIN pool[p].map \cup {id} |->
                      IF i = id THEN m.chan ELSE pool[p].map[i]]
<1>1. PoolTypes /\ MapInv /\ ChanInv /\ OutInv
  BY DEF ConnInv, PoolInv
<1>2. /\ reqs # <<>> /\ reqs' = Tail(reqs)
      /\ \/ pool' = pool
         \/ pool' = [pool EXCEPT ![p].toB = toB, ![p].locked = locked, ![p].map = map]
      /\ UNCHANGED <<clientVars, connVars, handler, groupVars, idVars, nConns, boxes, bUp>>
  BY DEF PoolSend, ClientID
<1>3. /\ reqs \in Seq([req : Req, chan : Req]) /\ m = reqs[1]
      /\ m \in [req : Req, chan : Req] /\ Tail(reqs) \in Seq([req : Req, chan : Req])
  BY <1>1, <1>2, OneMessage DEF PoolTypes
<1>4. /\ Len(reqs) \in Nat /\ Len(reqs) > 0 /\ Len(reqs') = Len(reqs) - 1
      /\ \A i \in 1..Len(reqs') : reqs'[i] = reqs[i + 1]
  BY <1>2, <1>3
<1>5. m.req \in Req /\ m.chan \in Req /\ m.chan = m.req /\ m.req.client \in Clients /\ id \in PoolIds
  <2>1. m.req \in Req /\ m.chan \in Req
    BY <1>3
  <2>2. m.chan = m.req
    BY <1>1, <1>3, <1>4 DEF ChanInv
  <2> QED BY <2>1, <2>2 DEF PoolIds, Req
<1>6. \A i \in 1..Len(reqs') : /\ i + 1 \in 1..Len(reqs) /\ i + 1 # 1
                               /\ reqs'[i] = reqs[i + 1]
  BY <1>4
<1>7. ASSUME NEW d
      PROVE  /\ \A i \in 1..Len(reqs') : ReqAt(d, i)' => ReqAt(d, i + 1)
             /\ InReqs(d)' => InReqs(d)
  <2>1. \A i \in 1..Len(reqs') : ReqAt(d, i)' => ReqAt(d, i + 1)
    BY <1>6 DEF ReqAt
  <2> QED BY <1>6, <2>1 DEF InReqs
<1>8. ASSUME NEW d \in Clients, Alone(d)
      PROVE  /\ \A i, j \in 1..Len(reqs') : ReqAt(d, i)' /\ ReqAt(d, j)' => i = j
             /\ \A i \in 1..Len(reqs') : ReqAt(d, i)' => reqs'[i].req = handler[d].req
             /\ m.req.client = d => InReqs(d) /\ ~InReqs(d)' /\ m.req = handler[d].req
  <2>1. OutOnce(d) /\ OutWaits(d)
    BY <1>1, <1>8 DEF OutInv
  <2>2. /\ \A i, j \in 1..Len(reqs) : ReqAt(d, i) /\ ReqAt(d, j) => i = j
        /\ \A i \in 1..Len(reqs) : ReqAt(d, i) => reqs[i].req = handler[d].req
    BY <2>1 DEF OutOnce, OutWaits
  <2>3. ASSUME NEW i \in 1..Len(reqs'), NEW j \in 1..Len(reqs'), ReqAt(d, i)', ReqAt(d, j)'
        PROVE  i = j
    <3>1. i + 1 = j + 1
      BY <1>6, <1>7, <2>2, <2>3
    <3> QED BY <3>1
  <2>4. ASSUME NEW i \in 1..Len(reqs'), ReqAt(d, i)'
        PROVE  reqs'[i].req = handler[d].req
    <3>1. i + 1 \in 1..Len(reqs) /\ ReqAt(d, i + 1) /\ reqs'[i] = reqs[i + 1]
      BY <1>6, <1>7, <2>4
    <3> QED BY <2>2, <3>1
  <2>5. ASSUME m.req.client = d
        PROVE  InReqs(d) /\ ~InReqs(d)' /\ m.req = handler[d].req
    <3>1. 1 \in 1..Len(reqs) /\ ReqAt(d, 1)
      BY <1>3, <1>4, <2>5 DEF ReqAt
    <3> QED BY <1>3, <1>6, <1>7, <2>2, <3>1 DEF InReqs
  <2> QED BY <2>3, <2>4, <2>5
<1>9. ChanInv'
  BY <1>1, <1>6 DEF ChanInv
<1>10. reqs' \in Seq([req : Req, chan : Req]) /\ boxes' = boxes /\ handler' = handler
  BY <1>2, <1>3
<1>11. CASE pool' = pool
  <2>1. PoolTypes' /\ MapInv'
    BY <1>1, <1>10, <1>11 DEF PoolTypes, MapInv
  <2>2. ASSUME NEW d \in Clients, Alone(d)
        PROVE  OutOnce(d)' /\ OutWaits(d)'
    <3>1. OutOnce(d) /\ OutWaits(d)
      BY <1>1, <2>2 DEF OutInv
    <3>2. /\ InBoxes(d)' = InBoxes(d) /\ InToB(d)' = InToB(d)
          /\ \A q, i : ToBAt(d, q, i)' = ToBAt(d, q, i)
      BY <1>10, <1>11 DEF InBoxes, InToB, ToBAt
    <3>3. OutOnce(d)'
      BY <1>7, <1>8, <1>10, <1>11, <2>2, <3>1, <3>2 DEF OutOnce
    <3>4. OutWaits(d)'
      BY <1>8, <1>10, <1>11, <2>2, <3>1, <3>2 DEF OutWaits
    <3> QED BY <3>3, <3>4
  <2>3. PoolInv'
    BY <1>9, <2>1, <2>2 DEF PoolInv, OutInv
  <2> QED BY <1>2, <2>3, PoolStep DEF groupVars
<1>12. CASE pool' = [pool EXCEPT ![p].toB = toB, ![p].locked = locked, ![p].map = map]
  <2>1. /\ pool[p] \in PoolRecs /\ pool[p].map \in PoolMaps /\ pool[p].toB \in Seq(Req)
        /\ pool[p].locked \in Nat /\ Len(pool[p].toB) \in Nat
    BY <1>1, PoolRecFacts
  <2>2. /\ map \in PoolMaps /\ DOMAIN map = DOMAIN pool[p].map \cup {id} /\ map[id] = m.chan
        /\ \A i \in DOMAIN pool[p].map : i # id => map[i] = pool[p].map[i]
    <3>1. map = [i \in DOMAIN pool[p].map \cup {id} |->
                    IF i = id THEN m.chan ELSE pool[p].map[i]]
      OBVIOUS
    <3> HIDE DEF map, id, m
    <3>2. PICK S \in SUBSET PoolIds : pool[p].map \in [S -> Req]
      BY <2>1 DEF PoolMaps
    <3>3. map \in [S \cup {id} -> Req] /\ S \cup {id} \in SUBSET PoolIds
      BY <1>5, <3>1, <3>2
    <3>4. map \in PoolMaps
      BY <3>3 DEF PoolMaps
    <3> QED BY <3>1, <3>4
  <2>3. /\ toB \in Seq(Req)
        /\ \A i \in 1..Len(toB) :
              \/ i \in 1..Len(pool[p].toB) /\ toB[i] = pool[p].toB[i]
              \/ i = Len(pool[p].toB) + 1 /\ toB[i] = m.req
    <3>1. CASE bUp
      <4>1. toB = Append(pool[p].toB, m.req)
        BY <3>1
      <4> HIDE DEF toB
      <4> QED BY <1>5, <2>1, <4>1, AppendProperties
    <3>2. CASE ~bUp
      BY <2>1, <3>2
    <3> QED BY <3>1, <3>2
  <2>4. locked \in Nat
    BY <2>1
  <2> HIDE DEF toB, locked, map
  <2>5. /\ pool'[p].toB = toB /\ pool'[p].map = map /\ pool' \in [PoolConns -> PoolRecs]
        /\ \A q \in PoolConns \ {p} : pool'[q] = pool[q]
    <3>1. pool \in [PoolConns -> PoolRecs]
      BY <1>1 DEF PoolTypes
    <3>2. pool'[p] = [pool[p] EXCEPT !.toB = toB, !.locked = locked, !.map = map]
      BY <1>12, <3>1
    <3>3. pool'[p] = [locked |-> locked, map |-> map, toB |-> toB, stuck |-> pool[p].stuck,
                      closed |-> pool[p].closed]
      BY <2>1, <3>2 DEF PoolRecs
    <3>4. pool'[p] \in PoolRecs
      BY <2>1, <2>2, <2>3, <2>4, <3>3 DEF PoolRecs
    <3>5. DOMAIN pool' = PoolConns /\ \A q \in PoolConns \ {p} : pool'[q] = pool[q]
      BY <1>12, <3>1
    <3>6. pool' = [q \in PoolConns |-> pool'[q]]
      BY <1>12, <3>1
    <3> QED BY <3>1, <3>3, <3>4, <3>5, <3>6
  <2>6. PoolTypes'
    BY <1>1, <1>10, <2>5 DEF PoolTypes
  <2>7. ASSUME NEW q \in PoolConns, NEW i \in 1..Len(pool'[q].toB)
        PROVE  \/ i \in 1..Len(pool[q].toB) /\ pool'[q].toB[i] = pool[q].toB[i]
               \/ q = p /\ i = Len(pool[p].toB) + 1 /\ pool'[q].toB[i] = m.req
    <3>1. CASE q = p
      BY <2>3, <2>5, <3>1
    <3>2. CASE q # p
      BY <2>5, <3>2
    <3> QED BY <3>1, <3>2
  <2>8. ASSUME NEW q \in PoolConns
        PROVE  /\ DOMAIN pool[q].map \subseteq DOMAIN pool'[q].map
               /\ \A x \in DOMAIN pool[q].map : x # id => pool'[q].map[x] = pool[q].map[x]
               /\ \A x \in DOMAIN pool'[q].map :
                     \/ x \in DOMAIN pool[q].map /\ pool'[q].map[x] = pool[q].map[x]
                     \/ q = p /\ x = id /\ pool'[q].map[x] = m.chan
               /\ q = p => id \in DOMAIN pool'[q].map /\ pool'[q].map[id] = m.chan
    <3>1. CASE q = p
      BY <2>2, <2>5, <3>1
    <3>2. CASE q # p
      BY <2>5, <3>2
    <3> QED BY <3>1, <3>2
  <2> HIDE DEF m
  <2>9. MapInv'
    <3> SUFFICES ASSUME NEW q \in PoolConns
                 PROVE  /\ \A i \in DOMAIN pool'[q].map : PoolId(pool'[q].map[i].client) = i
                        /\ \A i \in 1..Len(pool'[q].toB) :
                              PoolId(pool'[q].toB[i].client) \in DOMAIN pool'[q].map
      BY DEF MapInv
    <3>1. /\ \A i \in DOMAIN pool[q].map : PoolId(pool[q].map[i].client) = i
          /\ \A i \in 1..Len(pool[q].toB) : PoolId(pool[q].toB[i].client) \in DOMAIN pool[q].map
      BY <1>1 DEF MapInv
    <3>2. \A i \in DOMAIN pool'[q].map : PoolId(pool'[q].map[i].client) = i
      BY <1>5, <2>8, <3>1
    <3>3. \A i \in 1..Len(pool'[q].toB) : PoolId(pool'[q].toB[i].client) \in DOMAIN pool'[q].map
      <4> SUFFICES ASSUME NEW i \in 1..Len(pool'[q].toB)
                   PROVE  PoolId(pool'[q].toB[i].client) \in DOMAIN pool'[q].map
        OBVIOUS
      <4>1. CASE i \in 1..Len(pool[q].toB) /\ pool'[q].toB[i] = pool[q].toB[i]
        BY <2>8, <3>1, <4>1
      <4>2. CASE q = p /\ pool'[q].toB[i] = m.req
        BY <2>8, <4>2
      <4> QED BY <2>7, <4>1, <4>2
    <3> QED BY <3>2, <3>3
  <2>10. ASSUME NEW d \in Clients, Alone(d)
         PROVE  OutOnce(d)' /\ OutWaits(d)'
    <3>1. OutOnce(d) /\ OutWaits(d)
      BY <1>1, <2>10 DEF OutInv
    <3>2. InBoxes(d)' = InBoxes(d)
      BY <1>10 DEF InBoxes
    <3>3. CASE m.req.client = d
      <4>1. InReqs(d) /\ ~InReqs(d)' /\ m.req = handler[d].req /\ id = PoolId(d)
        BY <1>8, <2>10, <3>3
      <4>2. handler[d].st = "pool" /\ ~InToB(d) /\ ~InBoxes(d)
        BY <3>1, <4>1 DEF OutOnce
      <4>3. \A q \in PoolConns : \A i \in 1..Len(pool'[q].toB) : ToBAt(d, q, i)' =>
               /\ q = p /\ i = Len(pool[p].toB) + 1 /\ pool'[q].toB[i] = m.req
               /\ pool'[q].map[PoolId(d)] = m.req
        <5>1. \A q \in PoolConns : \A i \in 1..Len(pool[q].toB) : ~ToBAt(d, q, i)
          BY <4>2 DEF InToB
        <5> QED BY SMTT(60), <1>5, <2>7, <2>8, <4>1, <5>1 DEF ToBAt
      <4>4. /\ \A i \in 1..Len(reqs') : ~ReqAt(d, i)'
            /\ \A b \in boxes' : b.chan.client # d
        BY <1>10, <4>1, <4>2 DEF InReqs, InBoxes
      <4>5. OutOnce(d)'
        BY <1>10, <3>2, <4>1, <4>2, <4>3, <4>4 DEF OutOnce
      <4>6. OutWaits(d)'
        BY <1>10, <4>1, <4>3, <4>4 DEF OutWaits
      <4> QED BY <4>5, <4>6
    <3>4. CASE m.req.client # d
      <4>1. PoolId(d) # id
        BY <1>5, <2>10, <3>4 DEF Alone
      <4>2. \A q \in PoolConns : \A i \in 1..Len(pool'[q].toB) : ToBAt(d, q, i)' =>
               /\ i \in 1..Len(pool[q].toB) /\ ToBAt(d, q, i)
               /\ pool'[q].toB[i] = pool[q].toB[i]
               /\ pool'[q].map[PoolId(d)] = pool[q].map[PoolId(d)]
        <5> SUFFICES ASSUME NEW q \in PoolConns, NEW i \in 1..Len(pool'[q].toB), ToBAt(d, q, i)'
                     PROVE  /\ i \in 1..Len(pool[q].toB) /\ ToBAt(d, q, i)
                            /\ pool'[q].toB[i] = pool[q].toB[i]
                            /\ pool'[q].map[PoolId(d)] = pool[q].map[PoolId(d)]
          OBVIOUS
        <5>1. /\ i \in 1..Len(pool[q].toB) /\ ToBAt(d, q, i)
              /\ pool'[q].toB[i] = pool[q].toB[i]
          BY <2>7, <3>4 DEF ToBAt
        <5>2. PoolId(d) \in DOMAIN pool[q].map
          BY <1>1, <5>1 DEF MapInv, ToBAt
        <5> QED BY <2>8, <4>1, <5>1, <5>2
      <4>3. InToB(d)' => InToB(d)
        BY <4>2 DEF InToB
      <4>4. OutOnce(d)'
        <5>1. \A q, w \in PoolConns : \A i \in 1..Len(pool'[q].toB) : \A j \in 1..Len(pool'[w].toB) :
                 ToBAt(d, q, i)' /\ ToBAt(d, w, j)' => q = w /\ i = j
          BY <3>1, <4>2 DEF OutOnce
        <5>2. \A i, j \in 1..Len(reqs') : ReqAt(d, i)' /\ ReqAt(d, j)' => i = j
          BY <1>8, <2>10
        <5>3. InReqs(d)' => InReqs(d)
          BY <1>7
        <5> QED BY <1>10, <3>1, <3>2, <4>3, <5>1, <5>2, <5>3 DEF OutOnce
      <4>5. OutWaits(d)'
        <5>1. \A q \in PoolConns : \A i \in 1..Len(pool'[q].toB) :
                 ToBAt(d, q, i)' => /\ pool'[q].toB[i] = handler[d].req
                                    /\ pool'[q].map[PoolId(d)] = handler[d].req
          BY <3>1, <4>2 DEF OutWaits
        <5>2. \A i \in 1..Len(reqs') : ReqAt(d, i)' => reqs'[i].req = handler[d].req
          BY <1>8, <2>10
        <5> QED BY <1>10, <3>1, <5>1, <5>2 DEF OutWaits
      <4> QED BY <4>4, <4>5
    <3> QED BY <3>3, <3>4
  <2>11. PoolInv'
    BY <1>9, <2>6, <2>9, <2>10 DEF PoolInv, OutInv
  <2> QED BY <1>2, <2>11, PoolStep DEF groupVars
<1> QED BY <1>2, <1>11, <1>12

\* Steps that only mark a connection of the pool.
LEMMA PoolMarked ==
    ASSUME ConnInv, UNCHANGED <<clientVars, connVars, handler, groupVars, idVars, reqs, boxes>>,
           pool' \in [PoolConns -> PoolRecs],
           \A q \in PoolConns : pool'[q].toB = pool[q].toB /\ pool'[q].map = pool[q].map
    PROVE  ConnInv'
<1>1. PoolTypes /\ MapInv /\ ChanInv /\ OutInv
  BY DEF ConnInv, PoolInv
<1>2. PoolTypes' /\ MapInv' /\ ChanInv'
  BY <1>1 DEF PoolTypes, MapInv, ChanInv
<1>3. ASSUME NEW d \in Clients, Alone(d)
      PROVE  OutOnce(d)' /\ OutWaits(d)'
  <2>1. OutOnce(d) /\ OutWaits(d)
    BY <1>1, <1>3 DEF OutInv
  <2>2. /\ InReqs(d)' = InReqs(d) /\ InBoxes(d)' = InBoxes(d)
        /\ \A i : ReqAt(d, i)' = ReqAt(d, i)
        /\ \A q \in PoolConns : \A i : ToBAt(d, q, i)' = ToBAt(d, q, i)
    BY DEF InReqs, InBoxes, ReqAt, ToBAt
  <2>3. InToB(d)' = InToB(d)
    BY <2>2 DEF InToB
  <2>4. OutOnce(d)'
    BY <2>1, <2>2, <2>3 DEF OutOnce
  <2>5. OutWaits(d)'
    BY <2>1, <2>2 DEF OutWaits
  <2> QED BY <2>4, <2>5
<1>4. PoolInv'
  BY <1>2, <1>3 DEF PoolInv, OutInv
<1> QED BY <1>4, PoolStep DEF groupVars

LEMMA PoolConnLostStep ==
    ASSUME ConnInv, NEW p \in PoolConns, PoolConnLost(p)
    PROVE  ConnInv'
<1>1. /\ pool' = [pool EXCEPT ![p].closed = TRUE]
      /\ UNCHANGED <<clientVars, connVars, handler, groupVars, idVars, reqs, boxes>>
  BY DEF PoolConnLost
<1>2. pool \in [PoolConns -> PoolRecs]
  BY DEF ConnInv, PoolInv, PoolTypes
<1>3. pool' \in [PoolConns -> PoolRecs]
  BY <1>1, <1>2 DEF PoolRecs
<1>4. \A q \in PoolConns : pool'[q].toB = pool[q].toB /\ pool'[q].map = pool[q].map
  BY <1>1, <1>2 DEF PoolRecs
<1> QED BY <1>1, <1>3, <1>4, PoolMarked

LEMMA ReplyFromStep ==
    ASSUME ConnInv, NEW p \in PoolConns, pool[p].toB # <<>>, NEW r, r = Head(pool[p].toB),
           ReplyFrom(p, r),
           UNCHANGED <<clientVars, connVars, handler, groupVars, idVars, reqs>>
    PROVE  ConnInv'
<1> DEFINE id == PoolId(r.client)
           chan == pool[p].map[id]
           b == [chan |-> chan, reply |-> r]
<1>1. PoolTypes /\ MapInv /\ ChanInv /\ OutInv
  BY DEF ConnInv, PoolInv
<1>2. boxes' = boxes \cup {b} /\ pool' = [pool EXCEPT ![p].toB = Tail(@)]
  BY DEF ReplyFrom, ClientID
<1>3. /\ pool[p] \in PoolRecs /\ pool[p].map \in PoolMaps /\ pool[p].toB \in Seq(Req)
  BY <1>1, PoolRecFacts
<1>4. /\ r = pool[p].toB[1] /\ r \in Req /\ Tail(pool[p].toB) \in Seq(Req)
      /\ 1 \in 1..Len(pool[p].toB)
  BY <1>3, OneMessage
<1>5. /\ Len(Tail(pool[p].toB)) = Len(pool[p].toB) - 1 /\ Len(pool[p].toB) \in Nat
      /\ \A i \in 1..Len(Tail(pool[p].toB)) : Tail(pool[p].toB)[i] = pool[p].toB[i + 1]
  BY <1>3
<1>6. id \in DOMAIN pool[p].map /\ PoolId(chan.client) = id
  BY <1>1, <1>4 DEF MapInv
<1>7. chan \in Req /\ b \in [chan : Req, reply : Req] /\ b.chan = chan /\ b.reply = r
  BY <1>3, <1>4, <1>6, MapValues
<1> HIDE DEF id, chan, b
<1>8. /\ pool' \in [PoolConns -> PoolRecs]
      /\ pool'[p].toB = Tail(pool[p].toB)
      /\ \A q \in PoolConns \ {p} : pool'[q] = pool[q]
      /\ \A q \in PoolConns : pool'[q].map = pool[q].map
  <2>1. pool \in [PoolConns -> PoolRecs]
    BY <1>1 DEF PoolTypes
  <2> QED BY <1>2, <1>4, <2>1 DEF PoolRecs
<1>9. PoolTypes' /\ ChanInv' /\ handler' = handler /\ reqs' = reqs
  BY <1>1, <1>2, <1>7, <1>8 DEF PoolTypes, ChanInv
\* What is left in a connection was there before.
<1>10. ASSUME NEW q \in PoolConns, NEW i \in 1..Len(pool'[q].toB)
       PROVE  \/ q = p /\ i + 1 \in 1..Len(pool[q].toB) /\ i + 1 # 1
                       /\ pool'[q].toB[i] = pool[q].toB[i + 1]
              \/ q # p /\ i \in 1..Len(pool[q].toB) /\ pool'[q].toB[i] = pool[q].toB[i]
  <2>1. CASE q = p
    <3>1. pool'[q].toB = Tail(pool[p].toB) /\ i \in 1..Len(Tail(pool[p].toB))
      BY <1>8, <1>10, <2>1
    <3>2. i + 1 \in 1..Len(pool[p].toB) /\ i + 1 # 1
      BY ONLY <1>5, <3>1
    <3>3. Tail(pool[p].toB)[i] = pool[p].toB[i + 1]
      BY <1>5, <3>1
    <3> QED BY <2>1, <3>1, <3>2, <3>3
  <2>2. CASE q # p
    BY <1>8, <2>2
  <2> QED BY <2>1, <2>2
<1>11. MapInv'
  <2> SUFFICES ASSUME NEW q \in PoolConns
               PROVE  /\ \A i \in DOMAIN pool'[q].map : PoolId(pool'[q].map[i].client) = i
                      /\ \A i \in 1..Len(pool'[q].toB) :
                            PoolId(pool'[q].toB[i].client) \in DOMAIN pool'[q].map
    BY DEF MapInv
  <2>1. /\ \A i \in DOMAIN pool[q].map : PoolId(pool[q].map[i].client) = i
        /\ \A i \in 1..Len(pool[q].toB) : PoolId(pool[q].toB[i].client) \in DOMAIN pool[q].map
    BY <1>1 DEF MapInv
  <2>2. ASSUME NEW i \in 1..Len(pool'[q].toB)
        PROVE  PoolId(pool'[q].toB[i].client) \in DOMAIN pool'[q].map
    BY <1>8, <1>10, <2>1
  <2> QED BY <1>8, <2>1, <2>2
<1>12. ASSUME NEW d \in Clients, Alone(d)
       PROVE  OutOnce(d)' /\ OutWaits(d)'
  <2>1. OutOnce(d) /\ OutWaits(d)
    BY <1>1, <1>12 DEF OutInv
  <2>2. /\ InReqs(d)' = InReqs(d) /\ \A i : ReqAt(d, i)' = ReqAt(d, i)
    BY <1>9 DEF InReqs, ReqAt
  <2>3. ASSUME NEW q \in PoolConns, NEW i \in 1..Len(pool'[q].toB), ToBAt(d, q, i)'
        PROVE  \/ q = p /\ i + 1 \in 1..Len(pool[q].toB) /\ i + 1 # 1
                        /\ ToBAt(d, q, i + 1) /\ pool'[q].toB[i] = pool[q].toB[i + 1]
               \/ q # p /\ i \in 1..Len(pool[q].toB)
                        /\ ToBAt(d, q, i) /\ pool'[q].toB[i] = pool[q].toB[i]
    BY <1>10, <2>3 DEF ToBAt
  <2>4. InToB(d)' => InToB(d)
    BY <2>3 DEF InToB
  <2>5. \A q, w \in PoolConns : \A i \in 1..Len(pool[q].toB) : \A j \in 1..Len(pool[w].toB) :
          ToBAt(d, q, i) /\ ToBAt(d, w, j) => q = w /\ i = j
    BY <2>1 DEF OutOnce
  <2>6. ASSUME NEW q \in PoolConns, NEW w \in PoolConns,
               NEW i \in 1..Len(pool'[q].toB), NEW j \in 1..Len(pool'[w].toB),
               ToBAt(d, q, i)', ToBAt(d, w, j)'
        PROVE  q = w /\ i = j
    <3>1. CASE q = p /\ w = p
      <4>1. i + 1 = j + 1
        BY <2>3, <2>5, <2>6, <3>1
      <4> QED BY <3>1, <4>1
    <3>2. CASE q # p /\ w # p
      BY <2>3, <2>5, <2>6, <3>2
    <3>3. CASE q = p /\ w # p
      <4>1. ToBAt(d, q, i + 1) /\ i + 1 \in 1..Len(pool[q].toB)
            /\ ToBAt(d, w, j) /\ j \in 1..Len(pool[w].toB)
        BY <2>3, <2>6, <3>3
      <4> QED BY <2>5, <3>3, <4>1
    <3>4. CASE q # p /\ w = p
      <4>1. ToBAt(d, w, j + 1) /\ j + 1 \in 1..Len(pool[w].toB)
            /\ ToBAt(d, q, i) /\ i \in 1..Len(pool[q].toB)
        BY <2>3, <2>6, <3>4
      <4> QED BY <2>5, <3>4, <4>1
    <3> QED BY <3>1, <3>2, <3>3, <3>4
  <2>7. ASSUME NEW q \in PoolConns, NEW i \in 1..Len(pool'[q].toB), ToBAt(d, q, i)'
        PROVE  pool'[q].toB[i] = handler[d].req /\ pool'[q].map[PoolId(d)] = handler[d].req
    <3>1. \A w \in PoolConns : \A j \in 1..Len(pool[w].toB) :
             ToBAt(d, w, j) => /\ pool[w].toB[j] = handler[d].req
                               /\ pool[w].map[PoolId(d)] = handler[d].req
      BY <2>1 DEF OutWaits
    <3> QED BY <1>8, <2>3, <2>7, <3>1
  <2>8. CASE chan.client = d
    <3>1. r.client = d
      BY <1>4, <1>6, <1>12, <2>8 DEF Alone, id, Req
    <3>2. ToBAt(d, p, 1)
      BY <1>4, <3>1 DEF ToBAt
    <3>3. chan = handler[d].req /\ r = chan
      BY <1>4, <2>1, <3>1, <3>2 DEF OutWaits, chan, id
    <3>4. InToB(d)
      BY <1>4, <3>2 DEF InToB
    <3>5. handler[d].st = "pool" /\ ~InReqs(d) /\ ~InBoxes(d)
      BY <2>1, <3>4 DEF OutOnce
    <3>6. ~InToB(d)'
      <4>1. ASSUME NEW q \in PoolConns, NEW i \in 1..Len(pool'[q].toB), ToBAt(d, q, i)'
            PROVE  FALSE
        BY <1>4, <2>3, <2>5, <3>2, <4>1
      <4> QED BY <4>1 DEF InToB
    <3>7. \A x \in boxes' : x.chan.client = d => x = b
      BY <1>2, <3>5 DEF InBoxes
    <3>8. /\ \A i \in 1..Len(reqs') : ~ReqAt(d, i)'
          /\ \A q \in PoolConns : \A i \in 1..Len(pool'[q].toB) : ~ToBAt(d, q, i)'
      BY <1>9, <2>2, <3>5, <3>6 DEF InReqs, InToB
    <3>9. OutOnce(d)'
      BY <1>9, <2>2, <3>5, <3>6, <3>8 DEF OutOnce
    <3>10. OutWaits(d)'
      BY <1>7, <1>9, <3>3, <3>7, <3>8 DEF OutWaits
    <3> QED BY <3>9, <3>10
  <2>9. CASE chan.client # d
    <3>1. \A x \in boxes' : x.chan.client = d => x \in boxes
      BY <1>2, <1>7, <2>9
    <3>2. InBoxes(d)' => InBoxes(d)
      BY <3>1 DEF InBoxes
    <3>3. OutOnce(d)'
      <4>1. \A q, w \in PoolConns : \A i \in 1..Len(pool'[q].toB) : \A j \in 1..Len(pool'[w].toB) :
              ToBAt(d, q, i)' /\ ToBAt(d, w, j)' => q = w /\ i = j
        BY <2>6
      <4>2. \A i, j \in 1..Len(reqs') : ReqAt(d, i)' /\ ReqAt(d, j)' => i = j
        BY <1>9, <2>1, <2>2 DEF OutOnce
      <4> QED BY <1>9, <2>1, <2>2, <2>4, <3>2, <4>1, <4>2 DEF OutOnce
    <3>4. OutWaits(d)'
      <4>1. \A x \in boxes' : x.chan.client = d => x.chan = handler[d].req /\ x.reply = x.chan
        BY <2>1, <3>1 DEF OutWaits
      <4>2. \A i \in 1..Len(reqs') : ReqAt(d, i)' => reqs'[i].req = handler[d].req
        BY <1>9, <2>1, <2>2 DEF OutWaits
      <4> QED BY <1>9, <2>7, <4>1, <4>2 DEF OutWaits
    <3> QED BY <3>3, <3>4
  <2> QED BY <2>8, <2>9
<1>13. PoolInv'
  BY <1>9, <1>11, <1>12 DEF PoolInv, OutInv
<1> QED BY <1>13, PoolStep DEF groupVars

LEMMA HandleServerToServerStep ==
    ASSUME ConnInv, NEW p \in PoolConns, HandleServerToServer(p)
    PROVE  ConnInv'
<1> DEFINE r == Head(pool[p].toB)
<1>1. /\ pool[p].toB # <<>>
      /\ \/ ReplyFrom(p, r)
         \/ pool' = [pool EXCEPT ![p].stuck = TRUE] /\ boxes' = boxes
      /\ UNCHANGED <<clientVars, connVars, handler, groupVars, idVars, reqs>>
  BY DEF HandleServerToServer
<1>2. CASE ReplyFrom(p, r)
  BY <1>1, <1>2, ReplyFromStep
<1>3. CASE pool' = [pool EXCEPT ![p].stuck = TRUE] /\ boxes' = boxes
  <2>1. pool \in [PoolConns -> PoolRecs]
    BY DEF ConnInv, PoolInv, PoolTypes
  <2>2. pool' \in [PoolConns -> PoolRecs]
    BY <1>3, <2>1 DEF PoolRecs
  <2>3. \A q \in PoolConns : pool'[q].toB = pool[q].toB /\ pool'[q].map = pool[q].map
    BY <1>3, <2>1 DEF PoolRecs
  <2> QED BY <1>1, <1>3, <2>2, <2>3, PoolMarked
<1> QED BY <1>1, <1>2, <1>3

\* The other server is gone, with what was on its way to it.
LEMMA HandleServerStartStep ==
    ASSUME ConnInv, NEW p \in PoolConns, HandleServerStart(p)
    PROVE  ConnInv'
<1>1. /\ pool' = [q \in PoolConns |-> [pool[q] EXCEPT !.toB = <<>>]]
      /\ boxes' = boxes /\ reqs' = reqs /\ handler' = handler
      /\ UNCHANGED <<clientVars, connVars, handler, groupVars, idVars, reqs, boxes>>
  BY DEF HandleServerStart
<1>2. PoolTypes /\ MapInv /\ ChanInv /\ OutInv
  BY DEF ConnInv, PoolInv
<1>3. ASSUME NEW q \in PoolConns
      PROVE  pool'[q] \in PoolRecs /\ pool'[q].toB = <<>> /\ pool'[q].map = pool[q].map
  <2>1. pool[q] \in PoolRecs
    BY <1>2 DEF PoolTypes
  <2>2. pool'[q] = [pool[q] EXCEPT !.toB = <<>>]
    BY <1>1
  <2>3. <<>> \in Seq(Req)
    OBVIOUS
  <2> QED BY <2>1, <2>2, <2>3 DEF PoolRecs
<1>4. pool' \in [PoolConns -> PoolRecs]
  BY <1>1, <1>3
<1>5. PoolTypes' /\ ChanInv'
  BY <1>1, <1>2, <1>4 DEF PoolTypes, ChanInv
<1>6. \A q \in PoolConns : Len(pool'[q].toB) = 0
  BY <1>3
<1>7. MapInv'
  BY <1>2, <1>3, <1>6 DEF MapInv
<1>8. ASSUME NEW d \in Clients, Alone(d)
      PROVE  OutOnce(d)' /\ OutWaits(d)'
  <2>1. OutOnce(d) /\ OutWaits(d)
    BY <1>2, <1>8 DEF OutInv
  <2>2. /\ InReqs(d)' = InReqs(d) /\ InBoxes(d)' = InBoxes(d)
        /\ \A i : ReqAt(d, i)' = ReqAt(d, i)
    BY <1>1 DEF InReqs, InBoxes, ReqAt
  <2>3. \A q \in PoolConns : 1..Len(pool'[q].toB) = {}
    BY <1>6
  <2>4. ~InToB(d)'
    BY <2>3 DEF InToB
  <2>5. OutOnce(d)'
    BY <1>1, <2>1, <2>2, <2>3, <2>4 DEF OutOnce
  <2>6. OutWaits(d)'
    BY <1>1, <2>1, <2>2, <2>3 DEF OutWaits
  <2> QED BY <2>5, <2>6
<1>9. PoolInv'
  BY <1>5, <1>7, <1>8 DEF PoolInv, OutInv
<1> QED BY <1>1, <1>9, PoolStep DEF groupVars

-----------------------------------------------------------------------------
(* All steps *)

\* generateTMIDs moves IDs only.
LEMMA IdStep ==
    ASSUME ConnInv, GenerateTMIDs \/ ReturnLate
    PROVE  ConnInv'
<1>1. ConnTypes /\ IdInv /\ SingleInv /\ GroupInv /\ WayInv /\ PoolInv /\ ReplyIsOwn
  BY DEF ConnInv
<1>2. IdInv'
  BY <1>1, IdGenerated, IdLate DEF ConnTypes
<1>3. /\ conn' = conn /\ broken' = broken /\ sock' = sock /\ lastReply' = lastReply
      /\ accepts' = accepts /\ waiting' = waiting /\ misled' = misled /\ sent' = sent
      /\ tmChan' = tmChan /\ replies' = replies /\ handler' = handler
      /\ reqs' = reqs /\ pool' = pool /\ boxes' = boxes
  BY DEF GenerateTMIDs, ReturnLate, connVars, clientVars, groupVars, poolVars
<1>4. ConnTypes' /\ ReplyIsOwn'
  BY <1>1, <1>3 DEF ConnTypes, ReplyIsOwn
<1>5. \A c \in Singles : SameSingle(c)
  BY <1>3 DEF SameSingle
<1>6. SameGroup /\ PoolWaits
  BY <1>3 DEF SameGroup, PoolWaits
<1> QED BY <1>1, <1>2, <1>3, <1>4, <1>5, <1>6, SinglesQuiet, GroupQuiet, PoolQuiet DEF ConnInv

\* The server starts without connections, clients or requests.
LEMMA ConnInit ==
    ASSUME Init
    PROVE  ConnInv
<1>1. /\ conn = [k \in Conns |-> "none"] /\ broken = [k \in Conns |-> FALSE]
      /\ accepts = [k \in Conns |-> 0] /\ sock = [k \in Conns |-> <<>>]
      /\ lastReply = [k \in Conns |-> None] /\ sent = [c \in Clients |-> 0]
      /\ waiting = [c \in Clients |-> None] /\ misled = {}
      /\ handler = [c \in Clients |-> NoHandler] /\ tmChan = [c \in Clients |-> <<>>]
      /\ replies = <<>>
      /\ ids = [new |-> <<>>, reusable |-> <<>>, canReuse |-> <<>>, next |-> 0, late |-> {}]
      /\ leaked = {} /\ reqs = <<>> /\ pool = [p \in PoolConns |-> NewPoolConn] /\ boxes = {}
  BY DEF Init
<1>2. NoHandler \in HandlerRecs /\ NoHandler.st = "none"
  BY DEF NoHandler, HandlerRecs, HandlerStates
<1>3. \A S : <<>> \in Seq(S)
  OBVIOUS
<1>4. ConnTypes
  <2>1. replies \in Seq([client : Group, reply : Req])
    BY <1>1, <1>3
  <2>2. sock \in [Conns -> Seq(Req \cup {Multi})]
    BY <1>1, <1>3
  <2>3. tmChan \in [Clients -> Seq(Req \cup {Lost})]
    BY <1>1, <1>3
  <2>4. handler \in [Clients -> HandlerRecs]
    BY <1>1, <1>2
  <2> QED BY <1>1, <2>1, <2>2, <2>3, <2>4 DEF ConnTypes, ConnStates
<1>5. \A c \in Clients : ~Live(c)
  BY <1>1, <1>2 DEF Live
<1>6. IdInv
  <2>1. /\ ids.new = <<>> /\ ids.reusable = <<>> /\ ids.canReuse = <<>> /\ ids.next = 0
        /\ ids.late = {} /\ ids \in IdRecs
    BY <1>1, <1>3 DEF IdRecs
  <2>2. LiveIds = {} /\ FreeIds = {} /\ OwnIds
    BY <1>5, <2>1, ElemsEmpty DEF LiveIds, FreeIds, OwnIds
  <2>3. FreeOnce
    BY <2>1, ElemsEmpty DEF FreeOnce
  <2>4. OnePlace
    BY <1>1, <2>1, <2>2 DEF OnePlace
  <2> QED BY <1>1, <2>1, <2>2, <2>3, <2>4 DEF IdInv
<1>7. SingleInv
  <2> SUFFICES ASSUME NEW c \in Singles
               PROVE  SingleShape(c) /\ SingleWaits(c)
    BY DEF SingleInv
  <2>1. c \in Clients /\ {c} \in Conns
    BY SingleConn
  <2>2. /\ conn[{c}] = "none" /\ sock[{c}] = <<>> /\ ~broken[{c}] /\ waiting[c] = None
        /\ tmChan[c] = <<>> /\ handler[c].st = "none"
    BY <1>1, <1>2, <2>1
  <2> QED BY <2>2 DEF SingleShape, SingleWaits
<1>8. ASSUME Group # {}
      PROVE  /\ GroupSock /\ GroupShape /\ \A c \in Group : GroupClient(c)
             /\ \A c \in Group : WayOnce(c) /\ WayWaits(c)
  <2>1. Group \in Conns /\ \A c \in Group : c \in Clients
    BY <1>8, GroupConn
  <2>2. /\ conn[Group] = "none" /\ sock[Group] = <<>> /\ ~broken[Group]
        /\ 1..Len(sock[Group]) = {} /\ replies = <<>> /\ 1..Len(replies) = {}
    BY <1>1, <2>1
  <2>3. ASSUME NEW c \in Group
        PROVE  /\ ~Live(c) /\ waiting[c] = None /\ tmChan[c] = <<>>
               /\ handler[c].st = "none"
    BY <1>1, <1>2, <1>5, <2>1
  <2>4. GroupSock /\ GroupShape
    BY <2>2, <2>3 DEF GroupSock, GroupShape
  <2>5. ASSUME NEW c \in Group
        PROVE  GroupClient(c) /\ WayOnce(c) /\ WayWaits(c)
    <3>1. GroupClient(c)
      BY <2>3 DEF GroupClient
    <3>2. ~InSock(c) /\ ~InChan(c) /\ ~InHandler(c) /\ ~InReplies(c)
      BY <2>2, <2>3 DEF InSock, InChan, InHandler, InReplies
    <3> QED BY <2>2, <3>1, <3>2 DEF WayOnce, WayWaits
  <2> QED BY <2>4, <2>5
<1>9. GroupInv /\ WayInv
  BY <1>8 DEF GroupInv, WayInv
<1>10. PoolInv
  <2>1. /\ NewPoolConn.toB = <<>> /\ NewPoolConn.map = <<>> /\ DOMAIN NewPoolConn.map = {}
    BY DEF NewPoolConn
  <2>2. <<>> \in PoolMaps
    <3>1. <<>> \in [{} -> Req]
      OBVIOUS
    <3>2. {} \in SUBSET PoolIds
      OBVIOUS
    <3> QED BY <3>1, <3>2 DEF PoolMaps
  <2>3. NewPoolConn \in PoolRecs
    BY <1>3, <2>2 DEF NewPoolConn, PoolRecs
  <2>4. ASSUME NEW p \in PoolConns
        PROVE  1..Len(pool[p].toB) = {} /\ DOMAIN pool[p].map = {}
    BY <1>1, <2>1
  <2>5. PoolTypes /\ 1..Len(reqs) = {}
    BY <1>1, <1>3, <2>3 DEF PoolTypes
  <2>6. MapInv /\ ChanInv
    BY <2>4, <2>5 DEF MapInv, ChanInv
  <2>7. ASSUME NEW c \in Clients
        PROVE  OutOnce(c) /\ OutWaits(c)
    <3>1. ~InReqs(c) /\ ~InToB(c) /\ ~InBoxes(c)
      BY <1>1, <2>4, <2>5 DEF InReqs, InToB, InBoxes
    <3> QED BY <1>1, <2>4, <2>5, <3>1 DEF OutOnce, OutWaits
  <2> QED BY <2>5, <2>6, <2>7 DEF PoolInv, OutInv
<1>11. ReplyIsOwn
  BY <1>1 DEF ReplyIsOwn
<1> QED BY <1>4, <1>6, <1>7, <1>9, <1>10, <1>11 DEF ConnInv

\* Every step keeps what is where.
LEMMA ConnNext ==
    ASSUME ConnInv, [Next]_vars
    PROVE  ConnInv'
<1>1. CASE UNCHANGED vars
  <2>1. UNCHANGED <<clientVars, connVars, handler, groupVars, idVars, poolVars>>
    BY <1>1 DEF vars
  <2>2. UNCHANGED <<reqs, pool, boxes>> /\ PoolWaits
    BY <2>1 DEF poolVars, PoolWaits
  <2>3. PoolInv'
    BY <2>2, PoolQuiet DEF ConnInv
  <2> QED BY <2>1, <2>3, PoolStep DEF groupVars
<1>2. CASE Environment
  BY <1>2, AcceptStep, ConnectionLostStep, ClientSendStep DEF Environment
<1>3. CASE ServerStep
  <2>1. ASSUME NEW k \in Conns, ConnStep(k)
        PROVE  ConnInv'
    BY <2>1, ProcessProtoStep, SendReplyStep, ReadLostStep, StartUpgradeStep,
       UpgradeClientStep, MultiReadStep, MultiLostStep DEF ConnStep
  <2>2. ASSUME NEW p \in PoolConns, PoolSend(p) \/ PoolConnLost(p)
        PROVE  ConnInv'
    BY <2>2, PoolSendStep, PoolConnLostStep
  <2>3. ASSUME NEW p \in PoolConns, HandleServerToServer(p) \/ HandleServerStart(p)
        PROVE  ConnInv'
    BY <2>3, HandleServerToServerStep, HandleServerStartStep
  <2> QED BY <1>3, <2>1, <2>2, <2>3, IdStep, HandlersStep, SendMultiReplyStep DEF ServerStep
<1> QED BY <1>1, <1>2, <1>3 DEF Next

\* That every ID is in one place is more than IdsNotShared says.
LEMMA IdInvShares ==
    ASSUME IdInv
    PROVE  IdsNotShared
<1> DEFINE used == ids.new \o ids.reusable
           free == ids.new \o ids.reusable \o ids.canReuse
<1>1. /\ FreeOnce /\ OnePlace /\ OwnIds
      /\ ids.new \in Seq(Nat) /\ ids.reusable \in Seq(Nat) /\ ids.canReuse \in Seq(Nat)
  BY DEF IdInv, IdRecs
<1>2. /\ used \in Seq(Nat) /\ DupFree(used)
      /\ Elems(used) = Elems(ids.new) \cup Elems(ids.reusable)
  BY <1>1, ElemsConcat DEF FreeOnce
<1>3. free = used \o ids.canReuse
  OBVIOUS
<1> HIDE DEF used, free
<1>4. /\ free \in Seq(Nat) /\ Elems(free) = Elems(used) \cup Elems(ids.canReuse)
      /\ Elems(used) \cap Elems(ids.canReuse) = {} => DupFree(free)
  <2>1. ids.canReuse \in Seq(Nat) /\ used \in Seq(Nat) /\ DupFree(used)
    BY <1>1, <1>2
  <2>2. /\ used \o ids.canReuse \in Seq(Nat)
        /\ Elems(used \o ids.canReuse) = Elems(used) \cup Elems(ids.canReuse)
        /\ DupFree(used) /\ DupFree(ids.canReuse) /\ Elems(used) \cap Elems(ids.canReuse) = {}
             => DupFree(used \o ids.canReuse)
    BY ONLY <2>1, ElemsConcat
  <2>3. DupFree(ids.canReuse)
    BY <1>1 DEF FreeOnce
  <2> QED BY <1>3, <2>1, <2>2, <2>3
<1>5. Elems(free) = FreeIds /\ DupFree(free)
  BY <1>1, <1>2, <1>4 DEF FreeIds, FreeOnce
<1>6. DOMAIN free = 1..Len(free)
  BY <1>4
<1>7. \A i \in DOMAIN free : free[i] \in FreeIds
  BY <1>5, <1>6 DEF Elems
<1>8. \A i, j \in DOMAIN free : i # j => free[i] # free[j]
  BY <1>5, <1>6 DEF DupFree
<1>9. \A c \in Clients : Live(c) => handler[c].id \in LiveIds
  BY DEF LiveIds
<1>10. ASSUME NEW i \in DOMAIN free
       PROVE  /\ free[i] \notin ids.late \cup leaked
              /\ \A c \in Clients : Live(c) => free[i] # handler[c].id
  BY <1>1, <1>7, <1>9 DEF OnePlace
<1>11. \A c, d \in Clients : c # d /\ Live(c) /\ Live(d) => handler[c].id # handler[d].id
  BY <1>1 DEF OwnIds
<1> QED BY <1>8, <1>10, <1>11 DEF IdsNotShared, free

-----------------------------------------------------------------------------
(* Every ID generateTMIDs made is in one place at a time - in newIDChan, among the
   reusable ones, in canReuseIDChan, held by an ended handler that waits for room there,
   with a handler nobody reaches any more, or with the one handler that runs with it -
   whatever the clients do, however connections fail and are upgraded. *)
THEOREM OwnHandlerIds == Spec => []IdsNotShared
<1>1. Init => ConnInv
  BY ConnInit
<1>2. ConnInv /\ [Next]_vars => ConnInv'
  BY ConnNext
<1>3. ConnInv => IdsNotShared
  BY IdInvShares DEF ConnInv
<1> QED BY <1>1, <1>2, <1>3, PTL DEF Spec

(* A client whose ID in the pool is its own (ClientID of its requests) is never given the
   reply to another request: not by processConnection's reply variable, not by the reply
   channel of a multi-client connection and not by the pool's map of reply channels,
   for any number of clients, of connections to the other server and of requests. *)
THEOREM OwnReplies == Spec => []ReplyIsOwn
<1>1. Init => ConnInv
  BY ConnInit
<1>2. ConnInv /\ [Next]_vars => ConnInv'
  BY ConnNext
<1>3. ConnInv => ReplyIsOwn
  BY DEF ConnInv
<1> QED BY <1>1, <1>2, <1>3, PTL DEF Spec

=============================================================================
