----------------------------- MODULE ServerConns -----------------------------
(* The connections of one server: client connections and their request handlers
   (processConnection, listenForProtobufRequests), multi-client connections
   (handleMultiClient), the IDs handlers take and give back (generateTMIDs), and the
   pool of connections through which handlers send requests to another server
   (connPool), which serves them one at a time per connection (handleServerToServer).

   A request is what a client asked and where it has to be served; its reply is the
   request it was made for.  What a transaction does is TransactionManager's matter.  *)
EXTENDS Naturals, Sequences, FiniteSets

CONSTANTS
    Singles,        \* clients with a connection of their own
    Group,          \* clients that share one multi-client connection, or {}
    PoolId(_),      \* int32(TransactionId): the ID a client's requests have in the pool
    KindsOf(_, _),  \* the kinds a client's n-th request may have
    MaxPool,        \* MAX_POOL_PER_SERVER
    MaxLocked,      \* MAX_CLIENT_PER_POOL
    ReqsSize,       \* capacity of connPool.reqs
    IdChanSize,     \* capacity of newIDChan
    ReuseSize,      \* capacity of canReuseIDChan
    MaxReqs(_),     \* bound: requests of a client
    MaxAccepts(_)   \* bound: times a client, or the group, connects

Clients   == Singles \cup Group
Conns     == {{c} : c \in Singles} \cup ({Group} \ {{}})
ConnOf(c) == IF c \in Group THEN Group ELSE {c}
Front(k)  == CHOOSE c \in k : TRUE
PoolConns == 1..MaxPool

(* local: served here.  static: a static transaction for the other server.
   single: a static read of one object there (fastSingleRead).  inter: an operation of
   an interactive transaction there.  abort, unknown: answered without the manager. *)
AllKinds == {"local", "static", "single", "inter", "abort", "unknown"}

ASSUME ServerConnsAssumption ==
    /\ Singles \cap Group = {}
    /\ \A c \in Clients : /\ MaxReqs(c) \in Nat
                          /\ \A n \in 1..MaxReqs(c) : KindsOf(c, n) \subseteq AllKinds
    /\ {MaxPool, MaxLocked, ReqsSize, IdChanSize, ReuseSize} \subseteq Nat \ {0}

None    == [client |-> "none"]
Multi   == [client |-> "multi"]
Lost    == [client |-> "lost"]
Remote(r) == r.kind \in {"static", "single", "inter"}

VARIABLES
    conn,       \* what the goroutine of each connection is doing
    broken,     \* the client closed the connection, or it failed
    accepts,    \* times the connection was accepted
    sock,       \* messages on their way from the client
    lastReply,  \* reply of processConnection, kept from request to request
    sent,       \* requests each client has sent
    waiting,    \* the request each client awaits the reply of
    misled,     \* clients that were given the reply to another request
    handler,    \* each client's request handler: state, TM ID and request
    tmChan,     \* channel to the handler, of multi-client connections
    replies,    \* replyChan of the multi-client connection
    sender,     \* handleMultiClientReplies runs
    ids,        \* generateTMIDs: newIDChan, reusableIDs, canReuseIDChan, the next new
                \* ID, and the IDs of ended handlers that wait for room in canReuseIDChan
    leaked,     \* IDs of handlers nobody can reach any more
    nConns,     \* connPool.nConns
    reqs,       \* connPool.reqs
    pool,       \* each pool connection
    boxes,      \* reply channels, of capacity 1, with a reply in them
    aUp, bUp    \* this server and the other one run

clientVars == <<sent, waiting, misled>>
connVars   == <<conn, broken, accepts, sock, lastReply>>
groupVars  == <<tmChan, replies, sender>>
idVars     == <<ids, leaked>>
poolVars   == <<nConns, reqs, pool, boxes>>
upVars     == <<aUp, bUp>>
vars == <<clientVars, connVars, handler, groupVars, idVars, poolVars, upVars>>

NoHandler == [st |-> "none", id |-> 0, req |-> None]
NewPoolConn == [locked |-> 0, map |-> <<>>, toB |-> <<>>, stuck |-> FALSE,
                closed |-> FALSE]

Init ==
    /\ conn = [k \in Conns |-> "none"]
    /\ broken = [k \in Conns |-> FALSE]
    /\ accepts = [k \in Conns |-> 0]
    /\ sock = [k \in Conns |-> <<>>]
    /\ lastReply = [k \in Conns |-> None]
    /\ sent = [c \in Clients |-> 0]
    /\ waiting = [c \in Clients |-> None]
    /\ misled = {}
    /\ handler = [c \in Clients |-> NoHandler]
    /\ tmChan = [c \in Clients |-> <<>>]
    /\ replies = <<>>
    /\ sender = FALSE
    /\ ids = [new |-> <<>>, reusable |-> <<>>, canReuse |-> <<>>, next |-> 0,
              late |-> {}]
    /\ leaked = {}
    /\ nConns = 0
    /\ reqs = <<>>
    /\ pool = [p \in PoolConns |-> NewPoolConn]
    /\ boxes = {}
    /\ aUp = TRUE
    /\ bUp = TRUE

Live(c) == handler[c].st # "none"

(***************************************************************************)
(* IDs of the handlers: newIDChan is kept full; an ID given back is used   *)
(* again before a new one is made, the last one given back first.          *)
(***************************************************************************)
\* Mutant of ReusedTaken: the ID used again stays among the reusable ones.
ReusedStays(s) == s
ReusedTaken(s) == SubSeq(s, 1, Len(s) - 1)

GenerateTMIDs ==
    /\ Len(ids.new) < IdChanSize
    /\ \/ /\ ids.reusable # <<>>
          /\ ids' = [ids EXCEPT !.new = Append(@, ids.reusable[Len(ids.reusable)]),
                                !.reusable = ReusedTaken(@) \o ids.canReuse,
                                !.canReuse = <<>>]
       \/ /\ ids.reusable = <<>>
          /\ ids' = [ids EXCEPT !.new = Append(@, ids.next), !.next = @ + 1,
                                !.reusable = ids.canReuse,
                                !.canReuse = <<>>]
    /\ UNCHANGED <<clientVars, connVars, handler, groupVars, leaked, poolVars, upVars>>

TakeId == [ids EXCEPT !.new = Tail(@)]
ReturnId(id) == IF Len(ids.canReuse) < ReuseSize
                THEN [ids EXCEPT !.canReuse = Append(@, id)]
                ELSE [ids EXCEPT !.late = @ \cup {id}]

ReturnLate ==
    /\ Len(ids.canReuse) < ReuseSize
    /\ \E id \in ids.late : ids' = [ids EXCEPT !.canReuse = Append(@, id),
                                              !.late = @ \ {id}]
    /\ UNCHANGED <<clientVars, connVars, handler, groupVars, leaked, poolVars, upVars>>

(* connPool.newConn and newConnReceiver: one more connection to the other server, up to
   the limit; the process exits when that server cannot be reached. *)
NewConn ==
    \/ nConns >= MaxPool /\ UNCHANGED <<nConns, aUp>>
    \/ nConns < MaxPool /\ bUp /\ nConns' = nConns + 1 /\ UNCHANGED aUp
    \/ nConns < MaxPool /\ ~bUp /\ aUp' = FALSE /\ UNCHANGED nConns

\* A handler asks for it with its first request.
FirstRequest(c) == IF handler[c].st = "new" THEN NewConn ELSE UNCHANGED <<nConns, aUp>>

(***************************************************************************)
(* Clients.  A client has one request under way at a time; in a            *)
(* multi-client connection it does not wait where no reply is made.        *)
(***************************************************************************)
Accept(k) ==
    /\ conn[k] = "none" /\ accepts[k] < MaxAccepts(k)
    /\ \A c \in k : handler[c].st = "none"
    /\ ids.new # <<>>
    /\ conn' = [conn EXCEPT ![k] = "open"]
    /\ accepts' = [accepts EXCEPT ![k] = @ + 1]
    /\ broken' = [broken EXCEPT ![k] = FALSE]
    /\ sock' = [sock EXCEPT ![k] = IF k = Group THEN <<Multi>> ELSE <<>>]
    /\ lastReply' = [lastReply EXCEPT ![k] = None]
    /\ handler' = [handler EXCEPT ![Front(k)] =
                        [st |-> "new", id |-> Head(ids.new), req |-> None]]
    /\ ids' = TakeId
    /\ UNCHANGED <<clientVars, groupVars, leaked, poolVars, upVars>>

ClientSend(c) ==
    LET k == ConnOf(c) IN
    /\ conn[k] # "none" /\ ~broken[k]
    /\ waiting[c] = None /\ sent[c] < MaxReqs(c)
    /\ \E kind \in KindsOf(c, sent[c] + 1) :
         LET r == [client |-> c, n |-> sent[c] + 1, kind |-> kind] IN
         /\ sock' = [sock EXCEPT ![k] = Append(@, r)]
         /\ waiting' = IF k = Group /\ kind \in {"abort", "unknown"}
                       THEN waiting ELSE [waiting EXCEPT ![c] = r]
    /\ sent' = [sent EXCEPT ![c] = @ + 1]
    /\ UNCHANGED <<misled, conn, broken, accepts, lastReply, handler, groupVars, idVars,
                   poolVars, upVars>>

\* The client closes the connection or it fails; what was on its way may be lost.
ConnectionLost(k) ==
    /\ conn[k] # "none" /\ ~broken[k]
    /\ broken' = [broken EXCEPT ![k] = TRUE]
    /\ \E rest \in {sock[k], <<>>} : sock' = [sock EXCEPT ![k] = rest]
    /\ waiting' = [c \in Clients |-> IF c \in k THEN None ELSE waiting[c]]
    /\ UNCHANGED <<sent, misled, conn, accepts, lastReply, handler, groupVars, idVars,
                   poolVars, upVars>>

Receives(c, reply) ==
    /\ misled' = IF waiting[c].kind # "unknown" /\ reply # waiting[c]
                 THEN misled \cup {c} ELSE misled
    /\ waiting' = [waiting EXCEPT ![c] = None]

(***************************************************************************)
(* processConnection                                                       *)
(***************************************************************************)
ProcessProto(k) ==
    LET r == Head(sock[k])
        c == Front(k) IN
    /\ conn[k] = "open" /\ sock[k] # <<>> /\ r # Multi
    /\ sock' = [sock EXCEPT ![k] = Tail(@)]
    /\ \/ /\ r.kind = "unknown"         \* the reply before it goes out again
          /\ conn' = [conn EXCEPT ![k] = "sending"]
          /\ UNCHANGED <<lastReply, handler, nConns, aUp>>
       \/ /\ r.kind = "abort"           \* answered without waiting for the manager
          /\ conn' = [conn EXCEPT ![k] = "sending"]
          /\ lastReply' = [lastReply EXCEPT ![k] = r]
          /\ handler' = [handler EXCEPT ![c].st = "idle"]
          /\ FirstRequest(c)
       \/ /\ r.kind \notin {"unknown", "abort"}
          /\ conn' = [conn EXCEPT ![k] = "serving"]
          /\ handler' = [handler EXCEPT ![c].st = "busy", ![c].req = r]
          /\ FirstRequest(c)
          /\ UNCHANGED lastReply
    /\ UNCHANGED <<clientVars, broken, accepts, groupVars, idVars, reqs, pool, boxes, bUp>>

SendReply(k) ==
    /\ conn[k] = "sending"
    /\ \/ /\ ~broken[k]
          /\ Receives(Front(k), lastReply[k])
          /\ conn' = [conn EXCEPT ![k] = "open"]
          /\ UNCHANGED <<handler, leaked>>
       \/ /\ broken[k]                  \* not noticed: the next read fails
          /\ conn' = [conn EXCEPT ![k] = "open"]
          /\ UNCHANGED <<waiting, misled, handler, leaked>>
       \/ /\ broken[k]                  \* noticed: returns without TMConnLostArgs
          /\ conn' = [conn EXCEPT ![k] = "none"]
          /\ leaked' = leaked \cup {handler[Front(k)].id}
          /\ handler' = [handler EXCEPT ![Front(k)] = NoHandler]
          /\ UNCHANGED <<waiting, misled>>
    /\ UNCHANGED <<sent, broken, accepts, sock, lastReply, groupVars, ids, poolVars,
                   upVars>>

\* lostConnRequest: the handler gives its ID back and ends.
Ends(c) ==
    /\ ids' = ReturnId(handler[c].id)
    /\ handler' = [handler EXCEPT ![c] = NoHandler]

ReadLost(k) ==
    /\ conn[k] = "open" /\ broken[k] /\ sock[k] = <<>>
    /\ Ends(Front(k))
    /\ FirstRequest(Front(k))
    /\ conn' = [conn EXCEPT ![k] = "none"]
    /\ UNCHANGED <<clientVars, broken, accepts, sock, lastReply, groupVars, leaked, reqs,
                   pool, boxes, bUp>>

(***************************************************************************)
(* Multi-client connections                                                *)
(***************************************************************************)
\* UpgradeHandlerToMultiClient ends the handler of the connection ...
StartUpgrade(k) ==
    /\ conn[k] = "open" /\ sock[k] # <<>> /\ Head(sock[k]) = Multi
    /\ sock' = [sock EXCEPT ![k] = Tail(@)]
    /\ Ends(Front(k))
    /\ FirstRequest(Front(k))
    /\ conn' = [conn EXCEPT ![k] = "upgrade"]
    /\ sender' = TRUE
    /\ UNCHANGED <<clientVars, broken, accepts, lastReply, tmChan, replies, leaked, reqs,
                   pool, boxes, bUp>>

\* ... and starts one for each client in turn, with an ID of its own.
UpgradeClient(k) ==
    LET c == CHOOSE c \in k : ~Live(c) IN
    /\ conn[k] = "upgrade" /\ ids.new # <<>>
    /\ handler' = [handler EXCEPT ![c] =
                        [st |-> "idle", id |-> Head(ids.new), req |-> None]]
    /\ ids' = TakeId
    /\ NewConn
    /\ conn' = IF \A d \in k \ {c} : Live(d) THEN [conn EXCEPT ![k] = "multi"] ELSE conn
    /\ UNCHANGED <<clientVars, broken, accepts, sock, lastReply, groupVars, leaked, reqs,
                   pool, boxes, bUp>>

\* handleMultiClient: a message goes to its client's handler; an unknown one is dropped.
MultiRead(k) ==
    LET r == Head(sock[k]) IN
    /\ conn[k] = "multi" /\ sock[k] # <<>>
    /\ sock' = [sock EXCEPT ![k] = Tail(@)]
    /\ \/ r.kind = "unknown" /\ UNCHANGED tmChan
       \/ /\ r.kind # "unknown" /\ tmChan[r.client] = <<>>
          /\ tmChan' = [tmChan EXCEPT ![r.client] = <<r>>]
    /\ UNCHANGED <<clientVars, conn, broken, accepts, lastReply, handler, replies, sender,
                   idVars, poolVars, upVars>>

\* The connection is lost: the handlers are told in turn, when their channel has room.
MultiLost(k) ==
    LET untold == {c \in k : Live(c) /\ tmChan[c] # <<Lost>>}
        c == Front(untold) IN
    /\ conn[k] \in {"multi", "closing"} /\ broken[k] /\ sock[k] = <<>>
    /\ untold # {} /\ tmChan[c] = <<>>
    /\ tmChan' = [tmChan EXCEPT ![c] = <<Lost>>]
    /\ conn' = [conn EXCEPT ![k] = "closing"]
    /\ UNCHANGED <<clientVars, broken, accepts, sock, lastReply, handler, replies, sender,
                   idVars, poolVars, upVars>>

(* listenForProtobufRequestMultiClient takes its next request.  When the last handler has
   ended the group may connect again; replies left over go to the closed connection. *)
MultiTake(c) ==
    LET r == Head(tmChan[c])
        k == ConnOf(c)
        last == \A d \in k \ {c} : ~Live(d) IN
    /\ tmChan[c] # <<>> /\ handler[c].st = "idle"
    /\ tmChan' = [tmChan EXCEPT ![c] = <<>>]
    /\ \/ /\ r = Lost
          /\ Ends(c)
          /\ conn' = IF last THEN [conn EXCEPT ![k] = "none"] ELSE conn
          /\ replies' = IF last THEN <<>> ELSE replies
          /\ sender' = (sender /\ ~last)
       \/ /\ r # Lost /\ r.kind = "abort"       \* no result, no reply
          /\ UNCHANGED <<handler, ids, conn, replies, sender>>
       \/ /\ r # Lost /\ r.kind # "abort"
          /\ handler' = [handler EXCEPT ![c].st = "busy", ![c].req = r]
          /\ UNCHANGED <<ids, conn, replies, sender>>
    /\ UNCHANGED <<clientVars, broken, accepts, sock, lastReply, leaked, poolVars, upVars>>

\* handleMultiClientReplies
SendMultiReply ==
    /\ sender /\ replies # <<>>
    /\ replies' = Tail(replies)
    /\ \/ /\ ~broken[Group]
          /\ Receives(Head(replies).client, Head(replies).reply)
          /\ UNCHANGED sender
       \/ /\ broken[Group]
          /\ sender' \in BOOLEAN        \* it ends when it notices
          /\ UNCHANGED <<waiting, misled>>
    /\ UNCHANGED <<sent, connVars, handler, tmChan, idVars, poolVars, upVars>>

(***************************************************************************)
(* Request handlers                                                        *)
(***************************************************************************)
\* With a reply channel made for this request.
SendRequest(c) ==
    /\ Len(reqs) < ReqsSize
    /\ reqs' = Append(reqs, [req |-> handler[c].req, chan |-> handler[c].req])
    /\ handler' = [handler EXCEPT ![c].st = "pool"]
    /\ UNCHANGED <<clientVars, connVars, groupVars, idVars, nConns, pool, boxes,
                   upVars>>

\* handleRemoteStaticReads, handleRemoteStaticSingleRead, handleRemoteStaticUpds
HandleRemoteStatic(c) ==
    /\ handler[c].st = "busy" /\ handler[c].req.kind \in {"static", "single"}
    /\ SendRequest(c)

\* The first operation of an interactive transaction at the other server.
StartTxnForRemote(c) ==
    /\ handler[c].st = "busy" /\ handler[c].req.kind = "inter"
    /\ SendRequest(c)

\* The result goes to processConnection, or into the channel its connection shares.
HandlerReplies(c, result) ==
    LET k == ConnOf(c) IN
    /\ handler' = [handler EXCEPT ![c].st = "idle", ![c].req = None]
    /\ \/ /\ k # Group
          /\ conn' = [conn EXCEPT ![k] = "sending"]
          /\ lastReply' = [lastReply EXCEPT ![k] = result]
          /\ UNCHANGED replies
       \/ /\ k = Group /\ Len(replies) < Cardinality(Group)
          /\ replies' = Append(replies, [client |-> c, reply |-> result])
          /\ UNCHANGED <<conn, lastReply>>
    /\ UNCHANGED <<clientVars, broken, accepts, sock, tmChan, sender, idVars, nConns, reqs,
                   pool, upVars>>

ServeLocal(c) ==
    /\ handler[c].st = "busy" /\ ~Remote(handler[c].req)
    /\ HandlerReplies(c, handler[c].req)
    /\ UNCHANGED boxes

ReceiveReply(c) ==
    /\ handler[c].st = "pool"
    /\ \E b \in boxes :
         /\ b.chan = handler[c].req
         /\ boxes' = boxes \ {b}
         /\ HandlerReplies(c, b.reply)

(***************************************************************************)
(* The pool and the other server                                           *)
(***************************************************************************)
\* Mutants of NeedsLock and ClientID: every request locks the connection; every request
\* has the same client ID.
NeedsLockAlways(r) == TRUE
ClientIDOfAll(r)   == "all"

NeedsLock(r) == r.kind = "inter"
ClientID(r)  == PoolId(r.client)

\* handleRequests, request: SendProto ends the process when the send fails.
PoolSend(p) ==
    LET m == Head(reqs)
        id == ClientID(m.req) IN
    /\ p <= nConns /\ reqs # <<>> /\ pool[p].locked < MaxLocked
    /\ reqs' = Tail(reqs)
    /\ \/ /\ ~bUp /\ aUp' = FALSE
          /\ UNCHANGED pool
       \/ /\ ~pool[p].closed
          /\ pool' = [pool EXCEPT
                ![p].toB = IF bUp THEN Append(@, m.req) ELSE @,
                ![p].locked = IF NeedsLock(m.req) THEN @ + 1 ELSE @,
                ![p].map = [i \in DOMAIN @ \cup {id} |-> IF i = id THEN m.chan ELSE @[i]]]
          /\ UNCHANGED aUp
    /\ UNCHANGED <<clientVars, connVars, handler, groupVars, idVars, nConns,
                   boxes, bUp>>

\* receiver: the connection to a server that is gone is closed, and no more is read.
PoolConnLost(p) ==
    /\ p <= nConns /\ ~bUp /\ ~pool[p].closed
    /\ pool' = [pool EXCEPT ![p].closed = TRUE]
    /\ UNCHANGED <<clientVars, connVars, handler, groupVars, idVars, nConns,
                   reqs, boxes, upVars>>

(* handleServerToServer and handleServerRequests at the other server serve one request
   of a connection at a time; handleRequests hands the reply to the channel last stored
   for its client ID.  The result of a single read is never sent to the channel it is
   awaited on; starting a transaction dereferences an entry never stored. *)
ReplyFrom(p, r) ==
    LET chan == pool[p].map[ClientID(r)] IN
    /\ \A b \in boxes : b.chan # chan
    /\ boxes' = boxes \cup {[chan |-> chan, reply |-> r]}
    /\ pool' = [pool EXCEPT ![p].toB = Tail(@)]
    /\ UNCHANGED bUp

HandleServerToServer(p) ==
    LET r == Head(pool[p].toB) IN
    /\ bUp /\ pool[p].toB # <<>> /\ ~pool[p].stuck
    /\ \/ r.kind = "static" /\ ReplyFrom(p, r)
       \/ /\ r.kind = "single"
          /\ pool' = [pool EXCEPT ![p].stuck = TRUE]
          /\ UNCHANGED <<boxes, bUp>>
    /\ UNCHANGED <<clientVars, connVars, handler, groupVars, idVars, nConns, reqs, aUp>>

HandleServerStart(p) ==
    /\ bUp /\ pool[p].toB # <<>> /\ ~pool[p].stuck
    /\ Head(pool[p].toB).kind = "inter"
    /\ bUp' = FALSE
    /\ pool' = [q \in PoolConns |-> [pool[q] EXCEPT !.toB = <<>>]]
    /\ UNCHANGED <<clientVars, connVars, handler, groupVars, idVars, nConns, reqs, boxes, aUp>>

-------------------------------------------------------------------------------
Environment ==
    \/ \E k \in Conns : Accept(k) \/ ConnectionLost(k)
    \/ \E c \in Clients : ClientSend(c)

ConnStep(k) ==
    \/ ProcessProto(k) \/ SendReply(k) \/ ReadLost(k)
    \/ StartUpgrade(k) \/ UpgradeClient(k) \/ MultiRead(k) \/ MultiLost(k)

HandlerStep(c) ==
    \/ MultiTake(c) \/ ServeLocal(c) \/ HandleRemoteStatic(c) \/ StartTxnForRemote(c)
    \/ ReceiveReply(c)

ServerStep ==
    /\ aUp
    /\ \/ GenerateTMIDs \/ ReturnLate
       \/ \E k \in Conns : ConnStep(k)
       \/ \E c \in Clients : HandlerStep(c)
       \/ SendMultiReply
       \/ \E p \in PoolConns : PoolSend(p) \/ PoolConnLost(p)
       \/ \E p \in PoolConns : HandleServerToServer(p) \/ HandleServerStart(p)

Next == (aUp /\ Environment) \/ ServerStep

Spec == Init /\ [][Next]_vars

-------------------------------------------------------------------------------
(* The IDs of the handlers that run are different, and none of them waits to be given to
   another handler: an ID indexes the clock the garbage collector must respect
   (clksInUse), so two handlers with one ID would erase each other's. *)
IdsNotShared ==
    LET free == ids.new \o ids.reusable \o ids.canReuse IN
    /\ \A c, d \in Clients : c # d /\ Live(c) /\ Live(d) => handler[c].id # handler[d].id
    /\ \A i, j \in DOMAIN free : i # j => free[i] # free[j]
    /\ \A i \in DOMAIN free : /\ free[i] \notin ids.late \cup leaked
                             /\ \A c \in Clients : Live(c) => free[i] # handler[c].id

Alone(c) == \A d \in Clients \ {c} : PoolId(d) # PoolId(c)

(* A client is given the reply to what it asked, through the pool and the channels it
   shares, unless another client has its ID in the pool or the server did not know the
   message. *)
ReplyIsOwn == \A c \in misled : ~Alone(c)

\* Requests for the other server may wait for ever once it is down, once one of its
\* connections is stuck with a single read, or when two clients share an ID.
RemoteFails(c) == ~bUp \/ ~Alone(c) \/ \E p \in PoolConns : pool[p].stuck

(* When no goroutine can go on, no client is left waiting and the handlers of a lost
   multi-client connection have ended and given back their IDs, although nobody reads
   their replies any more.  What is served here is answered whatever becomes of the other
   server and of the clients that wait for it.  (A goroutine takes finitely many steps
   for each message, so each is answered in the end if goroutines that can go on do.) *)
NobodyLeftWaiting ==
    aUp /\ ~ENABLED ServerStep =>
        /\ \A c \in Clients :
              waiting[c] # None => Remote(waiting[c]) /\ RemoteFails(c)
        /\ conn[Group] = "closing" => \E c \in Group : Live(c) /\ RemoteFails(c)

===============================================================================
