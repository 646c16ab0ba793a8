----------------------------- MODULE RemoteConn -----------------------------
(***************************************************************************)
(* How the transactions of one replica reach the others through RabbitMQ:  *)
(* components/remoteConnection.go and remoteGroup.go.                      *)
(*                                                                         *)
(* The sender publishes on its own RabbitMQ, one message for every bucket  *)
(* of a transaction or a group, and the clock of the last transaction      *)
(* after them.  A receiver binds a queue of its own to the topics of its   *)
(* buckets and puts the transactions together again.  Every pair of        *)
(* replicas has such a connection; the module has one sender.              *)
(***************************************************************************)
EXTENDS Integers, FiniteSets, SequencesExt

CONSTANTS
    Receivers,      \* the other replicas
    Buckets,        \* the buckets of the sender
    Listens,        \* the buckets of every receiver
    HoldSlots,      \* len(onHold): as many as bucketsToListen has names
    IdBits,         \* width of txnCount (32 in the code)
    FirstId,        \* txnCount at the start of the behaviours
    MaxTxns,        \* bound: transactions
    MaxBatch,       \* bound: transactions of one call
    MaxBig,         \* bound: messages above MAX_MSG_SIZE
    MaxTriggers     \* bound: triggers

ASSUME RemoteConnConstants ==
    /\ Listens \in [Receivers -> SUBSET Buckets]
    /\ HoldSlots \in [Receivers -> Nat]
    /\ FirstId \in -(2^(IdBits - 1)) .. 2^(IdBits - 1) - 1

VARIABLES
    txns,             \* the buckets of every transaction given to the connection
    sender,           \* what the replicator's goroutine is doing
    outbox,           \* what it has still to publish
    route,            \* what it has read of connEstablished
    connEstablished,
    sendHoldCh,       \* messages kept until the connection is there
    holder,           \* what handleHoldSendMsgs is doing
    bound,            \* the topics each receiver's queue is bound to
    announced,        \* the receivers whose RemoteID has arrived
    recCh,            \* the queue of each receiver
    hold,             \* HoldTxn: the messages of the transaction that is coming in
    split,            \* the first part of a message that is coming in
    listenerChan,     \* what the receiver has passed on
    crash,            \* why a receiver has ended: "no" while it runs
    overtaken,        \* a message was published while one was on hold
    extras            \* the numbers of big messages and of triggers so far

connVars == <<connEstablished, sendHoldCh, holder>>
recvVars == <<hold, split, listenerChan, crash>>
vars == <<txns, sender, outbox, route, connVars, bound, announced, recCh, recvVars, overtaken, extras>>

ClkTopic     == "clk"
TriggerTopic == "trigger"

\* int32 arithmetic of txnCount: the ID of the n-th transaction
TxnID(n) == ((FirstId + n - 1 + 2^(IdBits - 1)) % 2^IdBits) - 2^(IdBits - 1)

\* A message with the transactions ns, whose IDs are from min to max: part is 0 for a
\* whole one and 1 or 2 for what sendMsg has split.
Msg(topic, kind, ns, min, max) ==
    [topic |-> topic, kind |-> kind, ns |-> ns, min |-> min, max |-> max, part |-> 0]
Idle == [at |-> "idle", works |-> {}, buf |-> {}, next |-> 0, last |-> 0]
Empty(id) == [msgs |-> <<>>, id |-> id]
NoMsg == Msg("none", "none", <<>>, 0, 0)

Init ==
    /\ txns = <<>>
    /\ sender = Idle
    /\ outbox = <<>>
    /\ route = "none"
    /\ connEstablished = FALSE
    /\ sendHoldCh = <<>>
    /\ holder = "dial"
    /\ bound = [r \in Receivers |-> {}]
    /\ announced = {}
    /\ recCh = [r \in Receivers |-> <<>>]
    /\ hold = [r \in Receivers |-> Empty(0)]
    /\ split = [r \in Receivers |-> NoMsg]
    /\ listenerChan = [r \in Receivers |-> <<>>]
    /\ crash = [r \in Receivers |-> "no"]
    /\ overtaken = FALSE
    /\ extras = [big |-> 0, triggers |-> 0]

-----------------------------------------------------------------------------
(* Starting up *)

\* finishInitialization of a receiver's connection binds its queue to one topic
\* after the other.
Bind(r) ==
    /\ \/ \E b \in Listens[r] \ bound[r] : bound' = [bound EXCEPT ![r] = @ \cup {b}]
       \/ /\ Listens[r] \subseteq bound[r]
          /\ ClkTopic \notin bound[r]
          /\ bound' = [bound EXCEPT ![r] = @ \cup {ClkTopic, TriggerTopic}]
    /\ UNCHANGED <<txns, sender, outbox, route, connVars, announced, recCh, recvVars, overtaken, extras>>

\* Then handleHoldSendMsgs sends what was on hold there: the receiver's RemoteID,
\* which the sender gets through its own connection.
Announce(r) ==
    /\ holder # "dial"
    /\ ClkTopic \in bound[r]
    /\ r \notin announced
    /\ announced' = announced \cup {r}
    /\ UNCHANGED <<txns, sender, outbox, route, connVars, bound, recCh, recvVars, overtaken, extras>>

\* Mutant of Started: clients are served as soon as the own connection is there.
StartedAlone == holder # "dial"

\* TMStart: clients are served once every RemoteID is there.
Started == announced = Receivers

\* The exchange puts a message in every queue bound to its topic.
Routed(m) == [r \in Receivers |-> IF m.topic \in bound[r] THEN Append(recCh[r], m) ELSE recCh[r]]

\* connectToRabbitMQ and handleHoldSendMsgs: what is on hold is published until there
\* is nothing left, then connEstablished is set, then what came in late is published
\* until nothing has come for a while.  A step of the sender takes less than that.
Holder ==
    /\ \/ /\ holder = "dial"
          /\ holder' = "drain"
          /\ UNCHANGED <<connEstablished, sendHoldCh, recCh>>
       \/ /\ holder \in {"drain", "linger"}
          /\ sendHoldCh # <<>>
          /\ recCh' = Routed(Head(sendHoldCh))
          /\ sendHoldCh' = Tail(sendHoldCh)
          /\ UNCHANGED <<holder, connEstablished>>
       \/ /\ holder = "drain"
          /\ sendHoldCh = <<>>
          /\ holder' = "flip"
          /\ UNCHANGED <<connEstablished, sendHoldCh, recCh>>
       \/ /\ holder = "flip"
          /\ connEstablished' = TRUE
          /\ holder' = "linger"
          /\ UNCHANGED <<sendHoldCh, recCh>>
       \/ /\ holder = "linger"
          /\ sendHoldCh = <<>>
          /\ route # "hold"
          /\ holder' = "done"
          /\ UNCHANGED <<connEstablished, sendHoldCh, recCh>>
    /\ UNCHANGED <<txns, sender, outbox, route, bound, announced, recvVars, overtaken, extras>>

-----------------------------------------------------------------------------
(* Sending *)

Free == sender.at = "idle" /\ outbox = <<>>

\* The messages sendMsg makes of one: two parts if it is above MAX_MSG_SIZE.
Parts(m, big) == IF big THEN <<[m EXCEPT !.part = 1], [m EXCEPT !.part = 2]>> ELSE <<m>>

\* The transaction n for bucket b, and the group a..z for bucket b.
TxnMsg(n, b) == Msg(b, "txn", <<n>>, TxnID(n), TxnID(n))
GroupMsg(a, z, b) ==
    Msg(b, "group", SelectSeq([i \in 1 .. (z - a + 1) |-> a + i - 1], LAMBDA n : b \in txns[n]),
        TxnID(a), TxnID(z))

Batches == UNION {[1 .. k -> (SUBSET Buckets) \ {{}}] : k \in 1 .. MaxBatch}

\* SendTxnsIndividually gives every transaction to the workers.
SendTxnsIndividually(B) ==
    /\ Started
    /\ Free
    /\ Len(txns) + Len(B) <= MaxTxns
    /\ txns' = txns \o B
    /\ LET ns == Len(txns) + 1 .. Len(txns) + Len(B)
       IN sender' = [at |-> "txns", works |-> ns, buf |-> {}, next |-> Len(txns) + 1, last |-> sender.last]
    /\ UNCHANGED <<outbox, route, connVars, bound, announced, recCh, recvVars, overtaken, extras>>

\* Mutant of Ready: what a worker returns is sent at once.
ReadyAtOnce(buf, next, n) == {n}

\* The transactions of the buffer workBuf that can be sent when n is the latest reply:
\* those before the first gap, and none if n is not the first that is missing.
Ready(buf, next, n) == IF n = next THEN {m \in buf : next .. m \subseteq buf} ELSE {}

\* A worker's reply; the messages of one transaction are in the order of a map.
WorkerReplies(n) ==
    /\ sender.at = "txns"
    /\ outbox = <<>>
    /\ n \in sender.works
    /\ LET buf == sender.buf \cup {n}
           ready == Ready(buf, sender.next, n)
           Of(m, order) == SelectSeq(order, LAMBDA b : b \in txns[m])
       IN /\ \E order \in [ready -> SetToSeqs(Buckets)] :
                outbox' = FlattenSeq([i \in 1 .. Cardinality(ready) |->
                            LET m == Min(ready) + i - 1
                                bs == Of(m, order[m])
                            IN [j \in DOMAIN bs |-> TxnMsg(m, bs[j])]])
          /\ sender' = [sender EXCEPT !.works = @ \ {n}, !.buf = buf \ ready,
                                      !.next = @ + Cardinality(ready)]
    /\ UNCHANGED <<txns, route, connVars, bound, announced, recCh, recvVars, overtaken, extras>>

\* SendGroupTxn: one message for every bucket, in the order the workers are done.
SendGroupTxn(B) ==
    /\ Started
    /\ Free
    /\ Len(txns) + Len(B) <= MaxTxns
    /\ txns' = txns \o B
    /\ sender' = [at |-> "group", works |-> UNION Range(B), buf |-> {}, next |-> Len(txns) + 1,
                  last |-> sender.last]
    /\ UNCHANGED <<outbox, route, connVars, bound, announced, recCh, recvVars, overtaken, extras>>

GroupWorkerReplies(b, big) ==
    /\ sender.at = "group"
    /\ outbox = <<>>
    /\ b \in sender.works
    /\ big => extras.big < MaxBig
    /\ outbox' = Parts(GroupMsg(sender.next, Len(txns), b), big)
    /\ sender' = [sender EXCEPT !.works = @ \ {b}]
    /\ extras' = [extras EXCEPT !.big = @ + IF big THEN 1 ELSE 0]
    /\ UNCHANGED <<txns, route, connVars, bound, announced, recCh, recvVars, overtaken>>

\* The call returns when everything is published.
Return ==
    /\ sender.at \in {"txns", "group"}
    /\ sender.works = {}
    /\ outbox = <<>>
    /\ sender' = [Idle EXCEPT !.last = sender.last]
    /\ UNCHANGED <<txns, outbox, route, connVars, bound, announced, recCh, recvVars, overtaken, extras>>

\* SendStableClk, which ends the cycle of the replicator
SendStableClk ==
    /\ Free
    /\ sender.last < Len(txns)
    /\ outbox' = <<Msg(ClkTopic, "clk", <<Len(txns)>>, 0, 0)>>
    /\ sender' = [sender EXCEPT !.last = Len(txns)]
    /\ UNCHANGED <<txns, route, connVars, bound, announced, recCh, recvVars, overtaken, extras>>

\* publishHelper: reads connEstablished, then publishes or holds the message.
ReadFlag ==
    /\ outbox # <<>>
    /\ route = "none"
    /\ route' = IF connEstablished THEN "direct" ELSE "hold"
    /\ UNCHANGED <<txns, sender, outbox, connVars, bound, announced, recCh, recvVars, overtaken, extras>>

PublishHelper ==
    /\ \/ /\ route = "direct"
          /\ recCh' = Routed(Head(outbox))
          /\ overtaken' = (overtaken \/ sendHoldCh # <<>>)
          /\ UNCHANGED sendHoldCh
       \/ /\ route = "hold"
          /\ sendHoldCh' = Append(sendHoldCh, Head(outbox))
          /\ UNCHANGED <<recCh, overtaken>>
    /\ route' = "none"
    /\ outbox' = Tail(outbox)
    /\ UNCHANGED <<txns, sender, connEstablished, holder, bound, announced, recvVars, extras>>

\* SendTrigger, called by the goroutine of a client
SendTrigger ==
    /\ Started
    /\ extras.triggers < MaxTriggers
    /\ extras' = [extras EXCEPT !.triggers = @ + 1]
    /\ LET m == Msg(TriggerTopic, "trigger", <<>>, 0, 0)
       IN IF connEstablished
          THEN recCh' = Routed(m) /\ UNCHANGED sendHoldCh
          ELSE sendHoldCh' = Append(sendHoldCh, m) /\ UNCHANGED recCh
    /\ UNCHANGED <<txns, sender, outbox, route, connEstablished, holder, bound, announced, recvVars, overtaken>>

-----------------------------------------------------------------------------
(* Receiving *)

\* getMergedTxn: the buckets' messages of one transaction, with the clock of the last
GetMergedTxn(msgs) ==
    <<[n |-> Last(msgs).ns[1], bkts |-> {msgs[i].topic : i \in DOMAIN msgs}]>>

\* Mutant of GetMergedTxnGroup: a bucket that has no update of a transaction ends the group.
GetMergedTxnGroupOfAll(msgs) ==
    LET in(n) == {msgs[i].topic : i \in {j \in DOMAIN msgs : Contains(msgs[j].ns, n)}}
        N == {n \in UNION {Range(msgs[i].ns) : i \in DOMAIN msgs} :
                 Cardinality(in(n)) = Len(msgs)}
    IN [i \in 1 .. Cardinality(N) |->
            LET n == SetToSortSeq(N, LAMBDA a, b : a < b)[i] IN [n |-> n, bkts |-> in(n)]]

\* getMergedTxnGroup goes from MinTxnID to MaxTxnID and skips the IDs without updates.
GetMergedTxnGroup(msgs) ==
    LET in(n) == {msgs[i].topic : i \in {j \in DOMAIN msgs : Contains(msgs[j].ns, n)}}
        N == {n \in UNION {Range(msgs[i].ns) : i \in DOMAIN msgs} :
                 TxnID(n) \in msgs[1].min .. msgs[1].max}
    IN [i \in 1 .. Cardinality(N) |->
            LET n == SetToSortSeq(N, LAMBDA a, b : a < b)[i] IN [n |-> n, bkts |-> in(n)]]

\* sendMerged: nothing if nothing is there
SendMerged(r) ==
    LET msgs == hold[r].msgs
    IN IF msgs = <<>> THEN <<>>
       ELSE IF Last(msgs).kind = "group" THEN <<[kind |-> "group", txns |-> GetMergedTxnGroup(msgs)]>>
       ELSE <<[kind |-> "txn", txns |-> GetMergedTxn(msgs)]>>

\* handleReceivedStableClock
HandleReceivedStableClock(r, m) ==
    /\ listenerChan' = [listenerChan EXCEPT ![r] =
          (@ \o SendMerged(r)) \o <<[kind |-> "clk", txns |-> <<[n |-> m.ns[1], bkts |-> {}]>>]>>]
    /\ hold' = [hold EXCEPT ![r] = Empty(0)]
    /\ UNCHANGED crash

\* Mutant of HandleReceivedOps: what is passed on stays on hold.
HandleReceivedOpsKeeping(r, m) ==
    LET new == m.min # hold[r].id
    IN /\ listenerChan' = [listenerChan EXCEPT ![r] = IF new THEN @ \o SendMerged(r) ELSE @]
       /\ IF Len(hold[r].msgs) < HoldSlots[r]
          THEN hold' = [hold EXCEPT ![r] = [msgs |-> Append(@.msgs, m), id |-> m.min]]
               /\ UNCHANGED crash
          ELSE crash' = [crash EXCEPT ![r] = "slots"] /\ UNCHANGED hold

\* handleReceivedOps and handleReceivedGroupOps: a message of another transaction
\* passes on what is there.  storeTxn panics when every slot is taken.
HandleReceivedOps(r, m) ==
    LET new == m.min # hold[r].id
        kept == IF new THEN Empty(m.min) ELSE hold[r]
    IN /\ listenerChan' = [listenerChan EXCEPT ![r] = IF new THEN @ \o SendMerged(r) ELSE @]
       /\ IF Len(kept.msgs) < HoldSlots[r]
          THEN hold' = [hold EXCEPT ![r] = [kept EXCEPT !.msgs = Append(@, m)]] /\ UNCHANGED crash
          ELSE crash' = [crash EXCEPT ![r] = "slots"] /\ UNCHANGED hold

\* startReceiver takes the next message.  receiveSplitMsg takes whatever comes for the
\* rest of its message: with anything else in the buffer decoding fails.
StartReceiver(r) ==
    /\ crash[r] = "no"
    /\ recCh[r] # <<>>
    /\ recCh' = [recCh EXCEPT ![r] = Tail(@)]
    /\ LET m == Head(recCh[r])
           rest == [split[r] EXCEPT !.part = 2]
       IN \/ /\ split[r] # NoMsg
             /\ m = rest
             /\ split' = [split EXCEPT ![r] = NoMsg]
             /\ HandleReceivedOps(r, [m EXCEPT !.part = 0])
          \/ /\ split[r] # NoMsg
             /\ m # rest
             /\ crash' = [crash EXCEPT ![r] = "split"]
             /\ UNCHANGED <<split, hold, listenerChan>>
          \/ /\ split[r] = NoMsg
             /\ m.part # 0
             /\ split' = [split EXCEPT ![r] = m]
             /\ UNCHANGED <<hold, listenerChan, crash>>
          \/ /\ split[r] = NoMsg
             /\ m.part = 0
             /\ UNCHANGED split
             /\ \/ m.kind = "clk" /\ HandleReceivedStableClock(r, m)
                \/ m.kind = "trigger" /\ UNCHANGED <<hold, listenerChan, crash>>
                \/ m.kind \in {"txn", "group"} /\ HandleReceivedOps(r, m)
    /\ UNCHANGED <<txns, sender, outbox, route, connVars, bound, announced, overtaken, extras>>

Next ==
    \/ Holder
    \/ \E B \in Batches : SendTxnsIndividually(B) \/ SendGroupTxn(B)
    \/ \E n \in 1 .. MaxTxns : WorkerReplies(n)
    \/ \E b \in Buckets, big \in BOOLEAN : GroupWorkerReplies(b, big)
    \/ Return
    \/ SendStableClk
    \/ ReadFlag
    \/ PublishHelper
    \/ SendTrigger
    \/ \E r \in Receivers : Bind(r) \/ Announce(r) \/ StartReceiver(r)

Spec == Init /\ [][Next]_vars

-----------------------------------------------------------------------------
(* Properties *)

\* What receiver r has passed on, group by group.
Got(r) == FlattenSeq([i \in DOMAIN listenerChan[r] |->
             [j \in DOMAIN listenerChan[r][i].txns |->
                 [n |-> listenerChan[r][i].txns[j].n, bkts |-> listenerChan[r][i].txns[j].bkts,
                  clk |-> listenerChan[r][i].kind = "clk"]]])
Concerns(r, n) == txns[n] \cap Listens[r] # {}

\* A transaction reaches a receiver whole: with all the buckets the receiver listens to,
\* although every bucket came in a message of its own and in any order, and although the
\* receiver's queue was bound bucket by bucket.
WholeTransactions ==
    ~overtaken => \A r \in Receivers : \A x \in Range(Got(r)) :
        ~x.clk => x.bkts = txns[x.n] \cap Listens[r]

\* Transactions are passed on in the order they were given to the connection, and a clock
\* comes after every transaction it covers: workers, buckets, groups and what was on hold
\* while connecting leave the order as it is, unless a message is published directly while
\* an earlier one is still on hold.
PassedOnInOrder ==
    ~overtaken => \A r \in Receivers : LET S == Got(r) IN
        /\ \A i, j \in DOMAIN S : i < j /\ ~S[j].clk => S[i].n < S[j].n
        /\ \A j \in DOMAIN S : S[j].clk =>
              \A n \in 1 .. S[j].n : Concerns(r, n) => \E i \in 1 .. j : S[i].n = n /\ ~S[i].clk

\* A receiver ends only when a trigger of another goroutine comes between the parts of a
\* split message: the slots of onHold always suffice for the messages of one transaction.
ReceiverSurvives ==
    \A r \in Receivers : crash[r] # "no" =>
        overtaken \/ (crash[r] = "split" /\ extras.triggers > 0)

\* When everybody is done nothing is left behind: what the reorder buffer, the hold channel
\* or onHold has taken has been passed on to every receiver it concerns.
NothingStranded ==
    Free /\ sender.last = Len(txns) /\ route = "none" /\ sendHoldCh = <<>> /\ ~overtaken =>
        \A r \in Receivers : crash[r] = "no" /\ recCh[r] = <<>> =>
            \A n \in DOMAIN txns : Concerns(r, n) => \E x \in Range(Got(r)) : x.n = n /\ ~x.clk

=============================================================================
