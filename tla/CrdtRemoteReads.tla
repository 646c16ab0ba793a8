--------------------------- MODULE CrdtRemoteReads ---------------------------
(***************************************************************************)
(* A read of an object that another server holds.  The requester encodes   *)
(* the arguments (ToPartialRead), the other server decodes them            *)
(* (PartialReadOpToAntidoteRead), reads, and encodes the state it finds    *)
(* (ToReadResp), which the requester decodes by the type of the object and *)
(* of the read (ReadRespProtoToAntidoteState).                             *)
(*                                                                         *)
(* A message is a function from the fields that are set to their values: a *)
(* getter answers with the default for the others, and an empty list is    *)
(* not sent.  A state is a tuple of its class and its contents; two Go     *)
(* types with the same contents and codec are one class.                   *)
(***************************************************************************)
EXTENDS CrdtTypes

Get(m, f, default) == IF f \in DOMAIN m THEN m[f] ELSE default
None == <<>>                            \* the message without fields
Lists(f, x) == IF x = <<>> THEN None ELSE f :> x
NilState == <<"nil">>
NoAnswer == <<"panic">>

\* The reads of an object; positions are inside its arrays, and a read of
\* several arrays asks for the same positions of each.
CondReads(p, s) ==
    [read : {"DataCond"}, k : {k \in {"int", "float", "avg"} : p \in DOMAIN s[k]}, p : {p}, c : {Condition}]
    \cup [read : {"DataInt"}, p : {p} \cap DOMAIN s.int]
    \cup [read : {"Comparable"}, K : {<<"data">>, <<"float", "data">>}, p : {p} \cap DOMAIN s.int,
          c : [cmp : {"EQ", "NEQ"}, n : {1}]]
ArrayReadArgs(s) ==
    LET few == {<<"int">>, <<"int", "avg">>, <<"float", "data">>}
        P == {<<1, 2>>, <<2>>}
    IN [read : {"Full"}, k : MultiArrayKinds] \cup [read : {"FullTypes"}, K : few]
       \cup [read : {"Pos"}, k : MultiArrayKinds, p : Positions] \cup [read : {"PosTypes"}, K : few, p : Positions]
       \cup [read : {"Range"}, k : MultiArrayKinds, from : {0, 1}, to : {2}]
       \cup [read : {"RangeTypes"}, K : few, from : {0}, to : {1}]
       \cup [read : {"Sub"}, k : MultiArrayKinds, P : P] \cup [read : {"SubTypes"}, K : few, P : P]
       \cup [read : {"Custom"}, ps : [{"int", "float", "data"} -> {<<>>, <<-1>>, <<0, 1>>}]]
       \cup UNION {CondReads(p, s) : p \in Positions}
EmbReadArgs ==
    [read : {"EmbGetValue", "EmbSingleExcept", "HasKey"}, key : Keys]
    \cup [read : {"EmbPartial", "EmbExcept", "GetValues"}, keys : SUBSET Keys]
    \cup [read : {"EmbOnAll", "GetKeys"}] \cup [read : {"EmbCondAll"}, c : {Condition}]
    \cup [read : {"EmbCond", "EmbCondExcept"}, keys : SUBSET Keys, c : {Condition}]
    \cup [read : {"EmbCondExceptSingle"}, key : Keys, c : {Condition}]
    \cup [read : {"Aggregate"}, type : {"sum", "avg", "max", "min"}, over : {{}} \cup {{K} : K \in SUBSET Keys},
          c : {{}, {Condition}}]
ReadArgs(ty, s) ==
    [read : {"State"}] \cup
    CASE ty = "pair" -> [read : {"First", "Second"}]
      [] ty = "avg"  -> [read : {"AvgGetFull"}]
      [] ty = "set"  -> [read : {"Lookup"}, elem : Elements] \cup [read : {"NElements"}]
      [] ty = "map"  -> [read : {"HasKey", "GetValue"}, key : Keys] \cup [read : {"GetKeys"}]
                        \cup [read : {"GetValues"}, keys : SUBSET Keys]
      [] ty \in {"topk", "topkrmv", "topsum"} ->
            [read : {"TopN"}, n : {1, 3}] \cup [read : {"TopAbove"}, min : TopScores]
      [] ty \in {"carray", "cincs"} ->
            [read : {"CSingle", "CExcept"}, p : DOMAIN s] \cup [read : {"CSub"}, P : {[p \in DOMAIN s |-> p]}]
            \cup [read : {"CExceptRange"}, from : {1}, to : DOMAIN s]
      [] ty \in ArrayTypes -> ArrayReadArgs(s)
      [] ty = "embmap" -> EmbReadArgs
      [] OTHER -> {}

\* GetREADType
READTypes ==
    [State |-> "FULL", First |-> "PAIR_FIRST", Second |-> "PAIR_SECOND", AvgGetFull |-> "GET_FULL_AVG",
     Lookup |-> "LOOKUP", NElements |-> "N_ELEMS", HasKey |-> "HAS_KEY", GetKeys |-> "GET_KEYS",
     GetValue |-> "GET_VALUE", GetValues |-> "GET_VALUES", EmbGetValue |-> "GET_VALUE",
     EmbPartial |-> "GET_VALUES", EmbOnAll |-> "GET_ALL_VALUES", EmbExcept |-> "GET_EXCEPT",
     EmbSingleExcept |-> "GET_EXCEPT_SINGLE", EmbCond |-> "GET_COND", EmbCondAll |-> "GET_ALL_COND",
     EmbCondExcept |-> "GET_EXCEPT_COND", EmbCondExceptSingle |-> "GET_EXCEPT_SINGLE_COND",
     Aggregate |-> "GET_AGGREGATE", TopN |-> "GET_N", TopAbove |-> "GET_ABOVE_VALUE",
     CSingle |-> "COUNTER_SINGLE", CExcept |-> "COUNTER_EXCEPT", CSub |-> "COUNTER_SUB",
     CExceptRange |-> "COUNTER_EXCEPT_RANGE", Full |-> "MULTI_FULL", FullTypes |-> "MULTI_FULL",
     Pos |-> "MULTI_SINGLE", PosTypes |-> "MULTI_SINGLE", Range |-> "MULTI_RANGE",
     RangeTypes |-> "MULTI_RANGE", Sub |-> "MULTI_SUB", SubTypes |-> "MULTI_SUB",
     Custom |-> "MULTI_CUSTOM", Comparable |-> "MULTI_COND", DataInt |-> "MULTI_DATA_INT",
     DataCond |-> "MULTI_DATA_COND"]
GetREADType(q) == READTypes[q.read]

-----------------------------------------------------------------------------
(* The arguments: ToPartialRead, and FromPartialRead at the other server.  *)

\* The comparison 0, which a message without one is read as, is NEQ.
CompareArgsToProto(c) == [comp |-> c.cmp, value |-> c.n]
ProtoArgsToCompareArgs(m) == [cmp |-> Get(m, "comp", "NEQ"), n |-> Get(m, "value", 0)]

\* createMapGetValuesRead for a full read of the embedded object.
InnerFullRead == [Readtype |-> "FULL"]

SetToPartialRead(q) == IF q.read = "Lookup" THEN [element |-> q.elem] ELSE None
SetFromPartialRead(rt, m) ==
    IF rt = "LOOKUP" THEN [read |-> "Lookup", elem |-> Get(m, "element", 0)] ELSE [read |-> "NElements"]

MapToPartialRead(q) ==
    CASE q.read \in {"HasKey", "GetValue"} -> [key |-> q.key]
      [] q.read = "GetValues" -> [keys |-> q.keys]
      [] q.read = "GetKeys"   -> None
MapFromPartialRead(rt, m) ==
    CASE rt = "HAS_KEY"    -> [read |-> "HasKey", key |-> Get(m, "key", 0)]
      [] rt = "GET_VALUE"  -> [read |-> "GetValue", key |-> Get(m, "key", 0)]
      [] rt = "GET_VALUES" -> [read |-> "GetValues", keys |-> Get(m, "keys", {})]
      [] rt = "GET_KEYS"   -> [read |-> "GetKeys"]

\* The keys and the condition of an aggregate are optional: sets of at most
\* one.  No keys to aggregate over cannot be told from no restriction.
EmbToPartialRead(q) ==
    CASE q.read = "EmbGetValue"     -> [key |-> q.key, args |-> InnerFullRead]
      [] q.read = "EmbPartial"      -> ("keys" :> q.keys)
                                       @@ (IF q.keys = {} THEN None ELSE "args" :> [k \in q.keys |-> InnerFullRead])
      [] q.read = "EmbOnAll"        -> [args |-> InnerFullRead]
      [] q.read = "EmbExcept"       -> [keys |-> q.keys, args |-> InnerFullRead]
      [] q.read = "EmbSingleExcept" -> [key |-> q.key, args |-> InnerFullRead]
      [] q.read = "EmbCond"         -> [condargs |-> [k \in q.keys |-> CompareArgsToProto(q.c)]]
      [] q.read = "EmbCondAll"      -> [condarg |-> CompareArgsToProto(q.c)]
      [] q.read = "EmbCondExcept"   -> [keys |-> q.keys, condarg |-> CompareArgsToProto(q.c)]
      [] q.read = "EmbCondExceptSingle" -> [key |-> q.key, condarg |-> CompareArgsToProto(q.c)]
      [] q.read = "Aggregate"       ->
            ("aggregationtype" :> q.type)
            @@ (IF UNION q.over = {} THEN None ELSE "keys" :> UNION q.over)
            @@ (IF q.c = {} THEN "args" :> InnerFullRead
                ELSE "condarg" :> CompareArgsToProto(CHOOSE c \in q.c : TRUE))
EmbFromPartialRead(rt, m) ==
    LET keys == Get(m, "keys", {})
        key  == Get(m, "key", 0)
        c    == ProtoArgsToCompareArgs(Get(m, "condarg", None))
    IN CASE rt = "GET_VALUE"         -> [read |-> "EmbGetValue", key |-> key]
         [] rt = "GET_VALUES"        ->
                [read |-> IF "args" \in DOMAIN m THEN "EmbPartial" ELSE "GetValues", keys |-> keys]
         [] rt = "GET_ALL_VALUES"    -> [read |-> "EmbOnAll"]
         [] rt = "GET_EXCEPT"        -> [read |-> "EmbExcept", keys |-> keys]
         [] rt = "GET_EXCEPT_SINGLE" -> [read |-> "EmbSingleExcept", key |-> key]
         [] rt = "GET_COND"          ->
                [read |-> "EmbCond", keys |-> DOMAIN m.condargs,
                 c |-> IF DOMAIN m.condargs = {} THEN c
                       ELSE ProtoArgsToCompareArgs(m.condargs[CHOOSE k \in DOMAIN m.condargs : TRUE])]
         [] rt = "GET_ALL_COND"      -> [read |-> "EmbCondAll", c |-> c]
         [] rt = "GET_EXCEPT_COND"   -> [read |-> "EmbCondExcept", keys |-> keys, c |-> c]
         [] rt = "GET_EXCEPT_SINGLE_COND" -> [read |-> "EmbCondExceptSingle", key |-> key, c |-> c]
         [] rt = "GET_AGGREGATE"     ->
                [read |-> "Aggregate", type |-> Get(m, "aggregationtype", "sum"),
                 over |-> IF "keys" \in DOMAIN m THEN {keys} ELSE {},
                 c |-> IF "condarg" \in DOMAIN m THEN {c} ELSE {}]

TopToPartialRead(q) == IF q.read = "TopN" THEN [amount |-> q.n] ELSE [minValue |-> q.min]
TopFromPartialRead(rt, m) ==
    IF rt = "GET_N" THEN [read |-> "TopN", n |-> Get(m, "amount", 0)]
    ELSE [read |-> "TopAbove", min |-> Get(m, "minValue", 0)]

CArrayToPartialRead(q) ==
    CASE q.read \in {"CSingle", "CExcept"} -> [index |-> q.p]
      [] q.read = "CSub" -> Lists("indexes", q.P)
      [] q.read = "CExceptRange" -> [indexes |-> <<q.from, q.to>>, nPositionsSkip |-> q.to - q.from + 1]
CArrayFromPartialRead(rt, m) ==
    CASE rt = "COUNTER_SINGLE" -> [read |-> "CSingle", p |-> Get(m, "index", 1)]
      [] rt = "COUNTER_EXCEPT" -> [read |-> "CExcept", p |-> Get(m, "index", 1)]
      [] rt = "COUNTER_SUB"    -> [read |-> "CSub", P |-> Get(m, "indexes", <<>>)]
      [] rt = "COUNTER_EXCEPT_RANGE" ->
            [read |-> "CExceptRange", from |-> m.indexes[1], to |-> m.indexes[2]]

\* Types tells the arrays; of a comparison the kind is left out of the message
\* of a MultiArrayComparableArguments.
OneType(q) == [types |-> <<q.k>>]
MArrayToPartialRead(q) ==
    LET types == IF "k" \in DOMAIN q THEN OneType(q) ELSE Lists("types", Get(q, "K", <<>>))
    IN CASE q.read \in {"Full", "FullTypes"}   -> types
         [] q.read \in {"Pos", "PosTypes"}     -> types @@ [pos |-> q.p]
         [] q.read \in {"Range", "RangeTypes"} -> types @@ [start |-> q.from, end |-> q.to]
         [] q.read \in {"Sub", "SubTypes"}     -> types @@ Lists("indexes", q.P)
         [] q.read = "Custom" ->
                ("types" :> <<"multi">>)
                @@ ("custom" :> Restrict(q.ps, {k \in DOMAIN q.ps : q.ps[k] # <<>>}))
         [] q.read = "Comparable" -> types @@ [comparePos |-> q.p, compareType |-> "int", value |-> q.c.n]
         [] q.read = "DataInt"    -> [comparePos |-> q.p, types |-> <<"int">>]
         [] q.read = "DataCond"   -> types @@ [comparePos |-> q.p] @@ CompareArgsToProto(q.c)

\* A message with one type asks for one array, in whatever form it was made.
MArrayFromPartialRead(rt, m) ==
    LET types == Get(m, "types", <<>>)
        form(one, several) ==
            IF Len(types) = 1 THEN [read |-> one, k |-> types[1]] ELSE [read |-> several, K |-> types]
        pos  == Get(m, "comparePos", 1)
    IN CASE rt = "MULTI_FULL"   -> form("Full", "FullTypes")
         [] rt = "MULTI_SINGLE" -> form("Pos", "PosTypes") @@ [p |-> m.pos]
         [] rt = "MULTI_RANGE"  -> form("Range", "RangeTypes") @@ [from |-> m.start, to |-> m.end]
         [] rt = "MULTI_SUB"    -> form("Sub", "SubTypes") @@ [P |-> Get(m, "indexes", <<>>)]
         [] rt = "MULTI_CUSTOM" ->
                [read |-> "Custom", ps |-> [k \in {"int", "float", "data"} |-> Get(m.custom, k, <<>>)]]
         [] rt = "MULTI_COND"   ->
                [read |-> "Comparable", K |-> types, p |-> pos, c |-> ProtoArgsToCompareArgs(m)]
         [] rt = "MULTI_DATA_INT"  -> [read |-> "DataInt", p |-> Get(m, "value", 0) + 1]
         [] rt = "MULTI_DATA_COND" ->
                [read |-> "DataCond", k |-> types[1], p |-> pos, c |-> ProtoArgsToCompareArgs(m)]

MapReads == {"HAS_KEY", "GET_KEYS"}
ToPartialRead(ty, q) ==
    CASE q.read \in {"State", "First", "Second", "AvgGetFull"} -> None
      [] q.read \in {"HasKey", "GetKeys", "GetValue", "GetValues"} -> MapToPartialRead(q)
      [] OTHER -> CASE ty = "set" -> SetToPartialRead(q)
                    [] ty = "embmap" -> EmbToPartialRead(q)
                    [] ty \in {"topk", "topkrmv", "topsum"} -> TopToPartialRead(q)
                    [] ty \in {"carray", "cincs"} -> CArrayToPartialRead(q)
                    [] ty \in ArrayTypes -> MArrayToPartialRead(q)
PartialReadOpToAntidoteRead(ty, rt, m) ==
    CASE rt = "FULL"         -> [read |-> "State"]
      [] rt = "PAIR_FIRST"   -> [read |-> "First"]
      [] rt = "PAIR_SECOND"  -> [read |-> "Second"]
      [] rt = "GET_FULL_AVG" -> [read |-> "AvgGetFull"]
      [] rt \in {"LOOKUP", "N_ELEMS"} -> SetFromPartialRead(rt, m)
      [] rt \in MapReads \/ (ty = "map" /\ rt # "FULL") -> MapFromPartialRead(rt, m)
      [] ty = "embmap" /\ rt \notin MapReads \cup {"FULL"} -> EmbFromPartialRead(rt, m)
      [] rt \in {"GET_N", "GET_ABOVE_VALUE"} -> TopFromPartialRead(rt, m)
      [] ty \in {"carray", "cincs"} /\ rt # "FULL" -> CArrayFromPartialRead(rt, m)
      [] ty \in ArrayTypes /\ rt # "FULL" -> MArrayFromPartialRead(rt, m)

-----------------------------------------------------------------------------
(* The state a server reads, for each kind of arguments (CRDT.Read).       *)

\* The n best of the sorted entries, if there are more.
BestN(E, n) ==
    IF n >= Cardinality(E) THEN E
    ELSE CHOOSE B \in SUBSET E : /\ Cardinality(B) = n
                                 /\ \A b \in B, e \in E \ B : b.sc >= e.sc
TopRead(ty, s, S) ==
    CASE ty = "topk"    -> TopkRead(s, S)
      [] ty = "topkrmv" -> TopkRmvRead(s, S)
      [] ty = "topsum"  -> TopsRead(s, S)
TopReadState(ty, s, q) ==
    LET R(S) == TopRead(ty, s, S)
    IN CASE q.read = "State"    -> <<"Top", R({}).state>>
         [] q.read = "TopN"     -> <<"Top", BestN(R({}).topN, q.n)>>
         [] q.read = "TopAbove" -> <<"Top", R({q.min}).above[q.min]>>

MapReadState(s, q) ==
    CASE q.read = "State"     -> <<"MapEntry", MapState(s, <<>>)>>
      [] q.read = "HasKey"    -> <<"HasKey", MapHasKey(s, <<>>, q.key)>>
      [] q.read = "GetKeys"   -> <<"Keys", MapGetKeys(s, <<>>)>>
      [] q.read = "GetValue"  -> <<"MapGetValue", MapValue(s, <<>>, q.key)>>
      [] q.read = "GetValues" -> <<"MapEntry", MapValues(s, <<>>, q.keys)>>

\* getAggregateState: an average with its count, or a float.
AggregateState(s, q) ==
    LET c == CHOOSE x \in q.c : TRUE
        K == CHOOSE x \in q.over : TRUE
        a == CASE q.over = {} /\ q.c = {} -> GetAggregateStateByReadArgs(s, <<>>)
               [] q.over # {} /\ q.c = {} -> GetAggregateStateByReadArgsByKeys(s, <<>>, K)
               [] q.over = {} /\ q.c # {} -> GetAggregateStateByCompArgs(s, <<>>, c)
               [] q.over # {} /\ q.c # {} -> GetAggregateStateByCompArgsByKeys(s, <<>>, K, c)
    IN IF q.type = "avg" THEN <<"AvgFull", [sum |-> a.sum, nAdds |-> a.count]>>
       ELSE <<"CounterFloat", a[q.type]>>

\* The embedded objects are counters; a missing one is shown as an empty register.
Counters(f) == [k \in DOMAIN f |-> <<"Counter", f[k]>>]
EmbReadState(s, q) ==
    CASE q.read = "State"   -> <<"EmbMapEntry", Counters(GetEmbState(s, <<>>))>>
      [] q.read = "GetKeys" -> <<"Keys", GetKeys(s, <<>>)>>
      [] q.read = "HasKey"  -> <<"HasKey", HasKey(s, <<>>, q.key)>>
      [] q.read = "EmbGetValue" ->
            LET v == GetValue(s, <<>>, q.key)
            IN <<"EmbMapGetValue", IF v = Absent THEN <<"Register", NoValue>> ELSE <<"Counter", v>>>>
      [] q.read = "GetValues"       -> <<"EmbMapGetValues", Counters(GetValues(s, <<>>, q.keys))>>
      [] q.read = "EmbPartial"      -> <<"EmbMapGetValues", Counters(GetPartialState(s, <<>>, q.keys))>>
      [] q.read = "EmbOnAll"        -> <<"EmbMapGetValues", Counters(GetAllPartialState(s, <<>>))>>
      [] q.read = "EmbExcept"       -> <<"EmbMapGetValues", Counters(GetAllExcept(s, <<>>, q.keys))>>
      [] q.read = "EmbSingleExcept" -> <<"EmbMapGetValues", Counters(GetExceptSingleState(s, <<>>, q.key))>>
      [] q.read = "EmbCond"         -> <<"EmbMapEntry", Counters(GetCondState(s, <<>>, q.keys, q.c))>>
      [] q.read = "EmbCondAll"      -> <<"EmbMapEntry", Counters(GetAllCondState(s, <<>>, q.c))>>
      [] q.read = "EmbCondExcept"   -> <<"EmbMapEntry", Counters(GetExceptCondState(s, <<>>, q.keys, q.c))>>
      [] q.read = "EmbCondExceptSingle" ->
            <<"EmbMapEntry", Counters(GetExceptCondSingleState(s, <<>>, q.key, q.c))>>
      [] q.read = "Aggregate"       -> AggregateState(s, q)

CArrayReadState(s, q) ==
    CASE q.read = "State"   -> <<"CounterArray", GetCounts(s, <<>>)>>
      [] q.read = "CSingle" -> <<"CounterArraySingle", GetSingleState(s, <<>>, q.p)>>
      [] q.read = "CExcept" -> <<"CounterArray", GetExceptState(s, <<>>, q.p)>>
      [] q.read = "CSub"    -> <<"CounterArray", GetSubState(s, <<>>, q.P)>>
      [] q.read = "CExceptRange" -> <<"CounterArray", GetExceptRangeState(s, <<>>, q.from, q.to)>>

\* The arrays of a MultiArrayState or the values of a MultiArraySingleState
\* that were not asked for are unset.
Unset(f, default(_)) == [k \in MultiArrayKinds |-> IF k \in DOMAIN f THEN f[k] ELSE default(k)]
MultiArrayOf(f) == <<"MultiArray", Unset(f, LAMBDA k : <<>>)>>
DataPosOf(k, d) == IF d.found THEN <<"DataPos", k, [data |-> d.data, val |-> d.val]>> ELSE NilState

\* getComparableState with a comparison of an integer: the arrays asked for,
\* and the integer, unless the integers are among them.
GetComparableState(s, K, p, c) ==
    IF CheckIntComparison(c.cmp, s.int[p], c.n)
    THEN MultiArrayOf(GetFullStateOfMultipleTypes(s, <<>>, K)
                      @@ (IF "int" \in K THEN None ELSE "int" :> <<s.int[p]>>))
    ELSE NilState

MArrayReadState(s, q) ==
    LET K == IF "K" \in DOMAIN q THEN Range(q.K) ELSE {}
    IN CASE q.read = "State"      -> MultiArrayOf(GetState(s, <<>>))
         [] q.read = "Full"       -> <<"Array", q.k, GetFullStateOfType(q.k, s, <<>>)>>
         [] q.read = "FullTypes"  -> MultiArrayOf(GetFullStateOfMultipleTypes(s, <<>>, K))
         [] q.read = "Pos"        -> <<"Single", q.k, GetPosStateOfType(q.k, s, <<>>, q.p)>>
         [] q.read = "PosTypes"   -> <<"MultiSingle", Unset(GetPosStateOfMultipleTypes(s, <<>>, K, q.p), Zero)>>
         [] q.read = "Range"      -> <<"Array", q.k, GetRangeStateOfType(q.k, s, <<>>, q.from, q.to)>>
         [] q.read = "RangeTypes" ->
                MultiArrayOf([k \in K |-> GetRangeStateOfType(k, s, <<>>, q.from, q.to)])
         [] q.read = "Sub"        -> <<"Array", q.k, GetSubStateOfType(q.k, s, <<>>, q.P)>>
         [] q.read = "SubTypes"   -> MultiArrayOf(GetSubStateOfMultipleTypes(s, <<>>, K, q.P))
         [] q.read = "Custom"     ->
                MultiArrayOf([k \in DOMAIN q.ps |-> GetCustomState(k, s, <<>>, q.ps[k])])
         [] q.read = "Comparable" -> GetComparableState(s, K, q.p, q.c)
         [] q.read = "DataInt"    -> DataPosOf("int", GetDataIntState(s, <<>>, q.p))
         [] q.read = "DataCond"   ->
                DataPosOf(q.k, CASE q.k = "int"   -> GetDataIntComparableState(s, <<>>, q.p, q.c.cmp, q.c.n)
                                 [] q.k = "float" -> GetDataFloatComparableState(s, <<>>, q.p, q.c.cmp, q.c.n)
                                 [] q.k = "avg"   -> GetDataAvgComparableState(s, <<>>, q.p, q.c.cmp, q.c.n))

SetReadState(s, q) ==
    CASE q.read = "State"     -> <<"SetAWValue", SetState(s, <<>>)>>
      [] q.read = "Lookup"    -> <<"SetAWLookup", SetLookup(s, q.elem, <<>>)>>
      [] q.read = "NElements" -> <<"SetAWNElements", SetNElements(s, <<>>)>>

PairReadState(v, q) ==
    CASE q.read = "State"  -> <<"PairCounter", v>>
      [] q.read = "First"  -> <<"SingleFirst", v.first>>
      [] q.read = "Second" -> <<"SingleSecond", v.second>>

\* The types that are read as a whole, but for the two reads of an average
WholeReads == [counter |-> "Counter", float |-> "CounterFloat", max |-> "MaxMin", min |-> "MaxMin",
               ew |-> "Flag", dw |-> "Flag", lwwflag |-> "Flag", lwwreg |-> "Register"]

ReadState(ty, s, q) ==
    CASE ty \in DOMAIN WholeReads -> <<WholeReads[ty], TypeRead(ty, s, <<>>)>>
      [] ty = "pair"    -> PairReadState(PairRead(s, <<>>), q)
      [] ty = "avg"     -> <<IF q.read = "State" THEN "Avg" ELSE "AvgFull", AvgRead(s, <<>>)>>
      [] ty = "set"     -> SetReadState(s, q)
      [] ty = "map"     -> MapReadState(s, q)
      [] ty \in {"topk", "topkrmv", "topsum"} -> TopReadState(ty, s, q)
      [] ty \in {"carray", "cincs"} -> CArrayReadState(s, q)
      [] ty \in ArrayTypes -> MArrayReadState(s, q)
      [] ty = "embmap"  -> EmbReadState(s, q)

-----------------------------------------------------------------------------
(* The answers: ToReadResp, and FromReadResp at the requester.             *)

\* The classes of a single field, with the field and its default.
Fields ==
    [Counter |-> <<"counter", 0>>, CounterFloat |-> <<"counterfloat", 0>>, SingleFirst |-> <<"first", 0>>,
     SingleSecond |-> <<"second", 0>>, Avg |-> <<"avg", [sum |-> 0, nAdds |-> 0]>>,
     AvgFull |-> <<"getfull", [sum |-> 0, nAdds |-> 0]>>, MaxMin |-> <<"maxmin", 0>>, Flag |-> <<"flag", FALSE>>,
     Register |-> <<"reg", NoValue>>, SetAWValue |-> <<"set", {}>>, SetAWLookup |-> <<"lookup", FALSE>>,
     SetAWNElements |-> <<"nelems", 0>>, MapEntry |-> <<"map", None>>, HasKey |-> <<"haskey", FALSE>>,
     Keys |-> <<"getkeys", {}>>, MapGetValue |-> <<"getvalue", NoValue>>, Top |-> <<"topk", {}>>,
     CounterArray |-> <<"arraycounter", <<>>>>, CounterArraySingle |-> <<"arrayvalue", 0>>]
FieldToReadResp(st) == Fields[st[1]][1] :> st[2]
FieldFromReadResp(class, m) == <<class, Get(m, Fields[class][1], Fields[class][2])>>

PairToReadResp(st) == [first |-> st[2].first, second |-> st[2].second]
PairFromReadResp(m) == <<"PairCounter", [first |-> Get(m, "first", 0), second |-> Get(m, "second", 0)]>>
SingleSecondFromReadResp(m) == <<"SingleFirst", Get(m, "second", 0)>>

\* An embedded object travels with its type, by which its state is decoded.
InnerToReadResp(st) == [crdttype |-> IF st[1] = "Counter" THEN "COUNTER" ELSE "LWWREG",
                        value |-> FieldToReadResp(st)]
InnerFromReadResp(m) ==
    FieldFromReadResp(IF m.crdttype = "COUNTER" THEN "Counter" ELSE "Register", m.value)
CrdtsToApbMapEntries(f) == [k \in DOMAIN f |-> InnerToReadResp(f[k])]
EmbToReadResp(st) ==
    CASE st[1] = "EmbMapEntry"     -> [map |-> CrdtsToApbMapEntries(st[2])]
      [] st[1] = "EmbMapGetValue"  -> [getvalue |-> InnerToReadResp(st[2])]
      [] st[1] = "EmbMapGetValues" -> [getvalues |-> CrdtsToApbMapEntries(st[2])]
EmbFromReadResp(class, m) ==
    LET inner(f) == [k \in DOMAIN f |-> InnerFromReadResp(f[k])]
    IN CASE class = "EmbMapEntry"     -> <<class, inner(Get(m, "map", None))>>
         [] class = "EmbMapGetValue"  -> <<class, InnerFromReadResp(m.getvalue)>>
         [] class = "EmbMapGetValues" -> <<class, inner(Get(m, "getvalues", None))>>

\* Of several arrays or values only the set ones are sent: an average when its
\* sum is not 0.  The Type that the requester looks at is in the answers about
\* one array and in that of a MultiArraySingleState.
Sent(f) == Restrict(f, {k \in DOMAIN f : f[k] # <<>>})
NonZero(f) == Restrict(f, {k \in DOMAIN f : IF k = "avg" THEN f[k].sum # 0 ELSE f[k] # 0})
MArrayToReadResp(st) ==
    CASE st[1] = "MultiArray"  -> [multiarray |-> Sent(st[2])]
      [] st[1] = "Array"       -> [Type |-> st[2], array |-> st[2] :> st[3]]
      [] st[1] = "Single"      -> [Type |-> st[2], single |-> st[2] :> st[3]]
      [] st[1] = "MultiSingle" -> [Type |-> "multi", single |-> NonZero(st[2])]
      [] st[1] = "DataPos"     -> [Type |-> st[2], dataAndSingle |-> st[3]]
MArrayFromReadResp(class, k, m) ==
    CASE class = "MultiArray"  -> MultiArrayOf(Get(m, "multiarray", None))
      [] class = "Array"       -> <<class, k, Get(Get(m, "array", None), k, <<>>)>>
      [] class = "Single"      -> <<class, k, Get(Get(m, "single", None), k, Zero(k))>>
      [] class = "MultiSingle" -> <<class, Unset(Get(m, "single", None), Zero)>>
      [] class = "DataPos"     -> <<class, k, Get(m, "dataAndSingle", [data |-> <<>>, val |-> Zero(k)])>>

ToReadResp(st) ==
    CASE st[1] \in DOMAIN Fields -> FieldToReadResp(st)
      [] st[1] = "PairCounter"   -> PairToReadResp(st)
      [] st[1] \in {"EmbMapEntry", "EmbMapGetValue", "EmbMapGetValues"} -> EmbToReadResp(st)
      [] st[1] \in {"MultiArray", "Array", "Single", "MultiSingle", "DataPos"} -> MArrayToReadResp(st)

\* The type INT is 0, and so the one of an answer without a type.
ArrayTypeOf(m) == Get(m, "Type", "int")
PartialMultiDataCondResp(m) ==
    LET k == ArrayTypeOf(m)
    IN IF k \in {"int", "float", "avg"} THEN MArrayFromReadResp("DataPos", k, m) ELSE NilState
PartialMultiFullResp(m) ==
    LET k == ArrayTypeOf(m) IN MArrayFromReadResp(IF k = "multi" THEN "MultiArray" ELSE "Array", k, m)
PartialMultiSingleResp(m) ==
    LET k == ArrayTypeOf(m) IN MArrayFromReadResp(IF k = "multi" THEN "MultiSingle" ELSE "Single", k, m)

\* The keys of a map and whether it has one are read from the same answer.
PartialHasKeyResp(m) == FieldFromReadResp("Keys", m)
PartialGetKeysResp(m) == FieldFromReadResp("Keys", m)
PartialGetValueResp(ty, m) ==
    IF ty = "map" THEN FieldFromReadResp("MapGetValue", m) ELSE EmbFromReadResp("EmbMapGetValue", m)
\* Mutant: the values are looked for in the full state of the map.
GetValuesAsEntries(ty, m) ==
    IF ty = "map" THEN FieldFromReadResp("MapEntry", m) ELSE EmbFromReadResp("EmbMapEntry", m)
PartialGetValuesResp(ty, m) ==
    IF ty = "map" THEN FieldFromReadResp("MapEntry", m) ELSE EmbFromReadResp("EmbMapGetValues", m)
PartialGetAggregateResp(m) ==
    FieldFromReadResp(IF "counterfloat" \in DOMAIN m THEN "CounterFloat" ELSE "AvgFull", m)

PartialReadRespProtoToAntidoteState(ty, rt, m) ==
    CASE rt = "LOOKUP"     -> FieldFromReadResp("SetAWLookup", m)
      [] rt = "N_ELEMS"    -> FieldFromReadResp("SetAWNElements", m)
      [] rt = "HAS_KEY"    -> PartialHasKeyResp(m)
      [] rt = "GET_KEYS"   -> PartialGetKeysResp(m)
      [] rt = "GET_VALUE"  -> PartialGetValueResp(ty, m)
      [] rt = "GET_VALUES" -> PartialGetValuesResp(ty, m)
      [] rt \in {"GET_ALL_VALUES", "GET_EXCEPT", "GET_EXCEPT_SINGLE"} -> EmbFromReadResp("EmbMapGetValues", m)
      [] rt \in {"GET_COND", "GET_ALL_COND", "GET_EXCEPT_COND", "GET_EXCEPT_SINGLE_COND"} ->
            EmbFromReadResp("EmbMapEntry", m)
      [] rt = "GET_AGGREGATE" -> PartialGetAggregateResp(m)
      [] rt \in {"GET_N", "GET_ABOVE_VALUE"} -> FieldFromReadResp("Top", m)
      [] rt = "GET_FULL_AVG"   -> FieldFromReadResp("AvgFull", m)
      [] rt = "PAIR_FIRST"     -> FieldFromReadResp("SingleFirst", m)
      [] rt = "PAIR_SECOND"    -> SingleSecondFromReadResp(m)
      [] rt = "COUNTER_SINGLE" -> FieldFromReadResp("CounterArraySingle", m)
      [] rt \in {"COUNTER_EXCEPT", "COUNTER_SUB", "COUNTER_EXCEPT_RANGE"} -> FieldFromReadResp("CounterArray", m)
      [] rt = "MULTI_DATA_COND" -> PartialMultiDataCondResp(m)
      [] rt \in {"MULTI_COND", "MULTI_CUSTOM"} -> MArrayFromReadResp("MultiArray", "multi", m)
      [] rt \in {"MULTI_FULL", "MULTI_RANGE", "MULTI_SUB"} -> PartialMultiFullResp(m)
      [] rt = "MULTI_SINGLE"   -> PartialMultiSingleResp(m)
      [] OTHER -> NilState

\* A full read of a disable-wins or a last-writer-wins flag has no case.
FullClass(ty) ==
    CASE ty = "counter" -> "Counter"
      [] ty = "lwwreg"  -> "Register"
      [] ty = "float"   -> "CounterFloat"
      [] ty = "set"     -> "SetAWValue"
      [] ty = "map"     -> "MapEntry"
      [] ty \in {"topk", "topkrmv", "topsum"} -> "Top"
      [] ty = "avg"     -> "Avg"
      [] ty \in {"max", "min"} -> "MaxMin"
      [] ty = "ew"      -> "Flag"
      [] ty \in {"carray", "cincs"} -> "CounterArray"
ReadRespProtoToAntidoteState(ty, rt, m) ==
    CASE rt # "FULL"    -> PartialReadRespProtoToAntidoteState(ty, rt, m)
      [] rt = "FULL" /\ ty = "embmap"        -> EmbFromReadResp("EmbMapEntry", m)
      [] rt = "FULL" /\ ty = "pair"          -> PairFromReadResp(m)
      [] rt = "FULL" /\ ty \in ArrayTypes    -> MArrayFromReadResp("MultiArray", "multi", m)
      [] rt = "FULL" /\ ty \in {"dw", "lwwflag"} -> NilState
      [] OTHER -> FieldFromReadResp(FullClass(ty), m)

\* The answer of the server that holds the object: a read that finds nothing
\* has no state to encode (convertAntidoteStatesToProto).
AnswerOf(ty, s, rt, m) == ReadState(ty, s, PartialReadOpToAntidoteRead(ty, rt, m))
Answered(ty, rt, st) ==
    IF st = NilState THEN NoAnswer ELSE ReadRespProtoToAntidoteState(ty, rt, ToReadResp(st))
RemoteRead(ty, s, q) ==
    Answered(ty, GetREADType(q), AnswerOf(ty, s, GetREADType(q), ToPartialRead(ty, q)))

-----------------------------------------------------------------------------
\* The reads that are lost or changed on their way, each for one reason that
\* is visible above: see the README.
Distorted(ty, s, q) ==
    CASE q.read = "State"  -> ty \in {"dw", "lwwflag"}
      [] q.read \in {"HasKey", "Second", "FullTypes", "RangeTypes", "SubTypes", "DataInt"} -> TRUE
      [] q.read = "PosTypes" ->
            Len(q.K) = 1 \/ LET v == GetPosStateOfMultipleTypes(s, <<>>, Range(q.K), q.p)
                            IN "avg" \in DOMAIN v /\ v["avg"].sum = 0 /\ v["avg"].n # 0
      [] q.read = "Comparable" -> q.c.cmp # "NEQ"
      [] q.read = "Aggregate"  -> q.over = {{}}
      [] OTHER -> FALSE

=============================================================================
