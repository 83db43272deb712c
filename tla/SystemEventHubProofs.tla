------------------------- MODULE SystemEventHubProofs -------------------------
(***************************************************************************)
(* Proofs about SystemEventHub, for any number of threads, classes,        *)
(* consumers and calls: nothing is delivered to a consumer that was out of *)
(* the hub, and as long as calls do not overlap no subscriber is missed.   *)
(*                                                                         *)
(* A consumer may stay in a list that has left the map (a subscribe and an *)
(* unsubscribe of the same class cross, or clear comes between).  What     *)
(* keeps such a list harmless is that no list enters the map twice: the    *)
(* invariant follows who may still be in the lists of the map.             *)
(***************************************************************************)
EXTENDS SystemEventHub, FiniteSetTheorems, TLAPS

Joining == {"insert", "add"}
Leaving == {"isEmpty", "drop", "forget"}
AtValues == {"idle", "deliver", "clearCache"} \cup Joining \cup Leaving

ArgType ==
    [type : Types \cup {None}, consumer : Consumers \cup {None}, list : Lists \cup {None},
     classes : SUBSET Types]

HubTyped ==
    /\ events \in [Types -> Lists \cup {None}] /\ lists \in [Lists -> SUBSET Consumers]
    /\ typeCache \in [Types -> (SUBSET Types) \cup {None}]
    /\ \A t \in Types : typeCache[t] = None \/ typeCache[t] \subseteq Supers[t]
    /\ at \in [Threads -> AtValues] /\ arg \in [Threads -> ArgType]
    /\ status \in [Consumers -> {"out", "joining", "in", "leaving"}]
    /\ calls \in 0..MaxCalls /\ overlapped \in BOOLEAN

HistoryTyped ==
    /\ got \in [Threads -> SUBSET Consumers] /\ due \in [Threads -> SUBSET Consumers]
    /\ barred \in [Threads -> SUBSET Consumers]

(* A call that works on a consumer knows its class and list, and no other  *)
(* call works on the same consumer.                                        *)
Working(p) == at[p] \in Joining \cup Leaving

CallsOK ==
    \A p \in Threads :
        /\ Working(p) => /\ arg[p].consumer \in Consumers /\ arg[p].list \in Lists
                         /\ arg[p].type = TypeOf[arg[p].consumer]
        /\ at[p] \in Joining => status[arg[p].consumer] = "joining"
        /\ at[p] \in Leaving => status[arg[p].consumer] = "leaving"
        /\ \A q \in Threads \ {p} : Working(p) /\ Working(q) => arg[p].consumer # arg[q].consumer

(* A list of the map belongs to one class, and whoever is in it is         *)
(* subscribed to that class.                                               *)
MapOK ==
    \A t \in Types : events[t] # None =>
        /\ \A c \in lists[events[t]] : status[c] = "in" /\ TypeOf[c] = t
        /\ \A u \in Types : events[u] = events[t] => u = t

(* A list about to enter the map is new: empty, and known to nobody else.  *)
NewListsOK ==
    \A p \in Threads :
        /\ at[p] = "insert" => /\ lists[arg[p].list] = {}
                               /\ \A t \in Types : events[t] # arg[p].list
                               /\ \A q \in Threads \ {p} : arg[q].list # arg[p].list
        /\ at[p] = "add" => \A t \in Types : events[t] = arg[p].list => t = arg[p].type

(* Consumers barred from a publish are out. *)
BarredOK ==
    \A p \in Threads : /\ \A c \in barred[p] : status[c] = "out"
                       /\ got[p] \cap barred[p] = {}

(* Every list in use was taken by a call of its own. *)
Used ==
    {k \in Lists : \/ lists[k] # {} \/ \E t \in Types : events[t] = k
                   \/ \E p \in Threads : arg[p].list = k}
ListsCounted == Cardinality(Used) <= calls

HubInv == HubTyped /\ HistoryTyped /\ CallsOK /\ MapOK /\ NewListsOK /\ BarredOK /\ ListsCounted

(* While calls come one after the other: the map holds every subscriber,   *)
(* the list a call works on is that of the map, and the cache is stale     *)
(* only within a call that is about to clear it.                           *)
Subscribed(c) == events[TypeOf[c]] # None /\ c \in lists[events[TypeOf[c]]]
AllHeld == \A c \in Consumers : status[c] = "in" => Subscribed(c)
OneAtATime == \A p, q \in Threads : at[p] # "idle" /\ at[q] # "idle" => p = q

CallInMap(p) ==
    /\ at[p] \in {"add", "isEmpty", "drop"} => events[arg[p].type] = arg[p].list
    /\ at[p] = "drop" => lists[arg[p].list] = {}
    /\ at[p] = "insert" => /\ \A t \in Types : typeCache[t] = None
                          /\ events[arg[p].type] = None
    /\ at[p] = "deliver" => /\ \A c \in due[p] : status[c] = "in"
                           /\ \A c \in due[p] : c \in got[p] \/ TypeOf[c] \in arg[p].classes

CacheSettled == \A t \in Types : typeCache[t] # None => typeCache[t] = Classes(t)

SerialInv ==
    ~overlapped =>
        /\ OneAtATime /\ AllHeld /\ \A p \in Threads : CallInMap(p)
        /\ (\A p \in Threads : at[p] \notin {"forget", "clearCache"}) => CacheSettled
-----------------------------------------------------------------------------
LEMMA ListsFinite == IsFiniteSet(Lists) /\ Cardinality(Lists) = MaxCalls + 1
BY TypesAssumption, FS_Interval DEF Lists

LEMMA UsedFinite == IsFiniteSet(Used) /\ Cardinality(Used) \in Nat
BY ListsFinite, FS_Subset, FS_CardinalityType DEF Used

(* While a call may begin, there is a list nobody has used. *)
LEMMA FreshListIsFresh ==
    ASSUME HubInv, calls < MaxCalls
    PROVE  /\ FreshList \in Lists /\ FreshList \notin Used /\ lists[FreshList] = {}
           /\ \A t \in Types : events[t] # FreshList
           /\ \A p \in Threads : arg[p].list # FreshList
<1>1. Used # Lists
  BY ListsFinite, TypesAssumption DEF HubInv, ListsCounted, HubTyped
<1>2. PICK k \in Lists : k \notin Used
  BY <1>1 DEF Used
<1>3. /\ k \notin {arg[p].list : p \in Threads} /\ k \notin {events[t] : t \in Types}
      /\ lists[k] = {}
  BY <1>2 DEF Used
<1>4. /\ FreshList \in Lists /\ FreshList \notin {arg[p].list : p \in Threads}
      /\ FreshList \notin {events[t] : t \in Types} /\ lists[FreshList] = {}
  BY <1>2, <1>3 DEF FreshList
<1> QED BY <1>4 DEF Used

(* What a call keeps: for a consumer, its class and a list; for a publish, *)
(* the class of the event and the classes still to be served.              *)
CallArg(t, c, k) == [NoArg EXCEPT !.type = t, !.consumer = c, !.list = k]
PublishArg(t, S) == [NoArg EXCEPT !.type = t, !.classes = S]

LEMMA ArgFacts ==
    /\ NoArg \in ArgType /\ NoArg.list = None
    /\ \A t \in Types, c \in Consumers, k \in Lists :
          LET a == CallArg(t, c, k)
          IN  a \in ArgType /\ a.type = t /\ a.consumer = c /\ a.list = k
    /\ \A t \in Types, S \in SUBSET Types :
          LET a == PublishArg(t, S)
          IN  a \in ArgType /\ a.type = t /\ a.classes = S /\ a.list = None
BY DEF NoArg, ArgType, CallArg, PublishArg

(* A subscribe begins with a new list, or with the one in the map. *)
LEMMA SubscribeLookupEffect ==
    ASSUME HubInv, NEW p \in Threads, NEW c \in Consumers, SubscribeLookup(p, c)
    PROVE  /\ at[p] = "idle" /\ status[c] = "out" /\ calls \in Nat /\ calls < MaxCalls
           /\ status' = [status EXCEPT ![c] = "joining"]
           /\ TypeOf[c] \in Types
           /\ \E k \in Lists, step \in Joining :
                 /\ arg' = [arg EXCEPT ![p] = CallArg(TypeOf[c], c, k)]
                 /\ at' = [at EXCEPT ![p] = step]
                 /\ \/ /\ step = "insert" /\ k \notin Used /\ events[TypeOf[c]] = None
                       /\ typeCache' = [u \in Types |-> None]
                    \/ /\ step = "add" /\ events[TypeOf[c]] = k /\ UNCHANGED typeCache
<1>1. /\ at[p] = "idle" /\ status[c] = "out" /\ calls \in Nat /\ calls < MaxCalls
      /\ status' = [status EXCEPT ![c] = "joining"] /\ TypeOf[c] \in Types
  <2>1. TypeOf[c] \in Types
    BY TypesAssumption
  <2>2. calls \in Nat
    BY DEF HubInv, HubTyped
  <2> QED BY <2>1, <2>2 DEF SubscribeLookup, Begin
<1>2. CASE events[TypeOf[c]] = None
  <2> DEFINE k == FreshList
  <2>1. k \in Lists /\ k \notin Used
    BY <1>1, FreshListIsFresh
  <2>2. /\ arg' = [arg EXCEPT ![p] = CallArg(TypeOf[c], c, k)] /\ at' = [at EXCEPT ![p] = "insert"]
        /\ typeCache' = [u \in Types |-> None]
    BY <1>2 DEF SubscribeLookup, Goto, CallArg
  <2> HIDE DEF k
  <2> QED BY <1>1, <1>2, <2>1, <2>2 DEF Joining
<1>3. CASE events[TypeOf[c]] # None
  <2> DEFINE k == events[TypeOf[c]]
  <2>1. k \in Lists
    BY <1>1, <1>3 DEF HubInv, HubTyped
  <2>2. /\ arg' = [arg EXCEPT ![p] = CallArg(TypeOf[c], c, k)] /\ at' = [at EXCEPT ![p] = "add"]
        /\ UNCHANGED typeCache
    BY <1>3 DEF SubscribeLookup, Goto, CallArg
  <2> QED BY <1>1, <2>1, <2>2 DEF Joining
<1> QED BY <1>2, <1>3

(* An unsubscribe ends at once if the class is not in the map, and removes *)
(* the consumer from the list of its class otherwise.                      *)
LEMMA UnsubscribeRemoveEffect ==
    ASSUME HubInv, NEW p \in Threads, NEW c \in Consumers, UnsubscribeRemove(p, c)
    PROVE  /\ at[p] = "idle" /\ status[c] = "in" /\ calls \in Nat /\ calls < MaxCalls
           /\ TypeOf[c] \in Types
           /\ \/ /\ events[TypeOf[c]] = None /\ status' = [status EXCEPT ![c] = "out"]
                 /\ UNCHANGED <<lists, at, arg>>
              \/ \E k \in Lists :
                    /\ events[TypeOf[c]] = k /\ lists' = [lists EXCEPT ![k] = @ \ {c}]
                    /\ status' = [status EXCEPT ![c] = "leaving"]
                    /\ arg' = [arg EXCEPT ![p] = CallArg(TypeOf[c], c, k)]
                    /\ at' = [at EXCEPT ![p] = "isEmpty"]
<1>1. /\ at[p] = "idle" /\ status[c] = "in" /\ calls \in Nat /\ calls < MaxCalls
      /\ TypeOf[c] \in Types
  BY TypesAssumption DEF UnsubscribeRemove, Begin, HubInv, HubTyped
<1>2. CASE events[TypeOf[c]] = None
  BY <1>1, <1>2 DEF UnsubscribeRemove, Left
<1>3. CASE events[TypeOf[c]] # None
  <2> DEFINE k == events[TypeOf[c]]
  <2>1. k \in Lists
    BY <1>1, <1>3 DEF HubInv, HubTyped
  <2>2. /\ lists' = [lists EXCEPT ![k] = @ \ {c}] /\ status' = [status EXCEPT ![c] = "leaving"]
        /\ arg' = [arg EXCEPT ![p] = CallArg(TypeOf[c], c, k)] /\ at' = [at EXCEPT ![p] = "isEmpty"]
    BY <1>3 DEF UnsubscribeRemove, Goto, CallArg, Without
  <2> QED BY <1>1, <2>1, <2>2
<1> QED BY <1>2, <1>3

(* A publish notes the classes to serve. *)
LEMMA PublishLookupEffect ==
    ASSUME HubInv, NEW p \in Threads, NEW t \in Types, PublishLookup(p, t)
    PROVE  /\ at[p] = "idle" /\ calls \in Nat /\ calls < MaxCalls
           /\ at' = [at EXCEPT ![p] = "deliver"]
           /\ \E S \in SUBSET Supers[t] :
                 /\ S \in SUBSET Types
                 /\ S = (IF typeCache[t] = None THEN Classes(t) ELSE typeCache[t])
                 /\ arg' = [arg EXCEPT ![p] = PublishArg(t, S)]
                 /\ typeCache' = [typeCache EXCEPT ![t] = S]
<1> DEFINE S == IF typeCache[t] = None THEN Classes(t) ELSE typeCache[t]
<1>1. at[p] = "idle" /\ calls \in Nat /\ calls < MaxCalls
  BY DEF PublishLookup, Begin, HubInv, HubTyped
<1>2. S \in SUBSET Supers[t] /\ Supers[t] \in SUBSET Types
  BY TypesAssumption DEF HubInv, HubTyped, Classes
<1>3. /\ arg' = [arg EXCEPT ![p] = PublishArg(t, S)] /\ typeCache' = [typeCache EXCEPT ![t] = S]
      /\ at' = [at EXCEPT ![p] = "deliver"]
  BY DEF PublishLookup, Goto, PublishArg
<1> HIDE DEF S
<1>4. S \in SUBSET Types
  BY <1>2
<1> QED BY <1>1, <1>2, <1>3, <1>4 DEF S

(* The same, thread by thread and consumer by consumer. *)
Others(p) == \A q \in Threads \ {p} : at'[q] = at[q] /\ arg'[q] = arg[q]
Rest(c) == \A d \in Consumers \ {c} : status'[d] = status[d]

LEMMA SubscribeLookupPoints ==
    ASSUME HubInv, NEW p \in Threads, NEW c \in Consumers, SubscribeLookup(p, c)
    PROVE  /\ at[p] = "idle" /\ status[c] = "out" /\ status'[c] = "joining" /\ Rest(c) /\ Others(p)
           /\ UNCHANGED <<events, lists>> /\ TypeOf[c] \in Types
           /\ arg'[p].consumer = c /\ arg'[p].type = TypeOf[c] /\ arg'[p].list \in Lists
           /\ \/ /\ at'[p] = "insert" /\ lists[arg'[p].list] = {} /\ events[TypeOf[c]] = None
                 /\ \A t \in Types : events[t] # arg'[p].list /\ typeCache'[t] = None
                 /\ \A q \in Threads : arg[q].list # arg'[p].list
              \/ at'[p] = "add" /\ events[TypeOf[c]] = arg'[p].list /\ UNCHANGED typeCache
<1>1. /\ at[p] = "idle" /\ status[c] = "out" /\ status' = [status EXCEPT ![c] = "joining"]
      /\ TypeOf[c] \in Types
  BY SubscribeLookupEffect
<1>2. PICK k \in Lists, step \in Joining :
          /\ arg' = [arg EXCEPT ![p] = CallArg(TypeOf[c], c, k)]
          /\ at' = [at EXCEPT ![p] = step]
          /\ \/ /\ step = "insert" /\ k \notin Used /\ events[TypeOf[c]] = None
                /\ typeCache' = [u \in Types |-> None]
             \/ /\ step = "add" /\ events[TypeOf[c]] = k /\ UNCHANGED typeCache
  BY SubscribeLookupEffect
<1>3. at \in [Threads -> AtValues] /\ arg \in [Threads -> ArgType]
      /\ status \in [Consumers -> {"out", "joining", "in", "leaving"}]
  BY DEF HubInv, HubTyped
<1>4. arg'[p] = CallArg(TypeOf[c], c, k) /\ at'[p] = step /\ status'[c] = "joining" /\ Rest(c) /\ Others(p)
  BY <1>1, <1>2, <1>3 DEF Rest, Others
<1>5. arg'[p].consumer = c /\ arg'[p].type = TypeOf[c] /\ arg'[p].list = k
  BY <1>1, <1>4, ArgFacts
<1>6. UNCHANGED <<events, lists>>
  BY DEF SubscribeLookup
<1>7. CASE step = "insert"
  <2>1. k \notin Used /\ events[TypeOf[c]] = None /\ \A t \in Types : typeCache'[t] = None
    BY <1>2, <1>7
  <2>2. /\ lists[k] = {} /\ \A t \in Types : events[t] # k
        /\ \A q \in Threads : arg[q].list # k
    BY <2>1 DEF Used
  <2> QED BY <1>1, <1>4, <1>5, <1>6, <1>7, <2>1, <2>2
<1>8. CASE step = "add"
  BY <1>1, <1>2, <1>4, <1>5, <1>6, <1>8
<1> QED BY <1>2, <1>7, <1>8

LEMMA UnsubscribeRemovePoints ==
    ASSUME HubInv, NEW p \in Threads, NEW c \in Consumers, UnsubscribeRemove(p, c)
    PROVE  /\ at[p] = "idle" /\ status[c] = "in" /\ Rest(c) /\ Others(p) /\ TypeOf[c] \in Types
           /\ UNCHANGED <<events, typeCache>>
           /\ \/ /\ events[TypeOf[c]] = None /\ status'[c] = "out" /\ at'[p] = "idle"
                 /\ arg'[p] = arg[p] /\ UNCHANGED lists
              \/ /\ events[TypeOf[c]] = arg'[p].list /\ status'[c] = "leaving" /\ at'[p] = "isEmpty"
                 /\ arg'[p].consumer = c /\ arg'[p].type = TypeOf[c] /\ arg'[p].list \in Lists
                 /\ lists'[arg'[p].list] = lists[arg'[p].list] \ {c}
                 /\ \A k \in Lists \ {arg'[p].list} : lists'[k] = lists[k]
<1>1. at[p] = "idle" /\ status[c] = "in" /\ TypeOf[c] \in Types
  BY UnsubscribeRemoveEffect
<1>2. \/ /\ events[TypeOf[c]] = None /\ status' = [status EXCEPT ![c] = "out"]
         /\ UNCHANGED <<lists, at, arg>>
      \/ \E k \in Lists :
            /\ events[TypeOf[c]] = k /\ lists' = [lists EXCEPT ![k] = @ \ {c}]
            /\ status' = [status EXCEPT ![c] = "leaving"]
            /\ arg' = [arg EXCEPT ![p] = CallArg(TypeOf[c], c, k)]
            /\ at' = [at EXCEPT ![p] = "isEmpty"]
  BY UnsubscribeRemoveEffect
<1>3. at \in [Threads -> AtValues] /\ arg \in [Threads -> ArgType] /\ lists \in [Lists -> SUBSET Consumers]
      /\ status \in [Consumers -> {"out", "joining", "in", "leaving"}]
  BY DEF HubInv, HubTyped
<1>4. UNCHANGED <<events, typeCache>>
  BY DEF UnsubscribeRemove
<1>5. CASE events[TypeOf[c]] = None /\ status' = [status EXCEPT ![c] = "out"] /\ UNCHANGED <<lists, at, arg>>
  BY <1>1, <1>3, <1>4, <1>5 DEF Rest, Others
<1>6. ASSUME NEW k \in Lists, events[TypeOf[c]] = k, lists' = [lists EXCEPT ![k] = @ \ {c}],
             status' = [status EXCEPT ![c] = "leaving"],
             arg' = [arg EXCEPT ![p] = CallArg(TypeOf[c], c, k)],
             at' = [at EXCEPT ![p] = "isEmpty"]
      PROVE  /\ Rest(c) /\ Others(p)
             /\ events[TypeOf[c]] = arg'[p].list /\ status'[c] = "leaving" /\ at'[p] = "isEmpty"
             /\ arg'[p].consumer = c /\ arg'[p].type = TypeOf[c] /\ arg'[p].list \in Lists
             /\ lists'[arg'[p].list] = lists[arg'[p].list] \ {c}
             /\ \A l \in Lists \ {arg'[p].list} : lists'[l] = lists[l]
  <2>1. arg'[p] = CallArg(TypeOf[c], c, k) /\ at'[p] = "isEmpty" /\ status'[c] = "leaving"
        /\ Rest(c) /\ Others(p)
    BY <1>3, <1>6 DEF Rest, Others
  <2>2. arg'[p].consumer = c /\ arg'[p].type = TypeOf[c] /\ arg'[p].list = k
    BY <1>1, <2>1, ArgFacts
  <2> QED BY <1>3, <1>6, <2>1, <2>2
<1> QED BY <1>1, <1>2, <1>4, <1>5, <1>6

LEMMA PublishLookupPoints ==
    ASSUME HubInv, NEW p \in Threads, NEW t \in Types, PublishLookup(p, t)
    PROVE  /\ at[p] = "idle" /\ at'[p] = "deliver" /\ Others(p) /\ arg'[p].list = None
           /\ arg'[p].classes = (IF typeCache[t] = None THEN Classes(t) ELSE typeCache[t])
           /\ UNCHANGED <<events, lists, status>>
           /\ typeCache' = [typeCache EXCEPT ![t] = arg'[p].classes]
<1>1. at[p] = "idle" /\ at' = [at EXCEPT ![p] = "deliver"]
  BY PublishLookupEffect
<1>2. PICK S \in SUBSET Supers[t] :
          /\ S \in SUBSET Types
          /\ S = (IF typeCache[t] = None THEN Classes(t) ELSE typeCache[t])
          /\ arg' = [arg EXCEPT ![p] = PublishArg(t, S)]
          /\ typeCache' = [typeCache EXCEPT ![t] = S]
  BY PublishLookupEffect
<1>3. at \in [Threads -> AtValues] /\ arg \in [Threads -> ArgType]
  BY DEF HubInv, HubTyped
<1>4. arg'[p] = PublishArg(t, S) /\ at'[p] = "deliver" /\ Others(p)
  BY <1>1, <1>2, <1>3 DEF Others
<1>5. arg'[p].classes = S /\ arg'[p].list = None
  BY <1>2, <1>4, ArgFacts
<1>6. UNCHANGED <<events, lists, status>>
  BY DEF PublishLookup
<1> QED BY <1>1, <1>2, <1>4, <1>5, <1>6

(* The maps, the lists and the calls in progress keep their types.          *)
LEMMA TypesStep == HubInv /\ [Next]_vars => HubTyped'
<1> SUFFICES ASSUME HubInv, [Next]_vars PROVE HubTyped'
  OBVIOUS
<1>0. HubTyped /\ CallsOK
  BY DEF HubInv
<1> USE TypesAssumption DEF HubTyped, HubTyped, CallsOK, hub, history, AtValues, Joining, Leaving, ArgType, NoArg, Working
<1>1. ASSUME NEW p \in Threads, NEW c \in Consumers, SubscribeLookup(p, c) PROVE HubTyped'
  <2>1. PICK k \in Lists, step \in Joining :
            /\ arg' = [arg EXCEPT ![p] = CallArg(TypeOf[c], c, k)]
            /\ at' = [at EXCEPT ![p] = step]
            /\ typeCache' = [u \in Types |-> None] \/ UNCHANGED typeCache
    BY <1>1, SubscribeLookupEffect
  <2>2. CallArg(TypeOf[c], c, k) \in ArgType
    BY <1>1, SubscribeLookupEffect, ArgFacts
  <2>3. arg' \in [Threads -> ArgType] /\ at' \in [Threads -> AtValues]
    BY <1>0, <2>1, <2>2 DEF AtValues
  <2>4. UNCHANGED <<events, lists>> /\ calls' = calls + 1 /\ calls < MaxCalls /\ overlapped' \in BOOLEAN
    BY <1>0, <1>1 DEF SubscribeLookup, Begin
  <2>5. status' \in [Consumers -> {"out", "joining", "in", "leaving"}]
    BY <1>0, <1>1 DEF SubscribeLookup
  <2> HIDE DEF ArgType, AtValues
  <2> QED BY <1>0, <2>1, <2>3, <2>4, <2>5
<1>2. ASSUME NEW p \in Threads, NEW c \in Consumers, UnsubscribeRemove(p, c) PROVE HubTyped'
  <2>1. /\ arg' \in [Threads -> ArgType] /\ at' \in [Threads -> AtValues]
        /\ lists' \in [Lists -> SUBSET Consumers]
        /\ status' \in [Consumers -> {"out", "joining", "in", "leaving"}]
    <3>1. CASE UNCHANGED <<lists, at, arg>> /\ status' = [status EXCEPT ![c] = "out"]
      BY <1>0, <3>1
    <3>2. ASSUME NEW k \in Lists, lists' = [lists EXCEPT ![k] = @ \ {c}],
                 status' = [status EXCEPT ![c] = "leaving"],
                 arg' = [arg EXCEPT ![p] = CallArg(TypeOf[c], c, k)],
                 at' = [at EXCEPT ![p] = "isEmpty"]
          PROVE  /\ arg' \in [Threads -> ArgType] /\ at' \in [Threads -> AtValues]
                 /\ lists' \in [Lists -> SUBSET Consumers]
                 /\ status' \in [Consumers -> {"out", "joining", "in", "leaving"}]
      <4>1. CallArg(TypeOf[c], c, k) \in ArgType
        BY <1>2, UnsubscribeRemoveEffect, ArgFacts
      <4> HIDE DEF ArgType
      <4> QED BY <1>0, <3>2, <4>1
    <3>3. \/ UNCHANGED <<lists, at, arg>> /\ status' = [status EXCEPT ![c] = "out"]
          \/ \E k \in Lists : /\ lists' = [lists EXCEPT ![k] = @ \ {c}]
                              /\ status' = [status EXCEPT ![c] = "leaving"]
                              /\ arg' = [arg EXCEPT ![p] = CallArg(TypeOf[c], c, k)]
                              /\ at' = [at EXCEPT ![p] = "isEmpty"]
      BY <1>2, UnsubscribeRemoveEffect
    <3> HIDE DEF ArgType, AtValues
    <3> QED BY <3>1, <3>2, <3>3
  <2>2. UNCHANGED <<events, typeCache>> /\ calls' = calls + 1 /\ calls < MaxCalls /\ overlapped' \in BOOLEAN
    BY <1>0, <1>2 DEF UnsubscribeRemove, Begin
  <2> HIDE DEF ArgType, AtValues
  <2> QED BY <1>0, <2>1, <2>2
<1>3. ASSUME NEW p \in Threads, SubscribeInsert(p) PROVE HubTyped'
  BY <1>0, <1>3 DEF SubscribeInsert, Goto
<1>4. ASSUME NEW p \in Threads, SubscribeAdd(p) PROVE HubTyped'
  BY <1>0, <1>4 DEF SubscribeAdd, Goto
<1>5. ASSUME NEW p \in Threads, UnsubscribeIsEmpty(p) PROVE HubTyped'
  <2>0. at' \in [Threads -> AtValues]
    <3>1. at' = [at EXCEPT ![p] = "drop"] \/ at' = [at EXCEPT ![p] = "idle"]
      BY <1>5 DEF UnsubscribeIsEmpty, Goto
    <3> QED BY <1>0, <3>1
  <2>1. arg' \in [Threads -> ArgType]
    <3>1. arg' = arg \/ arg' = [arg EXCEPT ![p] = NoArg]
      BY <1>5 DEF UnsubscribeIsEmpty
    <3> HIDE DEF ArgType, NoArg
    <3> QED BY <1>0, <3>1, ArgFacts
  <2>2. status' \in [Consumers -> {"out", "joining", "in", "leaving"}]
    BY <1>0, <1>5 DEF UnsubscribeIsEmpty, Left
  <2>3. UNCHANGED <<events, lists, typeCache, calls, overlapped>>
    BY <1>5 DEF UnsubscribeIsEmpty
  <2> HIDE DEF ArgType, AtValues
  <2> QED BY <1>0, <2>0, <2>1, <2>2, <2>3
<1>6. ASSUME NEW p \in Threads, UnsubscribeDrop(p) PROVE HubTyped'
  BY <1>0, <1>6 DEF UnsubscribeDrop, Goto
<1>7. ASSUME NEW p \in Threads, UnsubscribeForget(p) PROVE HubTyped'
  BY <1>0, <1>7 DEF UnsubscribeForget, Goto, Left
<1>8. ASSUME NEW p \in Threads, ClearEvents(p) PROVE HubTyped'
  BY <1>0, <1>8 DEF ClearEvents, Begin, Goto
<1>9. ASSUME NEW p \in Threads, ClearTypeCache(p) PROVE HubTyped'
  BY <1>0, <1>9 DEF ClearTypeCache, Goto
<1>10. ASSUME NEW p \in Threads, NEW t \in Types, PublishLookup(p, t) PROVE HubTyped'
  <2>1. PICK S \in SUBSET Supers[t] :
            /\ S \in SUBSET Types /\ arg' = [arg EXCEPT ![p] = PublishArg(t, S)]
            /\ typeCache' = [typeCache EXCEPT ![t] = S]
    BY <1>10, PublishLookupEffect
  <2>2. PublishArg(t, S) \in ArgType
    BY <2>1, ArgFacts
  <2>3. /\ arg' \in [Threads -> ArgType] /\ typeCache' \in [Types -> (SUBSET Types) \cup {None}]
        /\ \A u \in Types : typeCache'[u] = None \/ typeCache'[u] \subseteq Supers[u]
    <3> HIDE DEF ArgType
    <3> QED BY <1>0, <2>1, <2>2
  <2>4. UNCHANGED <<events, lists, status>> /\ at' \in [Threads -> AtValues]
    BY <1>0, <1>10 DEF PublishLookup, Goto
  <2>5. calls' = calls + 1 /\ calls < MaxCalls /\ overlapped' \in BOOLEAN
    BY <1>0, <1>10 DEF PublishLookup, Begin
  <2> HIDE DEF ArgType, AtValues
  <2> QED BY <1>0, <2>3, <2>4, <2>5
<1>11. ASSUME NEW p \in Threads, PublishDeliver(p) PROVE HubTyped'
  <2>1. PICK u \in arg[p].classes : arg' = [arg EXCEPT ![p].classes = @ \ {u}]
    BY <1>11 DEF PublishDeliver
  <2>2. [arg[p] EXCEPT !.classes = @ \ {u}] \in ArgType
    BY <1>0
  <2>3. arg' \in [Threads -> ArgType]
    <3> HIDE DEF ArgType
    <3> QED BY <1>0, <2>1, <2>2
  <2>4. UNCHANGED <<events, lists, typeCache, at, status, calls, overlapped>>
    BY <1>11 DEF PublishDeliver
  <2> HIDE DEF ArgType, AtValues
  <2> QED BY <1>0, <2>3, <2>4
<1>12. ASSUME NEW p \in Threads, PublishReturn(p) PROVE HubTyped'
  BY <1>0, <1>12 DEF PublishReturn, Goto
<1>13. CASE UNCHANGED vars
  BY <1>0, <1>13 DEF vars
<1> QED BY <1>1, <1>2, <1>3, <1>4, <1>5, <1>6, <1>7, <1>8, <1>9, <1>10, <1>11, <1>12, <1>13 DEF Next

(* The history of a publish names consumers.                                *)
LEMMA HistoryStep == HubInv /\ [Next]_vars => HistoryTyped'
<1> SUFFICES ASSUME HubInv, [Next]_vars PROVE HistoryTyped'
  OBVIOUS
<1>0. HistoryTyped /\ HubTyped
  BY DEF HubInv
<1> USE  DEF HistoryTyped, HubTyped, hub, history
<1>1. ASSUME NEW p \in Threads, NEW c \in Consumers, SubscribeLookup(p, c) PROVE HistoryTyped'
  BY <1>0, <1>1, SubscribeLookupEffect DEF SubscribeLookup
<1>2. ASSUME NEW p \in Threads, NEW c \in Consumers, UnsubscribeRemove(p, c) PROVE HistoryTyped'
  BY <1>0, <1>2, UnsubscribeRemoveEffect DEF UnsubscribeRemove
<1>3. ASSUME NEW p \in Threads, SubscribeInsert(p) PROVE HistoryTyped'
  BY <1>0, <1>3 DEF SubscribeInsert, Goto
<1>4. ASSUME NEW p \in Threads, SubscribeAdd(p) PROVE HistoryTyped'
  BY <1>0, <1>4 DEF SubscribeAdd, Goto
<1>5. ASSUME NEW p \in Threads, UnsubscribeIsEmpty(p) PROVE HistoryTyped'
  BY <1>0, <1>5 DEF UnsubscribeIsEmpty, Goto, Left
<1>6. ASSUME NEW p \in Threads, UnsubscribeDrop(p) PROVE HistoryTyped'
  BY <1>0, <1>6 DEF UnsubscribeDrop, Goto
<1>7. ASSUME NEW p \in Threads, UnsubscribeForget(p) PROVE HistoryTyped'
  BY <1>0, <1>7 DEF UnsubscribeForget, Goto, Left
<1>8. ASSUME NEW p \in Threads, ClearEvents(p) PROVE HistoryTyped'
  BY <1>0, <1>8 DEF ClearEvents, Begin, Goto
<1>9. ASSUME NEW p \in Threads, ClearTypeCache(p) PROVE HistoryTyped'
  BY <1>0, <1>9 DEF ClearTypeCache, Goto
<1>10. ASSUME NEW p \in Threads, NEW t \in Types, PublishLookup(p, t) PROVE HistoryTyped'
  BY <1>0, <1>10, PublishLookupEffect DEF PublishLookup
<1>11. ASSUME NEW p \in Threads, PublishDeliver(p) PROVE HistoryTyped'
  <2>1. PICK u \in arg[p].classes :
            got' = [got EXCEPT ![p] = IF events[u] = None THEN @ ELSE @ \cup lists[events[u]]]
    BY <1>11 DEF PublishDeliver
  <2>2. u \in Types
    BY <1>0 DEF ArgType
  <2>3. events[u] # None => lists[events[u]] \in SUBSET Consumers
    BY <1>0, <2>2
  <2>4. got' \in [Threads -> SUBSET Consumers]
    BY <1>0, <2>1, <2>3
  <2> QED BY <1>0, <1>11, <2>4 DEF PublishDeliver
<1>12. ASSUME NEW p \in Threads, PublishReturn(p) PROVE HistoryTyped'
  BY <1>0, <1>12 DEF PublishReturn, Goto
<1>13. CASE UNCHANGED vars
  BY <1>0, <1>13 DEF vars
<1> QED
  BY <1>1, <1>2, <1>3, <1>4, <1>5, <1>6, <1>7, <1>8, <1>9, <1>10, <1>11, <1>12, <1>13 DEF Next

(* A consumer is worked on by one call at a time.                           *)
LEMMA CallsStep == HubInv /\ [Next]_vars => CallsOK'
<1> SUFFICES ASSUME HubInv, [Next]_vars PROVE CallsOK'
  OBVIOUS
<1>0. /\ CallsOK /\ at \in [Threads -> AtValues] /\ arg \in [Threads -> ArgType]
      /\ status \in [Consumers -> {"out", "joining", "in", "leaving"}]
  BY DEF HubInv, HubTyped
<1> USE  DEF CallsOK, hub, history, Working, Joining, Leaving
<1>1. ASSUME NEW p \in Threads, NEW c \in Consumers, SubscribeLookup(p, c) PROVE CallsOK'
  <2>1. /\ at[p] = "idle" /\ status[c] = "out" /\ status'[c] = "joining" /\ Rest(c) /\ Others(p)
        /\ UNCHANGED <<events, lists>>
        /\ arg'[p].consumer = c /\ arg'[p].type = TypeOf[c] /\ arg'[p].list \in Lists
    BY <1>1, SubscribeLookupPoints
  <2>2. \/ /\ at'[p] = "insert" /\ lists[arg'[p].list] = {}
           /\ \A t \in Types : events[t] # arg'[p].list
           /\ \A q \in Threads : arg[q].list # arg'[p].list
        \/ at'[p] = "add" /\ events[TypeOf[c]] = arg'[p].list
    BY <1>1, SubscribeLookupPoints
  <2>3. at'[p] \in {"insert", "add"}
    BY <2>2
  <2> QED BY <1>0, <2>1, <2>3 DEF Others, Rest
<1>2. ASSUME NEW p \in Threads, NEW c \in Consumers, UnsubscribeRemove(p, c) PROVE CallsOK'
  <2>1. /\ at[p] = "idle" /\ status[c] = "in" /\ Rest(c) /\ Others(p) /\ TypeOf[c] \in Types
        /\ UNCHANGED events
    BY <1>2, UnsubscribeRemovePoints
  <2>2. \/ /\ events[TypeOf[c]] = None /\ status'[c] = "out" /\ at'[p] = "idle"
           /\ arg'[p] = arg[p] /\ UNCHANGED lists
        \/ /\ events[TypeOf[c]] = arg'[p].list /\ status'[c] = "leaving" /\ at'[p] = "isEmpty"
           /\ arg'[p].consumer = c /\ arg'[p].type = TypeOf[c] /\ arg'[p].list \in Lists
           /\ lists'[arg'[p].list] = lists[arg'[p].list] \ {c}
           /\ \A k \in Lists \ {arg'[p].list} : lists'[k] = lists[k]
    BY <1>2, UnsubscribeRemovePoints
  <2>3. CASE status'[c] = "out"
    BY <1>0, <2>1, <2>2, <2>3 DEF Others, Rest
  <2>4. CASE status'[c] = "leaving"
    BY <1>0, <2>1, <2>2, <2>4 DEF Others, Rest
  <2> QED BY <2>2, <2>3, <2>4
<1>3. ASSUME NEW p \in Threads, SubscribeInsert(p) PROVE CallsOK'
  BY <1>0, <1>3 DEF SubscribeInsert, Goto
<1>4. ASSUME NEW p \in Threads, SubscribeAdd(p) PROVE CallsOK'
  BY <1>0, <1>4 DEF SubscribeAdd, Goto
<1>5. ASSUME NEW p \in Threads, UnsubscribeIsEmpty(p) PROVE CallsOK'
  <2>1. at[p] = "isEmpty" /\ status[arg[p].consumer] = "leaving" /\ arg[p].consumer \in Consumers
    BY <1>0, <1>5 DEF UnsubscribeIsEmpty
  <2>2. CASE at' = [at EXCEPT ![p] = "drop"] /\ UNCHANGED <<arg, status>>
    BY <1>0, <2>1, <2>2
  <2>3. CASE /\ at' = [at EXCEPT ![p] = "idle"] /\ status' = [status EXCEPT ![arg[p].consumer] = "out"]
             /\ arg' = [arg EXCEPT ![p] = NoArg]
    BY <1>0, <2>1, <2>3
  <2> QED BY <2>2, <2>3, <1>5 DEF UnsubscribeIsEmpty, Goto, Left
<1>6. ASSUME NEW p \in Threads, UnsubscribeDrop(p) PROVE CallsOK'
  BY <1>0, <1>6 DEF UnsubscribeDrop, Goto
<1>7. ASSUME NEW p \in Threads, UnsubscribeForget(p) PROVE CallsOK'
  BY <1>0, <1>7 DEF UnsubscribeForget, Goto, Left
<1>8. ASSUME NEW p \in Threads, ClearEvents(p) PROVE CallsOK'
  BY <1>0, <1>8 DEF ClearEvents, Begin, Goto
<1>9. ASSUME NEW p \in Threads, ClearTypeCache(p) PROVE CallsOK'
  BY <1>0, <1>9 DEF ClearTypeCache, Goto
<1>10. ASSUME NEW p \in Threads, NEW t \in Types, PublishLookup(p, t) PROVE CallsOK'
  <2>1. /\ at[p] = "idle" /\ at'[p] = "deliver" /\ Others(p) /\ arg'[p].list = None
        /\ UNCHANGED <<events, lists, status>>
    BY <1>10, PublishLookupPoints
  <2> QED BY <1>0, <2>1 DEF Others
<1>11. ASSUME NEW p \in Threads, PublishDeliver(p) PROVE CallsOK'
  BY <1>0, <1>11 DEF PublishDeliver
<1>12. ASSUME NEW p \in Threads, PublishReturn(p) PROVE CallsOK'
  BY <1>0, <1>12 DEF PublishReturn, Goto
<1>13. CASE UNCHANGED vars
  BY <1>0, <1>13 DEF vars
<1> QED
  BY <1>1, <1>2, <1>3, <1>4, <1>5, <1>6, <1>7, <1>8, <1>9, <1>10, <1>11, <1>12, <1>13 DEF Next

(* The lists of the map keep to subscribers of their class.                 *)
LEMMA MapStep == HubInv /\ [Next]_vars => MapOK'
<1> SUFFICES ASSUME HubInv, [Next]_vars PROVE MapOK'
  OBVIOUS
<1>0. /\ CallsOK /\ MapOK /\ NewListsOK
      /\ events \in [Types -> Lists \cup {None}] /\ lists \in [Lists -> SUBSET Consumers]
      /\ at \in [Threads -> AtValues] /\ arg \in [Threads -> ArgType]
      /\ status \in [Consumers -> {"out", "joining", "in", "leaving"}] /\ None \notin Lists
  BY TypesAssumption DEF HubInv, HubTyped, Lists
<1> USE  DEF MapOK, hub, history, CallsOK, NewListsOK, Working, Joining, Leaving
<1>1. ASSUME NEW p \in Threads, NEW c \in Consumers, SubscribeLookup(p, c) PROVE MapOK'
  <2>1. /\ at[p] = "idle" /\ status[c] = "out" /\ status'[c] = "joining" /\ Rest(c) /\ Others(p)
        /\ UNCHANGED <<events, lists>>
        /\ arg'[p].consumer = c /\ arg'[p].type = TypeOf[c] /\ arg'[p].list \in Lists
    BY <1>1, SubscribeLookupPoints
  <2>2. \/ /\ at'[p] = "insert" /\ lists[arg'[p].list] = {}
           /\ \A t \in Types : events[t] # arg'[p].list
           /\ \A q \in Threads : arg[q].list # arg'[p].list
        \/ at'[p] = "add" /\ events[TypeOf[c]] = arg'[p].list
    BY <1>1, SubscribeLookupPoints
  <2> QED BY <1>0, <2>1 DEF Rest
<1>2. ASSUME NEW p \in Threads, NEW c \in Consumers, UnsubscribeRemove(p, c) PROVE MapOK'
  <2>1. /\ at[p] = "idle" /\ status[c] = "in" /\ Rest(c) /\ Others(p) /\ TypeOf[c] \in Types
        /\ UNCHANGED events
    BY <1>2, UnsubscribeRemovePoints
  <2>2. \/ /\ events[TypeOf[c]] = None /\ status'[c] = "out" /\ at'[p] = "idle"
           /\ arg'[p] = arg[p] /\ UNCHANGED lists
        \/ /\ events[TypeOf[c]] = arg'[p].list /\ status'[c] = "leaving" /\ at'[p] = "isEmpty"
           /\ arg'[p].consumer = c /\ arg'[p].type = TypeOf[c] /\ arg'[p].list \in Lists
           /\ lists'[arg'[p].list] = lists[arg'[p].list] \ {c}
           /\ \A k \in Lists \ {arg'[p].list} : lists'[k] = lists[k]
    BY <1>2, UnsubscribeRemovePoints
  <2>3. CASE status'[c] = "out"
    BY <1>0, <2>1, <2>2, <2>3 DEF Rest
  <2>4. CASE status'[c] = "leaving"
    <3>1. /\ events[TypeOf[c]] \in Lists /\ lists'[events[TypeOf[c]]] = lists[events[TypeOf[c]]] \ {c}
          /\ \A k \in Lists \ {events[TypeOf[c]]} : lists'[k] = lists[k]
      BY <2>2, <2>4
    <3>2. ASSUME NEW t \in Types, events[t] # None, NEW d \in lists'[events[t]]
          PROVE  d # c /\ d \in lists[events[t]]
      BY <1>0, <2>1, <3>1, <3>2
    <3>3. ASSUME NEW t \in Types, events[t] # None, NEW d \in lists'[events[t]]
          PROVE  status'[d] = "in" /\ TypeOf[d] = t
      BY <1>0, <2>1, <3>2, <3>3 DEF Rest
    <3> QED BY <1>0, <2>1, <3>3
  <2> QED BY <2>2, <2>3, <2>4
<1>3. ASSUME NEW p \in Threads, SubscribeInsert(p) PROVE MapOK'
  BY <1>0, <1>3 DEF SubscribeInsert, Goto
<1>4. ASSUME NEW p \in Threads, SubscribeAdd(p) PROVE MapOK'
  BY <1>0, <1>4 DEF SubscribeAdd, Goto
<1>5. ASSUME NEW p \in Threads, UnsubscribeIsEmpty(p) PROVE MapOK'
  BY <1>0, <1>5 DEF UnsubscribeIsEmpty, Goto, Left
<1>6. ASSUME NEW p \in Threads, UnsubscribeDrop(p) PROVE MapOK'
  BY <1>0, <1>6 DEF UnsubscribeDrop, Goto
<1>7. ASSUME NEW p \in Threads, UnsubscribeForget(p) PROVE MapOK'
  BY <1>0, <1>7 DEF UnsubscribeForget, Goto, Left
<1>8. ASSUME NEW p \in Threads, ClearEvents(p) PROVE MapOK'
  BY <1>0, <1>8 DEF ClearEvents, Begin, Goto
<1>9. ASSUME NEW p \in Threads, ClearTypeCache(p) PROVE MapOK'
  BY <1>0, <1>9 DEF ClearTypeCache, Goto
<1>10. ASSUME NEW p \in Threads, NEW t \in Types, PublishLookup(p, t) PROVE MapOK'
  <2>1. /\ at[p] = "idle" /\ at'[p] = "deliver" /\ Others(p) /\ arg'[p].list = None
        /\ UNCHANGED <<events, lists, status>>
    BY <1>10, PublishLookupPoints
  <2> QED BY <1>0, <2>1
<1>11. ASSUME NEW p \in Threads, PublishDeliver(p) PROVE MapOK'
  BY <1>0, <1>11 DEF PublishDeliver
<1>12. ASSUME NEW p \in Threads, PublishReturn(p) PROVE MapOK'
  BY <1>0, <1>12 DEF PublishReturn, Goto
<1>13. CASE UNCHANGED vars
  BY <1>0, <1>13 DEF vars
<1> QED
  BY <1>1, <1>2, <1>3, <1>4, <1>5, <1>6, <1>7, <1>8, <1>9, <1>10, <1>11, <1>12, <1>13 DEF Next

(* A new list stays new until it is in the map.                             *)
LEMMA NewListsStep == HubInv /\ [Next]_vars => NewListsOK'
<1> SUFFICES ASSUME HubInv, [Next]_vars PROVE NewListsOK'
  OBVIOUS
<1>0. /\ CallsOK /\ MapOK /\ NewListsOK
      /\ events \in [Types -> Lists \cup {None}] /\ lists \in [Lists -> SUBSET Consumers]
      /\ at \in [Threads -> AtValues] /\ arg \in [Threads -> ArgType]
      /\ status \in [Consumers -> {"out", "joining", "in", "leaving"}] /\ None \notin Lists
  BY TypesAssumption DEF HubInv, HubTyped, Lists
<1> USE  DEF NewListsOK, hub, history, CallsOK, MapOK, Working, Joining, Leaving
<1>1. ASSUME NEW p \in Threads, NEW c \in Consumers, SubscribeLookup(p, c) PROVE NewListsOK'
  <2>1. /\ at[p] = "idle" /\ status[c] = "out" /\ status'[c] = "joining" /\ Rest(c) /\ Others(p)
        /\ UNCHANGED <<events, lists>>
        /\ arg'[p].consumer = c /\ arg'[p].type = TypeOf[c] /\ arg'[p].list \in Lists
    BY <1>1, SubscribeLookupPoints
  <2>2. \/ /\ at'[p] = "insert" /\ lists[arg'[p].list] = {}
           /\ \A t \in Types : events[t] # arg'[p].list
           /\ \A q \in Threads : arg[q].list # arg'[p].list
        \/ at'[p] = "add" /\ events[TypeOf[c]] = arg'[p].list
    BY <1>1, SubscribeLookupPoints
  <2>3. CASE at'[p] = "insert"
    BY <1>0, <2>1, <2>2, <2>3 DEF Others
  <2>4. CASE at'[p] = "add"
    <3>1. events[TypeOf[c]] = arg'[p].list /\ TypeOf[c] \in Types
      BY <2>2, <2>4, TypesAssumption
    <3>2. \A q \in Threads : at[q] = "insert" => arg[q].list # arg'[p].list
      BY <1>0, <3>1
    <3> QED BY <1>0, <2>1, <2>4, <3>1, <3>2 DEF Others
  <2> QED BY <2>2, <2>3, <2>4
<1>2. ASSUME NEW p \in Threads, NEW c \in Consumers, UnsubscribeRemove(p, c) PROVE NewListsOK'
  <2>1. /\ at[p] = "idle" /\ status[c] = "in" /\ Rest(c) /\ Others(p) /\ TypeOf[c] \in Types
        /\ UNCHANGED events
    BY <1>2, UnsubscribeRemovePoints
  <2>2. \/ /\ events[TypeOf[c]] = None /\ status'[c] = "out" /\ at'[p] = "idle"
           /\ arg'[p] = arg[p] /\ UNCHANGED lists
        \/ /\ events[TypeOf[c]] = arg'[p].list /\ status'[c] = "leaving" /\ at'[p] = "isEmpty"
           /\ arg'[p].consumer = c /\ arg'[p].type = TypeOf[c] /\ arg'[p].list \in Lists
           /\ lists'[arg'[p].list] = lists[arg'[p].list] \ {c}
           /\ \A k \in Lists \ {arg'[p].list} : lists'[k] = lists[k]
    BY <1>2, UnsubscribeRemovePoints
  <2>3. CASE status'[c] = "out"
    BY <1>0, <2>1, <2>2, <2>3 DEF Others
  <2>4. CASE status'[c] = "leaving"
    <3>1. events[TypeOf[c]] = arg'[p].list
      BY <2>2, <2>4
    <3>2. \A q \in Threads : at[q] = "insert" => arg[q].list # arg'[p].list
      BY <1>0, <2>1, <3>1
    <3>3. \A q \in Threads : at[q] = "insert" => lists'[arg[q].list] = {}
      BY <1>0, <2>2, <2>4, <3>2
    <3> QED BY <1>0, <2>1, <2>2, <2>4, <3>2, <3>3 DEF Others
  <2> QED BY <2>2, <2>3, <2>4
<1>3. ASSUME NEW p \in Threads, SubscribeInsert(p) PROVE NewListsOK'
  BY <1>0, <1>3 DEF SubscribeInsert, Goto
<1>4. ASSUME NEW p \in Threads, SubscribeAdd(p) PROVE NewListsOK'
  <2>1. arg' = [arg EXCEPT ![p] = NoArg] /\ arg'[p].list = None
    BY <1>0, <1>4 DEF SubscribeAdd, NoArg
  <2> QED BY <1>0, <2>1, <1>4 DEF SubscribeAdd, Goto, Left
<1>5. ASSUME NEW p \in Threads, UnsubscribeIsEmpty(p) PROVE NewListsOK'
  <2>1. at[p] = "isEmpty" /\ UNCHANGED <<events, lists>>
    BY <1>5 DEF UnsubscribeIsEmpty
  <2>2. CASE at' = [at EXCEPT ![p] = "drop"] /\ UNCHANGED arg
    BY <1>0, <2>1, <2>2
  <2>3. CASE at' = [at EXCEPT ![p] = "idle"] /\ arg' = [arg EXCEPT ![p] = NoArg]
    <3>1. arg'[p].list = None
      BY <1>0, <2>3 DEF NoArg
    <3> QED BY <1>0, <2>1, <2>3, <3>1
  <2> QED BY <2>2, <2>3, <1>5 DEF UnsubscribeIsEmpty, Goto
<1>6. ASSUME NEW p \in Threads, UnsubscribeDrop(p) PROVE NewListsOK'
  BY <1>0, <1>6 DEF UnsubscribeDrop, Goto
<1>7. ASSUME NEW p \in Threads, UnsubscribeForget(p) PROVE NewListsOK'
  <2>1. arg' = [arg EXCEPT ![p] = NoArg] /\ arg'[p].list = None
    BY <1>0, <1>7 DEF UnsubscribeForget, NoArg
  <2> QED BY <1>0, <2>1, <1>7 DEF UnsubscribeForget, Goto, Left
<1>8. ASSUME NEW p \in Threads, ClearEvents(p) PROVE NewListsOK'
  BY <1>0, <1>8 DEF ClearEvents, Begin, Goto
<1>9. ASSUME NEW p \in Threads, ClearTypeCache(p) PROVE NewListsOK'
  BY <1>0, <1>9 DEF ClearTypeCache, Goto
<1>10. ASSUME NEW p \in Threads, NEW t \in Types, PublishLookup(p, t) PROVE NewListsOK'
  <2>1. /\ at[p] = "idle" /\ at'[p] = "deliver" /\ Others(p) /\ arg'[p].list = None
        /\ UNCHANGED <<events, lists, status>>
    BY <1>10, PublishLookupPoints
  <2> QED BY <1>0, <2>1 DEF Others
<1>11. ASSUME NEW p \in Threads, PublishDeliver(p) PROVE NewListsOK'
  BY <1>0, <1>11 DEF PublishDeliver
<1>12. ASSUME NEW p \in Threads, PublishReturn(p) PROVE NewListsOK'
  <2>1. arg' = [arg EXCEPT ![p] = NoArg] /\ arg'[p].list = None
    BY <1>0, <1>12 DEF PublishReturn, NoArg
  <2> QED BY <1>0, <2>1, <1>12 DEF PublishReturn, Goto, Left
<1>13. CASE UNCHANGED vars
  BY <1>0, <1>13 DEF vars
<1> QED
  BY <1>1, <1>2, <1>3, <1>4, <1>5, <1>6, <1>7, <1>8, <1>9, <1>10, <1>11, <1>12, <1>13 DEF Next

(* Nobody who is barred receives anything.                                  *)
LEMMA BarredStep == HubInv /\ [Next]_vars => BarredOK'
<1> SUFFICES ASSUME HubInv, [Next]_vars PROVE BarredOK'
  OBVIOUS
<1>0. /\ CallsOK /\ MapOK /\ BarredOK /\ HistoryTyped
      /\ events \in [Types -> Lists \cup {None}] /\ lists \in [Lists -> SUBSET Consumers]
      /\ at \in [Threads -> AtValues] /\ arg \in [Threads -> ArgType]
      /\ status \in [Consumers -> {"out", "joining", "in", "leaving"}] /\ None \notin Lists
  BY TypesAssumption DEF HubInv, HubTyped, Lists
<1> USE  DEF BarredOK, hub, history, CallsOK, MapOK, HistoryTyped, Working, Joining, Leaving
<1>1. ASSUME NEW p \in Threads, NEW c \in Consumers, SubscribeLookup(p, c) PROVE BarredOK'
  <2>1. /\ at[p] = "idle" /\ status[c] = "out" /\ status'[c] = "joining" /\ Rest(c) /\ Others(p)
        /\ UNCHANGED <<events, lists>>
        /\ arg'[p].consumer = c /\ arg'[p].type = TypeOf[c] /\ arg'[p].list \in Lists
    BY <1>1, SubscribeLookupPoints
  <2>2. \/ /\ at'[p] = "insert" /\ lists[arg'[p].list] = {}
           /\ \A t \in Types : events[t] # arg'[p].list
           /\ \A q \in Threads : arg[q].list # arg'[p].list
        \/ at'[p] = "add" /\ events[TypeOf[c]] = arg'[p].list
    BY <1>1, SubscribeLookupPoints
  <2>3. barred' = [q \in Threads |-> barred[q] \ {c}] /\ got' = got
    BY <1>1 DEF SubscribeLookup
  <2> QED BY <1>0, <2>1, <2>3 DEF Rest
<1>2. ASSUME NEW p \in Threads, NEW c \in Consumers, UnsubscribeRemove(p, c) PROVE BarredOK'
  <2>1. /\ at[p] = "idle" /\ status[c] = "in" /\ Rest(c) /\ Others(p) /\ TypeOf[c] \in Types
        /\ UNCHANGED events
    BY <1>2, UnsubscribeRemovePoints
  <2>2. \/ /\ events[TypeOf[c]] = None /\ status'[c] = "out" /\ at'[p] = "idle"
           /\ arg'[p] = arg[p] /\ UNCHANGED lists
        \/ /\ events[TypeOf[c]] = arg'[p].list /\ status'[c] = "leaving" /\ at'[p] = "isEmpty"
           /\ arg'[p].consumer = c /\ arg'[p].type = TypeOf[c] /\ arg'[p].list \in Lists
           /\ lists'[arg'[p].list] = lists[arg'[p].list] \ {c}
           /\ \A k \in Lists \ {arg'[p].list} : lists'[k] = lists[k]
    BY <1>2, UnsubscribeRemovePoints
  <2>3. barred' = barred /\ got' = got
    BY <1>2 DEF UnsubscribeRemove
  <2> QED BY <1>0, <2>1, <2>3 DEF Rest
<1>3. ASSUME NEW p \in Threads, SubscribeInsert(p) PROVE BarredOK'
  BY <1>0, <1>3 DEF SubscribeInsert, Goto
<1>4. ASSUME NEW p \in Threads, SubscribeAdd(p) PROVE BarredOK'
  BY <1>0, <1>4 DEF SubscribeAdd, Goto
<1>5. ASSUME NEW p \in Threads, UnsubscribeIsEmpty(p) PROVE BarredOK'
  BY <1>0, <1>5 DEF UnsubscribeIsEmpty, Goto, Left
<1>6. ASSUME NEW p \in Threads, UnsubscribeDrop(p) PROVE BarredOK'
  BY <1>0, <1>6 DEF UnsubscribeDrop, Goto
<1>7. ASSUME NEW p \in Threads, UnsubscribeForget(p) PROVE BarredOK'
  BY <1>0, <1>7 DEF UnsubscribeForget, Goto, Left
<1>8. ASSUME NEW p \in Threads, ClearEvents(p) PROVE BarredOK'
  BY <1>0, <1>8 DEF ClearEvents, Begin, Goto
<1>9. ASSUME NEW p \in Threads, ClearTypeCache(p) PROVE BarredOK'
  BY <1>0, <1>9 DEF ClearTypeCache, Goto
<1>10. ASSUME NEW p \in Threads, NEW t \in Types, PublishLookup(p, t) PROVE BarredOK'
  <2>1. /\ at[p] = "idle" /\ at'[p] = "deliver" /\ Others(p) /\ arg'[p].list = None
        /\ UNCHANGED <<events, lists, status>>
    BY <1>10, PublishLookupPoints
  <2>2. /\ got' = [got EXCEPT ![p] = {}]
        /\ barred' = [barred EXCEPT ![p] = {c \in Consumers : status[c] = "out"}]
    BY <1>10 DEF PublishLookup
  <2>3. got'[p] = {} /\ barred'[p] = {c \in Consumers : status[c] = "out"}
        /\ \A q \in Threads \ {p} : got'[q] = got[q] /\ barred'[q] = barred[q]
    BY <1>0, <2>2
  <2> QED BY <1>0, <2>1, <2>3
<1>11. ASSUME NEW p \in Threads, PublishDeliver(p) PROVE BarredOK'
  <2>1. PICK u \in arg[p].classes :
            got' = [got EXCEPT ![p] = IF events[u] = None THEN @ ELSE @ \cup lists[events[u]]]
    BY <1>11 DEF PublishDeliver
  <2>2. u \in Types
    BY <1>0 DEF ArgType
  <2>3. /\ events[u] = None => got'[p] = got[p]
        /\ events[u] # None => got'[p] = got[p] \cup lists[events[u]]
        /\ \A q \in Threads \ {p} : got'[q] = got[q]
    BY <1>0, <2>1
  <2>4. events[u] # None => \A c \in lists[events[u]] : status[c] # "out"
    BY <1>0, <2>2
  <2>5. got'[p] \cap barred[p] = {}
    BY <1>0, <2>3, <2>4
  <2> QED BY <1>0, <1>11, <2>3, <2>5 DEF PublishDeliver
<1>12. ASSUME NEW p \in Threads, PublishReturn(p) PROVE BarredOK'
  BY <1>0, <1>12 DEF PublishReturn, Goto
<1>13. CASE UNCHANGED vars
  BY <1>0, <1>13 DEF vars
<1> QED
  BY <1>1, <1>2, <1>3, <1>4, <1>5, <1>6, <1>7, <1>8, <1>9, <1>10, <1>11, <1>12, <1>13 DEF Next

(* A call takes at most one list of its own. *)
LEMMA FewerUsed ==
    ASSUME HubInv, calls' >= calls, calls' \in Nat, \A k \in Lists : k \in Used' => k \in Used
    PROVE  ListsCounted'
<1>1. Used' \subseteq Used
  BY DEF Used
<1>2. Cardinality(Used') <= Cardinality(Used) /\ Cardinality(Used') \in Nat
  BY <1>1, UsedFinite, FS_Subset, FS_CardinalityType
<1> QED BY <1>2, UsedFinite DEF HubInv, ListsCounted, HubTyped

LEMMA OneMoreUsed ==
    ASSUME HubInv, calls' = calls + 1, NEW l, \A k \in Lists : k \in Used' => k \in Used \cup {l}
    PROVE  ListsCounted'
<1> DEFINE T == Used \cup {l}
<1>1. Used' \subseteq T
  BY DEF Used
<1>2. IsFiniteSet(T) /\ Cardinality(T) <= Cardinality(Used) + 1
  BY UsedFinite, FS_AddElement
<1>3. Cardinality(T) \in Nat
  BY <1>2, FS_CardinalityType
<1> HIDE DEF T
<1>4. Cardinality(Used') <= Cardinality(T) /\ Cardinality(Used') \in Nat
  BY <1>1, <1>2, FS_Subset, FS_CardinalityType
<1> QED BY <1>2, <1>3, <1>4, UsedFinite DEF HubInv, ListsCounted, HubTyped

(* There are at most as many lists in use as calls were made.               *)
LEMMA CountedStep == HubInv /\ [Next]_vars => ListsCounted'
<1> SUFFICES ASSUME HubInv, [Next]_vars PROVE ListsCounted'
  OBVIOUS
<1>0. /\ CallsOK /\ ListsCounted /\ calls \in Nat
      /\ events \in [Types -> Lists \cup {None}] /\ lists \in [Lists -> SUBSET Consumers]
      /\ at \in [Threads -> AtValues] /\ arg \in [Threads -> ArgType]
      /\ status \in [Consumers -> {"out", "joining", "in", "leaving"}] /\ None \notin Lists
  BY TypesAssumption DEF HubInv, HubTyped, Lists
<1> USE DEF hub, history, CallsOK, Working, Joining, Leaving
<1>1. ASSUME NEW p \in Threads, NEW c \in Consumers, SubscribeLookup(p, c) PROVE ListsCounted'
  <2>1. /\ at[p] = "idle" /\ status[c] = "out" /\ status'[c] = "joining" /\ Rest(c) /\ Others(p)
        /\ UNCHANGED <<events, lists>>
        /\ arg'[p].consumer = c /\ arg'[p].type = TypeOf[c] /\ arg'[p].list \in Lists
    BY <1>1, SubscribeLookupPoints
  <2>2. \/ /\ at'[p] = "insert" /\ lists[arg'[p].list] = {}
           /\ \A t \in Types : events[t] # arg'[p].list
           /\ \A q \in Threads : arg[q].list # arg'[p].list
        \/ at'[p] = "add" /\ events[TypeOf[c]] = arg'[p].list
    BY <1>1, SubscribeLookupPoints
  <2>3. calls' = calls + 1
    BY <1>1 DEF SubscribeLookup, Begin
  <2>4. \A k \in Lists : k \in Used' => k \in Used \cup {arg'[p].list}
    BY <2>1 DEF Used, Others
  <2> QED BY <1>0, <2>1, <2>3, <2>4, OneMoreUsed
<1>2. ASSUME NEW p \in Threads, NEW c \in Consumers, UnsubscribeRemove(p, c) PROVE ListsCounted'
  <2>1. /\ at[p] = "idle" /\ status[c] = "in" /\ Rest(c) /\ Others(p) /\ TypeOf[c] \in Types
        /\ UNCHANGED events
    BY <1>2, UnsubscribeRemovePoints
  <2>2. \/ /\ events[TypeOf[c]] = None /\ status'[c] = "out" /\ at'[p] = "idle"
           /\ arg'[p] = arg[p] /\ UNCHANGED lists
        \/ /\ events[TypeOf[c]] = arg'[p].list /\ status'[c] = "leaving" /\ at'[p] = "isEmpty"
           /\ arg'[p].consumer = c /\ arg'[p].type = TypeOf[c] /\ arg'[p].list \in Lists
           /\ lists'[arg'[p].list] = lists[arg'[p].list] \ {c}
           /\ \A k \in Lists \ {arg'[p].list} : lists'[k] = lists[k]
    BY <1>2, UnsubscribeRemovePoints
  <2>3. calls' = calls + 1
    BY <1>2 DEF UnsubscribeRemove, Begin
  <2>4. ASSUME NEW k \in Lists, k \in Used' PROVE k \in Used
    <3>1. CASE status'[c] = "out"
      BY <2>1, <2>2, <2>4, <3>1 DEF Used, Others
    <3>2. CASE status'[c] = "leaving"
      BY <2>1, <2>2, <2>4, <3>2 DEF Used, Others
    <3> QED BY <2>2, <3>1, <3>2
  <2> QED BY <1>0, <2>3, <2>4, FewerUsed
<1>3. ASSUME NEW p \in Threads, SubscribeInsert(p) PROVE ListsCounted'
  <2>1. UNCHANGED <<calls, lists, arg>> /\ arg[p].list \in Lists
        /\ events' = [events EXCEPT ![arg[p].type] = arg[p].list]
    BY <1>0, <1>3 DEF SubscribeInsert
  <2>2. ASSUME NEW k \in Lists, k \in Used' PROVE k \in Used
    BY <1>0, <2>1, <2>2 DEF Used
  <2> QED BY <1>0, <2>1, <2>2, FewerUsed
<1>4. ASSUME NEW p \in Threads, SubscribeAdd(p) PROVE ListsCounted'
  <2>1. UNCHANGED calls /\ UNCHANGED events /\ arg' = [arg EXCEPT ![p] = NoArg]
    BY <1>4 DEF SubscribeAdd
  <2>2. arg'[p].list = None /\ \A q \in Threads \ {p} : arg'[q] = arg[q]
    BY <1>0, <2>1 DEF NoArg
  <2>3. arg[p].list \in Lists /\ \A k \in Lists \ {arg[p].list} : lists'[k] = lists[k]
    BY <1>0, <1>4 DEF SubscribeAdd
  <2>4. ASSUME NEW k \in Lists, k \in Used' PROVE k \in Used
    BY <1>0, <2>1, <2>2, <2>3, <2>4 DEF Used
  <2> QED BY <1>0, <2>1, <2>4, FewerUsed
<1>5. ASSUME NEW p \in Threads, UnsubscribeIsEmpty(p) PROVE ListsCounted'
  <2>1. UNCHANGED calls /\ UNCHANGED <<events, lists>>
        /\ (arg' = arg \/ arg' = [arg EXCEPT ![p] = NoArg])
    BY <1>5 DEF UnsubscribeIsEmpty
  <2>2. ASSUME NEW k \in Lists, k \in Used' PROVE k \in Used
    <3>1. CASE arg' = arg
      BY <2>1, <2>2, <3>1 DEF Used
    <3>2. CASE arg' = [arg EXCEPT ![p] = NoArg]
      <4>1. arg'[p].list = None /\ \A q \in Threads \ {p} : arg'[q] = arg[q]
        BY <1>0, <3>2 DEF NoArg
      <4> QED BY <1>0, <2>1, <2>2, <4>1 DEF Used
    <3> QED BY <2>1, <3>1, <3>2
  <2> QED BY <1>0, <2>1, <2>2, FewerUsed
<1>6. ASSUME NEW p \in Threads, UnsubscribeDrop(p) PROVE ListsCounted'
  <2>1. UNCHANGED calls /\ \A k \in Lists : k \in Used' => k \in Used
    BY <1>0, <1>6 DEF Used, UnsubscribeDrop, Goto
  <2> QED BY <1>0, <2>1, FewerUsed
<1>7. ASSUME NEW p \in Threads, UnsubscribeForget(p) PROVE ListsCounted'
  <2>1. UNCHANGED calls /\ UNCHANGED events /\ arg' = [arg EXCEPT ![p] = NoArg]
    BY <1>7 DEF UnsubscribeForget
  <2>2. arg'[p].list = None /\ \A q \in Threads \ {p} : arg'[q] = arg[q]
    BY <1>0, <2>1 DEF NoArg
  <2>3. \A k \in Lists : k \in Used' => k \in Used
    BY <1>0, <2>1, <2>2, <1>7 DEF Used, UnsubscribeForget
  <2> QED BY <1>0, <2>1, <2>3, FewerUsed
<1>8. ASSUME NEW p \in Threads, ClearEvents(p) PROVE ListsCounted'
  <2>1. calls' = calls + 1 /\ \A k \in Lists : k \in Used' => k \in Used
    BY <1>0, <1>8 DEF Used, ClearEvents, Begin
  <2> QED BY <1>0, <2>1, FewerUsed
<1>9. ASSUME NEW p \in Threads, ClearTypeCache(p) PROVE ListsCounted'
  <2>1. UNCHANGED calls /\ \A k \in Lists : k \in Used' => k \in Used
    BY <1>0, <1>9 DEF Used, ClearTypeCache, Goto
  <2> QED BY <1>0, <2>1, FewerUsed
<1>10. ASSUME NEW p \in Threads, NEW t \in Types, PublishLookup(p, t) PROVE ListsCounted'
  <2>1. /\ at[p] = "idle" /\ at'[p] = "deliver" /\ Others(p) /\ arg'[p].list = None
        /\ UNCHANGED <<events, lists, status>>
    BY <1>10, PublishLookupPoints
  <2>2. calls' = calls + 1
    BY <1>10 DEF PublishLookup, Begin
  <2>3. \A k \in Lists : k \in Used' => k \in Used
    BY <1>0, <2>1 DEF Used, Others
  <2> QED BY <1>0, <2>2, <2>3, FewerUsed
<1>11. ASSUME NEW p \in Threads, PublishDeliver(p) PROVE ListsCounted'
  <2>1. PICK u \in arg[p].classes : arg' = [arg EXCEPT ![p].classes = @ \ {u}]
    BY <1>11 DEF PublishDeliver
  <2>2. arg'[p].list = arg[p].list /\ \A q \in Threads \ {p} : arg'[q] = arg[q]
    BY <1>0, <2>1 DEF ArgType
  <2>3. UNCHANGED <<calls, events, lists>>
    BY <1>11 DEF PublishDeliver
  <2>4. \A k \in Lists : k \in Used' => k \in Used
    BY <2>2, <2>3 DEF Used
  <2> QED BY <1>0, <2>3, <2>4, FewerUsed
<1>12. ASSUME NEW p \in Threads, PublishReturn(p) PROVE ListsCounted'
  <2>1. UNCHANGED calls /\ UNCHANGED events /\ arg' = [arg EXCEPT ![p] = NoArg]
    BY <1>12 DEF PublishReturn
  <2>2. arg'[p].list = None /\ \A q \in Threads \ {p} : arg'[q] = arg[q]
    BY <1>0, <2>1 DEF NoArg
  <2>3. \A k \in Lists : k \in Used' => k \in Used
    BY <1>0, <2>1, <2>2, <1>12 DEF Used, PublishReturn
  <2> QED BY <1>0, <2>1, <2>3, FewerUsed
<1>13. CASE UNCHANGED vars
  BY <1>0, <1>13 DEF vars, Used, ListsCounted
<1> QED
  BY <1>1, <1>2, <1>3, <1>4, <1>5, <1>6, <1>7, <1>8, <1>9, <1>10, <1>11, <1>12, <1>13 DEF Next

LEMMA InitHub == Init => HubInv
<1> SUFFICES ASSUME Init PROVE HubInv
  OBVIOUS
<1> USE DEF Init
<1>1. HubTyped /\ HistoryTyped
  <2>1. arg \in [Threads -> ArgType]
    BY ArgFacts
  <2>2. /\ events \in [Types -> Lists \cup {None}] /\ lists \in [Lists -> SUBSET Consumers]
        /\ typeCache \in [Types -> (SUBSET Types) \cup {None}] /\ \A t \in Types : typeCache[t] = None
    OBVIOUS
  <2>3. at \in [Threads -> AtValues] /\ status \in [Consumers -> {"out", "joining", "in", "leaving"}]
    BY DEF AtValues
  <2>4. calls \in 0..MaxCalls
    BY TypesAssumption
  <2>6. overlapped \in BOOLEAN
    OBVIOUS
  <2>5. HistoryTyped
    BY DEF HistoryTyped
  <2> HIDE DEF ArgType, Init
  <2> QED BY <2>1, <2>2, <2>3, <2>4, <2>5, <2>6 DEF HubTyped
<1>2. CallsOK /\ NewListsOK
  BY DEF CallsOK, NewListsOK, Working, Joining, Leaving
<1>3. MapOK /\ BarredOK
  BY DEF MapOK, BarredOK
<1>4. ListsCounted
  <2>1. None \notin Lists
    BY TypesAssumption DEF Lists
  <2>2. Used = {}
    BY <2>1 DEF Used, NoArg
  <2> QED BY <2>2, FS_EmptySet DEF ListsCounted
<1> QED BY <1>1, <1>2, <1>3, <1>4 DEF HubInv

LEMMA HubInvariant == Spec => []HubInv
<1>1. HubInv /\ [Next]_vars => HubInv'
  BY TypesStep, HistoryStep, CallsStep, MapStep, NewListsStep, BarredStep, CountedStep DEF HubInv
<1> QED BY InitHub, <1>1, PTL DEF Spec

(* A consumer whose unsubscribe returned before a publish began, and that  *)
(* has not subscribed again since, receives nothing from that publish: a   *)
(* list that left the map with a consumer in it never comes back.          *)
THEOREM NothingDeliveredLate == Spec => []NoLateDelivery
<1>1. HubInv => NoLateDelivery
  BY DEF HubInv, BarredOK, NoLateDelivery
<1> QED BY HubInvariant, <1>1, PTL

(* A thread that calls while no calls overlap has the hub to itself. *)
Alone(p) == \A q \in Threads \ {p} : at[q] = "idle"

LEMMA SerialBegin ==
    ASSUME HubInv, SerialInv, ~overlapped', NEW p \in Threads, NEW o, Begin(p, o)
    PROVE  ~overlapped /\ at[p] = "idle" /\ Alone(p) /\ AllHeld /\ CacheSettled
BY DEF Begin, SerialInv, Alone

LEMMA SerialGoesOn ==
    ASSUME HubInv, SerialInv, ~overlapped', NEW p \in Threads, at[p] # "idle", UNCHANGED overlapped
    PROVE  /\ Alone(p) /\ AllHeld /\ CallInMap(p)
           /\ at[p] \notin {"forget", "clearCache"} => CacheSettled
BY DEF SerialInv, Alone, OneAtATime

LEMMA SerialGoal ==
    ASSUME NEW p \in Threads, Alone(p)', AllHeld', CallInMap(p)',
           at'[p] \notin {"forget", "clearCache"} => CacheSettled'
    PROVE  SerialInv'
<1>1. OneAtATime'
  BY DEF OneAtATime, Alone
<1>2. ASSUME NEW q \in Threads PROVE CallInMap(q)'
  <2>1. CASE q = p
    BY <2>1
  <2>2. CASE q # p
    <3>1. at'[q] = "idle"
      BY <2>2 DEF Alone
    <3> QED BY <3>1 DEF CallInMap
  <2> QED BY <2>1, <2>2
<1> QED BY <1>1, <1>2 DEF SerialInv

(* Calls that do not overlap leave the map and the cache in order.          *)
LEMMA SerialStep == HubInv /\ SerialInv /\ [Next]_vars => SerialInv'
<1> SUFFICES ASSUME HubInv, SerialInv, ~overlapped', [Next]_vars PROVE SerialInv'
  BY DEF SerialInv
<1>0. /\ CallsOK /\ HistoryTyped /\ typeCache \in [Types -> (SUBSET Types) \cup {None}]
      /\ events \in [Types -> Lists \cup {None}] /\ lists \in [Lists -> SUBSET Consumers]
      /\ at \in [Threads -> AtValues] /\ arg \in [Threads -> ArgType]
      /\ status \in [Consumers -> {"out", "joining", "in", "leaving"}] /\ None \notin Lists
  BY TypesAssumption DEF HubInv, HubTyped, Lists
<1> USE DEF hub, history, CallsOK, HistoryTyped, Working, Joining, Leaving
<1>1. ASSUME NEW p \in Threads, NEW c \in Consumers, SubscribeLookup(p, c) PROVE SerialInv'
  <2>0. ~overlapped /\ Alone(p) /\ AllHeld /\ CacheSettled
    BY <1>1, SerialBegin DEF SubscribeLookup
  <2>1. /\ at[p] = "idle" /\ status[c] = "out" /\ status'[c] = "joining" /\ Rest(c) /\ Others(p)
        /\ UNCHANGED <<events, lists>>
        /\ arg'[p].consumer = c /\ arg'[p].type = TypeOf[c] /\ arg'[p].list \in Lists
    BY <1>1, SubscribeLookupPoints
  <2>2. \/ /\ at'[p] = "insert" /\ lists[arg'[p].list] = {}
           /\ \A t \in Types : events[t] # arg'[p].list
           /\ \A q \in Threads : arg[q].list # arg'[p].list
        \/ at'[p] = "add" /\ events[TypeOf[c]] = arg'[p].list
    BY <1>1, SubscribeLookupPoints
  <2>3. \/ at'[p] = "insert" /\ (\A t \in Types : typeCache'[t] = None) /\ events[TypeOf[c]] = None
        \/ at'[p] = "add" /\ events[TypeOf[c]] = arg'[p].list /\ typeCache' = typeCache
    BY <1>1, SubscribeLookupPoints
  <2>11. Alone(p)'
    BY <2>0, <2>1 DEF Alone, Others
  <2>12. AllHeld'
    BY <2>0, <2>1 DEF AllHeld, Subscribed, Rest
  <2>13. CallInMap(p)'
    BY <2>1, <2>3 DEF CallInMap
  <2>14. CacheSettled'
    BY <2>0, <2>1, <2>3 DEF CacheSettled, Classes
  <2> QED BY <2>11, <2>12, <2>13, <2>14, SerialGoal
<1>2. ASSUME NEW p \in Threads, NEW c \in Consumers, UnsubscribeRemove(p, c) PROVE SerialInv'
  <2>0. ~overlapped /\ Alone(p) /\ AllHeld /\ CacheSettled
    BY <1>2, SerialBegin DEF UnsubscribeRemove
  <2>1. /\ at[p] = "idle" /\ status[c] = "in" /\ Rest(c) /\ Others(p) /\ TypeOf[c] \in Types
        /\ UNCHANGED events
    BY <1>2, UnsubscribeRemovePoints
  <2>2. \/ /\ events[TypeOf[c]] = None /\ status'[c] = "out" /\ at'[p] = "idle"
           /\ arg'[p] = arg[p] /\ UNCHANGED lists
        \/ /\ events[TypeOf[c]] = arg'[p].list /\ status'[c] = "leaving" /\ at'[p] = "isEmpty"
           /\ arg'[p].consumer = c /\ arg'[p].type = TypeOf[c] /\ arg'[p].list \in Lists
           /\ lists'[arg'[p].list] = lists[arg'[p].list] \ {c}
           /\ \A k \in Lists \ {arg'[p].list} : lists'[k] = lists[k]
    BY <1>2, UnsubscribeRemovePoints
  <2>3. UNCHANGED typeCache
    BY <1>2 DEF UnsubscribeRemove
  <2>11. Alone(p)'
    BY <2>0, <2>1 DEF Alone, Others
  <2>12. AllHeld'
    <3>1. ASSUME NEW d \in Consumers, status'[d] = "in" PROVE Subscribed(d)'
      <4>1. d # c /\ status[d] = "in"
        BY <2>1, <2>2, <3>1 DEF Rest
      <4>2. events[TypeOf[d]] \in Lists /\ d \in lists[events[TypeOf[d]]]
        BY <1>0, <2>0, <4>1, TypesAssumption DEF AllHeld, Subscribed
      <4>3. d \in lists'[events[TypeOf[d]]]
        BY <2>2, <4>1, <4>2
      <4> QED BY <1>0, <2>1, <4>2, <4>3 DEF Subscribed
    <3> QED BY <3>1 DEF AllHeld
  <2>13. CallInMap(p)'
    BY <2>1, <2>2 DEF CallInMap
  <2>14. CacheSettled'
    BY <2>0, <2>1, <2>3 DEF CacheSettled, Classes
  <2> QED BY <2>11, <2>12, <2>13, <2>14, SerialGoal
<1>3. ASSUME NEW p \in Threads, SubscribeInsert(p) PROVE SerialInv'
  <2>0. /\ at[p] = "insert" /\ Alone(p) /\ AllHeld /\ CallInMap(p)
        /\ at[p] \notin {"forget", "clearCache"} => CacheSettled
    BY <1>3, SerialGoesOn DEF SubscribeInsert
  <2>1. /\ UNCHANGED <<lists, typeCache, arg, status>> /\ at' = [at EXCEPT ![p] = "add"]
        /\ events' = [events EXCEPT ![arg[p].type] = arg[p].list]
        /\ events[arg[p].type] = None /\ \A t \in Types : typeCache[t] = None
        /\ arg[p].type \in Types
    BY <1>0, <2>0, <1>3, TypesAssumption DEF SubscribeInsert, Goto, CallInMap
  <2>11. Alone(p)'
    BY <1>0, <2>0, <2>1 DEF Alone
  <2>12. AllHeld'
    BY <1>0, <2>0, <2>1, TypesAssumption DEF AllHeld, Subscribed
  <2>13. CallInMap(p)'
    BY <1>0, <2>1 DEF CallInMap
  <2>14. CacheSettled'
    BY <2>1 DEF CacheSettled
  <2> QED BY <2>11, <2>12, <2>13, <2>14, SerialGoal
<1>4. ASSUME NEW p \in Threads, SubscribeAdd(p) PROVE SerialInv'
  <2>0. /\ at[p] = "add" /\ Alone(p) /\ AllHeld /\ CallInMap(p)
        /\ at[p] \notin {"forget", "clearCache"} => CacheSettled
    BY <1>4, SerialGoesOn DEF SubscribeAdd
  <2>1. /\ UNCHANGED <<events, typeCache>> /\ at' = [at EXCEPT ![p] = "idle"]
        /\ lists' = [lists EXCEPT ![arg[p].list] = @ \cup {arg[p].consumer}]
        /\ status' = [status EXCEPT ![arg[p].consumer] = "in"]
        /\ arg[p].consumer \in Consumers /\ arg[p].list \in Lists
        /\ events[TypeOf[arg[p].consumer]] = arg[p].list
    BY <1>0, <2>0, <1>4 DEF SubscribeAdd, Goto, CallInMap
  <2>11. Alone(p)'
    BY <1>0, <2>0, <2>1 DEF Alone
  <2>12. AllHeld'
    <3>1. ASSUME NEW d \in Consumers, status'[d] = "in" PROVE Subscribed(d)'
      <4>1. CASE d = arg[p].consumer
        BY <1>0, <2>1, <4>1 DEF Subscribed
      <4>2. CASE d # arg[p].consumer
        <5>1. status[d] = "in"
          BY <1>0, <2>1, <3>1, <4>2
        <5>2. events[TypeOf[d]] \in Lists /\ d \in lists[events[TypeOf[d]]]
          BY <1>0, <2>0, <5>1, TypesAssumption DEF AllHeld, Subscribed
        <5> QED BY <1>0, <2>1, <5>2 DEF Subscribed
      <4> QED BY <4>1, <4>2
    <3> QED BY <3>1 DEF AllHeld
  <2>13. CallInMap(p)'
    BY <1>0, <2>1 DEF CallInMap
  <2>14. CacheSettled'
    BY <2>0, <2>1 DEF CacheSettled, Classes
  <2> QED BY <2>11, <2>12, <2>13, <2>14, SerialGoal
<1>5. ASSUME NEW p \in Threads, UnsubscribeIsEmpty(p) PROVE SerialInv'
  <2>0. /\ at[p] = "isEmpty" /\ Alone(p) /\ AllHeld /\ CallInMap(p)
        /\ at[p] \notin {"forget", "clearCache"} => CacheSettled
    BY <1>5, SerialGoesOn DEF UnsubscribeIsEmpty
  <2>1. /\ UNCHANGED <<events, lists, typeCache>> /\ arg[p].consumer \in Consumers
        /\ events[arg[p].type] = arg[p].list
    BY <1>0, <2>0, <1>5 DEF UnsubscribeIsEmpty, CallInMap
  <2>2. \/ /\ at' = [at EXCEPT ![p] = "drop"] /\ UNCHANGED <<arg, status>>
           /\ lists[arg[p].list] = {}
        \/ at' = [at EXCEPT ![p] = "idle"] /\ status' = [status EXCEPT ![arg[p].consumer] = "out"]
    BY <1>5 DEF UnsubscribeIsEmpty, Goto, Left
  <2>11. Alone(p)'
    BY <1>0, <2>0, <2>2 DEF Alone
  <2>12. AllHeld'
    BY <1>0, <2>0, <2>1, <2>2 DEF AllHeld, Subscribed
  <2>13. CallInMap(p)'
    <3>1. CASE at' = [at EXCEPT ![p] = "idle"]
      BY <1>0, <3>1 DEF CallInMap
    <3> QED BY <1>0, <2>1, <2>2, <3>1 DEF CallInMap
  <2>14. CacheSettled'
    BY <2>0, <2>1 DEF CacheSettled, Classes
  <2> QED BY <2>11, <2>12, <2>13, <2>14, SerialGoal
<1>6. ASSUME NEW p \in Threads, UnsubscribeDrop(p) PROVE SerialInv'
  <2>0. /\ at[p] = "drop" /\ Alone(p) /\ AllHeld /\ CallInMap(p)
        /\ at[p] \notin {"forget", "clearCache"} => CacheSettled
    BY <1>6, SerialGoesOn DEF UnsubscribeDrop
  <2>1. /\ UNCHANGED <<lists, status>> /\ at' = [at EXCEPT ![p] = "forget"]
        /\ events' = [events EXCEPT ![arg[p].type] = None]
        /\ lists[events[arg[p].type]] = {} /\ arg[p].type \in Types
    BY <1>0, <2>0, <1>6, TypesAssumption DEF UnsubscribeDrop, Goto, CallInMap
  <2>11. Alone(p)'
    BY <1>0, <2>0, <2>1 DEF Alone
  <2>12. AllHeld'
    BY <1>0, <2>0, <2>1, TypesAssumption DEF AllHeld, Subscribed
  <2>13. CallInMap(p)' /\ at'[p] = "forget"
    BY <1>0, <2>1 DEF CallInMap
  <2> QED BY <2>11, <2>12, <2>13, SerialGoal
<1>7. ASSUME NEW p \in Threads, UnsubscribeForget(p) PROVE SerialInv'
  <2>0. /\ at[p] = "forget" /\ Alone(p) /\ AllHeld /\ CallInMap(p)
        /\ at[p] \notin {"forget", "clearCache"} => CacheSettled
    BY <1>7, SerialGoesOn DEF UnsubscribeForget
  <2>1. /\ UNCHANGED <<events, lists>> /\ at' = [at EXCEPT ![p] = "idle"]
        /\ status' = [status EXCEPT ![arg[p].consumer] = "out"] /\ arg[p].consumer \in Consumers
        /\ \A t \in Types : typeCache'[t] = None
    BY <1>0, <2>0, <1>7 DEF UnsubscribeForget, Goto, Left
  <2>11. Alone(p)'
    BY <1>0, <2>0, <2>1 DEF Alone
  <2>12. AllHeld'
    BY <1>0, <2>0, <2>1 DEF AllHeld, Subscribed
  <2>13. CallInMap(p)'
    BY <1>0, <2>1 DEF CallInMap
  <2>14. CacheSettled'
    BY <2>1 DEF CacheSettled
  <2> QED BY <2>11, <2>12, <2>13, <2>14, SerialGoal
<1>8. ASSUME NEW p \in Threads, ClearEvents(p) PROVE SerialInv'
  <2>0. ~overlapped /\ Alone(p) /\ AllHeld /\ CacheSettled
    BY <1>8, SerialBegin DEF ClearEvents
  <2>1. /\ at' = [at EXCEPT ![p] = "clearCache"]
        /\ status' = [c \in Consumers |-> IF status[c] = "in" THEN "out" ELSE status[c]]
    BY <1>8 DEF ClearEvents, Goto
  <2>11. Alone(p)'
    BY <1>0, <2>0, <2>1 DEF Alone
  <2>12. AllHeld'
    BY <2>1 DEF AllHeld
  <2>13. CallInMap(p)' /\ at'[p] = "clearCache"
    BY <1>0, <2>1 DEF CallInMap
  <2> QED BY <2>11, <2>12, <2>13, SerialGoal
<1>9. ASSUME NEW p \in Threads, ClearTypeCache(p) PROVE SerialInv'
  <2>0. /\ at[p] = "clearCache" /\ Alone(p) /\ AllHeld /\ CallInMap(p)
        /\ at[p] \notin {"forget", "clearCache"} => CacheSettled
    BY <1>9, SerialGoesOn DEF ClearTypeCache
  <2>1. /\ UNCHANGED <<events, lists, status>> /\ at' = [at EXCEPT ![p] = "idle"]
        /\ \A t \in Types : typeCache'[t] = None
    BY <1>9 DEF ClearTypeCache, Goto
  <2>11. Alone(p)'
    BY <1>0, <2>0, <2>1 DEF Alone
  <2>12. AllHeld'
    BY <2>0, <2>1 DEF AllHeld, Subscribed
  <2>13. CallInMap(p)'
    BY <1>0, <2>1 DEF CallInMap
  <2>14. CacheSettled'
    BY <2>1 DEF CacheSettled
  <2> QED BY <2>11, <2>12, <2>13, <2>14, SerialGoal
<1>10. ASSUME NEW p \in Threads, NEW t \in Types, PublishLookup(p, t) PROVE SerialInv'
  <2>0. ~overlapped /\ Alone(p) /\ AllHeld /\ CacheSettled
    BY <1>10, SerialBegin DEF PublishLookup
  <2>1. /\ at[p] = "idle" /\ at'[p] = "deliver" /\ Others(p) /\ arg'[p].list = None
        /\ UNCHANGED <<events, lists, status>>
    BY <1>10, PublishLookupPoints
  <2>2. /\ arg'[p].classes = Classes(t)
        /\ typeCache' = [typeCache EXCEPT ![t] = arg'[p].classes]
    BY <2>0, <1>10, PublishLookupPoints DEF CacheSettled
  <2>3. due'[p] = {c \in Consumers : status[c] = "in" /\ TypeOf[c] \in Supers[t]}
    BY <1>0, <1>10 DEF PublishLookup
  <2>11. Alone(p)'
    BY <2>0, <2>1 DEF Alone, Others
  <2>12. AllHeld'
    BY <2>0, <2>1 DEF AllHeld, Subscribed
  <2>13. CallInMap(p)'
    <3>1. \A c \in due'[p] : TypeOf[c] \in arg'[p].classes
      BY <2>0, <2>2, <2>3 DEF AllHeld, Subscribed, Classes
    <3> QED BY <2>1, <2>3, <3>1 DEF CallInMap
  <2>14. CacheSettled'
    BY <1>0, <2>0, <2>1, <2>2 DEF CacheSettled, Classes
  <2> QED BY <2>11, <2>12, <2>13, <2>14, SerialGoal
<1>11. ASSUME NEW p \in Threads, PublishDeliver(p) PROVE SerialInv'
  <2>0. /\ at[p] = "deliver" /\ Alone(p) /\ AllHeld /\ CallInMap(p)
        /\ at[p] \notin {"forget", "clearCache"} => CacheSettled
    BY <1>11, SerialGoesOn DEF PublishDeliver
  <2>1. PICK u \in arg[p].classes :
            /\ arg' = [arg EXCEPT ![p].classes = @ \ {u}]
            /\ got' = [got EXCEPT ![p] = IF events[u] = None THEN @ ELSE @ \cup lists[events[u]]]
    BY <1>11 DEF PublishDeliver
  <2>2. UNCHANGED <<events, lists, typeCache, at, status, due>>
    BY <1>11 DEF PublishDeliver
  <2>3. /\ arg'[p].classes = arg[p].classes \ {u}
        /\ events[u] = None => got'[p] = got[p]
        /\ events[u] # None => got'[p] = got[p] \cup lists[events[u]]
    BY <1>0, <2>1 DEF ArgType
  <2>11. Alone(p)'
    BY <2>0, <2>2 DEF Alone
  <2>12. AllHeld'
    BY <2>0, <2>2 DEF AllHeld, Subscribed
  <2>13. CallInMap(p)'
    <3>1. ASSUME NEW c \in due[p] PROVE c \in got'[p] \/ TypeOf[c] \in arg'[p].classes
      <4>1. c \in got[p] \/ TypeOf[c] \in arg[p].classes
        BY <2>0 DEF CallInMap
      <4>2. CASE TypeOf[c] = u
        <5>1. Subscribed(c)
          BY <1>0, <2>0 DEF CallInMap, AllHeld
        <5> QED BY <2>3, <4>2, <5>1 DEF Subscribed
      <4> QED BY <2>3, <4>1, <4>2
    <3>2. \A c \in due[p] : status[c] = "in"
      BY <2>0 DEF CallInMap
    <3> QED BY <2>0, <2>2, <3>1, <3>2 DEF CallInMap
  <2>14. CacheSettled'
    BY <2>0, <2>2 DEF CacheSettled, Classes
  <2> QED BY <2>11, <2>12, <2>13, <2>14, SerialGoal
<1>12. ASSUME NEW p \in Threads, PublishReturn(p) PROVE SerialInv'
  <2>0. /\ at[p] = "deliver" /\ Alone(p) /\ AllHeld /\ CallInMap(p)
        /\ at[p] \notin {"forget", "clearCache"} => CacheSettled
    BY <1>12, SerialGoesOn DEF PublishReturn
  <2>1. UNCHANGED <<events, lists, typeCache, status>> /\ at' = [at EXCEPT ![p] = "idle"]
    BY <1>12 DEF PublishReturn, Goto
  <2>11. Alone(p)'
    BY <1>0, <2>0, <2>1 DEF Alone
  <2>12. AllHeld'
    BY <2>0, <2>1 DEF AllHeld, Subscribed
  <2>13. CallInMap(p)'
    BY <1>0, <2>1 DEF CallInMap
  <2>14. CacheSettled'
    BY <2>0, <2>1 DEF CacheSettled, Classes
  <2> QED BY <2>11, <2>12, <2>13, <2>14, SerialGoal
<1>13. CASE UNCHANGED vars
  BY <1>13 DEF vars, SerialInv, OneAtATime, AllHeld, Subscribed, CallInMap, CacheSettled, Classes
<1> QED
  BY <1>1, <1>2, <1>3, <1>4, <1>5, <1>6, <1>7, <1>8, <1>9, <1>10, <1>11, <1>12, <1>13 DEF Next

(* As long as calls do not overlap, a publish reaches everyone who is      *)
(* subscribed to the class of the event or to a superclass of it, and the  *)
(* cache of superclasses agrees with the map between calls.                *)
THEOREM SerialCallsReachAll == Spec => []ReachedIfSerial
<1>1. Init => SerialInv
  BY DEF Init, SerialInv, OneAtATime, AllHeld, CallInMap, CacheSettled
<1>2. HubInv /\ SerialInv => ReachedIfSerial
  <2> SUFFICES ASSUME HubInv, SerialInv PROVE ReachedIfSerial
    OBVIOUS
  <2>1. TypeOK
    BY DEF HubInv, HubTyped, TypeOK
  <2>2. ~overlapped => SubscribersReached
    BY DEF SerialInv, CallInMap, SubscribersReached
  <2>3. ~overlapped => CacheIsFresh
    BY DEF SerialInv, CacheSettled, CacheIsFresh
  <2> QED BY <2>1, <2>2, <2>3 DEF ReachedIfSerial
<1> QED BY HubInvariant, SerialStep, <1>1, <1>2, PTL DEF Spec

=============================================================================
