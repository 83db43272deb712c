--------------------------- MODULE SystemEventHub ---------------------------
(***************************************************************************)
(* SystemEventHub: the process-wide publish/subscribe hub.  Workers        *)
(* publish from their own threads while activities, services and awaiters  *)
(* subscribe and unsubscribe.  No method takes a lock; the two maps are    *)
(* ConcurrentHashMaps and each list is copied on write, so a step below is *)
(* one call on one of these objects.                                       *)
(*                                                                         *)
(* A consumer is subscribed at most once at a time, as in the app, so a    *)
(* list of consumers is a set.                                             *)
(***************************************************************************)
EXTENDS Integers, FiniteSets

CONSTANTS
    Types,          \* event classes
    Supers,         \* Supers[t]: the classes c with c.isAssignableFrom(t)
    Consumers,      \* the registered functions
    TypeOf,         \* TypeOf[c]: the class consumer c subscribes to
    Threads,        \* the callers
    Operations,     \* which methods they call
    MaxCalls,       \* bound: calls in a behaviour
    None            \* no list, no cache entry

ASSUME TypesAssumption ==
    /\ Supers \in [Types -> SUBSET Types] /\ \A t \in Types : t \in Supers[t]
    /\ TypeOf \in [Consumers -> Types]
    /\ Operations \subseteq {"subscribe", "unsubscribe", "publish", "clear"}
    /\ MaxCalls \in Nat
    /\ None \notin 1..(MaxCalls + 1)    \* null is no list

VARIABLES
    events,         \* events[t]: the number of the list of class t, or None
    lists,          \* lists[k]: the consumers in list k; lists are never reused
    typeCache,      \* typeCache[t]: the classes notified for an event of class t, or None
    at,             \* at[p]: the step thread p is about to take
    arg,            \* arg[p]: what p works on: the class, consumer and list of its call
    status,         \* history: "out", "joining", "in", "leaving" for each consumer
    got,            \* history: who received the event p publishes
    due,            \* history: who was subscribed all along since p's publish began
    barred,         \* history: who was not subscribed at any time since then
    overlapped,     \* history: two calls were in progress at the same time
    calls           \* number of calls so far

hub == <<events, lists, typeCache>>
history == <<status, got, due, barred>>
vars == <<hub, at, arg, history, calls, overlapped>>

Lists == 1..(MaxCalls + 1)
NoArg == [type |-> None, consumer |-> None, list |-> None, classes |-> {}]

Init ==
    /\ events = [t \in Types |-> None]
    /\ lists = [k \in Lists |-> {}]
    /\ typeCache = [t \in Types |-> None]
    /\ at = [p \in Threads |-> "idle"]
    /\ arg = [p \in Threads |-> NoArg]
    /\ status = [c \in Consumers |-> "out"]
    /\ got = [p \in Threads |-> {}] /\ due = [p \in Threads |-> {}]
    /\ barred = [p \in Threads |-> {}]
    /\ calls = 0 /\ overlapped = FALSE

Goto(p, step) == at' = [at EXCEPT ![p] = step]

Begin(p, operation) ==
    /\ at[p] = "idle" /\ operation \in Operations /\ calls < MaxCalls
    /\ calls' = calls + 1
    /\ overlapped' = (overlapped \/ \E q \in Threads : at[q] # "idle")

(* A list no one has used yet. *)
FreshList == CHOOSE k \in Lists : k \notin {arg[p].list : p \in Threads}
                                  /\ k \notin {events[t] : t \in Types} /\ lists[k] = {}

(* computeIfAbsent holds the entry of its key until the new list is in the *)
(* map: another computeIfAbsent or remove of the same class waits.         *)
EntryFree(t) == ~ \E q \in Threads : at[q] = "insert" /\ arg[q].type = t

-----------------------------------------------------------------------------
(* subscribe: find the list of the class, or clear the cache and then put  *)
(* a new list into the map; add the consumer to that list afterwards.      *)

SubscribeLookup(p, c) ==
    LET t == TypeOf[c]
    IN  /\ Begin(p, "subscribe") /\ status[c] = "out" /\ EntryFree(t)
        /\ status' = [status EXCEPT ![c] = "joining"]
        /\ barred' = [q \in Threads |-> barred[q] \ {c}]
        /\ IF events[t] = None
           THEN /\ typeCache' = [u \in Types |-> None]
                /\ arg' = [arg EXCEPT ![p] = [NoArg EXCEPT !.type = t, !.consumer = c,
                                                           !.list = FreshList]]
                /\ Goto(p, "insert")
           ELSE /\ arg' = [arg EXCEPT ![p] = [NoArg EXCEPT !.type = t, !.consumer = c,
                                                           !.list = events[t]]]
                /\ Goto(p, "add")
                /\ UNCHANGED typeCache
        /\ UNCHANGED <<events, lists, got, due>>

SubscribeInsert(p) ==
    /\ at[p] = "insert"
    /\ events' = [events EXCEPT ![arg[p].type] = arg[p].list]
    /\ Goto(p, "add")
    /\ UNCHANGED <<lists, typeCache, arg, history, calls, overlapped>>

SubscribeAdd(p) ==
    /\ at[p] = "add"
    /\ lists' = [lists EXCEPT ![arg[p].list] = @ \cup {arg[p].consumer}]
    /\ status' = [status EXCEPT ![arg[p].consumer] = "in"]
    /\ arg' = [arg EXCEPT ![p] = NoArg]
    /\ Goto(p, "idle")
    /\ UNCHANGED <<events, typeCache, got, due, barred, calls, overlapped>>

-----------------------------------------------------------------------------
(* unsubscribe: remove from the list, ask whether it is empty, drop the    *)
(* class from the map, clear the cache: each a step of its own.            *)

(* The call returns: consumer c is out. *)
Left(c) == status' = [status EXCEPT ![c] = "out"]

(* Bug: the reference handed in is a new object (this::func), and the list *)
(* does not contain it.                                                    *)
WithoutNothing(k, c) == lists

(* list.remove(action) *)
Without(k, c) == [lists EXCEPT ![k] = @ \ {c}]

UnsubscribeRemove(p, c) ==
    LET k == events[TypeOf[c]]
    IN  /\ Begin(p, "unsubscribe") /\ status[c] = "in"
        /\ due' = [q \in Threads |-> due[q] \ {c}]
        /\ IF k = None
           THEN Left(c) /\ UNCHANGED <<lists, at, arg>>
           ELSE /\ lists' = Without(k, c)
                /\ status' = [status EXCEPT ![c] = "leaving"]
                /\ arg' = [arg EXCEPT ![p] = [NoArg EXCEPT !.type = TypeOf[c], !.consumer = c,
                                                           !.list = k]]
                /\ Goto(p, "isEmpty")
        /\ UNCHANGED <<events, typeCache, got, barred>>

UnsubscribeIsEmpty(p) ==
    /\ at[p] = "isEmpty"
    /\ IF lists[arg[p].list] = {}
       THEN Goto(p, "drop") /\ UNCHANGED <<arg, status>>
       ELSE Goto(p, "idle") /\ Left(arg[p].consumer) /\ arg' = [arg EXCEPT ![p] = NoArg]
    /\ UNCHANGED <<hub, got, due, barred, calls, overlapped>>

UnsubscribeDrop(p) ==
    /\ at[p] = "drop" /\ EntryFree(arg[p].type)
    /\ events' = [events EXCEPT ![arg[p].type] = None]
    /\ Goto(p, "forget")
    /\ UNCHANGED <<lists, typeCache, arg, history, calls, overlapped>>

(* Bug: the cache still names a class that left the map. *)
UnsubscribeForgetNothing(p) ==
    /\ at[p] = "forget"
    /\ Left(arg[p].consumer)
    /\ arg' = [arg EXCEPT ![p] = NoArg]
    /\ Goto(p, "idle")
    /\ UNCHANGED <<hub, got, due, barred, calls, overlapped>>

(* The last typeCache.clear of unsubscribe. *)
UnsubscribeForget(p) ==
    /\ at[p] = "forget"
    /\ typeCache' = [t \in Types |-> None]
    /\ Left(arg[p].consumer)
    /\ arg' = [arg EXCEPT ![p] = NoArg]
    /\ Goto(p, "idle")
    /\ UNCHANGED <<events, lists, got, due, barred, calls, overlapped>>

-----------------------------------------------------------------------------
(* clear, when the last activity goes and no service is active: the map,   *)
(* then the cache.                                                         *)

ClearEvents(p) ==
    /\ Begin(p, "clear") /\ \A t \in Types : EntryFree(t)
    /\ events' = [t \in Types |-> None]
    /\ status' = [c \in Consumers |-> IF status[c] = "in" THEN "out" ELSE status[c]]
    /\ due' = [q \in Threads |-> {}]
    /\ Goto(p, "clearCache")
    /\ UNCHANGED <<lists, typeCache, arg, got, barred>>

ClearTypeCache(p) ==
    /\ at[p] = "clearCache"
    /\ typeCache' = [t \in Types |-> None]
    /\ Goto(p, "idle")
    /\ UNCHANGED <<events, lists, arg, history, calls, overlapped>>

-----------------------------------------------------------------------------
(* publish(event, true). *)

(* The classes of the map an event of class t is an instance of. *)
Classes(t) == {u \in Supers[t] : events[u] # None}

(* typeCache.computeIfAbsent: the classes are looked up once and kept. *)
PublishLookup(p, t) ==
    LET found == IF typeCache[t] = None THEN Classes(t) ELSE typeCache[t]
    IN  /\ Begin(p, "publish")
        /\ typeCache' = [typeCache EXCEPT ![t] = found]
        /\ arg' = [arg EXCEPT ![p] = [NoArg EXCEPT !.type = t, !.classes = found]]
        /\ got' = [got EXCEPT ![p] = {}]
        /\ due' = [due EXCEPT ![p] = {c \in Consumers : status[c] = "in" /\ TypeOf[c] \in Supers[t]}]
        /\ barred' = [barred EXCEPT ![p] = {c \in Consumers : status[c] = "out"}]
        /\ Goto(p, "deliver")
        /\ UNCHANGED <<events, lists, status>>

(* One class: the consumers in its list, if the class is still in the map. *)
PublishDeliver(p) ==
    /\ at[p] = "deliver" /\ arg[p].classes # {}
    /\ \E u \in arg[p].classes :
          /\ arg' = [arg EXCEPT ![p].classes = @ \ {u}]
          /\ got' = [got EXCEPT ![p] = IF events[u] = None THEN @ ELSE @ \cup lists[events[u]]]
    /\ UNCHANGED <<hub, at, status, due, barred, calls, overlapped>>

(* publish returns; what was delivered stays on record until the next call. *)
PublishReturn(p) ==
    /\ at[p] = "deliver" /\ arg[p].classes = {}
    /\ arg' = [arg EXCEPT ![p] = NoArg]
    /\ Goto(p, "idle")
    /\ UNCHANGED <<hub, history, calls, overlapped>>

Next ==
    \E p \in Threads :
        \/ \E c \in Consumers : SubscribeLookup(p, c) \/ UnsubscribeRemove(p, c)
        \/ SubscribeInsert(p) \/ SubscribeAdd(p)
        \/ UnsubscribeIsEmpty(p) \/ UnsubscribeDrop(p) \/ UnsubscribeForget(p)
        \/ ClearEvents(p) \/ ClearTypeCache(p)
        \/ \E t \in Types : PublishLookup(p, t)
        \/ PublishDeliver(p) \/ PublishReturn(p)

Spec == Init /\ [][Next]_vars

-----------------------------------------------------------------------------
(* The maps of the hub have their types; what publish caches for a class   *)
(* are superclasses of it.                                                 *)
TypeOK ==
    /\ events \in [Types -> Lists \cup {None}] /\ lists \in [Lists -> SUBSET Consumers]
    /\ \A t \in Types : typeCache[t] = None \/ typeCache[t] \subseteq Supers[t]
    /\ status \in [Consumers -> {"out", "joining", "in", "leaving"}]

(* A publish that returns has reached every consumer that was subscribed   *)
(* to the class of the event, or to a superclass, from before the publish  *)
(* until its end.                                                          *)
SubscribersReached ==
    \A p \in Threads : at[p] = "deliver" /\ arg[p].classes = {} => due[p] \subseteq got[p]

(* A cached entry names, between calls, exactly the classes of the map the *)
(* event is an instance of.                                                *)
CacheIsFresh ==
    (\A p \in Threads : at[p] = "idle") =>
        \A t \in Types : typeCache[t] # None => typeCache[t] = Classes(t)

(* As long as no two calls were ever in progress together, the cache of    *)
(* classes is never stale and the superclass lookup leaves out no one.     *)
(* (And the maps have their types.)                                        *)
ReachedIfSerial == TypeOK /\ (~overlapped => SubscribersReached /\ CacheIsFresh)

(* A consumer that was out of the hub all along, because its unsubscribe   *)
(* had returned before the publish began, receives nothing.                *)
NoLateDelivery == \A p \in Threads : got[p] \cap barred[p] = {}
=============================================================================
