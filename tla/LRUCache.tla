------------------------------ MODULE LRUCache ------------------------------
(***************************************************************************)
(* LRUCacheServer: a bounded OrderedDict served by one thread per          *)
(* connection, and the append-only file its writes are logged to.  A       *)
(* thread changes the dictionary under store_lock and appends to the file  *)
(* under aof_lock, one entry at a time, after it has given store_lock      *)
(* back: the entries of two threads may reach the file in another order    *)
(* than their changes reached the dictionary.                              *)
(*                                                                         *)
(* The file is represented by what its last entry about each key says.     *)
(* Nothing reads it back: it is written with "\r\n" and opened for the     *)
(* recovery in text mode, which turns that into "\n", and parse_resp takes *)
(* the first entry of such a text for an incomplete one.                   *)
(***************************************************************************)
EXTENDS Naturals, SequencesExt

CONSTANTS
    Clients,        \* connections, each with its thread
    Keys, Values,
    NoKey, NoValue,
    MaxCapacity     \* max_capacity

ASSUME MaxCapacityAssumption == MaxCapacity \in Nat \ {0}
ASSUME AbsenceAssumption     == NoKey \notin Keys /\ NoValue \notin Values

VARIABLES
    running,        \* the process runs and its recovery is done
    data_store,     \* the OrderedDict in memory
    logged,         \* the value the file's last entry about each key gives it
    due,            \* the entries each client's SET has still to append
    used,           \* history: keys written or read and not deleted since the start
    since,          \* history: keys used after the last use of each key
    unsure          \* history: keys on which the file and memory may disagree

cacheVars == <<running, data_store, logged, due, used, since, unsure>>

-----------------------------------------------------------------------------
(* OrderedDict: its keys from the oldest to the newest, and their values.  *)

Dict == [order : Seq(Keys), value : [Keys -> Values \cup {NoValue}]]

NoValues  == [k \in Keys |-> NoValue]
EmptyDict == [order |-> <<>>, value |-> NoValues]

Holds(d, k)   == d.value[k] # NoValue
Without(s, k) == RemoveFirst(s, k)

\* move_to_end
MovedToEnd(d, k) == [d EXCEPT !.order = Append(Without(@, k), k)]

\* del data_store[k]
Dropped(d, k) == [order |-> Without(d.order, k),
                  value |-> [d.value EXCEPT ![k] = NoValue]]

\* Mutant: one key more than the capacity.
FullLate(d) == Len(d.order) > MaxCapacity

Full(d) == Len(d.order) >= MaxCapacity

\* Mutant: popitem() as it is by default.
VictimNewest(d, k) == IF ~Holds(d, k) /\ Full(d) THEN d.order[Len(d.order)] ELSE NoKey

\* popitem(last=False) when a new key finds the dictionary full: its oldest key.
Victim(d, k) == IF ~Holds(d, k) /\ Full(d) THEN Head(d.order) ELSE NoKey

\* The change of execute_lru_set.
Put(d, k, v) ==
    LET room == IF Victim(d, k) = NoKey THEN d ELSE Dropped(d, Victim(d, k))
    IN  MovedToEnd([room EXCEPT !.value[k] = v], k)

-----------------------------------------------------------------------------
Nothing == [entry |-> "none", key |-> NoKey, value |-> NoValue, evicted |-> NoKey]

\* The keys whose entries client c has still to append.
DueFrom(c) == {due[c].key, due[c].evicted} \ {NoKey}
Due        == UNION {DueFrom(c) : c \in Clients}

CacheInit ==
    /\ running = TRUE
    /\ data_store = EmptyDict
    /\ logged = NoValues
    /\ due = [c \in Clients |-> Nothing]
    /\ used = {}
    /\ since = [k \in Keys |-> {}]
    /\ unsure = {}

Free(c) == running /\ due[c].entry = "none"

\* History: keys are changed in memory.  An entry that is due about one of them
\* may reach the file after theirs.
Change(keys) == unsure' = (unsure \ keys) \cup (keys \cap Due)

\* History: k is used.
Use(k) ==
    /\ used' = used \cup {k}
    /\ since' = [x \in Keys |-> IF x = k THEN {} ELSE since[x] \cup {k}]

\* Mutant: the eviction is not logged.
FirstEntryAlwaysSet(evicted) == "SET"

\* The entry execute_lru_set appends first.
FirstEntry(evicted) == IF evicted = NoKey THEN "SET" ELSE "DEL"

\* execute_lru_set up to the release of store_lock.
ExecuteLruSet(c, k, v) ==
    LET evicted == Victim(data_store, k) IN
    /\ Free(c)
    /\ data_store' = Put(data_store, k, v)
    /\ due' = [due EXCEPT ![c] = [entry |-> FirstEntry(evicted), key |-> k,
                                  value |-> v, evicted |-> evicted]]
    /\ Use(k)
    /\ Change({k, evicted} \ {NoKey})
    /\ UNCHANGED <<running, logged>>

\* append_to_log(["DEL", evicted_key])
LogEviction(c) ==
    /\ due[c].entry = "DEL"
    /\ logged' = [logged EXCEPT ![due[c].evicted] = NoValue]
    /\ due' = [due EXCEPT ![c].entry = "SET", ![c].evicted = NoKey]
    /\ UNCHANGED <<running, data_store, used, since, unsure>>

\* append_to_log(["SET", key, value]) and the reply.
LogSet(c) ==
    /\ due[c].entry = "SET"
    /\ logged' = [logged EXCEPT ![due[c].key] = due[c].value]
    /\ due' = [due EXCEPT ![c] = Nothing]
    /\ UNCHANGED <<running, data_store, used, since, unsure>>

\* append_to_log raises: handle_client gives the connection up.
LogFails(c) ==
    /\ due[c].entry # "none"
    /\ due' = [due EXCEPT ![c] = Nothing]
    /\ unsure' = unsure \cup DueFrom(c)
    /\ UNCHANGED <<running, data_store, logged, used, since>>

\* execute_lru_get of a key that is there; of another one it changes nothing.
ExecuteLruGet(c, k) ==
    /\ Free(c)
    /\ Holds(data_store, k)
    /\ data_store' = MovedToEnd(data_store, k)
    /\ Use(k)
    /\ UNCHANGED <<running, logged, due, unsure>>

\* A DEL request: store_lock is kept while the entry is appended, or fails to.
Delete(c, k) ==
    /\ Free(c)
    /\ Holds(data_store, k)
    /\ data_store' = Dropped(data_store, k)
    /\ used' = used \ {k}
    /\ \/ /\ logged' = [logged EXCEPT ![k] = NoValue]
          /\ Change({k})
       \/ /\ unsure' = unsure \cup {k}
          /\ UNCHANGED logged
    /\ UNCHANGED <<running, due, since>>

\* The process ends; its file stays.
Crash ==
    /\ running
    /\ running' = FALSE
    /\ data_store' = EmptyDict
    /\ due' = [c \in Clients |-> Nothing]
    /\ used' = {}
    /\ unsure' = unsure \cup Due \cup {k \in Keys : logged[k] # NoValue}
    /\ UNCHANGED <<logged, since>>

\* What replay_aof_recovery makes of the file: its loop breaks at the first entry.
Recovered == EmptyDict

\* The process starts again.
Start ==
    /\ ~running
    /\ running' = TRUE
    /\ data_store' = Recovered
    /\ UNCHANGED <<logged, due, used, since, unsure>>

CacheNext ==
    \/ \E c \in Clients, k \in Keys :
          \/ \E v \in Values : ExecuteLruSet(c, k, v)
          \/ ExecuteLruGet(c, k)
          \/ Delete(c, k)
    \/ \E c \in Clients : LogEviction(c) \/ LogSet(c) \/ LogFails(c)
    \/ Crash
    \/ Start

CacheSpec == CacheInit /\ [][CacheNext]_cacheVars

-----------------------------------------------------------------------------
KeysOf(d) == {k \in Keys : Holds(d, k)}

\* A dictionary names each key it holds once, and holds no more than
\* max_capacity keys.
WellFormedDict(d) ==
    /\ d \in Dict
    /\ {d.order[i] : i \in 1..Len(d.order)} = KeysOf(d)
    /\ Len(d.order) = Cardinality(KeysOf(d))
    /\ Len(d.order) <= MaxCapacity

\* The dictionary is well formed; a client that is not free has a key and a
\* value to log (data_store and the calls of execute_lru_set).
CacheTypeOK ==
    /\ running \in BOOLEAN
    /\ WellFormedDict(data_store)
    /\ logged \in [Keys -> Values \cup {NoValue}]
    /\ due \in [Clients -> {Nothing} \cup
                  [entry : {"SET", "DEL"}, key : Keys, value : Values,
                   evicted : Keys \cup {NoKey}]]
    /\ \A c \in Clients : due[c].entry = "DEL" <=> due[c].evicted # NoKey
    /\ used \subseteq Keys
    /\ since \in [Keys -> SUBSET Keys]
    /\ unsure \subseteq Keys

\* A key is evicted only when max_capacity other keys have been written or read
\* after its last use: a key in use stays, whatever the threads write, read, delete
\* and evict around it (lru_cache.py:71-82, 89-95).
RecentlyUsedKept ==
    \A k \in used : Cardinality(since[k]) < MaxCapacity => Holds(data_store, k)

\* Once a change and its entries are done the file says of the key what memory
\* does, in whichever order the threads append.  What this leaves out is a key
\* changed while an entry about it was due, one an entry failed for, and at a
\* restart one the file holds, as memory starts without it; each until it is
\* changed again (lru_cache.py:83-87, 144-148).
FileFollowsMemory ==
    \A k \in Keys \ (Due \cup unsure) : logged[k] = data_store.value[k]

\* A restart brings back what the file holds, when it has room for it: the server
\* says "Crash recovery done" (lru_cache.py:69).
RestartRecovers ==
    [][(/\ Start
        /\ Cardinality({k \in Keys : logged[k] # NoValue}) <= MaxCapacity)
          => data_store'.value = logged]_cacheVars
=============================================================================
