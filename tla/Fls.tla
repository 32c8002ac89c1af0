--------------------------------- MODULE Fls ---------------------------------
(***************************************************************************)
(* Fiber local storage over pthread keys, legacy/shared/fibersapi.c.  Each *)
(* spin-locked section is one step, and so is each use of a block outside  *)
(* the lock.  pthread keys are external and behave as POSIX says: a new    *)
(* key is NULL in every thread, and a thread that exits has the destructor *)
(* called for each value it still has.                                     *)
(*                                                                         *)
(* FlsFree is called when no other thread is using the index, as on        *)
(* Windows; other threads may have values under it.                        *)
(*                                                                         *)
(* owed is a history variable: the data a callback still has to see.       *)
(***************************************************************************)
EXTENDS Naturals, Sequences, SequencesExt

CONSTANTS Thread,
          KeyBlock, ValueBlock,  \* the addresses HeapAlloc can return
          Index,                 \* the pthread keys
          Data,                  \* what callers store
          NULL

ASSUME ConstantsAssumption ==
    NULL \notin Thread \cup KeyBlock \cup ValueBlock \cup Index \cup Data

VARIABLES
    fls_keys,  \* the linked keys
    index,     \* key->key of the keys allocated
    callback,  \* key->callback is not NULL
    values,    \* key->values, a list
    owner,     \* value->owner of the values allocated
    value,     \* value->value
    live,      \* the pthread keys created and not deleted
    tls,       \* the value of each pthread key in each thread
    pc, key, block, data,  \* each thread's place and locals
    owed

heap == <<index, callback, owner, value>>
locals == <<key, block, data>>
vars == <<fls_keys, heap, values, live, tls, pc, locals, owed>>

PC == {"idle", "s_get", "s_link", "s_set", "s_unlink", "f_delete", "f_walk", "f_free",
       "x_run", "x_destroy", "x_free", "exited"}

TypeOK ==
    /\ fls_keys \subseteq KeyBlock
    /\ index \in [KeyBlock -> Index \cup {NULL}]
    /\ callback \in [KeyBlock -> BOOLEAN]
    /\ values \in [KeyBlock -> Seq(ValueBlock)]
    /\ owner \in [ValueBlock -> KeyBlock \cup {NULL}]
    /\ value \in [ValueBlock -> Data \cup {NULL}]
    /\ live \subseteq Index
    /\ tls \in [Thread -> [Index -> ValueBlock \cup {NULL}]]
    /\ pc \in [Thread -> PC]
    /\ key \in [Thread -> KeyBlock \cup {NULL}]
    /\ block \in [Thread -> ValueBlock \cup {NULL}]
    /\ data \in [Thread -> Data \cup {NULL}]
    /\ owed \subseteq Data

Init ==
    /\ fls_keys = {} /\ live = {} /\ owed = {}
    /\ index = [k \in KeyBlock |-> NULL]
    /\ callback = [k \in KeyBlock |-> FALSE]
    /\ values = [k \in KeyBlock |-> <<>>]
    /\ owner = [v \in ValueBlock |-> NULL]
    /\ value = [v \in ValueBlock |-> NULL]
    /\ tls = [t \in Thread |-> [i \in Index |-> NULL]]
    /\ pc = [t \in Thread |-> "idle"]
    /\ key = [t \in Thread |-> NULL]
    /\ block = [t \in Thread |-> NULL]
    /\ data = [t \in Thread |-> NULL]

\* The blocks that HeapAlloc has returned and HeapFree not yet taken back.
Keys == {k \in KeyBlock : index[k] # NULL}
Values == {v \in ValueBlock : owner[v] # NULL}

Goto(t, to) == pc' = [pc EXCEPT ![t] = to]
Return(t) ==
    /\ Goto(t, "idle")
    /\ key' = [key EXCEPT ![t] = NULL]
    /\ block' = [block EXCEPT ![t] = NULL]
    /\ data' = [data EXCEPT ![t] = NULL]

\* HeapFree of a value, and of a key; a second one is undefined.
FreeValue(v) ==
    /\ owner' = [owner EXCEPT ![v] = NULL]
    /\ value' = [value EXCEPT ![v] = NULL]
    /\ UNCHANGED <<index, callback>>
FreeKey(k) ==
    /\ index' = [index EXCEPT ![k] = NULL]
    /\ callback' = [callback EXCEPT ![k] = FALSE]
    /\ values' = [values EXCEPT ![k] = <<>>]
    /\ UNCHANGED <<owner, value>>

\* A thread other than t uses the key, or is about to because it exits.
InUse(t, k) ==
    \E u \in Thread \ {t} :
        \/ key[u] = k
        \/ block[u] # NULL /\ owner[block[u]] = k
        \/ pc[u] = "x_run" /\ tls[u][index[k]] # NULL

fls_find_key(i) == {k \in fls_keys : index[k] = i}

\* The walk over the owner's list takes out the first entry that is the value, if
\* there is one.
fls_unlink_value(v) ==
    LET list == values[owner[v]] IN
    \/ \E n \in DOMAIN list :
          /\ list[n] = v /\ \A j \in 1..(n - 1) : list[j] # v
          /\ values' = [values EXCEPT ![owner[v]] = RemoveAt(@, n)]
    \/ v \notin Range(list) /\ UNCHANGED values

\* The blocks thread t reads, writes or frees in its next step.
KeyAt(t) ==
    CASE pc[t] \in {"s_get", "s_link", "s_set", "f_delete", "f_walk", "f_free"} -> {key[t]}
      [] pc[t] \in {"s_unlink", "x_destroy"} -> {owner[block[t]]}
      [] OTHER -> {}
ValueAt(t) ==
    CASE pc[t] = "s_get" -> {tls[t][index[key[t]]]} \ {NULL}
      [] pc[t] = "f_walk" -> Range(values[key[t]])
      [] pc[t] \in {"s_link", "s_set", "s_unlink", "f_free", "x_destroy", "x_free"} -> {block[t]}
      [] OTHER -> {}
Stale(t) == ~(KeyAt(t) \subseteq Keys) \/ ~(ValueAt(t) \subseteq Values)

-----------------------------------------------------------------------------
(* FlsAlloc *)

\* A failed HeapAlloc or pthread_key_create changes nothing; what the call
\* does before it links the key, no other thread can see.
FlsAlloc(t, k, i, hasCallback) ==
    /\ pc[t] = "idle"
    /\ k \notin Keys /\ i \notin live
    /\ index' = [index EXCEPT ![k] = i]
    /\ callback' = [callback EXCEPT ![k] = hasCallback]
    /\ live' = live \cup {i}
    /\ tls' = [u \in Thread |-> [tls[u] EXCEPT ![i] = NULL]]
    /\ fls_keys' = fls_keys \cup {k}
    /\ UNCHANGED <<values, owner, value, pc, locals, owed>>

-----------------------------------------------------------------------------
(* FlsSetValue *)

\* Each call stores a datum of its own, which tells the callbacks apart.
Stored == ({value[v] : v \in Values} \cup {data[t] : t \in Thread}) \ {NULL}

\* The search under the lock; an index that is not found is an error.
FlsSetValue(t, i, d) ==
    /\ pc[t] = "idle"
    /\ d \notin Stored
    /\ \E k \in fls_find_key(i) : key' = [key EXCEPT ![t] = k]
    /\ data' = [data EXCEPT ![t] = d]
    /\ Goto(t, "s_get")
    /\ UNCHANGED <<fls_keys, heap, values, live, tls, block, owed>>

\* A fault: the thread keeps the pointer to the block it frees.
Reset_KeepsPointer(t) ==
    LET v == tls[t][index[key[t]]]
    IN  /\ pc[t] = "s_get"
        /\ data[t] = NULL
        /\ \/ Return(t)
           \/ /\ v # NULL
              /\ block' = [block EXCEPT ![t] = v]
              /\ Goto(t, "s_unlink")
              /\ UNCHANGED <<key, data>>
        /\ UNCHANGED <<fls_keys, heap, values, live, tls, owed>>

\* A NULL value: pthread_setspecific first, then the block is unlinked and freed.
Reset(t) ==
    LET i == index[key[t]]
        v == tls[t][i]
    IN  /\ pc[t] = "s_get"
        /\ data[t] = NULL
        /\ \/ Return(t) /\ UNCHANGED tls
           \/ /\ v # NULL
              /\ tls' = [tls EXCEPT ![t][i] = NULL]
              /\ block' = [block EXCEPT ![t] = v]
              /\ Goto(t, "s_unlink")
              /\ UNCHANGED <<key, data>>
        /\ UNCHANGED <<fls_keys, heap, values, live, owed>>

\* A first value: a new block.  A failed HeapAlloc is an error.
Allocate(t) ==
    /\ pc[t] = "s_get"
    /\ data[t] # NULL /\ tls[t][index[key[t]]] = NULL
    /\ \/ Return(t) /\ UNCHANGED <<heap, owed>>
       \/ \E v \in ValueBlock \ Values :
             /\ owner' = [owner EXCEPT ![v] = key[t]]
             /\ value' = [value EXCEPT ![v] = data[t]]
             /\ block' = [block EXCEPT ![t] = v]
             /\ owed' = IF callback[key[t]] THEN owed \cup {data[t]} ELSE owed
             /\ Goto(t, "s_link")
             /\ UNCHANGED <<index, callback, key, data>>
    /\ UNCHANGED <<fls_keys, values, live, tls>>

\* A fault: the block is stored in itself.
Overwrite_Block(t) ==
    LET v == tls[t][index[key[t]]]
    IN  /\ pc[t] = "s_get"
        /\ data[t] # NULL /\ v # NULL
        /\ value' = [value EXCEPT ![v] = v]
        /\ block' = [block EXCEPT ![t] = v]
        /\ Goto(t, "s_set")
        /\ UNCHANGED <<fls_keys, index, callback, owner, values, live, tls, key, data, owed>>

\* A later value replaces the first, which no callback will see.
Overwrite(t) ==
    LET v == tls[t][index[key[t]]]
    IN  /\ pc[t] = "s_get"
        /\ data[t] # NULL /\ v # NULL
        /\ value' = [value EXCEPT ![v] = data[t]]
        /\ block' = [block EXCEPT ![t] = v]
        /\ owed' = IF callback[key[t]] THEN (owed \ {value[v]}) \cup {data[t]} ELSE owed
        /\ Goto(t, "s_set")
        /\ UNCHANGED <<fls_keys, index, callback, owner, values, live, tls, key, data>>

Link(t) ==
    /\ pc[t] = "s_link"
    /\ values' = [values EXCEPT ![key[t]] = <<block[t]>> \o @]
    /\ Goto(t, "s_set")
    /\ UNCHANGED <<fls_keys, heap, live, tls, locals, owed>>

\* A fault: no rollback.
SetSpecific_NoRollback(t) ==
    /\ pc[t] = "s_set"
    /\ Return(t)
    /\ tls' \in {tls, [tls EXCEPT ![t][index[key[t]]] = block[t]]}
    /\ UNCHANGED <<fls_keys, heap, values, live, owed>>

\* pthread_setspecific; when it fails a new block is taken out again.
SetSpecific(t) ==
    LET i == index[key[t]]
    IN  /\ pc[t] = "s_set"
        /\ \/ Return(t) /\ tls' = [tls EXCEPT ![t][i] = block[t]]
           \/ tls[t][i] = NULL /\ Goto(t, "s_unlink") /\ UNCHANGED <<tls, locals>>
           \/ tls[t][i] # NULL /\ Return(t) /\ UNCHANGED tls
        /\ UNCHANGED <<fls_keys, heap, values, live, owed>>

\* The block leaves the list and is freed; its data is no longer anybody's.
Unlink(t) ==
    /\ pc[t] = "s_unlink"
    /\ fls_unlink_value(block[t])
    /\ FreeValue(block[t])
    /\ owed' = owed \ {value[block[t]]}
    /\ Return(t)
    /\ UNCHANGED <<fls_keys, live, tls>>

-----------------------------------------------------------------------------
(* FlsFree *)

\* A fault: the key can still be found.
FlsFree_StaysLinked(t, i) ==
    /\ pc[t] = "idle"
    /\ \E k \in fls_find_key(i) :
          /\ ~InUse(t, k)
          /\ key' = [key EXCEPT ![t] = k]
    /\ Goto(t, "f_delete")
    /\ UNCHANGED <<fls_keys, heap, values, live, tls, block, data, owed>>

\* The key leaves the list under the lock; an index that is not found is an error.
FlsFree(t, i) ==
    /\ pc[t] = "idle"
    /\ \E k \in fls_find_key(i) :
          /\ ~InUse(t, k)
          /\ fls_keys' = fls_keys \ {k}
          /\ key' = [key EXCEPT ![t] = k]
    /\ Goto(t, "f_delete")
    /\ UNCHANGED <<heap, values, live, tls, block, data, owed>>

\* pthread_key_delete; when it fails the key is linked again.
KeyDelete(t) ==
    /\ pc[t] = "f_delete"
    /\ \/ /\ live' = live \ {index[key[t]]}
          /\ block' = [block EXCEPT ![t] = NULL]
          /\ Goto(t, "f_walk")
          /\ UNCHANGED <<fls_keys, key, data>>
       \/ /\ fls_keys' = fls_keys \cup {key[t]}
          /\ Return(t)
          /\ UNCHANGED live
    /\ UNCHANGED <<heap, values, tls, owed>>

\* A fault: the walk only frees.
Callback_Forgotten(t) ==
    /\ pc[t] = "f_walk"
    /\ values[key[t]] # <<>>
    /\ values' = [values EXCEPT ![key[t]] = Tail(@)]
    /\ block' = [block EXCEPT ![t] = Head(values[key[t]])]
    /\ Goto(t, "f_free")
    /\ UNCHANGED <<fls_keys, heap, live, tls, key, data, owed>>

\* The next value of the walk, which keeps no lock: its callback is called.
Callback(t) ==
    LET k == key[t]
        v == Head(values[k])
    IN  /\ pc[t] = "f_walk"
        /\ values[k] # <<>>
        /\ values' = [values EXCEPT ![k] = Tail(@)]
        /\ block' = [block EXCEPT ![t] = v]
        /\ owed' = IF callback[k] THEN owed \ {value[v]} ELSE owed
        /\ Goto(t, "f_free")
        /\ UNCHANGED <<fls_keys, heap, live, tls, key, data>>

Free(t) ==
    /\ pc[t] = "f_free"
    /\ FreeValue(block[t])
    /\ block' = [block EXCEPT ![t] = NULL]
    /\ Goto(t, "f_walk")
    /\ UNCHANGED <<fls_keys, values, live, tls, key, data, owed>>

FreeDone(t) ==
    /\ pc[t] = "f_walk"
    /\ values[key[t]] = <<>>
    /\ FreeKey(key[t])
    /\ Return(t)
    /\ UNCHANGED <<fls_keys, live, tls, owed>>

-----------------------------------------------------------------------------
(* A thread exits: the library takes each of its values out and hands it   *)
(* to fls_destroy_value.                                                   *)

ThreadExit(t) ==
    /\ pc[t] = "idle"
    /\ Goto(t, "x_run")
    /\ UNCHANGED <<fls_keys, heap, values, live, tls, locals, owed>>

BeingFreed(i) == \E u \in Thread : pc[u] = "f_delete" /\ index[key[u]] = i

TakeValue(t, i) ==
    /\ pc[t] = "x_run"
    /\ i \in live /\ ~BeingFreed(i) /\ tls[t][i] # NULL
    /\ tls' = [tls EXCEPT ![t][i] = NULL]
    /\ block' = [block EXCEPT ![t] = tls[t][i]]
    /\ Goto(t, "x_destroy")
    /\ UNCHANGED <<fls_keys, heap, values, live, key, data, owed>>

\* The block is unlinked, its callback and data copied, under the lock.
fls_destroy_value(t) ==
    /\ pc[t] = "x_destroy"
    /\ fls_unlink_value(block[t])
    /\ key' = [key EXCEPT ![t] = owner[block[t]]]
    /\ data' = [data EXCEPT ![t] = value[block[t]]]
    /\ Goto(t, "x_free")
    /\ UNCHANGED <<fls_keys, heap, live, tls, block, owed>>

FreeAndCall(t) ==
    /\ pc[t] = "x_free"
    /\ FreeValue(block[t])
    /\ owed' = IF callback[key[t]] THEN owed \ {data[t]} ELSE owed
    /\ Goto(t, "x_run")
    /\ key' = [key EXCEPT ![t] = NULL]
    /\ block' = [block EXCEPT ![t] = NULL]
    /\ data' = [data EXCEPT ![t] = NULL]
    /\ UNCHANGED <<fls_keys, values, live, tls>>

Exited(t) ==
    /\ pc[t] = "x_run"
    /\ \A i \in live : tls[t][i] = NULL
    /\ Goto(t, "exited")
    /\ tls' = [tls EXCEPT ![t] = [i \in Index |-> NULL]]
    /\ UNCHANGED <<fls_keys, heap, values, live, locals, owed>>

\* A new thread, which has no values.
CreateThread(t) ==
    /\ pc[t] = "exited"
    /\ Goto(t, "idle")
    /\ UNCHANGED <<fls_keys, heap, values, live, tls, locals, owed>>

-----------------------------------------------------------------------------
SetValueStep(t) ==
    \/ \E i \in Index, d \in Data \cup {NULL} : FlsSetValue(t, i, d)
    \/ Reset(t) \/ Allocate(t) \/ Overwrite(t) \/ Link(t) \/ SetSpecific(t) \/ Unlink(t)
FreeStep(t) ==
    (\E i \in Index : FlsFree(t, i)) \/ KeyDelete(t) \/ Callback(t) \/ Free(t) \/ FreeDone(t)
ExitStep(t) ==
    \/ ThreadExit(t) \/ fls_destroy_value(t) \/ FreeAndCall(t) \/ Exited(t) \/ CreateThread(t)
    \/ \E i \in Index : TakeValue(t, i)

Next ==
    \E t \in Thread :
        \/ \E k \in KeyBlock, i \in Index, c \in BOOLEAN : FlsAlloc(t, k, i, c)
        \/ SetValueStep(t) \/ FreeStep(t) \/ ExitStep(t)

Spec == Init /\ [][Next]_vars

-----------------------------------------------------------------------------
(* No thread is about to touch a block that has been freed, its own value  *)
(* or key (lines 161-212), the list FlsFree walks without the lock         *)
(* (258-266) or what the library hands to fls_destroy_value (101-107).     *)
NoUseAfterFree == \A t \in Thread : ~Stale(t)

(* A datum is owed to its callback exactly as long as an allocated block   *)
(* has it: no path frees the block of a value and forgets the callback,    *)
(* and the rollbacks call none (lines 108, 174-178, 207-213 and 257-266).  *)
CallbackOwed ==
    LET called == {block[t] : t \in {u \in Thread : pc[u] = "f_free"}}
    IN  owed = {value[v] : v \in {u \in Values \ called : callback[owner[u]]}}

(* No block leaks: each allocated value is in its owner's list once, or in *)
(* the hands of one thread, and each listed one is some thread's value or  *)
(* is being worked on (lines 82-90, 193-196 and 207-213).                  *)
ListedIsHeld ==
    \A v \in Values :
        LET k == owner[v]
            held == {t \in Thread : block[t] = v}
        IN  /\ k \in Keys
            /\ v \in Range(values[k]) \/ \E t \in held : pc[t] \in {"s_link", "f_free", "x_free"}
            /\ k \in fls_keys => held # {} \/ \E t \in Thread : tls[t][index[k]] = v

(* A key that FlsSetValue or FlsFree can find has a pthread key of its     *)
(* own that exists: FlsFree hides it before it deletes that and shows it   *)
(* again only if that failed (lines 231-255).                              *)
FoundKeysAreLive ==
    \A k \in fls_keys :
        index[k] \in live /\ \A l \in fls_keys \ {k} : index[l] # index[k]
============================================================================
