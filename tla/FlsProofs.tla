------------------------------ MODULE FlsProofs ------------------------------
(***************************************************************************)
(* Fls for any threads, heap blocks, pthread keys and data: no block is    *)
(* used after it has been freed, none leaks and no callback is forgotten.  *)
(***************************************************************************)
EXTENDS Fls, ListLemmas, TLAPS

\* The places inside FlsFree, those that work on a key, and those that work on a block.
FreePC == {"f_delete", "f_walk", "f_free"}
KeyPC == {"s_get", "s_link", "s_set", "s_unlink", "x_free"}
BlockPC == {"s_link", "s_set", "s_unlink", "f_free", "x_destroy", "x_free"}

\* A key whose pthread key exists: linked, or unlinked by an FlsFree that has not
\* deleted it yet.
Active(k) == k \in fls_keys \/ \E t \in Thread : pc[t] = "f_delete" /\ key[t] = k

\* What each thread holds at each point: the key it works on and the block it
\* works with, whose owner is that key.
LocalsHeld ==
    \A t \in Thread :
        /\ pc[t] \in KeyPC => key[t] \in fls_keys
        /\ pc[t] \in FreePC => key[t] \in Keys \ fls_keys
        /\ pc[t] \notin KeyPC \cup FreePC => key[t] = NULL
        /\ pc[t] \in BlockPC => block[t] \in Values
        /\ pc[t] \in BlockPC \ {"x_destroy"} => owner[block[t]] = key[t]
        /\ pc[t] = "x_destroy" => owner[block[t]] \in fls_keys
        /\ pc[t] \notin BlockPC => block[t] = NULL

\* A key that is being freed is nobody else's, and neither are its blocks.
FreedAlone ==
    \A t, u \in Thread : pc[t] \in FreePC /\ u # t =>
        key[u] # key[t] /\ (block[u] # NULL => owner[block[u]] # key[t])

\* Active keys have pthread keys that exist, each its own, and there are no others.
ActiveKeys ==
    /\ \A k \in KeyBlock : Active(k) => k \in Keys /\ index[k] \in live
    /\ \A k, l \in KeyBlock : Active(k) /\ Active(l) /\ index[k] = index[l] => k = l
    /\ \A i \in live : \E k \in KeyBlock : Active(k) /\ index[k] = i

\* The list of a key: its own values, each once.
ListsOwned ==
    \A k \in KeyBlock :
        /\ Distinct(values[k])
        /\ \A v \in Range(values[k]) : v \in Values /\ owner[v] = k
        /\ k \notin Keys => values[k] = <<>>
\* The value is in its owner's list.
Listed(v) == v \in Range(values[owner[v]])
\* A thread has it and has not linked it yet, or has unlinked it to free it.
InHand(v) == \E t \in Thread : block[t] = v /\ pc[t] \in {"s_link", "f_free", "x_free"}

\* Every value belongs to a key that exists, and is listed there or in hand.
ValuesOwned == \A v \in Values : owner[v] \in Keys /\ (Listed(v) \/ InHand(v))
\* The block a thread works with is listed, or not, as its place says, and is its alone.
BlocksListed ==
    \A t \in Thread :
        /\ pc[t] \in {"s_set", "s_unlink", "x_destroy"} => Listed(block[t])
        /\ pc[t] \in {"s_link", "f_free", "x_free"} => ~Listed(block[t])
OneHolder == \A t, u \in Thread : block[t] # NULL /\ block[u] = block[t] => u = t

\* What a thread has under the pthread key of an active key is a listed value of
\* that key, no other thread's, and in a thread's hands only while it is stored.
TlsListed ==
    \A k \in KeyBlock, t \in Thread :
        Active(k) /\ tls[t][index[k]] # NULL => tls[t][index[k]] \in Range(values[k])
TlsOwn ==
    \A k \in KeyBlock, t, u \in Thread :
        Active(k) /\ tls[t][index[k]] # NULL /\ tls[u][index[k]] = tls[t][index[k]] => u = t
TlsAlone ==
    \A k \in KeyBlock, t, u \in Thread :
        Active(k) /\ tls[t][index[k]] # NULL /\ block[u] = tls[t][index[k]] => u = t /\ pc[t] = "s_set"
\* FlsSetValue links and rolls back only where the thread had no value.
StoreCases ==
    \A t \in Thread :
        /\ pc[t] \in {"s_link", "s_unlink"} => tls[t][index[key[t]]] = NULL
        /\ pc[t] = "s_set" => tls[t][index[key[t]]] \in {NULL, block[t]}
\* A value of an active key is not lost: a thread holds it or can find it.
ValuesReachable ==
    \A v \in Values : Active(owner[v]) =>
        \E t \in Thread : block[t] = v \/ tls[t][index[owner[v]]] = v

\* Each datum is in one block only, and a datum about to be stored in none.
DataApart == \A v \in Values : value[v] # NULL /\ \A w \in Values : value[w] = value[v] => w = v
DataFresh ==
    \A t \in Thread : pc[t] = "s_get" /\ data[t] # NULL =>
        /\ \A v \in Values : value[v] # data[t]
        /\ \A u \in Thread : pc[u] = "s_get" /\ data[u] = data[t] => u = t
\* fls_destroy_value has copied the datum of the block it frees.
DataCopied == \A t \in Thread : pc[t] = "x_free" => data[t] = value[block[t]]

\* FlsFree has called the callback of the value and is about to free it.
Called(v) == \E t \in Thread : pc[t] = "f_free" /\ block[t] = v
\* What is owed are the data of the values whose callback is still to be called.
OwedExactly == \A v \in Values : value[v] \in owed <=> callback[owner[v]] /\ ~Called(v)
OwedHeld == \A d \in owed : \E v \in Values : value[v] = d

\* The inductive invariant.
IInv ==
    /\ TypeOK
    /\ LocalsHeld /\ FreedAlone
    /\ ActiveKeys
    /\ ListsOwned /\ ValuesOwned /\ BlocksListed /\ OneHolder
    /\ TlsListed /\ TlsOwn /\ TlsAlone /\ StoreCases
    /\ ValuesReachable
    /\ DataApart /\ DataFresh /\ DataCopied
    /\ OwedExactly /\ OwedHeld

-----------------------------------------------------------------------------
\* fls_unlink_value takes a listed value out of its owner's list, and no other.
LEMMA Unlinked ==
  ASSUME TypeOK, ListsOwned, NEW v \in Values, owner[v] \in Keys,
         v \in Range(values[owner[v]]), fls_unlink_value(v)
  PROVE  /\ values' \in [KeyBlock -> Seq(ValueBlock)]
         /\ \A x \in KeyBlock \ {owner[v]} : values'[x] = values[x]
         /\ Distinct(values'[owner[v]])
         /\ Range(values'[owner[v]]) = Range(values[owner[v]]) \ {v}
  <1> DEFINE s == values[owner[v]]
  <1>1. owner[v] \in KeyBlock /\ s \in Seq(ValueBlock) /\ Distinct(s)
    BY DEF TypeOK, ListsOwned, Keys
  <1>2. PICK n \in DOMAIN s : s[n] = v /\ values' = [values EXCEPT ![owner[v]] = RemoveAt(@, n)]
    BY DEF fls_unlink_value
  <1>3. /\ RemoveAt(s, n) \in Seq(ValueBlock) /\ Distinct(RemoveAt(s, n))
        /\ Elements(RemoveAt(s, n)) = Elements(s) \ {v}
    BY <1>1, <1>2, RemoveElement
  <1>4. values'[owner[v]] = RemoveAt(s, n) /\ \A x \in KeyBlock \ {owner[v]} : values'[x] = values[x]
    BY <1>1, <1>2 DEF TypeOK
  <1>5. Range(s) = Elements(s) /\ Range(RemoveAt(s, n)) = Elements(RemoveAt(s, n))
    BY DEF Range, Elements
  <1> HIDE DEF s
  <1>6. values' \in [KeyBlock -> Seq(ValueBlock)]
    BY <1>1, <1>2, <1>3 DEF TypeOK, s
  <1> QED BY <1>3, <1>4, <1>5, <1>6 DEF s

\* The invariant is inductive, action by action.
LEMMA InvariantIInv == Spec => []IInv
<1>1. Init => IInv
  <2> SUFFICES ASSUME Init PROVE IInv
    OBVIOUS
  <2> USE ConstantsAssumption
  <2>1. TypeOK
    BY DEF Init, TypeOK, PC
  <2>2. Keys = {} /\ Values = {}
    BY DEF Init, Keys, Values
  <2>3. \A k \in KeyBlock : ~Active(k)
    BY DEF Init, Active
  <2>4. Range(<<>>) = {} /\ Distinct(<<>>)
    BY DEF Range, Distinct
  <2>5. LocalsHeld /\ FreedAlone /\ BlocksListed /\ OneHolder /\ StoreCases
    BY DEF Init, LocalsHeld, FreedAlone, BlocksListed, OneHolder, StoreCases, KeyPC, FreePC,
       BlockPC
  <2>6. ListsOwned
    BY <2>4 DEF Init, ListsOwned
  <2>7. ActiveKeys /\ ValuesOwned /\ TlsListed /\ TlsOwn /\ TlsAlone /\ ValuesReachable
    BY <2>2, <2>3 DEF Init, ActiveKeys, ValuesOwned, TlsListed, TlsOwn, TlsAlone,
       ValuesReachable
  <2>8. DataApart /\ DataFresh /\ DataCopied /\ OwedExactly /\ OwedHeld
    BY <2>2 DEF Init, DataApart, DataFresh, DataCopied, OwedExactly, OwedHeld
  <2> QED BY <2>1, <2>5, <2>6, <2>7, <2>8 DEF IInv
<1>2. IInv /\ [Next]_vars => IInv'
  <2> SUFFICES ASSUME IInv, [Next]_vars PROVE IInv'
    OBVIOUS
  <2> USE ConstantsAssumption DEF IInv
  <2>0. /\ \A u \in Thread : block[u] # NULL =>
              block[u] \in Values /\ owner[block[u]] \in KeyBlock /\ pc[u] \in BlockPC
        /\ \A x \in KeyBlock : Active(x) => index[x] \in Index
        /\ \A x \in KeyBlock, u \in Thread : Active(x) /\ tls[u][index[x]] # NULL =>
              tls[u][index[x]] \in Values /\ owner[tls[u][index[x]]] = x
    BY DEF LocalsHeld, BlockPC, Values, ActiveKeys, Keys, TlsListed, ListsOwned, TypeOK
  <2>1. ASSUME NEW t \in Thread, NEW k \in KeyBlock, NEW i \in Index, NEW c \in BOOLEAN, FlsAlloc(t, k, i, c)
        PROVE  IInv'
    <3>0. k \notin Keys /\ i \notin live /\ k # NULL /\ i # NULL
      BY <2>1 DEF FlsAlloc
    <3>1. /\ ~Active(k) /\ values[k] = <<>>
          /\ \A x \in KeyBlock : Active(x) => index[x] # i /\ x # k
          /\ \A v \in Values : owner[v] # k
      BY <3>0 DEF ActiveKeys, ListsOwned, ValuesOwned
    <3>2. \A u \in Thread : key[u] # k
      BY <3>0, <3>1 DEF LocalsHeld, Active
    <3>10. /\ \A x \in KeyBlock : Active(x)' <=> Active(x) \/ x = k
           /\ \A x \in ValueBlock : InHand(x)' <=> InHand(x)
           /\ \A x \in Values : Listed(x)' <=> Listed(x)
           /\ \A x \in ValueBlock : Called(x)' <=> Called(x)
      BY <2>1, <3>2 DEF FlsAlloc, locals, Goto, TypeOK, Active, LocalsHeld,
         FreePC, KeyPC, BlockPC, InHand, OneHolder, Values, Listed, Keys, ValuesOwned, Called
    <3>11. TypeOK'
      BY <2>1, <3>2 DEF FlsAlloc, locals, Goto, TypeOK, PC, Keys, Values
    <3>12. LocalsHeld' /\ StoreCases'
      BY <2>1, <3>2 DEF FlsAlloc, locals, Goto, TypeOK, LocalsHeld, KeyPC,
         FreePC, BlockPC, Keys, Values, StoreCases
    <3>13. FreedAlone' /\ OneHolder'
      BY <2>1, <3>2 DEF FlsAlloc, locals, Goto, TypeOK, FreedAlone,
         LocalsHeld, KeyPC, FreePC, BlockPC, Keys, Values, OneHolder
    <3>14. ActiveKeys'
      BY <2>1, <3>2, <3>10 DEF FlsAlloc, locals, Goto, TypeOK, ActiveKeys,
         LocalsHeld, KeyPC, FreePC, BlockPC, Keys
    <3>15. ListsOwned'
      BY <2>1, <3>2 DEF FlsAlloc, locals, Goto, TypeOK, ListsOwned,
         LocalsHeld, KeyPC, FreePC, BlockPC, Keys, Values
    <3>16. ValuesOwned' /\ BlocksListed'
      BY <2>1, <3>2, <3>10 DEF FlsAlloc, locals, Goto, TypeOK, ValuesOwned,
         Keys, Values, BlocksListed, LocalsHeld, KeyPC, FreePC, BlockPC
    <3>17. TlsListed' /\ TlsOwn' /\ TlsAlone'
      BY <2>1, <3>2, <3>10 DEF FlsAlloc, locals, Goto, TypeOK, TlsListed,
         Keys, Values, TlsOwn, TlsAlone
    <3>18. ValuesReachable'
      BY <2>0, <2>1, <3>0, <3>1, <3>2, <3>10 DEF FlsAlloc, locals, Goto, TypeOK,
         ValuesReachable, ActiveKeys, LocalsHeld, KeyPC, FreePC, BlockPC, Keys, Values
    <3>19. DataApart' /\ DataFresh' /\ DataCopied'
      BY <2>1, <3>2 DEF FlsAlloc, locals, Goto, TypeOK, DataApart, DataFresh,
         Values, Stored, DataCopied, LocalsHeld, BlockPC
    <3>20. OwedExactly' /\ OwedHeld'
      BY <2>0, <2>1, <3>0, <3>1, <3>2, <3>10 DEF FlsAlloc, locals, Goto, TypeOK, OwedExactly,
         DataApart, DataFresh, DataCopied, Values, OwedHeld
    <3> QED BY <3>11, <3>12, <3>13, <3>14, <3>15, <3>16, <3>17, <3>18, <3>19, <3>20
  <2>2. ASSUME NEW t \in Thread, NEW i \in Index, NEW d \in Data \cup {NULL}, FlsSetValue(t, i, d)
        PROVE  IInv'
    <3>10. /\ \A x \in KeyBlock : Active(x)' <=> Active(x)
           /\ \A x \in ValueBlock : InHand(x)' <=> InHand(x)
           /\ \A x \in Values : Listed(x)' <=> Listed(x)
           /\ \A x \in ValueBlock : Called(x)' <=> Called(x)
      BY <2>2 DEF FlsSetValue, fls_find_key, heap, Goto, TypeOK, Active, LocalsHeld,
         FreePC, KeyPC, BlockPC, InHand, OneHolder, Values, Listed, Keys, ValuesOwned, Called
    <3>11. TypeOK'
      BY <2>2 DEF FlsSetValue, fls_find_key, heap, Goto, TypeOK, PC, Keys, Values
    <3>12. LocalsHeld' /\ StoreCases'
      BY <2>2 DEF FlsSetValue, fls_find_key, heap, Goto, TypeOK, LocalsHeld, KeyPC,
         FreePC, BlockPC, Keys, Values, StoreCases
    <3>13. FreedAlone' /\ OneHolder'
      BY <2>2 DEF FlsSetValue, fls_find_key, heap, Goto, TypeOK, FreedAlone, LocalsHeld,
         KeyPC, FreePC, BlockPC, Keys, Values, OneHolder
    <3>14. ActiveKeys'
      BY <2>2, <3>10 DEF FlsSetValue, fls_find_key, heap, Goto, TypeOK, ActiveKeys,
         LocalsHeld, KeyPC, FreePC, BlockPC, Keys
    <3>15. ListsOwned'
      BY <2>2 DEF FlsSetValue, fls_find_key, heap, Goto, TypeOK, ListsOwned, LocalsHeld,
         KeyPC, FreePC, BlockPC, Keys, Values
    <3>16. ValuesOwned' /\ BlocksListed'
      BY <2>2, <3>10 DEF FlsSetValue, fls_find_key, heap, Goto, TypeOK, ValuesOwned, Keys,
         Values, BlocksListed, LocalsHeld, KeyPC, FreePC, BlockPC
    <3>17. TlsListed' /\ TlsOwn' /\ TlsAlone'
      BY <2>2, <3>10 DEF FlsSetValue, fls_find_key, heap, Goto, TypeOK, TlsListed, Keys,
         Values, TlsOwn, TlsAlone
    <3>18. ValuesReachable'
      BY <2>2, <3>10 DEF FlsSetValue, fls_find_key, heap, Goto, TypeOK, ValuesReachable,
         ActiveKeys, LocalsHeld, KeyPC, FreePC, BlockPC, Keys, Values
    <3>19. DataApart' /\ DataFresh' /\ DataCopied'
      BY <2>2 DEF FlsSetValue, fls_find_key, heap, Goto, TypeOK, DataApart, DataFresh,
         Values, Stored, DataCopied, LocalsHeld, BlockPC
    <3>20. OwedExactly' /\ OwedHeld'
      BY <2>2, <3>10 DEF FlsSetValue, fls_find_key, heap, Goto, TypeOK, OwedExactly,
         DataApart, DataFresh, DataCopied, Values, OwedHeld
    <3> QED BY <3>11, <3>12, <3>13, <3>14, <3>15, <3>16, <3>17, <3>18, <3>19, <3>20
  <2>3. ASSUME NEW t \in Thread, Reset(t)
        PROVE  IInv'
    <3>0. pc[t] = "s_get"
      BY <2>3 DEF Reset
    <3>1. /\ key[t] \in fls_keys /\ key[t] \in Keys /\ Active(key[t]) /\ block[t] = NULL
          /\ index[key[t]] \in live /\ \A x \in KeyBlock : Active(x) /\ index[x] = index[key[t]] => x = key[t]
      BY <3>0 DEF LocalsHeld, KeyPC, FreePC, BlockPC, ActiveKeys, Active, TypeOK, Keys
    <3>2. ASSUME tls[t][index[key[t]]] # NULL
          PROVE  LET v == tls[t][index[key[t]]] IN
                 v \in ValueBlock /\ v \in Range(values[key[t]]) /\ Listed(v) /\ v \in Values /\ owner[v] = key[t]
      BY <2>0, <3>1, <3>2 DEF TlsListed, Listed, Values, Keys
    <3>3. ASSUME tls[t][index[key[t]]] # NULL
          PROVE  LET v == tls[t][index[key[t]]] IN
                 /\ \A x \in KeyBlock, u \in Thread : Active(x) /\ tls[u][index[x]] = v => x = key[t] /\ u = t
                 /\ \A u \in Thread : block[u] # v
      BY <2>0, <3>1, <3>3 DEF TlsOwn, TlsAlone, Keys
    <3>5. CASE Return(t) /\ UNCHANGED <<fls_keys, heap, values, live, tls, owed>>
      <4>10. \A x \in KeyBlock : Active(x)' <=> Active(x)
        BY <2>0, <3>0, <3>5, <3>1, <3>2, <3>3 DEF Return, heap, Goto, TypeOK, Active,
           LocalsHeld, FreePC, KeyPC, BlockPC
      <4>11. \A x \in ValueBlock : InHand(x)' <=> InHand(x)
        BY <2>0, <3>0, <3>5, <3>1, <3>2, <3>3 DEF Return, heap, Goto, TypeOK, InHand, OneHolder,
           Values
      <4>12. \A x \in Values : Listed(x)' <=> Listed(x)
        BY <3>5, <3>2, <3>3 DEF Return, heap, TypeOK, Listed, Values, Keys,
           ValuesOwned
      <4>13. \A x \in ValueBlock : Called(x)' <=> Called(x)
        BY <2>0, <3>0, <3>5, <3>1, <3>2, <3>3 DEF Return, heap, Goto, TypeOK, Called, OneHolder,
           Values
      <4>14. TypeOK'
        BY <3>5, <3>2, <3>3 DEF Return, heap, Goto, TypeOK, PC, Keys, Values
      <4>15. LocalsHeld' /\ StoreCases'
        BY <3>5, <3>2, <3>3 DEF Return, heap, Goto, TypeOK, LocalsHeld, KeyPC,
           FreePC, BlockPC, Keys, Values, StoreCases
      <4>16. FreedAlone' /\ OneHolder'
        BY <3>5, <3>2, <3>3 DEF Return, heap, Goto, TypeOK, FreedAlone,
           LocalsHeld, KeyPC, FreePC, BlockPC, Keys, Values, OneHolder
      <4>17. ActiveKeys'
        BY <3>5, <3>2, <3>3, <4>10 DEF Return, heap, Goto, TypeOK, ActiveKeys,
           LocalsHeld, KeyPC, FreePC, BlockPC, Keys
      <4>18. ListsOwned'
        BY <3>5, <3>2, <3>3 DEF Return, heap, Goto, TypeOK, ListsOwned,
           LocalsHeld, KeyPC, FreePC, BlockPC, Keys, Values
      <4>19. ValuesOwned' /\ BlocksListed'
        BY <3>5, <3>2, <3>3, <4>11, <4>12 DEF Return, heap, Goto, TypeOK,
           ValuesOwned, Keys, Values, BlocksListed, LocalsHeld, KeyPC, FreePC, BlockPC
      <4>20. TlsListed' /\ TlsOwn' /\ TlsAlone'
        BY <3>5, <3>2, <3>3, <4>10 DEF Return, heap, Goto, TypeOK, TlsListed,
           Keys, Values, TlsOwn, TlsAlone
      <4>21. ValuesReachable'
        BY <2>0, <3>0, <3>5, <3>1, <3>2, <3>3, <4>10 DEF Return, heap, Goto, TypeOK,
           ValuesReachable, ActiveKeys, LocalsHeld, KeyPC, FreePC, BlockPC, Keys, Values
      <4>22. DataApart' /\ DataFresh' /\ DataCopied'
        BY <3>5, <3>2, <3>3 DEF Return, heap, Goto, TypeOK, DataApart,
           DataFresh, Values, Stored, DataCopied, LocalsHeld, BlockPC
      <4>23. OwedExactly' /\ OwedHeld'
        BY <3>5, <3>2, <3>3, <4>13 DEF Return, heap, Goto, TypeOK,
           OwedExactly, DataApart, DataFresh, DataCopied, Values, OwedHeld
      <4> QED BY <4>14, <4>15, <4>16, <4>17, <4>18, <4>19, <4>20, <4>21, <4>22, <4>23
    <3>6. CASE /\ tls[t][index[key[t]]] # NULL
               /\ tls' = [tls EXCEPT ![t][index[key[t]]] = NULL]
               /\ block' = [block EXCEPT ![t] = tls[t][index[key[t]]]]
               /\ Goto(t, "s_unlink") /\ UNCHANGED <<fls_keys, heap, values, live, key, data, owed>>
      <4>10. \A x \in KeyBlock : Active(x)' <=> Active(x)
        BY <2>0, <3>0, <3>6, <3>1, <3>2, <3>3 DEF heap, Goto, TypeOK, Active, LocalsHeld,
           FreePC, KeyPC, BlockPC
      <4>11. \A x \in ValueBlock : InHand(x)' <=> InHand(x)
        BY <2>0, <3>0, <3>6, <3>1, <3>2, <3>3 DEF heap, Goto, TypeOK, InHand, OneHolder, Values
      <4>12. \A x \in Values : Listed(x)' <=> Listed(x)
        BY <3>6, <3>2, <3>3 DEF heap, TypeOK, Listed, Values, Keys,
           ValuesOwned
      <4>13. \A x \in ValueBlock : Called(x)' <=> Called(x)
        BY <2>0, <3>0, <3>6, <3>1, <3>2, <3>3 DEF heap, Goto, TypeOK, Called, OneHolder, Values
      <4>14. TypeOK'
        BY <3>6, <3>2, <3>3 DEF heap, Goto, TypeOK, PC, Keys, Values
      <4>15. LocalsHeld' /\ StoreCases'
        BY <2>0, <3>0, <3>6, <3>1, <3>2, <3>3 DEF heap, Goto, TypeOK, LocalsHeld, KeyPC, FreePC,
           BlockPC, Keys, Values, StoreCases
      <4>16. FreedAlone' /\ OneHolder'
        BY <3>6, <3>2, <3>3 DEF heap, Goto, TypeOK, FreedAlone, LocalsHeld,
           KeyPC, FreePC, BlockPC, Keys, Values, OneHolder
      <4>17. ActiveKeys'
        BY <3>6, <3>2, <3>3, <4>10 DEF heap, Goto, TypeOK, ActiveKeys,
           LocalsHeld, KeyPC, FreePC, BlockPC, Keys
      <4>18. ListsOwned'
        BY <3>6, <3>2, <3>3 DEF heap, Goto, TypeOK, ListsOwned, LocalsHeld,
           KeyPC, FreePC, BlockPC, Keys, Values
      <4>19. ValuesOwned' /\ BlocksListed'
        BY <3>6, <3>2, <3>3, <4>11, <4>12 DEF heap, Goto, TypeOK, ValuesOwned,
           Keys, Values, BlocksListed, LocalsHeld, KeyPC, FreePC, BlockPC
      <4>20. TlsListed' /\ TlsOwn' /\ TlsAlone'
        BY <2>0, <3>0, <3>6, <3>1, <3>2, <3>3, <4>10 DEF heap, Goto, TypeOK, TlsListed, Keys,
           Values, TlsOwn, TlsAlone
      <4>21. ValuesReachable'
        <5> SUFFICES ASSUME NEW w \in Values, Active(owner[w])
                     PROVE  \E u \in Thread : block'[u] = w \/ tls'[u][index[owner[w]]] = w
          BY <3>6, <4>10 DEF ValuesReachable, Values, heap, TypeOK
        <5>1. CASE w = tls[t][index[key[t]]]
          BY <3>6, <5>1 DEF TypeOK
        <5>2. CASE w # tls[t][index[key[t]]]
          <6>1. PICK u \in Thread : block[u] = w \/ tls[u][index[owner[w]]] = w
            BY DEF ValuesReachable
          <6>2. w # NULL
            BY DEF Values
          <6> QED BY <3>1, <3>6, <5>2, <6>1, <6>2 DEF TypeOK
        <5> QED BY <5>1, <5>2
      <4>22. DataApart' /\ DataFresh' /\ DataCopied'
        BY <3>6, <3>2, <3>3 DEF heap, Goto, TypeOK, DataApart, DataFresh,
           Values, Stored, DataCopied, LocalsHeld, BlockPC
      <4>23. OwedExactly' /\ OwedHeld'
        BY <3>6, <3>2, <3>3, <4>13 DEF heap, Goto, TypeOK, OwedExactly,
           DataApart, DataFresh, DataCopied, Values, OwedHeld
      <4> QED BY <4>14, <4>15, <4>16, <4>17, <4>18, <4>19, <4>20, <4>21, <4>22, <4>23
    <3> QED BY <2>3, <3>5, <3>6 DEF Reset, heap
  <2>4. ASSUME NEW t \in Thread, Allocate(t)
        PROVE  IInv'
    <3>0. pc[t] = "s_get"
      BY <2>4 DEF Allocate
    <3>1. /\ key[t] \in fls_keys /\ key[t] \in Keys /\ Active(key[t]) /\ block[t] = NULL
          /\ index[key[t]] \in live /\ \A x \in KeyBlock : Active(x) /\ index[x] = index[key[t]] => x = key[t]
      BY <3>0 DEF LocalsHeld, KeyPC, FreePC, BlockPC, ActiveKeys, Active, TypeOK, Keys
    <3>2. data[t] # NULL /\ tls[t][index[key[t]]] = NULL
      BY <2>4 DEF Allocate
    <3>5. CASE Return(t) /\ UNCHANGED <<fls_keys, heap, values, live, tls, owed>>
      <4>10. /\ \A x \in KeyBlock : Active(x)' <=> Active(x)
             /\ \A x \in ValueBlock : InHand(x)' <=> InHand(x)
             /\ \A x \in Values : Listed(x)' <=> Listed(x)
             /\ \A x \in ValueBlock : Called(x)' <=> Called(x)
        BY <2>0, <3>0, <3>5, <3>1, <3>2 DEF Return, heap, Goto, TypeOK, Active, LocalsHeld,
           FreePC, KeyPC, BlockPC, InHand, OneHolder, Values, Listed, Keys, ValuesOwned, Called
      <4>11. TypeOK'
        BY <3>5, <3>2 DEF Return, heap, Goto, TypeOK, PC, Keys, Values
      <4>12. LocalsHeld' /\ StoreCases'
        BY <3>5, <3>2 DEF Return, heap, Goto, TypeOK, LocalsHeld, KeyPC,
           FreePC, BlockPC, Keys, Values, StoreCases
      <4>13. FreedAlone' /\ OneHolder'
        BY <3>5, <3>2 DEF Return, heap, Goto, TypeOK, FreedAlone, LocalsHeld,
           KeyPC, FreePC, BlockPC, Keys, Values, OneHolder
      <4>14. ActiveKeys'
        BY <3>5, <3>2, <4>10 DEF Return, heap, Goto, TypeOK, ActiveKeys,
           LocalsHeld, KeyPC, FreePC, BlockPC, Keys
      <4>15. ListsOwned'
        BY <3>5, <3>2 DEF Return, heap, Goto, TypeOK, ListsOwned, LocalsHeld,
           KeyPC, FreePC, BlockPC, Keys, Values
      <4>16. ValuesOwned' /\ BlocksListed'
        BY <3>5, <3>2, <4>10 DEF Return, heap, Goto, TypeOK, ValuesOwned,
           Keys, Values, BlocksListed, LocalsHeld, KeyPC, FreePC, BlockPC
      <4>17. TlsListed' /\ TlsOwn' /\ TlsAlone'
        BY <3>5, <3>2, <4>10 DEF Return, heap, Goto, TypeOK, TlsListed, Keys,
           Values, TlsOwn, TlsAlone
      <4>18. ValuesReachable'
        BY <2>0, <3>0, <3>5, <3>1, <3>2, <4>10 DEF Return, heap, Goto, TypeOK, ValuesReachable,
           ActiveKeys, LocalsHeld, KeyPC, FreePC, BlockPC, Keys, Values
      <4>19. DataApart' /\ DataFresh' /\ DataCopied'
        BY <3>5, <3>2 DEF Return, heap, Goto, TypeOK, DataApart, DataFresh,
           Values, Stored, DataCopied, LocalsHeld, BlockPC
      <4>20. OwedExactly' /\ OwedHeld'
        BY <3>5, <3>2, <4>10 DEF Return, heap, Goto, TypeOK, OwedExactly,
           DataApart, DataFresh, DataCopied, Values, OwedHeld
      <4> QED BY <4>11, <4>12, <4>13, <4>14, <4>15, <4>16, <4>17, <4>18, <4>19, <4>20
    <3>6. CASE \E v \in ValueBlock \ Values :
               /\ owner' = [owner EXCEPT ![v] = key[t]] /\ value' = [value EXCEPT ![v] = data[t]]
               /\ block' = [block EXCEPT ![t] = v] /\ owed' = (IF callback[key[t]] THEN owed \cup {data[t]} ELSE owed)
               /\ Goto(t, "s_link")
               /\ UNCHANGED <<fls_keys, index, callback, values, live, tls, key, data>>
      <4>1. PICK v \in ValueBlock \ Values :
               /\ owner' = [owner EXCEPT ![v] = key[t]] /\ value' = [value EXCEPT ![v] = data[t]]
               /\ block' = [block EXCEPT ![t] = v] /\ owed' = (IF callback[key[t]] THEN owed \cup {data[t]} ELSE owed)
               /\ Goto(t, "s_link")
               /\ UNCHANGED <<fls_keys, index, callback, values, live, tls, key, data>>
        BY <3>6
      <4>2. /\ Values \subseteq ValueBlock /\ owner[v] = NULL /\ v # NULL /\ \A u \in Thread : block[u] # v
            /\ \A x \in KeyBlock : v \notin Range(values[x])
            /\ \A x \in KeyBlock, u \in Thread : Active(x) => tls[u][index[x]] # v
        BY <2>0 DEF ListsOwned, TypeOK, Values
      <4>3. /\ Values' = Values \cup {v} /\ Keys' = Keys /\ index' = index /\ tls' = tls
            /\ owner'[v] = key[t] /\ \A w \in Values : owner'[w] = owner[w]
            /\ block'[t] = v /\ pc'[t] = "s_link"
            /\ \A u \in Thread \ {t} : block'[u] = block[u] /\ pc'[u] = pc[u]
        BY <3>1, <4>1 DEF Values, Keys, Goto, TypeOK
      <4>10. /\ \A x \in KeyBlock : Active(x)' <=> Active(x)
             /\ \A x \in ValueBlock : InHand(x)' <=> InHand(x) \/ x = v
             /\ (\A x \in Values : Listed(x)' <=> Listed(x)) /\ ~Listed(v)'
             /\ \A x \in ValueBlock : Called(x)' <=> Called(x)
        BY <2>0, <3>0, <4>1, <4>2, <3>1, <3>2 DEF Goto, TypeOK, Active, LocalsHeld, FreePC,
           KeyPC, BlockPC, InHand, OneHolder, Values, Listed, Keys, ValuesOwned, Called
      <4>11. TypeOK'
        BY <4>1, <3>1, <3>2 DEF Goto, TypeOK, PC, Keys, Values
      <4>12. LocalsHeld' /\ StoreCases'
        BY <4>1, <3>1, <3>2 DEF Goto, TypeOK, LocalsHeld, KeyPC, FreePC,
           BlockPC, Keys, Values, StoreCases
      <4>13. FreedAlone' /\ OneHolder'
        BY <4>1, <3>1, <3>2 DEF Goto, TypeOK, FreedAlone, LocalsHeld, KeyPC,
           FreePC, BlockPC, Keys, Values, OneHolder
      <4>14. ActiveKeys'
        BY <4>1, <3>1, <3>2, <4>10 DEF Goto, TypeOK, ActiveKeys, LocalsHeld,
           KeyPC, FreePC, BlockPC, Keys
      <4>15. ListsOwned'
        BY <4>1, <3>1, <3>2 DEF Goto, TypeOK, ListsOwned, LocalsHeld, KeyPC,
           FreePC, BlockPC, Keys, Values
      <4>16. ValuesOwned'
        BY <3>1, <4>1, <4>2, <4>3, <4>10, <4>10 DEF ValuesOwned
      <4>17. BlocksListed'
        BY <4>3, <4>10 DEF BlocksListed, LocalsHeld, BlockPC
      <4>18. TlsListed' /\ TlsOwn' /\ TlsAlone'
        BY <2>0, <3>0, <4>1, <4>2, <3>1, <3>2, <4>10 DEF Goto, TypeOK, TlsListed, Keys, Values,
           TlsOwn, TlsAlone
      <4>19. ValuesReachable'
        <5> SUFFICES ASSUME NEW w \in Values \cup {v}, Active(owner'[w])
                     PROVE  \E u \in Thread : block'[u] = w \/ tls[u][index[owner'[w]]] = w
          BY <4>3, <4>10 DEF ValuesReachable, Values, Keys, TypeOK
        <5>1. CASE w = v
          BY <4>3, <5>1
        <5>2. CASE w # v
          <6>1. PICK u \in Thread : block[u] = w \/ tls[u][index[owner[w]]] = w
            BY <4>3, <5>2 DEF ValuesReachable
          <6>2. w # NULL /\ owner'[w] = owner[w]
            BY <4>3, <5>2 DEF Values
          <6> QED BY <3>1, <4>3, <6>1, <6>2
        <5> QED BY <5>1, <5>2
      <4>20. DataApart' /\ DataFresh' /\ DataCopied'
        BY <3>0, <4>1, <3>1, <3>2 DEF Goto, TypeOK, DataApart, DataFresh, Values,
           Stored, DataCopied, LocalsHeld, BlockPC
      <4>21. OwedHeld'
        BY <4>1, <3>1, <3>2 DEF Goto, TypeOK, OwedHeld, OwedExactly,
           DataApart, DataCopied, Values
      <4>22. OwedExactly'
        <5>1. data[t] \notin owed /\ \A w \in Values : value[w] # data[t]
          BY <3>0, <3>2 DEF OwedHeld, DataFresh
        <5>2. ~Called(v) /\ value'[v] = data[t] /\ \A w \in Values : value'[w] = value[w]
          BY <4>1, <4>2 DEF Called, Values, TypeOK
        <5> QED BY <3>1, <4>1, <4>2, <4>3, <4>10, <5>1, <5>2 DEF OwedExactly
      <4> QED BY <4>11, <4>12, <4>13, <4>14, <4>15, <4>16, <4>17, <4>18, <4>19, <4>20, <4>21,
         <4>22
    <3> QED BY <2>4, <3>5, <3>6 DEF Allocate, heap
  <2>5. ASSUME NEW t \in Thread, Overwrite(t)
        PROVE  IInv'
    <3>0. pc[t] = "s_get"
      BY <2>5 DEF Overwrite
    <3>1. /\ key[t] \in fls_keys /\ key[t] \in Keys /\ Active(key[t]) /\ block[t] = NULL
          /\ index[key[t]] \in live /\ \A x \in KeyBlock : Active(x) /\ index[x] = index[key[t]] => x = key[t]
      BY <3>0 DEF LocalsHeld, KeyPC, FreePC, BlockPC, ActiveKeys, Active, TypeOK, Keys
    <3>2. LET v == tls[t][index[key[t]]] IN
          v \in ValueBlock /\ v \in Range(values[key[t]]) /\ Listed(v) /\ v \in Values /\ owner[v] = key[t] /\ v # NULL
      BY <2>0, <2>5, <3>1 DEF Overwrite, TlsListed, Listed, Values, Keys
    <3>3. LET v == tls[t][index[key[t]]] IN
          /\ \A x \in KeyBlock, u \in Thread : Active(x) /\ tls[u][index[x]] = v => x = key[t] /\ u = t
          /\ \A u \in Thread : block[u] # v
      BY <2>0, <3>0, <3>1, <3>2 DEF TlsOwn, TlsAlone, Keys
    <3>10. /\ \A x \in KeyBlock : Active(x)' <=> Active(x)
           /\ \A x \in ValueBlock : InHand(x)' <=> InHand(x)
           /\ \A x \in Values : Listed(x)' <=> Listed(x)
           /\ \A x \in ValueBlock : Called(x)' <=> Called(x)
      BY <2>5, <3>3 DEF Overwrite, Goto, TypeOK, Active, LocalsHeld, FreePC,
         KeyPC, BlockPC, InHand, OneHolder, Values, Listed, Keys, ValuesOwned, Called
    <3>11. TypeOK'
      BY <2>0, <2>5, <3>1, <3>2, <3>3 DEF Overwrite, Goto, TypeOK, PC, Keys, Values
    <3>12. LocalsHeld' /\ StoreCases'
      BY <2>0, <2>5, <3>1, <3>2, <3>3 DEF Overwrite, Goto, TypeOK, LocalsHeld, KeyPC, FreePC,
         BlockPC, Keys, Values, StoreCases
    <3>13. FreedAlone' /\ OneHolder'
      BY <2>0, <2>5, <3>1, <3>2, <3>3 DEF Overwrite, Goto, TypeOK, FreedAlone, LocalsHeld,
         KeyPC, FreePC, BlockPC, Keys, Values, OneHolder
    <3>14. ActiveKeys'
      BY <2>5, <3>3, <3>10 DEF Overwrite, Goto, TypeOK, ActiveKeys,
         LocalsHeld, KeyPC, FreePC, BlockPC, Keys
    <3>15. ListsOwned'
      BY <2>5, <3>3 DEF Overwrite, Goto, TypeOK, ListsOwned, LocalsHeld,
         KeyPC, FreePC, BlockPC, Keys, Values
    <3>16. ValuesOwned' /\ BlocksListed'
      BY <2>0, <2>5, <3>1, <3>2, <3>3, <3>10 DEF Overwrite, Goto, TypeOK, ValuesOwned, Keys,
         Values, BlocksListed, LocalsHeld, KeyPC, FreePC, BlockPC
    <3>17. TlsListed' /\ TlsOwn' /\ TlsAlone'
      BY <2>5, <3>3, <3>10 DEF Overwrite, Goto, TypeOK, TlsListed, Keys,
         Values, TlsOwn, TlsAlone
    <3>18. ValuesReachable'
      BY <2>5, <3>3, <3>10 DEF Overwrite, Goto, TypeOK, ValuesReachable,
         ActiveKeys, LocalsHeld, KeyPC, FreePC, BlockPC, Keys, Values
    <3>19. DataApart' /\ DataFresh' /\ DataCopied'
      BY <2>5, <3>3 DEF Overwrite, Goto, TypeOK, DataApart, DataFresh, Values,
         Stored, DataCopied, LocalsHeld, BlockPC
    <3>20. OwedHeld'
      BY <2>0, <2>5, <3>1, <3>2, <3>3 DEF Overwrite, Goto, TypeOK, OwedHeld, OwedExactly,
         DataApart, DataCopied, Values
    <3>21. OwedExactly'
      <4> DEFINE v == tls[t][index[key[t]]]
      <4>1. data[t] \notin owed /\ \A w \in Values : value[w] # data[t]
        BY <2>5 DEF Overwrite, OwedHeld, DataFresh
      <4>2. /\ ~Called(v) /\ value'[v] = data[t] /\ \A w \in Values \ {v} : value'[w] = value[w]
            /\ owed' = IF callback[key[t]] THEN (owed \ {value[v]}) \cup {data[t]} ELSE owed
            /\ Values' = Values /\ owner' = owner /\ callback' = callback
        BY <2>5, <3>2, <3>3 DEF Overwrite, Called, Values, TypeOK
      <4>3. v \in Values /\ owner[v] = key[t] /\ Values \subseteq ValueBlock
        BY <3>2 DEF Values
      <4> HIDE DEF v
      <4> QED BY <3>10, <4>1, <4>2, <4>3 DEF OwedExactly, DataApart
    <3> QED BY <3>11, <3>12, <3>13, <3>14, <3>15, <3>16, <3>17, <3>18, <3>19, <3>20, <3>21
  <2>6. ASSUME NEW t \in Thread, Link(t)
        PROVE  IInv'
    <3>0. pc[t] = "s_link"
      BY <2>6 DEF Link
    <3>1. /\ key[t] \in fls_keys /\ key[t] \in Keys /\ Active(key[t]) /\ block[t] \in Values
          /\ owner[block[t]] = key[t] /\ block[t] \notin Range(values[key[t]])
          /\ \A u \in Thread : block[u] = block[t] => u = t
          /\ \A x \in KeyBlock : Active(x) /\ index[x] = index[key[t]] => x = key[t]
      BY <3>0 DEF LocalsHeld, KeyPC, FreePC, BlockPC, ActiveKeys, BlocksListed, Listed,
         OneHolder, Active, TypeOK, Keys, Values
    <3>2. /\ values' \in [KeyBlock -> Seq(ValueBlock)]
          /\ \A x \in KeyBlock \ {key[t]} : values'[x] = values[x]
          /\ Distinct(values'[key[t]])
          /\ Range(values'[key[t]]) = Range(values[key[t]]) \cup {block[t]}
      <4>1. values[key[t]] \in Seq(ValueBlock) /\ block[t] \in ValueBlock
        BY <3>1 DEF TypeOK, Values, Keys
      <4>2. Distinct(values[key[t]]) /\ block[t] \notin Elements(values[key[t]])
        BY <3>1 DEF ListsOwned, Range, Elements, Keys
      <4>3. LET s == <<block[t]>> \o values[key[t]] IN
            s \in Seq(ValueBlock) /\ Distinct(s) /\ Elements(s) = Elements(values[key[t]]) \cup {block[t]}
        BY <4>1, <4>2, PrependElement
      <4>4. values'[key[t]] = <<block[t]>> \o values[key[t]]
        BY <2>6, <3>1 DEF Link, TypeOK, Keys
      <4>5. values' \in [KeyBlock -> Seq(ValueBlock)] /\ \A x \in KeyBlock \ {key[t]} : values'[x] = values[x]
        BY <2>6, <4>3 DEF Link, TypeOK
      <4>6. \A s : Range(s) = Elements(s)
        BY DEF Range, Elements
      <4> QED BY <4>3, <4>4, <4>5, <4>6
    <3>10. \A x \in KeyBlock : Active(x)' <=> Active(x)
      BY <2>6 DEF Link, heap, locals, Goto, TypeOK, Active, LocalsHeld,
         FreePC, KeyPC, BlockPC
    <3>11. \A x \in ValueBlock : InHand(x)' <=> InHand(x) /\ x # block[t]
      BY <2>6 DEF Link, heap, locals, Goto, TypeOK, InHand, OneHolder, Values
    <3>12. \A x \in Values : Listed(x)' <=> Listed(x) \/ x = block[t]
      BY <2>0, <2>6, <3>1, <3>2 DEF Link, heap, locals, TypeOK, Listed, Values, Keys,
         ValuesOwned
    <3>13. \A x \in ValueBlock : Called(x)' <=> Called(x)
      BY <2>6 DEF Link, heap, locals, Goto, TypeOK, Called, OneHolder, Values
    <3>14. TypeOK'
      BY <2>0, <2>6, <3>1, <3>2 DEF Link, heap, locals, Goto, TypeOK, PC, Keys, Values
    <3>15. LocalsHeld' /\ StoreCases'
      BY <2>6 DEF Link, heap, locals, Goto, TypeOK, LocalsHeld, KeyPC, FreePC,
         BlockPC, Keys, Values, StoreCases
    <3>16. FreedAlone' /\ OneHolder'
      BY <2>6 DEF Link, heap, locals, Goto, TypeOK, FreedAlone, LocalsHeld,
         KeyPC, FreePC, BlockPC, Keys, Values, OneHolder
    <3>17. ActiveKeys'
      BY <2>6, <3>10 DEF Link, heap, locals, Goto, TypeOK, ActiveKeys,
         LocalsHeld, KeyPC, FreePC, BlockPC, Keys
    <3>18. ListsOwned'
      <4>1. owner' = owner /\ Keys' = Keys /\ Values' = Values
        BY <2>6 DEF Link, heap, Keys, Values
      <4> QED BY <3>1, <3>2, <4>1 DEF ListsOwned
    <3>19. ValuesOwned' /\ BlocksListed'
      BY <2>6, <3>1, <3>11, <3>12 DEF Link, heap, locals, Goto, TypeOK, ValuesOwned,
         Keys, Values, BlocksListed, LocalsHeld, KeyPC, FreePC, BlockPC
    <3>20. TlsListed'
      BY <2>0, <2>6, <3>1, <3>2, <3>10 DEF Link, heap, locals, Goto, TypeOK, TlsListed, Keys,
         Values
    <3>21. TlsOwn'
      BY <2>6, <3>10 DEF Link, heap, locals, Goto, TypeOK, TlsOwn, Keys,
         Values
    <3>22. TlsAlone'
      BY <2>6, <3>10 DEF Link, heap, locals, Goto, TypeOK, TlsAlone, Keys,
         Values
    <3>23. ValuesReachable'
      BY <2>6, <3>10 DEF Link, heap, locals, Goto, TypeOK, ValuesReachable,
         ActiveKeys, LocalsHeld, KeyPC, FreePC, BlockPC, Keys, Values
    <3>24. DataApart' /\ DataFresh' /\ DataCopied'
      BY <2>6 DEF Link, heap, locals, Goto, TypeOK, DataApart, DataFresh,
         Values, Stored, DataCopied, LocalsHeld, BlockPC
    <3>25. OwedExactly' /\ OwedHeld'
      BY <2>6, <3>13 DEF Link, heap, locals, Goto, TypeOK, OwedExactly,
         DataApart, DataFresh, DataCopied, Values, OwedHeld
    <3> QED BY <3>14, <3>15, <3>16, <3>17, <3>18, <3>19, <3>20, <3>21, <3>22, <3>23, <3>24,
       <3>25
  <2>7. ASSUME NEW t \in Thread, SetSpecific(t)
        PROVE  IInv'
    <3>0. pc[t] = "s_set"
      BY <2>7 DEF SetSpecific
    <3>1. /\ key[t] \in fls_keys /\ key[t] \in Keys /\ Active(key[t]) /\ block[t] \in Values /\ block[t] \in ValueBlock
          /\ owner[block[t]] = key[t] /\ block[t] \in Range(values[key[t]])
          /\ \A u \in Thread : block[u] = block[t] => u = t
          /\ tls[t][index[key[t]]] \in {NULL, block[t]}
          /\ \A u \in Thread : tls[u][index[key[t]]] = block[t] => u = t
          /\ \A x \in KeyBlock : Active(x) /\ index[x] = index[key[t]] => x = key[t]
          /\ \A x \in KeyBlock, u \in Thread : Active(x) /\ tls[u][index[x]] = block[t] => x = key[t]
      BY <2>0, <3>0 DEF LocalsHeld, KeyPC, FreePC, BlockPC, ActiveKeys, BlocksListed, Listed,
         OneHolder, StoreCases, TlsListed, TlsOwn, TlsAlone, Active, TypeOK, Keys, Values
    <3>5. CASE Return(t) /\ tls' = [tls EXCEPT ![t][index[key[t]]] = block[t]] /\ UNCHANGED <<fls_keys, heap, values, live, owed>>
      <4>10. /\ \A x \in KeyBlock : Active(x)' <=> Active(x)
             /\ \A x \in ValueBlock : InHand(x)' <=> InHand(x)
             /\ \A x \in Values : Listed(x)' <=> Listed(x)
             /\ \A x \in ValueBlock : Called(x)' <=> Called(x)
        BY <3>0, <3>5 DEF Return, heap, Goto, TypeOK, Active, LocalsHeld, FreePC,
           KeyPC, BlockPC, InHand, OneHolder, Values, Listed, Keys, ValuesOwned, Called
      <4>11. TypeOK'
        BY <3>5 DEF Return, heap, Goto, TypeOK, PC, Keys, Values
      <4>12. LocalsHeld' /\ StoreCases'
        BY <3>5 DEF Return, heap, Goto, TypeOK, LocalsHeld, KeyPC, FreePC,
           BlockPC, Keys, Values, StoreCases
      <4>13. FreedAlone' /\ OneHolder'
        BY <3>5 DEF Return, heap, Goto, TypeOK, FreedAlone, LocalsHeld, KeyPC,
           FreePC, BlockPC, Keys, Values, OneHolder
      <4>14. ActiveKeys'
        BY <3>5, <4>10 DEF Return, heap, Goto, TypeOK, ActiveKeys, LocalsHeld,
           KeyPC, FreePC, BlockPC, Keys
      <4>15. ListsOwned'
        BY <3>5 DEF Return, heap, Goto, TypeOK, ListsOwned, LocalsHeld, KeyPC,
           FreePC, BlockPC, Keys, Values
      <4>16. ValuesOwned' /\ BlocksListed'
        BY <3>5, <4>10 DEF Return, heap, Goto, TypeOK, ValuesOwned, Keys,
           Values, BlocksListed, LocalsHeld, KeyPC, FreePC, BlockPC
      <4>17. TlsListed' /\ TlsOwn' /\ TlsAlone'
        BY <2>0, <3>0, <3>5, <3>1, <4>10 DEF Return, heap, Goto, TypeOK, TlsListed, Keys,
           Values, TlsOwn, TlsAlone
      <4>18. ValuesReachable'
        BY <2>0, <3>0, <3>5, <3>1, <4>10 DEF Return, heap, Goto, TypeOK, ValuesReachable,
           ActiveKeys, LocalsHeld, KeyPC, FreePC, BlockPC, Keys, Values
      <4>19. DataApart' /\ DataFresh' /\ DataCopied'
        BY <3>5 DEF Return, heap, Goto, TypeOK, DataApart, DataFresh, Values,
           Stored, DataCopied, LocalsHeld, BlockPC
      <4>20. OwedExactly' /\ OwedHeld'
        BY <3>5, <4>10 DEF Return, heap, Goto, TypeOK, OwedExactly, DataApart,
           DataFresh, DataCopied, Values, OwedHeld
      <4> QED BY <4>11, <4>12, <4>13, <4>14, <4>15, <4>16, <4>17, <4>18, <4>19, <4>20
    <3>6. CASE tls[t][index[key[t]]] = NULL /\ Goto(t, "s_unlink") /\ UNCHANGED <<fls_keys, heap, values, live, tls, locals, owed>>
      <4>10. /\ \A x \in KeyBlock : Active(x)' <=> Active(x)
             /\ \A x \in ValueBlock : InHand(x)' <=> InHand(x)
             /\ \A x \in Values : Listed(x)' <=> Listed(x)
             /\ \A x \in ValueBlock : Called(x)' <=> Called(x)
        BY <3>0, <3>6 DEF heap, locals, Goto, TypeOK, Active, LocalsHeld, FreePC,
           KeyPC, BlockPC, InHand, OneHolder, Values, Listed, Keys, ValuesOwned, Called
      <4>11. TypeOK'
        BY <3>6 DEF heap, locals, Goto, TypeOK, PC, Keys, Values
      <4>12. LocalsHeld' /\ StoreCases'
        BY <2>0, <3>0, <3>6, <3>1 DEF heap, locals, Goto, TypeOK, LocalsHeld, KeyPC, FreePC,
           BlockPC, Keys, Values, StoreCases
      <4>13. FreedAlone' /\ OneHolder'
        BY <3>6 DEF heap, locals, Goto, TypeOK, FreedAlone, LocalsHeld, KeyPC,
           FreePC, BlockPC, Keys, Values, OneHolder
      <4>14. ActiveKeys'
        BY <3>6, <4>10 DEF heap, locals, Goto, TypeOK, ActiveKeys, LocalsHeld,
           KeyPC, FreePC, BlockPC, Keys
      <4>15. ListsOwned'
        BY <3>6 DEF heap, locals, Goto, TypeOK, ListsOwned, LocalsHeld, KeyPC,
           FreePC, BlockPC, Keys, Values
      <4>16. ValuesOwned' /\ BlocksListed'
        BY <3>0, <3>6, <4>10 DEF heap, locals, Goto, TypeOK, ValuesOwned, Keys,
           Values, BlocksListed, LocalsHeld, KeyPC, FreePC, BlockPC
      <4>17. TlsListed' /\ TlsOwn' /\ TlsAlone'
        BY <2>0, <3>0, <3>6, <3>1, <4>10 DEF heap, locals, Goto, TypeOK, TlsListed, Keys,
           Values, TlsOwn, TlsAlone
      <4>18. ValuesReachable'
        BY <3>6, <4>10 DEF heap, locals, Goto, TypeOK, ValuesReachable,
           ActiveKeys, LocalsHeld, KeyPC, FreePC, BlockPC, Keys, Values
      <4>19. DataApart' /\ DataFresh' /\ DataCopied'
        BY <3>6 DEF heap, locals, Goto, TypeOK, DataApart, DataFresh, Values,
           Stored, DataCopied, LocalsHeld, BlockPC
      <4>20. OwedExactly' /\ OwedHeld'
        BY <3>6, <4>10 DEF heap, locals, Goto, TypeOK, OwedExactly, DataApart,
           DataFresh, DataCopied, Values, OwedHeld
      <4> QED BY <4>11, <4>12, <4>13, <4>14, <4>15, <4>16, <4>17, <4>18, <4>19, <4>20
    <3>7. CASE tls[t][index[key[t]]] # NULL /\ Return(t) /\ UNCHANGED <<fls_keys, heap, values, live, tls, owed>>
      <4>10. /\ \A x \in KeyBlock : Active(x)' <=> Active(x)
             /\ \A x \in ValueBlock : InHand(x)' <=> InHand(x)
             /\ \A x \in Values : Listed(x)' <=> Listed(x)
             /\ \A x \in ValueBlock : Called(x)' <=> Called(x)
        BY <3>0, <3>7 DEF Return, heap, Goto, TypeOK, Active, LocalsHeld, FreePC,
           KeyPC, BlockPC, InHand, OneHolder, Values, Listed, Keys, ValuesOwned, Called
      <4>11. TypeOK'
        BY <3>7 DEF Return, heap, Goto, TypeOK, PC, Keys, Values
      <4>12. LocalsHeld' /\ StoreCases'
        BY <3>7 DEF Return, heap, Goto, TypeOK, LocalsHeld, KeyPC, FreePC,
           BlockPC, Keys, Values, StoreCases
      <4>13. FreedAlone' /\ OneHolder'
        BY <3>7 DEF Return, heap, Goto, TypeOK, FreedAlone, LocalsHeld, KeyPC,
           FreePC, BlockPC, Keys, Values, OneHolder
      <4>14. ActiveKeys'
        BY <3>7, <4>10 DEF Return, heap, Goto, TypeOK, ActiveKeys, LocalsHeld,
           KeyPC, FreePC, BlockPC, Keys
      <4>15. ListsOwned'
        BY <3>7 DEF Return, heap, Goto, TypeOK, ListsOwned, LocalsHeld, KeyPC,
           FreePC, BlockPC, Keys, Values
      <4>16. ValuesOwned' /\ BlocksListed'
        BY <3>7, <4>10 DEF Return, heap, Goto, TypeOK, ValuesOwned, Keys,
           Values, BlocksListed, LocalsHeld, KeyPC, FreePC, BlockPC
      <4>17. TlsListed' /\ TlsOwn' /\ TlsAlone'
        BY <3>7, <4>10 DEF Return, heap, Goto, TypeOK, TlsListed, Keys,
           Values, TlsOwn, TlsAlone
      <4>18. ValuesReachable'
        BY <2>0, <3>0, <3>7, <3>1, <4>10 DEF Return, heap, Goto, TypeOK, ValuesReachable,
           ActiveKeys, LocalsHeld, KeyPC, FreePC, BlockPC, Keys, Values
      <4>19. DataApart' /\ DataFresh' /\ DataCopied'
        BY <3>7 DEF Return, heap, Goto, TypeOK, DataApart, DataFresh, Values,
           Stored, DataCopied, LocalsHeld, BlockPC
      <4>20. OwedExactly' /\ OwedHeld'
        BY <3>7, <4>10 DEF Return, heap, Goto, TypeOK, OwedExactly, DataApart,
           DataFresh, DataCopied, Values, OwedHeld
      <4> QED BY <4>11, <4>12, <4>13, <4>14, <4>15, <4>16, <4>17, <4>18, <4>19, <4>20
    <3> QED BY <2>7, <3>5, <3>6, <3>7 DEF SetSpecific, heap
  <2>8. ASSUME NEW t \in Thread, Unlink(t)
        PROVE  IInv'
    <3>0. pc[t] = "s_unlink"
      BY <2>8 DEF Unlink
    <3>1. /\ key[t] \in fls_keys /\ key[t] \in Keys /\ Active(key[t]) /\ block[t] \in Values
          /\ owner[block[t]] = key[t] /\ block[t] \in Range(values[key[t]])
          /\ \A u \in Thread : block[u] = block[t] => u = t
          /\ \A x \in KeyBlock, u \in Thread : Active(x) => tls[u][index[x]] # block[t]
          /\ \A x \in KeyBlock \ {key[t]} : block[t] \notin Range(values[x])
      BY <3>0 DEF LocalsHeld, KeyPC, FreePC, BlockPC, ActiveKeys, BlocksListed, Listed,
         OneHolder, TlsListed, TlsOwn, TlsAlone, ListsOwned, Active, TypeOK, Keys, Values
    <3>2. /\ values' \in [KeyBlock -> Seq(ValueBlock)]
          /\ \A x \in KeyBlock \ {key[t]} : values'[x] = values[x]
          /\ Distinct(values'[key[t]])
          /\ Range(values'[key[t]]) = Range(values[key[t]]) \ {block[t]}
      BY <2>8, <3>1, Unlinked DEF Unlink
    <3>10. \A x \in KeyBlock : Active(x)' <=> Active(x)
      BY <2>8 DEF Unlink, FreeValue, Return, Goto, TypeOK, Active, LocalsHeld,
         FreePC, KeyPC, BlockPC
    <3>11. \A x \in ValueBlock : InHand(x)' <=> InHand(x)
      BY <2>8 DEF Unlink, FreeValue, Return, Goto, TypeOK, InHand, OneHolder,
         Values
    <3>12. \A x \in Values \ {block[t]} : Listed(x)' <=> Listed(x)
      BY <2>0, <2>8, <3>1, <3>2 DEF Unlink, FreeValue, Return, TypeOK, Listed, Values, Keys,
         ValuesOwned
    <3>13. \A x \in ValueBlock : Called(x)' <=> Called(x)
      BY <2>8 DEF Unlink, FreeValue, Return, Goto, TypeOK, Called, OneHolder,
         Values
    <3>14. TypeOK'
      BY <2>0, <2>8, <3>1, <3>2 DEF Unlink, FreeValue, Return, Goto, TypeOK, PC, Keys, Values
    <3>15. LocalsHeld' /\ StoreCases'
      BY <2>8, <3>1 DEF Unlink, FreeValue, Return, Goto, TypeOK, LocalsHeld, KeyPC,
         FreePC, BlockPC, Keys, Values, StoreCases
    <3>16. FreedAlone' /\ OneHolder'
      BY <2>8 DEF Unlink, FreeValue, Return, Goto, TypeOK, FreedAlone,
         LocalsHeld, KeyPC, FreePC, BlockPC, Keys, Values, OneHolder
    <3>17. ActiveKeys'
      BY <2>8, <3>10 DEF Unlink, FreeValue, Return, Goto, TypeOK, ActiveKeys,
         LocalsHeld, KeyPC, FreePC, BlockPC, Keys
    <3>18. ListsOwned'
      BY <2>0, <2>8, <3>1, <3>2 DEF Unlink, FreeValue, Return, Goto, TypeOK, ListsOwned,
         LocalsHeld, KeyPC, FreePC, BlockPC, Keys, Values
    <3>19. ValuesOwned' /\ BlocksListed'
      BY <2>8, <3>1, <3>11, <3>12 DEF Unlink, FreeValue, Return, Goto, TypeOK,
         ValuesOwned, Keys, Values, BlocksListed, LocalsHeld, KeyPC, FreePC, BlockPC
    <3>20. TlsListed'
      BY <2>8, <3>1, <3>2, <3>10 DEF Unlink, FreeValue, Return, Goto, TypeOK, TlsListed, Keys,
         Values
    <3>21. TlsOwn'
      BY <2>8, <3>10 DEF Unlink, FreeValue, Return, Goto, TypeOK, TlsOwn,
         Keys, Values
    <3>22. TlsAlone'
      BY <2>8, <3>10 DEF Unlink, FreeValue, Return, Goto, TypeOK, TlsAlone,
         Keys, Values
    <3>23. ValuesReachable'
      BY <2>8, <3>10 DEF Unlink, FreeValue, Return, Goto, TypeOK,
         ValuesReachable, ActiveKeys, LocalsHeld, KeyPC, FreePC, BlockPC, Keys, Values
    <3>24. DataApart' /\ DataFresh' /\ DataCopied'
      BY <2>8, <3>1 DEF Unlink, FreeValue, Return, Goto, TypeOK, DataApart,
         DataFresh, Values, Stored, DataCopied, LocalsHeld, BlockPC
    <3>25. OwedExactly' /\ OwedHeld'
      BY <2>8, <3>1, <3>13 DEF Unlink, FreeValue, Return, Goto, TypeOK, OwedExactly,
         DataApart, DataFresh, DataCopied, Values, OwedHeld
    <3> QED BY <3>14, <3>15, <3>16, <3>17, <3>18, <3>19, <3>20, <3>21, <3>22, <3>23, <3>24,
       <3>25
  <2>9. ASSUME NEW t \in Thread, NEW i \in Index, FlsFree(t, i)
        PROVE  IInv'
    <3>0. pc[t] = "idle"
      BY <2>9 DEF FlsFree
    <3>1. PICK l \in fls_find_key(i) : /\ ~InUse(t, l) /\ fls_keys' = fls_keys \ {l}
                                       /\ key' = [key EXCEPT ![t] = l]
      BY <2>9 DEF FlsFree
    <3>2. /\ l \in fls_keys /\ l \in KeyBlock /\ l \in Keys /\ block[t] = NULL /\ key[t] = NULL
          /\ \A u \in Thread \ {t} : key[u] # l /\ (block[u] # NULL => owner[block[u]] # l)
      BY <2>9, <3>1 DEF FlsFree, fls_find_key, InUse, ActiveKeys, Active, TypeOK, LocalsHeld,
         KeyPC, FreePC, BlockPC
    <3>10. /\ \A x \in KeyBlock : Active(x)' <=> Active(x)
           /\ \A x \in ValueBlock : InHand(x)' <=> InHand(x)
           /\ \A x \in Values : Listed(x)' <=> Listed(x)
           /\ \A x \in ValueBlock : Called(x)' <=> Called(x)
      BY <2>9 DEF FlsFree, fls_find_key, InUse, heap, Goto, TypeOK, Active,
         LocalsHeld, FreePC, KeyPC, BlockPC, InHand, OneHolder, Values, Listed, Keys, ValuesOwned,
         Called
    <3>11. TypeOK'
      BY <2>9 DEF FlsFree, fls_find_key, InUse, heap, Goto, TypeOK, PC, Keys,
         Values
    <3>12. LocalsHeld' /\ StoreCases'
      BY <2>9 DEF FlsFree, fls_find_key, InUse, heap, Goto, TypeOK,
         LocalsHeld, KeyPC, FreePC, BlockPC, Keys, Values, StoreCases
    <3>13. FreedAlone' /\ OneHolder'
      BY <2>9 DEF FlsFree, fls_find_key, InUse, heap, Goto, TypeOK,
         FreedAlone, LocalsHeld, KeyPC, FreePC, BlockPC, Keys, Values, OneHolder
    <3>14. ActiveKeys'
      BY <2>9, <3>10 DEF FlsFree, fls_find_key, InUse, heap, Goto, TypeOK,
         ActiveKeys, LocalsHeld, KeyPC, FreePC, BlockPC, Keys
    <3>15. ListsOwned'
      BY <2>9 DEF FlsFree, fls_find_key, InUse, heap, Goto, TypeOK,
         ListsOwned, LocalsHeld, KeyPC, FreePC, BlockPC, Keys, Values
    <3>16. ValuesOwned' /\ BlocksListed'
      BY <2>9, <3>10 DEF FlsFree, fls_find_key, InUse, heap, Goto, TypeOK,
         ValuesOwned, Keys, Values, BlocksListed, LocalsHeld, KeyPC, FreePC, BlockPC
    <3>17. TlsListed' /\ TlsOwn' /\ TlsAlone'
      BY <2>9, <3>10 DEF FlsFree, fls_find_key, InUse, heap, Goto, TypeOK,
         TlsListed, Keys, Values, TlsOwn, TlsAlone
    <3>18. ValuesReachable'
      BY <2>9, <3>10 DEF FlsFree, fls_find_key, InUse, heap, Goto, TypeOK,
         ValuesReachable, ActiveKeys, LocalsHeld, KeyPC, FreePC, BlockPC, Keys, Values
    <3>19. DataApart' /\ DataFresh' /\ DataCopied'
      BY <2>9 DEF FlsFree, fls_find_key, InUse, heap, Goto, TypeOK, DataApart,
         DataFresh, Values, Stored, DataCopied, LocalsHeld, BlockPC
    <3>20. OwedExactly' /\ OwedHeld'
      BY <2>9, <3>10 DEF FlsFree, fls_find_key, InUse, heap, Goto, TypeOK,
         OwedExactly, DataApart, DataFresh, DataCopied, Values, OwedHeld
    <3> QED BY <3>11, <3>12, <3>13, <3>14, <3>15, <3>16, <3>17, <3>18, <3>19, <3>20
  <2>10. ASSUME NEW t \in Thread, KeyDelete(t)
        PROVE  IInv'
    <3>0. pc[t] = "f_delete"
      BY <2>10 DEF KeyDelete
    <3>1. /\ key[t] \in Keys /\ key[t] \notin fls_keys /\ Active(key[t]) /\ block[t] = NULL
          /\ index[key[t]] \in live
          /\ \A u \in Thread : key[u] = key[t] => u = t
          /\ \A u \in Thread : block[u] # NULL => owner[block[u]] # key[t]
          /\ \A x \in KeyBlock : Active(x) /\ index[x] = index[key[t]] => x = key[t]
      BY <3>0 DEF LocalsHeld, KeyPC, FreePC, BlockPC, ActiveKeys, FreedAlone, Active, TypeOK,
         Keys
    <3>5. CASE /\ live' = live \ {index[key[t]]} /\ block' = [block EXCEPT ![t] = NULL]
               /\ Goto(t, "f_walk") /\ UNCHANGED <<fls_keys, heap, values, tls, key, data, owed>>
      <4>10. /\ \A x \in KeyBlock : Active(x)' <=> Active(x) /\ x # key[t]
             /\ \A x \in ValueBlock : InHand(x)' <=> InHand(x)
             /\ \A x \in Values : Listed(x)' <=> Listed(x)
             /\ \A x \in ValueBlock : Called(x)' <=> Called(x)
        BY <2>0, <3>0, <3>5, <3>1 DEF heap, Goto, TypeOK, Active, LocalsHeld, FreePC, KeyPC,
           BlockPC, InHand, OneHolder, Values, Listed, Keys, ValuesOwned, Called
      <4>11. TypeOK'
        BY <3>5 DEF heap, Goto, TypeOK, PC, Keys, Values
      <4>12. LocalsHeld' /\ StoreCases'
        BY <2>0, <3>0, <3>5, <3>1 DEF heap, Goto, TypeOK, LocalsHeld, KeyPC, FreePC, BlockPC,
           Keys, Values, StoreCases
      <4>13. FreedAlone' /\ OneHolder'
        BY <2>0, <3>0, <3>5, <3>1 DEF heap, Goto, TypeOK, FreedAlone, LocalsHeld, KeyPC, FreePC,
           BlockPC, Keys, Values, OneHolder
      <4>14. ActiveKeys'
        BY <2>0, <3>0, <3>5, <3>1, <4>10 DEF heap, Goto, TypeOK, ActiveKeys, LocalsHeld, KeyPC,
           FreePC, BlockPC, Keys
      <4>15. ListsOwned'
        BY <3>5 DEF heap, Goto, TypeOK, ListsOwned, LocalsHeld, KeyPC, FreePC,
           BlockPC, Keys, Values
      <4>16. ValuesOwned' /\ BlocksListed'
        BY <3>5, <4>10 DEF heap, Goto, TypeOK, ValuesOwned, Keys, Values,
           BlocksListed, LocalsHeld, KeyPC, FreePC, BlockPC
      <4>17. TlsListed' /\ TlsOwn' /\ TlsAlone'
        BY <3>5, <4>10 DEF heap, Goto, TypeOK, TlsListed, Keys, Values,
           TlsOwn, TlsAlone
      <4>18. ValuesReachable'
        BY <2>0, <3>0, <3>5, <3>1, <4>10 DEF heap, Goto, TypeOK, ValuesReachable, ActiveKeys,
           LocalsHeld, KeyPC, FreePC, BlockPC, Keys, Values
      <4>19. DataApart' /\ DataFresh' /\ DataCopied'
        BY <3>5 DEF heap, Goto, TypeOK, DataApart, DataFresh, Values, Stored,
           DataCopied, LocalsHeld, BlockPC
      <4>20. OwedExactly' /\ OwedHeld'
        BY <3>5, <4>10 DEF heap, Goto, TypeOK, OwedExactly, DataApart,
           DataFresh, DataCopied, Values, OwedHeld
      <4> QED BY <4>11, <4>12, <4>13, <4>14, <4>15, <4>16, <4>17, <4>18, <4>19, <4>20
    <3>6. CASE /\ fls_keys' = fls_keys \cup {key[t]} /\ Return(t)
               /\ UNCHANGED <<heap, values, live, tls, owed>>
      <4>10. /\ \A x \in KeyBlock : Active(x)' <=> Active(x)
             /\ \A x \in ValueBlock : InHand(x)' <=> InHand(x)
             /\ \A x \in Values : Listed(x)' <=> Listed(x)
             /\ \A x \in ValueBlock : Called(x)' <=> Called(x)
        BY <2>0, <3>0, <3>6, <3>1 DEF Return, heap, Goto, TypeOK, Active, LocalsHeld, FreePC,
           KeyPC, BlockPC, InHand, OneHolder, Values, Listed, Keys, ValuesOwned, Called
      <4>11. TypeOK'
        BY <2>0, <3>0, <3>6, <3>1 DEF Return, heap, Goto, TypeOK, PC, Keys, Values
      <4>12. LocalsHeld' /\ StoreCases'
        BY <2>0, <3>0, <3>6, <3>1 DEF Return, heap, Goto, TypeOK, LocalsHeld, KeyPC, FreePC,
           BlockPC, Keys, Values, StoreCases
      <4>13. FreedAlone' /\ OneHolder'
        BY <3>6 DEF Return, heap, Goto, TypeOK, FreedAlone, LocalsHeld, KeyPC,
           FreePC, BlockPC, Keys, Values, OneHolder
      <4>14. ActiveKeys'
        BY <3>6, <4>10 DEF Return, heap, Goto, TypeOK, ActiveKeys, LocalsHeld,
           KeyPC, FreePC, BlockPC, Keys
      <4>15. ListsOwned'
        BY <3>6 DEF Return, heap, Goto, TypeOK, ListsOwned, LocalsHeld, KeyPC,
           FreePC, BlockPC, Keys, Values
      <4>16. ValuesOwned' /\ BlocksListed'
        BY <3>6, <4>10 DEF Return, heap, Goto, TypeOK, ValuesOwned, Keys,
           Values, BlocksListed, LocalsHeld, KeyPC, FreePC, BlockPC
      <4>17. TlsListed' /\ TlsOwn' /\ TlsAlone'
        BY <3>6, <4>10 DEF Return, heap, Goto, TypeOK, TlsListed, Keys,
           Values, TlsOwn, TlsAlone
      <4>18. ValuesReachable'
        BY <2>0, <3>0, <3>6, <3>1, <4>10 DEF Return, heap, Goto, TypeOK, ValuesReachable,
           ActiveKeys, LocalsHeld, KeyPC, FreePC, BlockPC, Keys, Values
      <4>19. DataApart' /\ DataFresh' /\ DataCopied'
        BY <3>6 DEF Return, heap, Goto, TypeOK, DataApart, DataFresh, Values,
           Stored, DataCopied, LocalsHeld, BlockPC
      <4>20. OwedExactly' /\ OwedHeld'
        BY <3>6, <4>10 DEF Return, heap, Goto, TypeOK, OwedExactly, DataApart,
           DataFresh, DataCopied, Values, OwedHeld
      <4> QED BY <4>11, <4>12, <4>13, <4>14, <4>15, <4>16, <4>17, <4>18, <4>19, <4>20
    <3> QED BY <2>10, <3>5, <3>6 DEF KeyDelete, heap
  <2>11. ASSUME NEW t \in Thread, Callback(t)
        PROVE  IInv'
    <3>0. pc[t] = "f_walk"
      BY <2>11 DEF Callback
    <3>1. /\ key[t] \in Keys /\ key[t] \notin fls_keys /\ ~Active(key[t]) /\ block[t] = NULL
          /\ \A u \in Thread : key[u] = key[t] => u = t
          /\ \A u \in Thread : block[u] # NULL => owner[block[u]] # key[t]
      BY <3>0 DEF LocalsHeld, KeyPC, FreePC, BlockPC, FreedAlone, Active, TypeOK, Keys
    <3>2. /\ values' \in [KeyBlock -> Seq(ValueBlock)]
          /\ \A x \in KeyBlock \ {key[t]} : values'[x] = values[x]
          /\ Distinct(values'[key[t]])
          /\ Range(values'[key[t]]) = Range(values[key[t]]) \ {block'[t]}
          /\ block'[t] \in Range(values[key[t]]) /\ block'[t] \in Values /\ owner[block'[t]] = key[t]
      <4>1. values[key[t]] \in Seq(ValueBlock) /\ Distinct(values[key[t]]) /\ values[key[t]] # <<>>
        BY <2>11, <3>1 DEF Callback, TypeOK, Keys, ListsOwned
      <4>2. LET s == values[key[t]] IN
            /\ Head(s) \in Elements(s) /\ Tail(s) \in Seq(ValueBlock) /\ Distinct(Tail(s))
            /\ Elements(Tail(s)) = Elements(s) \ {Head(s)}
        BY <4>1, TailElement
      <4>3. values'[key[t]] = Tail(values[key[t]]) /\ block'[t] = Head(values[key[t]])
        BY <2>11, <3>1 DEF Callback, TypeOK, Keys
      <4>4. block'[t] \in Range(values[key[t]])
        BY <4>2, <4>3 DEF Range, Elements
      <4>5. block'[t] \in Values /\ owner[block'[t]] = key[t]
        BY <4>4, <3>1 DEF ListsOwned, Keys
      <4>6. values' \in [KeyBlock -> Seq(ValueBlock)] /\ \A x \in KeyBlock \ {key[t]} : values'[x] = values[x]
        BY <2>11, <4>2 DEF Callback, TypeOK
      <4>7. \A s : Range(s) = Elements(s)
        BY DEF Range, Elements
      <4> QED BY <4>2, <4>3, <4>4, <4>5, <4>6, <4>7
    <3>3. /\ \A u \in Thread : block[u] # block'[t]
          /\ \A x \in KeyBlock, u \in Thread : Active(x) => tls[u][index[x]] # block'[t]
      <4>1. block'[t] # NULL
        BY <3>2 DEF Values
      <4> QED BY <2>0, <3>1, <3>2, <4>1 DEF Keys
    <3>10. /\ \A x \in KeyBlock : Active(x)' <=> Active(x)
           /\ \A x \in ValueBlock : InHand(x)' <=> InHand(x) \/ x = block'[t]
           /\ \A x \in Values : Listed(x)' <=> Listed(x) /\ x # block'[t]
           /\ \A x \in ValueBlock : Called(x)' <=> Called(x) \/ x = block'[t]
      BY <2>0, <2>11, <3>1, <3>2, <3>3 DEF Callback, heap, Goto, TypeOK, Active, LocalsHeld,
         FreePC, KeyPC, BlockPC, InHand, OneHolder, Values, Listed, Keys, ValuesOwned, Called
    <3>11. TypeOK'
      BY <2>0, <2>11, <3>1, <3>2, <3>3 DEF Callback, heap, Goto, TypeOK, PC, Keys, Values
    <3>12. LocalsHeld' /\ StoreCases'
      BY <2>0, <2>11, <3>1, <3>2, <3>3 DEF Callback, heap, Goto, TypeOK, LocalsHeld, KeyPC,
         FreePC, BlockPC, Keys, Values, StoreCases
    <3>13. FreedAlone' /\ OneHolder'
      BY <2>0, <2>11, <3>1, <3>2, <3>3 DEF Callback, heap, Goto, TypeOK, FreedAlone, LocalsHeld,
         KeyPC, FreePC, BlockPC, Keys, Values, OneHolder
    <3>14. ActiveKeys'
      BY <2>11, <3>3, <3>10 DEF Callback, heap, Goto, TypeOK, ActiveKeys,
         LocalsHeld, KeyPC, FreePC, BlockPC, Keys
    <3>15. ListsOwned'
      BY <2>0, <2>11, <3>1, <3>2, <3>3 DEF Callback, heap, Goto, TypeOK, ListsOwned, LocalsHeld,
         KeyPC, FreePC, BlockPC, Keys, Values
    <3>16. ValuesOwned' /\ BlocksListed'
      BY <2>0, <2>11, <3>1, <3>2, <3>3, <3>10 DEF Callback, heap, Goto, TypeOK, ValuesOwned,
         Keys, Values, BlocksListed, LocalsHeld, KeyPC, FreePC, BlockPC
    <3>17. TlsListed' /\ TlsOwn' /\ TlsAlone'
      BY <2>0, <2>11, <3>1, <3>2, <3>3, <3>10 DEF Callback, heap, Goto, TypeOK, TlsListed, Keys,
         Values, TlsOwn, TlsAlone
    <3>18. ValuesReachable'
      BY <2>0, <2>11, <3>1, <3>2, <3>3, <3>10 DEF Callback, heap, Goto, TypeOK, ValuesReachable,
         ActiveKeys, LocalsHeld, KeyPC, FreePC, BlockPC, Keys, Values
    <3>19. DataApart' /\ DataFresh' /\ DataCopied'
      BY <2>11, <3>3 DEF Callback, heap, Goto, TypeOK, DataApart, DataFresh,
         Values, Stored, DataCopied, LocalsHeld, BlockPC
    <3>20. OwedExactly' /\ OwedHeld'
      BY <2>0, <2>11, <3>1, <3>2, <3>3, <3>10 DEF Callback, heap, Goto, TypeOK, OwedExactly,
         DataApart, DataFresh, DataCopied, Values, OwedHeld
    <3> QED BY <3>11, <3>12, <3>13, <3>14, <3>15, <3>16, <3>17, <3>18, <3>19, <3>20
  <2>12. ASSUME NEW t \in Thread, Free(t)
        PROVE  IInv'
    <3>0. pc[t] = "f_free"
      BY <2>12 DEF Free
    <3>1. /\ key[t] \in Keys /\ key[t] \notin fls_keys /\ ~Active(key[t]) /\ block[t] \in Values
          /\ owner[block[t]] = key[t] /\ block[t] \notin Range(values[key[t]])
          /\ \A u \in Thread : block[u] = block[t] => u = t
          /\ \A x \in KeyBlock : block[t] \notin Range(values[x])
          /\ \A x \in KeyBlock, u \in Thread : Active(x) => tls[u][index[x]] # block[t]
      BY <3>0 DEF LocalsHeld, KeyPC, FreePC, BlockPC, FreedAlone, BlocksListed, Listed,
         OneHolder, TlsListed, TlsOwn, TlsAlone, ListsOwned, Active, TypeOK, Keys, Values
    <3>10. /\ \A x \in KeyBlock : Active(x)' <=> Active(x)
           /\ \A x \in ValueBlock : InHand(x)' <=> InHand(x) /\ x # block[t]
           /\ \A x \in Values \ {block[t]} : Listed(x)' <=> Listed(x)
           /\ \A x \in ValueBlock : Called(x)' <=> Called(x) /\ x # block[t]
      BY <2>12 DEF Free, FreeValue, Goto, TypeOK, Active, LocalsHeld, FreePC, KeyPC,
         BlockPC, InHand, OneHolder, Values, Listed, Keys, ValuesOwned, Called
    <3>11. TypeOK'
      BY <2>12 DEF Free, FreeValue, Goto, TypeOK, PC, Keys, Values
    <3>12. LocalsHeld' /\ StoreCases'
      BY <2>12, <3>1 DEF Free, FreeValue, Goto, TypeOK, LocalsHeld, KeyPC, FreePC,
         BlockPC, Keys, Values, StoreCases
    <3>13. FreedAlone' /\ OneHolder'
      BY <2>12 DEF Free, FreeValue, Goto, TypeOK, FreedAlone, LocalsHeld, KeyPC,
         FreePC, BlockPC, Keys, Values, OneHolder
    <3>14. ActiveKeys'
      BY <2>0, <2>12, <3>1, <3>10 DEF Free, FreeValue, Goto, TypeOK, ActiveKeys, LocalsHeld,
         KeyPC, FreePC, BlockPC, Keys
    <3>15. ListsOwned'
      BY <2>12, <3>1 DEF Free, FreeValue, Goto, TypeOK, ListsOwned, LocalsHeld, KeyPC,
         FreePC, BlockPC, Keys, Values
    <3>16. ValuesOwned' /\ BlocksListed'
      BY <2>0, <2>12, <3>1, <3>10 DEF Free, FreeValue, Goto, TypeOK, ValuesOwned, Keys, Values,
         BlocksListed, LocalsHeld, KeyPC, FreePC, BlockPC
    <3>17. TlsListed' /\ TlsOwn' /\ TlsAlone'
      BY <2>0, <2>12, <3>1, <3>10 DEF Free, FreeValue, Goto, TypeOK, TlsListed, Keys, Values,
         TlsOwn, TlsAlone
    <3>18. ValuesReachable'
      BY <2>0, <2>12, <3>1, <3>10 DEF Free, FreeValue, Goto, TypeOK, ValuesReachable,
         ActiveKeys, LocalsHeld, KeyPC, FreePC, BlockPC, Keys, Values
    <3>19. DataApart' /\ DataFresh' /\ DataCopied'
      BY <2>12, <3>1 DEF Free, FreeValue, Goto, TypeOK, DataApart, DataFresh, Values,
         Stored, DataCopied, LocalsHeld, BlockPC
    <3>20. OwedExactly'
      BY <2>0, <2>12, <3>1, <3>10 DEF Free, FreeValue, Goto, TypeOK, OwedExactly, DataApart,
         DataFresh, DataCopied, Values
    <3>21. OwedHeld'
      <4>1. value[block[t]] \notin owed
        BY <3>0, <3>1 DEF OwedExactly, Called
      <4>2. /\ owed' = owed /\ Values' = Values \ {block[t]}
            /\ \A w \in Values \ {block[t]} : value'[w] = value[w]
        BY <2>12 DEF Free, FreeValue, Values, TypeOK
      <4> QED BY <4>1, <4>2 DEF OwedHeld
    <3> QED BY <3>11, <3>12, <3>13, <3>14, <3>15, <3>16, <3>17, <3>18, <3>19, <3>20, <3>21
  <2>13. ASSUME NEW t \in Thread, FreeDone(t)
        PROVE  IInv'
    <3>0. pc[t] = "f_walk"
      BY <2>13 DEF FreeDone
    <3>1. /\ key[t] \in Keys /\ key[t] \notin fls_keys /\ ~Active(key[t]) /\ block[t] = NULL
          /\ \A u \in Thread : key[u] = key[t] => u = t
          /\ \A u \in Thread : block[u] # NULL => owner[block[u]] # key[t]
      BY <3>0 DEF LocalsHeld, KeyPC, FreePC, BlockPC, FreedAlone, Active, TypeOK, Keys
    <3>2. Range(<<>>) = {}
      BY DEF Range
    <3>3. \A v \in Values : owner[v] # key[t]
      <4> SUFFICES ASSUME NEW v \in Values, owner[v] = key[t] PROVE FALSE
        OBVIOUS
      <4>1. ~Listed(v) /\ v # NULL
        BY <2>13, <3>2 DEF FreeDone, Listed, Values
      <4>2. PICK u \in Thread : block[u] = v
        BY <4>1 DEF ValuesOwned, InHand
      <4> QED BY <3>1, <4>1, <4>2
    <3>10. /\ \A x \in KeyBlock : Active(x)' <=> Active(x)
           /\ \A x \in ValueBlock : InHand(x)' <=> InHand(x)
           /\ \A x \in Values : Listed(x)' <=> Listed(x)
           /\ \A x \in ValueBlock : Called(x)' <=> Called(x)
      BY <2>13, <3>3 DEF FreeDone, FreeKey, Return, Goto, TypeOK, Active,
         LocalsHeld, FreePC, KeyPC, BlockPC, InHand, OneHolder, Values, Listed, Keys, ValuesOwned,
         Called
    <3>11. TypeOK'
      BY <2>13, <3>3 DEF FreeDone, FreeKey, Return, Goto, TypeOK, PC, Keys,
         Values
    <3>12. LocalsHeld' /\ StoreCases'
      BY <2>13, <3>1, <3>3 DEF FreeDone, FreeKey, Return, Goto, TypeOK, LocalsHeld,
         KeyPC, FreePC, BlockPC, Keys, Values, StoreCases
    <3>13. FreedAlone' /\ OneHolder'
      BY <2>13, <3>3 DEF FreeDone, FreeKey, Return, Goto, TypeOK, FreedAlone,
         LocalsHeld, KeyPC, FreePC, BlockPC, Keys, Values, OneHolder
    <3>14. ActiveKeys'
      BY <2>13, <3>1, <3>3, <3>10 DEF FreeDone, FreeKey, Return, Goto, TypeOK,
         ActiveKeys, LocalsHeld, KeyPC, FreePC, BlockPC, Keys
    <3>15. ListsOwned'
      BY <2>13, <3>3 DEF FreeDone, FreeKey, Return, Goto, TypeOK, ListsOwned,
         LocalsHeld, KeyPC, FreePC, BlockPC, Keys, Values
    <3>16. ValuesOwned' /\ BlocksListed'
      BY <2>13, <3>3, <3>10 DEF FreeDone, FreeKey, Return, Goto, TypeOK,
         ValuesOwned, Keys, Values, BlocksListed, LocalsHeld, KeyPC, FreePC, BlockPC
    <3>17. TlsListed' /\ TlsOwn' /\ TlsAlone'
      BY <2>13, <3>1, <3>3, <3>10 DEF FreeDone, FreeKey, Return, Goto, TypeOK,
         TlsListed, Keys, Values, TlsOwn, TlsAlone
    <3>18. ValuesReachable'
      <4>1. Values' = Values /\ owner' = owner /\ block' = block /\ tls' = tls
        BY <2>13, <3>1 DEF FreeDone, FreeKey, Return, Values, TypeOK
      <4>2. \A v \in Values : owner[v] \in KeyBlock /\ index'[owner[v]] = index[owner[v]]
        BY <2>13, <3>3 DEF FreeDone, FreeKey, ValuesOwned, Keys, TypeOK
      <4> QED BY <3>10, <4>1, <4>2 DEF ValuesReachable
    <3>19. DataApart' /\ DataFresh' /\ DataCopied'
      BY <2>13, <3>3 DEF FreeDone, FreeKey, Return, Goto, TypeOK, DataApart,
         DataFresh, Values, Stored, DataCopied, LocalsHeld, BlockPC
    <3>20. OwedExactly' /\ OwedHeld'
      BY <2>13, <3>3, <3>10 DEF FreeDone, FreeKey, Return, Goto, TypeOK,
         OwedExactly, DataApart, DataFresh, DataCopied, Values, OwedHeld
    <3> QED BY <3>11, <3>12, <3>13, <3>14, <3>15, <3>16, <3>17, <3>18, <3>19, <3>20
  <2>14. ASSUME NEW t \in Thread, ThreadExit(t)
        PROVE  IInv'
    <3>10. /\ \A x \in KeyBlock : Active(x)' <=> Active(x)
           /\ \A x \in ValueBlock : InHand(x)' <=> InHand(x)
           /\ \A x \in Values : Listed(x)' <=> Listed(x)
           /\ \A x \in ValueBlock : Called(x)' <=> Called(x)
      BY <2>14 DEF ThreadExit, heap, locals, Goto, TypeOK, Active, LocalsHeld, FreePC,
         KeyPC, BlockPC, InHand, OneHolder, Values, Listed, Keys, ValuesOwned, Called
    <3>11. TypeOK'
      BY <2>14 DEF ThreadExit, heap, locals, Goto, TypeOK, PC, Keys, Values
    <3>12. LocalsHeld' /\ StoreCases'
      BY <2>14 DEF ThreadExit, heap, locals, Goto, TypeOK, LocalsHeld, KeyPC, FreePC,
         BlockPC, Keys, Values, StoreCases
    <3>13. FreedAlone' /\ OneHolder'
      BY <2>14 DEF ThreadExit, heap, locals, Goto, TypeOK, FreedAlone, LocalsHeld, KeyPC,
         FreePC, BlockPC, Keys, Values, OneHolder
    <3>14. ActiveKeys'
      BY <2>14, <3>10 DEF ThreadExit, heap, locals, Goto, TypeOK, ActiveKeys, LocalsHeld,
         KeyPC, FreePC, BlockPC, Keys
    <3>15. ListsOwned'
      BY <2>14 DEF ThreadExit, heap, locals, Goto, TypeOK, ListsOwned, LocalsHeld, KeyPC,
         FreePC, BlockPC, Keys, Values
    <3>16. ValuesOwned' /\ BlocksListed'
      BY <2>14, <3>10 DEF ThreadExit, heap, locals, Goto, TypeOK, ValuesOwned, Keys,
         Values, BlocksListed, LocalsHeld, KeyPC, FreePC, BlockPC
    <3>17. TlsListed' /\ TlsOwn' /\ TlsAlone'
      BY <2>14, <3>10 DEF ThreadExit, heap, locals, Goto, TypeOK, TlsListed, Keys, Values,
         TlsOwn, TlsAlone
    <3>18. ValuesReachable'
      BY <2>14, <3>10 DEF ThreadExit, heap, locals, Goto, TypeOK, ValuesReachable,
         ActiveKeys, LocalsHeld, KeyPC, FreePC, BlockPC, Keys, Values
    <3>19. DataApart' /\ DataFresh' /\ DataCopied'
      BY <2>14 DEF ThreadExit, heap, locals, Goto, TypeOK, DataApart, DataFresh, Values,
         Stored, DataCopied, LocalsHeld, BlockPC
    <3>20. OwedExactly' /\ OwedHeld'
      BY <2>14, <3>10 DEF ThreadExit, heap, locals, Goto, TypeOK, OwedExactly, DataApart,
         DataFresh, DataCopied, Values, OwedHeld
    <3> QED BY <3>11, <3>12, <3>13, <3>14, <3>15, <3>16, <3>17, <3>18, <3>19, <3>20
  <2>15. ASSUME NEW t \in Thread, NEW i \in Index, TakeValue(t, i)
        PROVE  IInv'
    <3>0. pc[t] = "x_run"
      BY <2>15 DEF TakeValue
    <3>1. PICK k \in KeyBlock : Active(k) /\ index[k] = i /\ k \in fls_keys
      BY <2>15 DEF TakeValue, BeingFreed, ActiveKeys, Active
    <3>2. /\ key[t] = NULL /\ block[t] = NULL
          /\ \A x \in KeyBlock : Active(x) /\ index[x] = i => x = k
          /\ tls[t][i] \in ValueBlock /\ Listed(tls[t][i]) /\ tls[t][i] \in Range(values[k])
          /\ tls[t][i] \in Values /\ owner[tls[t][i]] = k /\ tls[t][i] # NULL
      BY <2>0, <2>15, <3>0, <3>1 DEF TakeValue, LocalsHeld, KeyPC, FreePC, BlockPC, ActiveKeys,
         TlsListed, Listed, Values
    <3>3. /\ \A x \in KeyBlock, u \in Thread : Active(x) /\ tls[u][index[x]] = tls[t][i] => x = k /\ u = t
          /\ \A u \in Thread : block[u] # tls[t][i]
      BY <2>0, <3>0, <3>1, <3>2 DEF TlsOwn, TlsAlone
    <3>10. /\ \A x \in KeyBlock : Active(x)' <=> Active(x)
           /\ \A x \in ValueBlock : InHand(x)' <=> InHand(x)
           /\ \A x \in Values : Listed(x)' <=> Listed(x)
           /\ \A x \in ValueBlock : Called(x)' <=> Called(x)
      BY <2>15, <3>3 DEF TakeValue, BeingFreed, heap, Goto, TypeOK, Active,
         LocalsHeld, FreePC, KeyPC, BlockPC, InHand, OneHolder, Values, Listed, Keys, ValuesOwned,
         Called
    <3>11. TypeOK'
      BY <2>15, <3>3 DEF TakeValue, BeingFreed, heap, Goto, TypeOK, PC, Keys,
         Values
    <3>12. LocalsHeld' /\ StoreCases'
      BY <2>0, <2>15, <3>1, <3>2, <3>3 DEF TakeValue, BeingFreed, heap, Goto, TypeOK,
         LocalsHeld, KeyPC, FreePC, BlockPC, Keys, Values, StoreCases
    <3>13. FreedAlone' /\ OneHolder'
      BY <2>0, <2>15, <3>1, <3>2, <3>3 DEF TakeValue, BeingFreed, heap, Goto, TypeOK,
         FreedAlone, LocalsHeld, KeyPC, FreePC, BlockPC, Keys, Values, OneHolder
    <3>14. ActiveKeys'
      BY <2>15, <3>3, <3>10 DEF TakeValue, BeingFreed, heap, Goto, TypeOK,
         ActiveKeys, LocalsHeld, KeyPC, FreePC, BlockPC, Keys
    <3>15. ListsOwned'
      BY <2>15, <3>3 DEF TakeValue, BeingFreed, heap, Goto, TypeOK,
         ListsOwned, LocalsHeld, KeyPC, FreePC, BlockPC, Keys, Values
    <3>16. ValuesOwned' /\ BlocksListed'
      BY <2>0, <2>15, <3>1, <3>2, <3>3, <3>10 DEF TakeValue, BeingFreed, heap, Goto, TypeOK,
         ValuesOwned, Keys, Values, BlocksListed, LocalsHeld, KeyPC, FreePC, BlockPC
    <3>17. TlsListed' /\ TlsOwn' /\ TlsAlone'
      BY <2>15, <3>1, <3>3, <3>10 DEF TakeValue, BeingFreed, heap, Goto, TypeOK,
         TlsListed, Keys, Values, TlsOwn, TlsAlone
    <3>18. ValuesReachable'
      BY <2>15, <3>1, <3>3, <3>10 DEF TakeValue, BeingFreed, heap, Goto, TypeOK,
         ValuesReachable, ActiveKeys, LocalsHeld, KeyPC, FreePC, BlockPC, Keys, Values
    <3>19. DataApart' /\ DataFresh' /\ DataCopied'
      BY <2>15, <3>3 DEF TakeValue, BeingFreed, heap, Goto, TypeOK, DataApart,
         DataFresh, Values, Stored, DataCopied, LocalsHeld, BlockPC
    <3>20. OwedExactly' /\ OwedHeld'
      BY <2>15, <3>3, <3>10 DEF TakeValue, BeingFreed, heap, Goto, TypeOK,
         OwedExactly, DataApart, DataFresh, DataCopied, Values, OwedHeld
    <3> QED BY <3>11, <3>12, <3>13, <3>14, <3>15, <3>16, <3>17, <3>18, <3>19, <3>20
  <2>16. ASSUME NEW t \in Thread, fls_destroy_value(t)
        PROVE  IInv'
    <3>0. pc[t] = "x_destroy"
      BY <2>16 DEF fls_destroy_value
    <3>1. /\ owner[block[t]] \in fls_keys /\ owner[block[t]] \in Keys /\ Active(owner[block[t]])
          /\ block[t] \in Values /\ key[t] = NULL /\ block[t] \in Range(values[owner[block[t]]])
      BY <3>0 DEF LocalsHeld, KeyPC, FreePC, BlockPC, ActiveKeys, Active, BlocksListed, Listed,
         TypeOK
    <3>3. /\ \A u \in Thread : block[u] = block[t] => u = t
          /\ \A x \in KeyBlock, u \in Thread : Active(x) => tls[u][index[x]] # block[t]
          /\ \A x \in KeyBlock \ {owner[block[t]]} : block[t] \notin Range(values[x])
      BY <3>0, <3>1 DEF OneHolder, TlsAlone, ListsOwned, Values
    <3>2. /\ values' \in [KeyBlock -> Seq(ValueBlock)]
          /\ \A x \in KeyBlock \ {owner[block[t]]} : values'[x] = values[x]
          /\ Distinct(values'[owner[block[t]]])
          /\ Range(values'[owner[block[t]]]) = Range(values[owner[block[t]]]) \ {block[t]}
      BY <2>16, <3>1, Unlinked DEF fls_destroy_value
    <3>10. \A x \in KeyBlock : Active(x)' <=> Active(x)
      BY <2>16, <3>3 DEF fls_destroy_value, heap, Goto, TypeOK, Active,
         LocalsHeld, FreePC, KeyPC, BlockPC
    <3>11. \A x \in ValueBlock : InHand(x)' <=> InHand(x) \/ x = block[t]
      BY <2>16, <3>3 DEF fls_destroy_value, heap, Goto, TypeOK, InHand,
         OneHolder, Values
    <3>12. \A x \in Values : Listed(x)' <=> Listed(x) /\ x # block[t]
      BY <2>0, <2>16, <3>1, <3>2, <3>3 DEF fls_destroy_value, heap, TypeOK, Listed, Values,
         Keys, ValuesOwned
    <3>13. \A x \in ValueBlock : Called(x)' <=> Called(x)
      BY <2>16, <3>3 DEF fls_destroy_value, heap, Goto, TypeOK, Called,
         OneHolder, Values
    <3>14. TypeOK'
      BY <2>0, <2>16, <3>1, <3>2, <3>3 DEF fls_destroy_value, heap, Goto, TypeOK, PC, Keys,
         Values
    <3>15. LocalsHeld' /\ StoreCases'
      BY <2>16, <3>3 DEF fls_destroy_value, heap, Goto, TypeOK, LocalsHeld,
         KeyPC, FreePC, BlockPC, Keys, Values, StoreCases
    <3>16. FreedAlone' /\ OneHolder'
      BY <2>16, <3>3 DEF fls_destroy_value, heap, Goto, TypeOK, FreedAlone,
         LocalsHeld, KeyPC, FreePC, BlockPC, Keys, Values, OneHolder
    <3>17. ActiveKeys'
      BY <2>16, <3>3, <3>10 DEF fls_destroy_value, heap, Goto, TypeOK,
         ActiveKeys, LocalsHeld, KeyPC, FreePC, BlockPC, Keys
    <3>18. ListsOwned'
      BY <2>0, <2>16, <3>1, <3>2, <3>3 DEF fls_destroy_value, heap, Goto, TypeOK, ListsOwned,
         LocalsHeld, KeyPC, FreePC, BlockPC, Keys, Values
    <3>19. ValuesOwned' /\ BlocksListed'
      BY <2>16, <3>3, <3>11, <3>12 DEF fls_destroy_value, heap, Goto, TypeOK,
         ValuesOwned, Keys, Values, BlocksListed, LocalsHeld, KeyPC, FreePC, BlockPC
    <3>20. TlsListed'
      BY <2>16, <3>1, <3>2, <3>3, <3>10 DEF fls_destroy_value, heap, Goto, TypeOK, TlsListed,
         Keys, Values
    <3>21. TlsOwn'
      BY <2>16, <3>3, <3>10 DEF fls_destroy_value, heap, Goto, TypeOK, TlsOwn,
         Keys, Values
    <3>22. TlsAlone'
      BY <2>16, <3>3, <3>10 DEF fls_destroy_value, heap, Goto, TypeOK,
         TlsAlone, Keys, Values
    <3>23. ValuesReachable'
      BY <2>16, <3>3, <3>10 DEF fls_destroy_value, heap, Goto, TypeOK,
         ValuesReachable, ActiveKeys, LocalsHeld, KeyPC, FreePC, BlockPC, Keys, Values
    <3>24. DataApart' /\ DataFresh' /\ DataCopied'
      BY <2>16, <3>3 DEF fls_destroy_value, heap, Goto, TypeOK, DataApart,
         DataFresh, Values, Stored, DataCopied, LocalsHeld, BlockPC
    <3>25. OwedExactly' /\ OwedHeld'
      BY <2>16, <3>3, <3>13 DEF fls_destroy_value, heap, Goto, TypeOK,
         OwedExactly, DataApart, DataFresh, DataCopied, Values, OwedHeld
    <3> QED BY <3>14, <3>15, <3>16, <3>17, <3>18, <3>19, <3>20, <3>21, <3>22, <3>23, <3>24,
       <3>25
  <2>17. ASSUME NEW t \in Thread, FreeAndCall(t)
        PROVE  IInv'
    <3>0. pc[t] = "x_free"
      BY <2>17 DEF FreeAndCall
    <3>1. /\ key[t] \in Keys /\ key[t] \in fls_keys /\ Active(key[t]) /\ block[t] \in Values
          /\ owner[block[t]] = key[t] /\ block[t] \notin Range(values[key[t]])
          /\ \A u \in Thread : block[u] = block[t] => u = t
          /\ \A x \in KeyBlock : block[t] \notin Range(values[x])
          /\ \A x \in KeyBlock, u \in Thread : Active(x) => tls[u][index[x]] # block[t]
      BY <3>0 DEF LocalsHeld, KeyPC, FreePC, BlockPC, ActiveKeys, BlocksListed, Listed,
         OneHolder, TlsListed, TlsOwn, TlsAlone, ListsOwned, Active, TypeOK, Keys, Values
    <3>10. /\ \A x \in KeyBlock : Active(x)' <=> Active(x)
           /\ \A x \in ValueBlock : InHand(x)' <=> InHand(x) /\ x # block[t]
           /\ \A x \in Values \ {block[t]} : Listed(x)' <=> Listed(x)
           /\ \A x \in ValueBlock : Called(x)' <=> Called(x)
      BY <2>17 DEF FreeAndCall, FreeValue, Goto, TypeOK, Active, LocalsHeld, FreePC,
         KeyPC, BlockPC, InHand, OneHolder, Values, Listed, Keys, ValuesOwned, Called
    <3>11. TypeOK'
      BY <2>17 DEF FreeAndCall, FreeValue, Goto, TypeOK, PC, Keys, Values
    <3>12. LocalsHeld' /\ StoreCases'
      BY <2>17, <3>1 DEF FreeAndCall, FreeValue, Goto, TypeOK, LocalsHeld, KeyPC, FreePC,
         BlockPC, Keys, Values, StoreCases
    <3>13. FreedAlone' /\ OneHolder'
      BY <2>17 DEF FreeAndCall, FreeValue, Goto, TypeOK, FreedAlone, LocalsHeld,
         KeyPC, FreePC, BlockPC, Keys, Values, OneHolder
    <3>14. ActiveKeys'
      BY <2>0, <2>17, <3>1, <3>10 DEF FreeAndCall, FreeValue, Goto, TypeOK, ActiveKeys,
         LocalsHeld, KeyPC, FreePC, BlockPC, Keys
    <3>15. ListsOwned'
      BY <2>17, <3>1 DEF FreeAndCall, FreeValue, Goto, TypeOK, ListsOwned, LocalsHeld,
         KeyPC, FreePC, BlockPC, Keys, Values
    <3>16. ValuesOwned' /\ BlocksListed'
      BY <2>0, <2>17, <3>1, <3>10 DEF FreeAndCall, FreeValue, Goto, TypeOK, ValuesOwned, Keys,
         Values, BlocksListed, LocalsHeld, KeyPC, FreePC, BlockPC
    <3>17. TlsListed' /\ TlsOwn' /\ TlsAlone'
      BY <2>0, <2>17, <3>1, <3>10 DEF FreeAndCall, FreeValue, Goto, TypeOK, TlsListed, Keys,
         Values, TlsOwn, TlsAlone
    <3>18. ValuesReachable'
      BY <2>0, <2>17, <3>1, <3>10 DEF FreeAndCall, FreeValue, Goto, TypeOK, ValuesReachable,
         ActiveKeys, LocalsHeld, KeyPC, FreePC, BlockPC, Keys, Values
    <3>19. DataApart' /\ DataFresh' /\ DataCopied'
      BY <2>17, <3>1 DEF FreeAndCall, FreeValue, Goto, TypeOK, DataApart, DataFresh,
         Values, Stored, DataCopied, LocalsHeld, BlockPC
    <3>20. OwedExactly' /\ OwedHeld'
      BY <2>0, <2>17, <3>1, <3>10 DEF FreeAndCall, FreeValue, Goto, TypeOK, OwedExactly,
         DataApart, DataFresh, DataCopied, Values, OwedHeld
    <3> QED BY <3>11, <3>12, <3>13, <3>14, <3>15, <3>16, <3>17, <3>18, <3>19, <3>20
  <2>18. ASSUME NEW t \in Thread, Exited(t)
        PROVE  IInv'
    <3>10. /\ \A x \in KeyBlock : Active(x)' <=> Active(x)
           /\ \A x \in ValueBlock : InHand(x)' <=> InHand(x)
           /\ \A x \in Values : Listed(x)' <=> Listed(x)
           /\ \A x \in ValueBlock : Called(x)' <=> Called(x)
      BY <2>18 DEF Exited, heap, locals, Goto, TypeOK, Active, LocalsHeld, FreePC, KeyPC,
         BlockPC, InHand, OneHolder, Values, Listed, Keys, ValuesOwned, Called
    <3>11. TypeOK'
      BY <2>18 DEF Exited, heap, locals, Goto, TypeOK, PC, Keys, Values
    <3>12. LocalsHeld' /\ StoreCases'
      BY <2>18 DEF Exited, heap, locals, Goto, TypeOK, LocalsHeld, KeyPC, FreePC, BlockPC,
         Keys, Values, StoreCases
    <3>13. FreedAlone' /\ OneHolder'
      BY <2>18 DEF Exited, heap, locals, Goto, TypeOK, FreedAlone, LocalsHeld, KeyPC,
         FreePC, BlockPC, Keys, Values, OneHolder
    <3>14. ActiveKeys'
      BY <2>18, <3>10 DEF Exited, heap, locals, Goto, TypeOK, ActiveKeys, LocalsHeld,
         KeyPC, FreePC, BlockPC, Keys
    <3>15. ListsOwned'
      BY <2>18 DEF Exited, heap, locals, Goto, TypeOK, ListsOwned, LocalsHeld, KeyPC,
         FreePC, BlockPC, Keys, Values
    <3>16. ValuesOwned' /\ BlocksListed'
      BY <2>18, <3>10 DEF Exited, heap, locals, Goto, TypeOK, ValuesOwned, Keys, Values,
         BlocksListed, LocalsHeld, KeyPC, FreePC, BlockPC
    <3>17. TlsListed' /\ TlsOwn' /\ TlsAlone'
      BY <2>0, <2>18, <3>10 DEF Exited, heap, locals, Goto, TypeOK, TlsListed, Keys, Values,
         TlsOwn, TlsAlone
    <3>18. ValuesReachable'
      BY <2>18, <3>10 DEF Exited, heap, locals, Goto, TypeOK, ValuesReachable, ActiveKeys,
         LocalsHeld, KeyPC, FreePC, BlockPC, Keys, Values
    <3>19. DataApart' /\ DataFresh' /\ DataCopied'
      BY <2>18 DEF Exited, heap, locals, Goto, TypeOK, DataApart, DataFresh, Values,
         Stored, DataCopied, LocalsHeld, BlockPC
    <3>20. OwedExactly' /\ OwedHeld'
      BY <2>18, <3>10 DEF Exited, heap, locals, Goto, TypeOK, OwedExactly, DataApart,
         DataFresh, DataCopied, Values, OwedHeld
    <3> QED BY <3>11, <3>12, <3>13, <3>14, <3>15, <3>16, <3>17, <3>18, <3>19, <3>20
  <2>19. ASSUME NEW t \in Thread, CreateThread(t)
        PROVE  IInv'
    <3>10. /\ \A x \in KeyBlock : Active(x)' <=> Active(x)
           /\ \A x \in ValueBlock : InHand(x)' <=> InHand(x)
           /\ \A x \in Values : Listed(x)' <=> Listed(x)
           /\ \A x \in ValueBlock : Called(x)' <=> Called(x)
      BY <2>19 DEF CreateThread, heap, locals, Goto, TypeOK, Active, LocalsHeld, FreePC,
         KeyPC, BlockPC, InHand, OneHolder, Values, Listed, Keys, ValuesOwned, Called
    <3>11. TypeOK'
      BY <2>19 DEF CreateThread, heap, locals, Goto, TypeOK, PC, Keys, Values
    <3>12. LocalsHeld' /\ StoreCases'
      BY <2>19 DEF CreateThread, heap, locals, Goto, TypeOK, LocalsHeld, KeyPC, FreePC,
         BlockPC, Keys, Values, StoreCases
    <3>13. FreedAlone' /\ OneHolder'
      BY <2>19 DEF CreateThread, heap, locals, Goto, TypeOK, FreedAlone, LocalsHeld,
         KeyPC, FreePC, BlockPC, Keys, Values, OneHolder
    <3>14. ActiveKeys'
      BY <2>19, <3>10 DEF CreateThread, heap, locals, Goto, TypeOK, ActiveKeys,
         LocalsHeld, KeyPC, FreePC, BlockPC, Keys
    <3>15. ListsOwned'
      BY <2>19 DEF CreateThread, heap, locals, Goto, TypeOK, ListsOwned, LocalsHeld,
         KeyPC, FreePC, BlockPC, Keys, Values
    <3>16. ValuesOwned' /\ BlocksListed'
      BY <2>19, <3>10 DEF CreateThread, heap, locals, Goto, TypeOK, ValuesOwned, Keys,
         Values, BlocksListed, LocalsHeld, KeyPC, FreePC, BlockPC
    <3>17. TlsListed' /\ TlsOwn' /\ TlsAlone'
      BY <2>19, <3>10 DEF CreateThread, heap, locals, Goto, TypeOK, TlsListed, Keys,
         Values, TlsOwn, TlsAlone
    <3>18. ValuesReachable'
      BY <2>19, <3>10 DEF CreateThread, heap, locals, Goto, TypeOK, ValuesReachable,
         ActiveKeys, LocalsHeld, KeyPC, FreePC, BlockPC, Keys, Values
    <3>19. DataApart' /\ DataFresh' /\ DataCopied'
      BY <2>19 DEF CreateThread, heap, locals, Goto, TypeOK, DataApart, DataFresh, Values,
         Stored, DataCopied, LocalsHeld, BlockPC
    <3>20. OwedExactly' /\ OwedHeld'
      BY <2>19, <3>10 DEF CreateThread, heap, locals, Goto, TypeOK, OwedExactly,
         DataApart, DataFresh, DataCopied, Values, OwedHeld
    <3> QED BY <3>11, <3>12, <3>13, <3>14, <3>15, <3>16, <3>17, <3>18, <3>19, <3>20
  <2>20. CASE UNCHANGED vars
    BY <2>20 DEF vars, heap, locals, TypeOK, LocalsHeld, FreedAlone, ActiveKeys, ListsOwned,
       ValuesOwned, BlocksListed, Listed, OneHolder, TlsListed, TlsOwn, TlsAlone, StoreCases,
       ValuesReachable, Active, InHand, Keys, Values,
       Listed, OneHolder, TlsOwn, TlsAlone, DataApart, DataFresh, DataCopied, OwedExactly,
       OwedHeld, Called
  <2> QED
    BY <2>1, <2>2, <2>3, <2>4, <2>5, <2>6, <2>7, <2>8, <2>9, <2>10, <2>11, <2>12, <2>13, <2>14,
       <2>15, <2>16, <2>17, <2>18, <2>19, <2>20
       DEF Next, SetValueStep, FreeStep, ExitStep
<1> QED BY <1>1, <1>2, PTL DEF Spec

\* Every variable keeps its type.
THEOREM FlsTyping == Spec => []TypeOK
  <1>1. IInv => TypeOK
    BY DEF IInv
  <1> QED BY <1>1, InvariantIInv, PTL

\* No thread ever touches a freed key or value block: the keys and blocks it works
\* with stay allocated from one locked section to the next, also while FlsFree
\* walks its list without the lock.
THEOREM NoBlockUsedAfterFree == Spec => []NoUseAfterFree
  <1>1. ASSUME IInv PROVE NoUseAfterFree
    <2> USE <1>1, ConstantsAssumption DEF IInv
    <2> SUFFICES ASSUME NEW t \in Thread PROVE KeyAt(t) \subseteq Keys /\ ValueAt(t) \subseteq Values
      BY DEF NoUseAfterFree, Stale
    <2>1. fls_keys \subseteq Keys
      BY DEF ActiveKeys, Active, TypeOK
    <2>2. pc[t] \in KeyPC \cup FreePC => key[t] \in Keys /\ key[t] \in KeyBlock
      BY <2>1 DEF LocalsHeld, Keys
    <2>3. KeyAt(t) \subseteq Keys
      <3>1. CASE pc[t] \in {"s_get", "s_link", "s_set", "f_delete", "f_walk", "f_free"}
        BY <2>2, <3>1 DEF KeyAt, KeyPC, FreePC
      <3>2. CASE pc[t] \in {"s_unlink", "x_destroy"}
        BY <3>2 DEF KeyAt, LocalsHeld, BlockPC, ValuesOwned
      <3>3. CASE pc[t] \in {"idle", "x_run", "x_free", "exited"}
        BY <3>3 DEF KeyAt
      <3> QED BY <3>1, <3>2, <3>3 DEF TypeOK, PC
    <2>4. ValueAt(t) \subseteq Values
      <3>1. CASE pc[t] = "s_get"
        <4>1. Active(key[t])
          BY <3>1 DEF LocalsHeld, KeyPC, Active
        <4> QED BY <2>2, <3>1, <4>1 DEF ValueAt, KeyPC, TlsListed, ListsOwned
      <3>2. CASE pc[t] = "f_walk"
        BY <2>2, <3>2 DEF ValueAt, FreePC, ListsOwned
      <3>3. CASE pc[t] \in {"s_link", "s_set", "s_unlink", "f_free", "x_destroy", "x_free"}
        BY <3>3 DEF ValueAt, LocalsHeld, BlockPC
      <3>4. CASE pc[t] \in {"idle", "f_delete", "x_run", "exited"}
        BY <3>4 DEF ValueAt
      <3> QED BY <3>1, <3>2, <3>3, <3>4 DEF TypeOK, PC
    <2> QED BY <2>3, <2>4
  <1> QED BY <1>1, InvariantIInv, PTL

\* No value block leaks: it is in the list of a key that exists or in the hands of
\* one thread, and while its key can be found some thread holds it or can find it.
THEOREM NoBlockLeaks == Spec => []ListedIsHeld
  <1>1. ASSUME IInv PROVE ListedIsHeld
    <2> USE <1>1 DEF IInv
    <2> SUFFICES ASSUME NEW v \in Values
                 PROVE  /\ owner[v] \in Keys
                        /\ \/ v \in Range(values[owner[v]])
                           \/ \E t \in {u \in Thread : block[u] = v} : pc[t] \in {"s_link", "f_free", "x_free"}
                        /\ owner[v] \in fls_keys => \/ {u \in Thread : block[u] = v} # {}
                                                    \/ \E t \in Thread : tls[t][index[owner[v]]] = v
      BY DEF ListedIsHeld
    <2>1. owner[v] \in Keys /\ (Listed(v) \/ InHand(v))
      BY DEF ValuesOwned
    <2>2. owner[v] \in fls_keys => \E t \in Thread : block[t] = v \/ tls[t][index[owner[v]]] = v
      BY DEF ValuesReachable, Active
    <2> QED BY <2>1, <2>2 DEF Listed, InHand
  <1> QED BY <1>1, InvariantIInv, PTL

\* A key that can be found has a pthread key of its own, which exists.
THEOREM FoundKeysExist == Spec => []FoundKeysAreLive
  <1>1. IInv => FoundKeysAreLive
    BY DEF IInv, TypeOK, ActiveKeys, Active, FoundKeysAreLive
  <1> QED BY <1>1, InvariantIInv, PTL

\* No callback is forgotten and none is called twice: the data owed to callbacks
\* are those of the allocated values whose callback has not been called.
THEOREM CallbacksAreOwed == Spec => []CallbackOwed
  <1>1. ASSUME IInv PROVE CallbackOwed
    <2> USE <1>1 DEF IInv
    <2> DEFINE called == {block[t] : t \in {u \in Thread : pc[u] = "f_free"}}
    <2>1. \A v : v \in called <=> Called(v)
      BY DEF Called
    <2> HIDE DEF called
    <2>2. \A v \in Values : value[v] \in owed <=> v \notin called /\ callback[owner[v]]
      BY <2>1 DEF OwedExactly
    <2>3. owed = {value[v] : v \in {u \in Values \ called : callback[owner[u]]}}
      BY <2>2 DEF OwedHeld
    <2> QED BY <2>3 DEF CallbackOwed, called
  <1> QED BY <1>1, InvariantIInv, PTL
==============================================================================
