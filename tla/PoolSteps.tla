------------------------------ MODULE PoolSteps ------------------------------
(***************************************************************************)
(* The Open of pooling.go taken apart: it reads pSize and a slice of       *)
(* availablePool without the mutex, and the mutex-protected code that      *)
(* follows works on that slice, whatever Close and Timeout did meanwhile.  *)
(* One connection string.  What the mutex protects is one step; so is      *)
(* Release, which takes no lock at all.                                    *)
(*                                                                         *)
(* A slice is an array of the heap and a length: append reuses the array   *)
(* while there is room, and a slice read earlier sees what was done to it. *)
(***************************************************************************)
EXTENDS Integers, SequencesExt

CONSTANTS Clients,     \* goroutines that use the pool
          DBPs,        \* the DBP objects
          None,        \* Go's nil
          PoolSize,    \* poolSize
          MaxArrays    \* bound: arrays that append allocates

VARIABLES heap,        \* [1 .. MaxArrays -> the cells of an array]
          available,   \* the slice of the key in availablePool
          usedPool,    \* its list in usedPool, only touched under the mutex
          pSize,       \* the global counter pSize
          db,          \* [DBPs -> its sql.DB]
          client,      \* [Clients -> what it does]
          timers,      \* DBPs with a pending Timeout
          life         \* "open", "released", "panicked"

vars == <<heap, available, usedPool, pSize, db, client, timers, life>>

\* arr = 0: the key is not in the map.
Missing == [arr |-> 0, len |-> 0]

Client(pc, val, d) == [pc |-> pc, val |-> val, db |-> d]
Idle == Client("idle", Missing, None)
Holding(d) == Client("holding", Missing, d)

Init == /\ heap = [a \in 1 .. MaxArrays |-> <<>>]
        /\ available = Missing
        /\ usedPool = <<>>
        /\ pSize = 0
        /\ db = [d \in DBPs |-> "none"]
        /\ client = [c \in Clients |-> Idle]
        /\ timers = {}
        /\ life = "open"

------------------------------------------------------------------------------
List(slice) == IF slice.arr = 0 THEN <<>> ELSE SubSeq(heap[slice.arr], 1, slice.len)

\* copy(val[i-1:], val[i:]); val[len(val)-1] = nil; val = val[:len(val)-1]
ShiftOut(slice, i) ==
  /\ heap' = [heap EXCEPT ![slice.arr] =
                [j \in DOMAIN @ |-> IF j = slice.len THEN None
                                    ELSE IF j \in i .. slice.len - 1 THEN @[j + 1]
                                    ELSE @[j]]]
  /\ available' = [slice EXCEPT !.len = @ - 1]

\* append: in place, or into a new array of twice the size.
AppendAvailable(d) ==
  LET s == available  cells == IF s.arr = 0 THEN <<>> ELSE heap[s.arr]
  IN  IF s.len < Len(cells)
      THEN /\ heap' = [heap EXCEPT ![s.arr][s.len + 1] = d]
           /\ available' = [s EXCEPT !.len = @ + 1]
      ELSE \E a \in 1 .. MaxArrays :
             /\ heap[a] = <<>> /\ \A b \in 1 .. a - 1 : heap[b] /= <<>>
             /\ heap' = [heap EXCEPT ![a] =
                           Append(cells, d) \o [i \in 1 .. Len(cells) - 1 |-> None]]
             /\ available' = [arr |-> a, len |-> s.len + 1]

Position(list, d) == IF d \in ToSet(list) THEN CHOOSE i \in DOMAIN list : list[i] = d ELSE 1

\* Use of a nil *DBP panics, with the mutex held.
HandOut(c, d) == /\ usedPool' = Append(usedPool, d)
                 /\ client' = [client EXCEPT ![c] = Holding(d)]
                 /\ life' = IF d = None THEN "panicked" ELSE life

\* if pSize < p.poolSize
OpenCheck(c) ==
  /\ life = "open" /\ client[c].pc = "idle"
  /\ client' = [client EXCEPT ![c].pc = IF pSize < PoolSize THEN "below" ELSE "count"]
  /\ UNCHANGED <<heap, available, usedPool, pSize, db, timers, life>>

\* pSize = pSize + 1; val, ok := p.availablePool[connStr]; no lock is held.
OpenLookup(c) ==
  /\ life = "open" /\ client[c].pc = "below"
  /\ pSize' = pSize + 1
  /\ client' = [client EXCEPT ![c] = Client("found", available, None)]
  /\ UNCHANGED <<heap, available, usedPool, db, timers, life>>

\* Under the mutex: the first of several, and the list is what val leaves.
TakeFirst(c) ==
  LET v == client[c].val
  IN  /\ life = "open" /\ client[c].pc \in {"found", "retry"} /\ v.len > 1
      /\ ShiftOut(v, 1)
      /\ HandOut(c, heap[v.arr][1])
      /\ UNCHANGED <<pSize, db, timers>>

\* Under the mutex: the only one of val, and the key is deleted.
TakeOnly(c) ==
  LET v == client[c].val
  IN  /\ life = "open" /\ client[c].pc = "found" /\ v.len = 1
      /\ available' = Missing
      /\ HandOut(c, heap[v.arr][1])
      /\ UNCHANGED <<heap, pSize, db, timers>>

\* The key was missing: a new connection.
TakeNew(c) ==
  /\ life = "open" /\ client[c].pc = "found" /\ client[c].val = Missing
  /\ \E d \in DBPs : /\ db[d] = "none"
                     /\ db' = [db EXCEPT ![d] = "open"]
                     /\ HandOut(c, d)
  /\ UNCHANGED <<heap, available, pSize, timers>>

\* At the limit.
WaitCount(c) ==
  /\ life = "open" /\ client[c].pc = "count"
  /\ pSize' = pSize + 1
  /\ client' = [client EXCEPT ![c].pc = "waiting"]
  /\ UNCHANGED <<heap, available, usedPool, db, timers, life>>

\* One look at the map.  TakeFirst follows, or val[0] is returned as it is.
WaitLookup(c) ==
  /\ life = "open" /\ client[c].pc = "waiting" /\ available /= Missing
  /\ client' = [client EXCEPT ![c] = Client("retry", available, None)]
  /\ UNCHANGED <<heap, available, usedPool, pSize, db, timers, life>>

WaitShare(c) ==
  LET v == client[c].val
  IN  /\ life = "open" /\ client[c].pc = "retry" /\ v.len = 1
      /\ client' = [client EXCEPT ![c] =
                      IF heap[v.arr][1] = None THEN Idle ELSE Holding(heap[v.arr][1])]
      /\ UNCHANGED <<heap, available, usedPool, pSize, db, timers, life>>

Close(c) ==
  LET d == client[c].db  i == Position(usedPool, d)
  IN  /\ life = "open" /\ client[c].pc = "holding" /\ usedPool /= <<>>
      /\ AppendAvailable(usedPool[i])
      /\ usedPool' = RemoveAt(usedPool, i)
      /\ timers' = timers \cup {d}
      /\ client' = [client EXCEPT ![c] = Idle]
      /\ pSize' = pSize - 1
      /\ UNCHANGED <<db, life>>

CloseUnknown(c) ==
  /\ life = "open" /\ client[c].pc = "holding" /\ usedPool = <<>>
  /\ db' = [db EXCEPT ![client[c].db] = "closed"]
  /\ client' = [client EXCEPT ![c] = Idle]
  /\ pSize' = pSize - 1
  /\ UNCHANGED <<heap, available, usedPool, timers, life>>

Timeout(d) ==
  LET list == List(available)  i == Position(list, d)
  IN  /\ life = "open" /\ d \in timers
      /\ timers' = timers \ {d}
      /\ IF list = <<>> THEN UNCHANGED <<heap, available, db, life>>
         ELSE /\ IF Len(list) > 1 THEN ShiftOut(available, i)
                 ELSE available' = Missing /\ UNCHANGED heap
              /\ IF list[i] = None THEN life' = "panicked" /\ UNCHANGED db
                 ELSE db' = [db EXCEPT ![list[i]] = "closed"] /\ UNCHANGED life
      /\ UNCHANGED <<usedPool, pSize, client>>

Release ==
  LET listed == ToSet(List(available)) \cup ToSet(usedPool)
  IN  /\ life = "open"
      /\ IF None \in listed THEN life' = "panicked" /\ UNCHANGED db
         ELSE /\ db' = [d \in DBPs |-> IF d \in listed THEN "closed" ELSE db[d]]
              /\ life' = "released"
      /\ UNCHANGED <<heap, available, usedPool, pSize, client, timers>>

Next == \/ \E c \in Clients : \/ OpenCheck(c) \/ OpenLookup(c) \/ TakeFirst(c)
                              \/ TakeOnly(c) \/ TakeNew(c) \/ WaitCount(c)
                              \/ WaitLookup(c) \/ WaitShare(c) \/ Close(c)
                              \/ CloseUnknown(c)
        \/ \E d \in DBPs : Timeout(d)
        \/ Release

Spec == Init /\ [][Next]_vars

\* pooling.go:266: "Release will close all the connections in the pool".  The
\* connections that no client is still busy opening or closing are meant.
ReleaseClosesAll ==
  life = "released" /\ (\A c \in Clients : client[c].pc \in {"idle", "holding"})
    => \A d \in DBPs : db[d] /= "open"
==============================================================================
