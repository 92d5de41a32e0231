------------------------------ MODULE PoolProofs ------------------------------
(***************************************************************************)
(* Proofs about Pool, for any sets of clients, connections and strings:    *)
(* each connection is listed once, under its string, pSize is exact, and   *)
(* Release leaves nothing open.  First, what the operations on lists do;   *)
(* then the lists; then the clients and the counter.                       *)
(***************************************************************************)
EXTENDS Pool, FiniteSetTheorems, TLAPS

LEMMA ListFacts ==
  ASSUME NEW S, NEW list \in Seq(S)
  PROVE  /\ DOMAIN list = 1 .. Len(list) /\ Len(list) \in Nat
         /\ ToSet(list) \subseteq S
         /\ \A i \in 1 .. Len(list) : list[i] \in ToSet(list)
         /\ \A x \in ToSet(list) : \E i \in 1 .. Len(list) : list[i] = x
         /\ list /= <<>> => Len(list) >= 1
  BY DEF ToSet

\* A new element at the end keeps a list without repetitions.
LEMMA AppendNew ==
  ASSUME NEW S, NEW list \in Seq(S), IsInjective(list), NEW x \in S, x \notin ToSet(list)
  PROVE  /\ Append(list, x) \in Seq(S) /\ IsInjective(Append(list, x))
         /\ ToSet(Append(list, x)) = ToSet(list) \cup {x}
  <1> DEFINE more == Append(list, x)
  <1>1. /\ more \in Seq(S) /\ Len(more) = Len(list) + 1 /\ Len(list) \in Nat
        /\ \A i \in 1 .. Len(list) : more[i] = list[i]
        /\ more[Len(list) + 1] = x
    OBVIOUS
  <1> HIDE DEF more
  <1>2. /\ DOMAIN list = 1 .. Len(list) /\ DOMAIN more = 1 .. Len(list) + 1
    BY <1>1
  <1>3. \A i \in 1 .. Len(list) : list[i] /= x
    BY <1>2 DEF ToSet
  <1>4. IsInjective(more)
    <2> SUFFICES ASSUME NEW a \in 1 .. Len(list) + 1, NEW b \in 1 .. Len(list) + 1,
                        more[a] = more[b]
                 PROVE  a = b
      BY <1>2 DEF IsInjective
    <2>1. CASE a \in 1 .. Len(list) /\ b \in 1 .. Len(list)
      BY <1>1, <1>2, <2>1 DEF IsInjective
    <2>2. CASE a = Len(list) + 1 \/ b = Len(list) + 1
      BY <1>1, <1>3, <2>2
    <2> QED BY <1>1, <2>1, <2>2
  <1>5. ToSet(more) = ToSet(list) \cup {x}
    <2>1. ToSet(more) \subseteq ToSet(list) \cup {x}
      <3> SUFFICES ASSUME NEW i \in 1 .. Len(list) + 1 PROVE more[i] \in ToSet(list) \cup {x}
        BY <1>2 DEF ToSet
      <3>1. i \in 1 .. Len(list) \/ i = Len(list) + 1
        BY <1>1
      <3> QED BY <1>1, <1>2, <3>1 DEF ToSet
    <2>2. ToSet(list) \subseteq ToSet(more)
      <3> SUFFICES ASSUME NEW i \in 1 .. Len(list) PROVE list[i] \in ToSet(more)
        BY <1>2 DEF ToSet
      <3>1. i \in DOMAIN more
        BY <1>1, <1>2
      <3> QED BY <1>1, <3>1 DEF ToSet
    <2>3. x \in ToSet(more)
      <3>1. Len(list) + 1 \in DOMAIN more
        BY <1>1, <1>2
      <3> QED BY <1>1, <3>1 DEF ToSet
    <2> QED BY <2>1, <2>2, <2>3
  <1> QED BY <1>1, <1>4, <1>5 DEF more

\* An element is taken out of such a list.
LEMMA RemoveOne ==
  ASSUME NEW S, NEW list \in Seq(S), IsInjective(list), NEW k \in 1 .. Len(list)
  PROVE  \A less \in Seq(S) :
           (/\ Len(less) = Len(list) - 1
            /\ \A i \in 1 .. Len(less) : less[i] = IF i < k THEN list[i] ELSE list[i + 1])
           => IsInjective(less) /\ ToSet(less) = ToSet(list) \ {list[k]}
  <1> SUFFICES ASSUME NEW less \in Seq(S), Len(less) = Len(list) - 1,
                      \A i \in 1 .. Len(less) :
                        less[i] = IF i < k THEN list[i] ELSE list[i + 1]
               PROVE  IsInjective(less) /\ ToSet(less) = ToSet(list) \ {list[k]}
    OBVIOUS
  <1>1. /\ DOMAIN list = 1 .. Len(list) /\ DOMAIN less = 1 .. Len(less)
        /\ Len(list) \in Nat /\ Len(less) \in Nat
    OBVIOUS
  <1>2. \A i \in 1 .. Len(less) : \E j \in 1 .. Len(list) :
          j = (IF i < k THEN i ELSE i + 1) /\ j /= k /\ less[i] = list[j]
    <2> SUFFICES ASSUME NEW i \in 1 .. Len(less)
                 PROVE  \E j \in 1 .. Len(list) :
                          j = (IF i < k THEN i ELSE i + 1) /\ j /= k /\ less[i] = list[j]
      OBVIOUS
    <2>1. CASE i < k
      BY <1>1, <2>1
    <2>2. CASE ~(i < k)
      <3>1. i + 1 \in 1 .. Len(list) /\ i + 1 /= k
        BY <1>1, <2>2
      <3> QED BY <2>2, <3>1
    <2> QED BY <2>1, <2>2
  <1>3. IsInjective(less)
    <2> SUFFICES ASSUME NEW a \in 1 .. Len(less), NEW b \in 1 .. Len(less), less[a] = less[b]
                 PROVE  a = b
      BY <1>1 DEF IsInjective
    <2>1. PICK i \in 1 .. Len(list) : i = (IF a < k THEN a ELSE a + 1) /\ less[a] = list[i]
      BY <1>2
    <2>2. PICK j \in 1 .. Len(list) : j = (IF b < k THEN b ELSE b + 1) /\ less[b] = list[j]
      BY <1>2
    <2>3. i = j
      BY <1>1, <2>1, <2>2 DEF IsInjective
    <2> QED BY <2>1, <2>2, <2>3
  <1>4. ToSet(less) \subseteq ToSet(list) \ {list[k]}
    <2> SUFFICES ASSUME NEW i \in 1 .. Len(less) PROVE less[i] \in ToSet(list) \ {list[k]}
      BY <1>1 DEF ToSet
    <2>1. PICK j \in 1 .. Len(list) : j /= k /\ less[i] = list[j]
      BY <1>2
    <2>2. list[j] /= list[k]
      BY <1>1, <2>1 DEF IsInjective
    <2> QED BY <1>1, <2>1, <2>2 DEF ToSet
  <1>5. ToSet(list) \ {list[k]} \subseteq ToSet(less)
    <2> SUFFICES ASSUME NEW j \in 1 .. Len(list), list[j] /= list[k]
                 PROVE  list[j] \in ToSet(less)
      BY <1>1 DEF ToSet
    <2>1. PICK i \in 1 .. Len(less) : j = (IF i < k THEN i ELSE i + 1)
      <3>1. CASE j < k
        <4>1. j \in 1 .. Len(less)
          BY <1>1, <3>1
        <4> QED BY <3>1, <4>1
      <3>2. CASE j > k
        <4>1. j - 1 \in 1 .. Len(less) /\ ~(j - 1 < k) /\ j = j - 1 + 1
          BY <1>1, <3>2
        <4> QED BY <4>1
      <3> QED BY <3>1, <3>2
    <2>2. less[i] = list[j]
      BY <1>2, <2>1
    <2> QED BY <1>1, <2>2 DEF ToSet
  <1> QED BY <1>3, <1>4, <1>5

LEMMA RemovePosition ==
  ASSUME NEW S, NEW list \in Seq(S), IsInjective(list), NEW k \in 1 .. Len(list)
  PROVE  /\ RemoveAt(list, k) \in Seq(S) /\ IsInjective(RemoveAt(list, k))
         /\ ToSet(RemoveAt(list, k)) = ToSet(list) \ {list[k]}
  <1> DEFINE front == SubSeq(list, 1, k - 1)
             back == SubSeq(list, k + 1, Len(list))
             less == RemoveAt(list, k)
  <1>1. Len(list) \in Nat /\ k \in Nat /\ k >= 1 /\ k <= Len(list)
    OBVIOUS
  <1>2. front \in Seq(S) /\ Len(front) = k - 1 /\ \A i \in 1 .. k - 1 : front[i] = list[i]
    BY <1>1
  <1>3. /\ back \in Seq(S) /\ Len(back) = Len(list) - k
        /\ \A i \in 1 .. Len(list) - k : back[i] = list[k + i]
    BY <1>1
  <1>4. less = front \o back
    BY DEF RemoveAt
  <1> HIDE DEF front, back, less
  <1>5. /\ less \in Seq(S) /\ Len(less) = Len(list) - 1
        /\ \A i \in 1 .. k - 1 : less[i] = front[i]
        /\ \A i \in 1 .. Len(list) - k : less[k - 1 + i] = back[i]
    BY <1>1, <1>2, <1>3, <1>4
  <1>6. \A i \in 1 .. Len(less) : less[i] = IF i < k THEN list[i] ELSE list[i + 1]
    <2> SUFFICES ASSUME NEW i \in 1 .. Len(list) - 1
                 PROVE  less[i] = IF i < k THEN list[i] ELSE list[i + 1]
      BY <1>5
    <2>1. CASE i < k
      BY <1>1, <1>2, <1>5, <2>1
    <2>2. CASE ~(i < k)
      <3>1. PICK j \in 1 .. Len(list) - k : j = i - k + 1 /\ k - 1 + j = i /\ k + j = i + 1
        <4>1. /\ i - k + 1 \in 1 .. Len(list) - k
              /\ k - 1 + (i - k + 1) = i /\ k + (i - k + 1) = i + 1
          BY <1>1, <2>2
        <4> QED BY <4>1
      <3>2. less[k - 1 + j] = back[j] /\ back[j] = list[k + j]
        BY <1>3, <1>5
      <3> QED BY <2>2, <3>1, <3>2
    <2> QED BY <2>1, <2>2
  <1>7. less \in Seq(S) /\ Len(less) = Len(list) - 1
    BY <1>5
  <1>8. IsInjective(less)
    BY <1>6, <1>7, RemoveOne
  <1>9. ToSet(less) = ToSet(list) \ {list[k]}
    BY <1>6, <1>7, RemoveOne
  <1> QED BY <1>5, <1>8, <1>9 DEF less

LEMMA RemoveHead ==
  ASSUME NEW S, NEW list \in Seq(S), IsInjective(list), list /= <<>>
  PROVE  /\ Tail(list) \in Seq(S) /\ IsInjective(Tail(list))
         /\ ToSet(Tail(list)) = ToSet(list) \ {Head(list)}
         /\ Head(list) \in ToSet(list)
  <1> DEFINE less == Tail(list)
  <1>1. /\ less \in Seq(S) /\ Len(less) = Len(list) - 1 /\ Len(list) \in Nat /\ Len(list) >= 1
        /\ \A i \in 1 .. Len(less) : less[i] = list[i + 1]
        /\ Head(list) = list[1]
    OBVIOUS
  <1> HIDE DEF less
  <1>2. 1 \in 1 .. Len(list) /\ \A i \in 1 .. Len(less) : ~(i < 1)
    BY <1>1
  <1>3. \A i \in 1 .. Len(less) : less[i] = IF i < 1 THEN list[i] ELSE list[i + 1]
    BY <1>1, <1>2
  <1>4. IsInjective(less) /\ ToSet(less) = ToSet(list) \ {list[1]}
    BY <1>1, <1>2, <1>3, RemoveOne
  <1>5. list[1] \in ToSet(list)
    BY <1>2, ListFacts
  <1> QED BY <1>1, <1>4, <1>5 DEF less

LEMMA PositionFacts ==
  ASSUME NEW S, NEW list \in Seq(S), list /= <<>>, NEW d
  PROVE  Position(list, d) \in 1 .. Len(list)
  <1>1. DOMAIN list = 1 .. Len(list) /\ 1 \in 1 .. Len(list)
    OBVIOUS
  <1> QED BY <1>1 DEF Position

------------------------------------------------------------------------------
\* What is true of the two lists of one string s, given the state of the
\* connections: a connection is in one of them, once, and was made for s.
OfString(a, u, made, s) ==
  /\ a \in Seq(DBPs) /\ u \in Seq(DBPs)
  /\ IsInjective(a) /\ IsInjective(u)
  /\ ToSet(a) \cap ToSet(u) = {}
  /\ \A d \in ToSet(a) \cup ToSet(u) : made[d].con = s /\ made[d].db /= "none"

Types ==
  /\ availablePool \in [ConStrs -> Seq(DBPs)]
  /\ usedPool \in [ConStrs -> Seq(DBPs)]
  /\ dbp \in [DBPs -> DBP]
  /\ client \in [Clients -> Client]
  /\ timers \in [DBPs -> Nat]
  /\ life \in {"open", "released", "panicked"}
  /\ pSize \in Int /\ failed \in Nat

Lists == \A s \in ConStrs : OfString(availablePool[s], usedPool[s], dbp, s)

\* Every connection that was made has a string, and a client that holds one,
\* or waits, has it of a connection that was made, or for a string.
MadeInv == \A d \in DBPs : dbp[d].db /= "none" => dbp[d].con \in ConStrs

HeldInv ==
  \A c \in Clients :
    /\ client[c].pc = "holding" => client[c].db \in DBPs /\ dbp[client[c].db].db /= "none"
    /\ client[c].pc = "waiting" => client[c].con \in ConStrs

\* While the pool is there, it lists every connection that is not closed.
LiveInv ==
  life = "open" =>
    \A d \in DBPs : dbp[d].db \in {"fresh", "open"} =>
      d \in ToSet(availablePool[dbp[d].con]) \cup ToSet(usedPool[dbp[d].con])

\* A Timeout was started for a connection that had been made.
TimersInv == \A d \in DBPs : timers[d] > 0 => dbp[d].db /= "none"

IInv == /\ Types /\ Lists /\ MadeInv /\ HeldInv /\ TimersInv
        /\ LiveInv /\ ReleaseClosesAll /\ CounterExact

\* No step takes a connection back to what it was before it was made, or
\* gives it another string.
Kept(old, new) == \A d \in DBPs : old[d].db /= "none" =>
                    new[d].db /= "none" /\ new[d].con = old[d].con

LEMMA OfStringKept ==
  ASSUME NEW a, NEW u, NEW old, NEW new, NEW s, OfString(a, u, old, s), Kept(old, new)
  PROVE  OfString(a, u, new, s)
  <1>1. ToSet(a) \subseteq DBPs /\ ToSet(u) \subseteq DBPs
    BY ListFacts DEF OfString
  <1> QED BY <1>1 DEF OfString, Kept

LEMMA OfStringTake ==
  ASSUME NEW a, NEW u, NEW made, NEW s, OfString(a, u, made, s), a /= <<>>
  PROVE  /\ OfString(Tail(a), Append(u, Head(a)), made, s)
         /\ ToSet(a) \cup ToSet(u) = ToSet(Tail(a)) \cup ToSet(Append(u, Head(a)))
         /\ Head(a) \in ToSet(a) /\ Head(a) \in DBPs
  <1>1. /\ Tail(a) \in Seq(DBPs) /\ IsInjective(Tail(a))
        /\ ToSet(Tail(a)) = ToSet(a) \ {Head(a)} /\ Head(a) \in ToSet(a)
    BY RemoveHead DEF OfString
  <1>2. Head(a) \in DBPs /\ Head(a) \notin ToSet(u)
    BY <1>1, ListFacts DEF OfString
  <1>3. /\ Append(u, Head(a)) \in Seq(DBPs) /\ IsInjective(Append(u, Head(a)))
        /\ ToSet(Append(u, Head(a))) = ToSet(u) \cup {Head(a)}
    BY <1>2, AppendNew DEF OfString
  <1> QED BY <1>1, <1>2, <1>3 DEF OfString

LEMMA OfStringGive ==
  ASSUME NEW a, NEW u, NEW made, NEW s, OfString(a, u, made, s), NEW i \in 1 .. Len(u)
  PROVE  /\ OfString(Append(a, u[i]), RemoveAt(u, i), made, s)
         /\ ToSet(a) \cup ToSet(u) = ToSet(Append(a, u[i])) \cup ToSet(RemoveAt(u, i))
  <1>1. u[i] \in ToSet(u) /\ u[i] \in DBPs /\ u[i] \notin ToSet(a)
    BY ListFacts DEF OfString
  <1>2. /\ Append(a, u[i]) \in Seq(DBPs) /\ IsInjective(Append(a, u[i]))
        /\ ToSet(Append(a, u[i])) = ToSet(a) \cup {u[i]}
    BY <1>1, AppendNew DEF OfString
  <1>3. /\ RemoveAt(u, i) \in Seq(DBPs) /\ IsInjective(RemoveAt(u, i))
        /\ ToSet(RemoveAt(u, i)) = ToSet(u) \ {u[i]}
    BY RemovePosition DEF OfString
  <1> QED BY <1>1, <1>2, <1>3 DEF OfString

LEMMA OfStringDrop ==
  ASSUME NEW a, NEW u, NEW made, NEW s, OfString(a, u, made, s), NEW i \in 1 .. Len(a)
  PROVE  /\ OfString(RemoveAt(a, i), u, made, s)
         /\ ToSet(RemoveAt(a, i)) = ToSet(a) \ {a[i]}
         /\ a[i] \in DBPs
  <1>1. /\ RemoveAt(a, i) \in Seq(DBPs) /\ IsInjective(RemoveAt(a, i))
        /\ ToSet(RemoveAt(a, i)) = ToSet(a) \ {a[i]}
    BY RemovePosition DEF OfString
  <1>2. a[i] \in DBPs
    BY ListFacts DEF OfString
  <1> QED BY <1>1, <1>2 DEF OfString

\* A connection that has just been made joins one of the lists.
LEMMA OfStringNew ==
  ASSUME NEW a, NEW u, NEW old, NEW new, NEW s, NEW d \in DBPs,
         OfString(a, u, old, s), Kept(old, new),
         old[d].db = "none", new[d].db /= "none", new[d].con = s
  PROVE  /\ OfString(a, Append(u, d), new, s) /\ OfString(Append(a, d), u, new, s)
         /\ ToSet(Append(u, d)) = ToSet(u) \cup {d}
         /\ ToSet(Append(a, d)) = ToSet(a) \cup {d}
  <1>1. d \notin ToSet(a) /\ d \notin ToSet(u)
    BY DEF OfString
  <1>2. /\ Append(u, d) \in Seq(DBPs) /\ IsInjective(Append(u, d))
        /\ ToSet(Append(u, d)) = ToSet(u) \cup {d}
    BY <1>1, AppendNew DEF OfString
  <1>3. /\ Append(a, d) \in Seq(DBPs) /\ IsInjective(Append(a, d))
        /\ ToSet(Append(a, d)) = ToSet(a) \cup {d}
    BY <1>1, AppendNew DEF OfString
  <1>4. OfString(a, u, new, s)
    BY OfStringKept
  <1> QED BY <1>1, <1>2, <1>3, <1>4 DEF OfString

------------------------------------------------------------------------------
\* The state of the connections.  Each lemma takes one form of their update.
Live(d) == dbp[d].db \in {"fresh", "open"}

LEMMA DBPFields ==
  ASSUME Types, NEW d \in DBPs
  PROVE  /\ dbp[d].db \in {"none", "fresh", "open", "closed"}
         /\ dbp[d].con \in ConStrs \cup {None}
         /\ dbp[d] = [db |-> dbp[d].db, con |-> dbp[d].con]
  BY DEF Types, DBP

LEMMA DBPUpdate ==
  ASSUME Types, NEW d \in DBPs, NEW v \in {"none", "fresh", "open", "closed"}
  PROVE  /\ [dbp[d] EXCEPT !.db = v] = [db |-> v, con |-> dbp[d].con]
         /\ [db |-> v, con |-> dbp[d].con] \in DBP
  <1>1. \A r \in DBP : [r EXCEPT !.db = v] = [db |-> v, con |-> r.con]
    BY DEF DBP
  <1>2. dbp[d] \in DBP
    BY DEF Types
  <1>3. [dbp[d] EXCEPT !.db = v] = [db |-> v, con |-> dbp[d].con]
    BY <1>1, <1>2
  <1> QED BY <1>3, DBPFields DEF DBP

LEMMA NewDBPStep ==
  ASSUME Types, MadeInv, NEW d \in DBPs, NEW s \in ConStrs,
         NEW state \in {"fresh", "open"}, NewDBP(d, s, state)
  PROVE  /\ dbp' \in [DBPs -> DBP] /\ Kept(dbp, dbp') /\ MadeInv'
         /\ dbp[d].db = "none" /\ dbp'[d].db = state /\ dbp'[d].con = s
         /\ \A e \in DBPs : e /= d => dbp'[e] = dbp[e]
  <1>1. /\ dbp[d].db = "none" /\ dbp' = [dbp EXCEPT ![d] = [db |-> state, con |-> s]]
        /\ [db |-> state, con |-> s] \in DBP
    BY DEF NewDBP, DBP
  <1>2. /\ dbp' \in [DBPs -> DBP] /\ dbp'[d] = [db |-> state, con |-> s]
        /\ \A e \in DBPs : e /= d => dbp'[e] = dbp[e]
    BY <1>1 DEF Types
  <1> QED BY <1>1, <1>2 DEF Kept, MadeInv

LEMMA CloseDBStep ==
  ASSUME Types, MadeInv, NEW ds, CloseDB(ds),
         \A d \in DBPs : d \in ds => dbp[d].db /= "none"
  PROVE  /\ dbp' \in [DBPs -> DBP] /\ Kept(dbp, dbp') /\ MadeInv'
         /\ \A d \in DBPs : /\ d \in ds => dbp'[d].db = "closed"
                            /\ d \notin ds => dbp'[d] = dbp[d]
                            /\ dbp'[d].con = dbp[d].con
  <1>1. \A d \in DBPs : dbp'[d] = IF d \in ds THEN [dbp[d] EXCEPT !.db = "closed"] ELSE dbp[d]
    BY DEF CloseDB
  <1>2. \A d \in DBPs : [dbp[d] EXCEPT !.db = "closed"] = [db |-> "closed", con |-> dbp[d].con]
    BY DBPUpdate
  <1>3. \A d \in DBPs : /\ d \in ds => dbp'[d] = [db |-> "closed", con |-> dbp[d].con]
                        /\ d \notin ds => dbp'[d] = dbp[d]
    BY <1>1, <1>2
  <1>4. \A d \in DBPs : dbp'[d] \in DBP
    <2>1. \A d \in DBPs : dbp[d] \in DBP /\ [db |-> "closed", con |-> dbp[d].con] \in DBP
      BY DBPUpdate DEF Types
    <2> QED BY <1>3, <2>1
  <1>5. dbp' \in [DBPs -> DBP]
    <2>1. dbp' = [d \in DBPs |-> dbp'[d]]
      BY DEF CloseDB
    <2> QED BY <1>4, <2>1
  <1> QED BY <1>3, <1>5 DEF Kept, MadeInv

LEMMA WakeStep ==
  ASSUME Types, MadeInv, NEW d \in DBPs, dbp[d].db /= "none",
         dbp' = [dbp EXCEPT ![d].db = IF @ = "fresh" THEN "open" ELSE @]
  PROVE  /\ dbp' \in [DBPs -> DBP] /\ Kept(dbp, dbp') /\ MadeInv'
         /\ \A e \in DBPs : dbp'[e].con = dbp[e].con /\ (Live(e)' => Live(e))
  <1> DEFINE x == IF dbp[d].db = "fresh" THEN "open" ELSE dbp[d].db
  <1>1. x \in {"none", "fresh", "open", "closed"} /\ x /= "none"
    BY DBPFields
  <1>2. x \in {"fresh", "open"} => dbp[d].db \in {"fresh", "open"}
    OBVIOUS
  <1>3. dbp' = [dbp EXCEPT ![d] = [db |-> x, con |-> dbp[d].con]]
    <2>1. [dbp[d] EXCEPT !.db = x] = [db |-> x, con |-> dbp[d].con]
      <3> HIDE DEF x
      <3> QED BY <1>1, DBPUpdate
    <2>2. dbp' = [dbp EXCEPT ![d] = [dbp[d] EXCEPT !.db = x]]
      BY DEF Types
    <2> QED BY <2>1, <2>2
  <1> HIDE DEF x
  <1>4. [db |-> x, con |-> dbp[d].con] \in DBP
    BY <1>1, DBPUpdate
  <1>5. /\ dbp' \in [DBPs -> DBP] /\ dbp'[d] = [db |-> x, con |-> dbp[d].con]
        /\ \A e \in DBPs : e /= d => dbp'[e] = dbp[e]
    BY <1>3, <1>4 DEF Types
  <1>6. dbp'[d].db = x /\ dbp'[d].con = dbp[d].con
    BY <1>5
  <1>7. \A e \in DBPs : dbp'[e].con = dbp[e].con /\ (Live(e)' => Live(e))
    <2> SUFFICES ASSUME NEW e \in DBPs
                 PROVE  dbp'[e].con = dbp[e].con /\ (Live(e)' => Live(e))
      OBVIOUS
    <2>1. CASE e = d
      BY <1>2, <1>6, <2>1 DEF Live
    <2>2. CASE e /= d
      BY <1>5, <2>2 DEF Live
    <2> QED BY <2>1, <2>2
  <1> QED BY <1>1, <1>5, <1>6, <1>7 DEF Kept, MadeInv

LEMMA SameStep ==
  ASSUME Types, MadeInv, UNCHANGED dbp
  PROVE  dbp' \in [DBPs -> DBP] /\ Kept(dbp, dbp') /\ MadeInv'
  BY DEF Types, Kept, MadeInv

------------------------------------------------------------------------------
\* The lists change for one string s at a time.
AtString(s) ==
  /\ availablePool' \in [ConStrs -> Seq(DBPs)] /\ usedPool' \in [ConStrs -> Seq(DBPs)]
  /\ \A t \in ConStrs : t /= s => /\ availablePool'[t] = availablePool[t]
                                  /\ usedPool'[t] = usedPool[t]

LEMMA ListStep ==
  ASSUME Lists, NEW s, AtString(s), Kept(dbp, dbp'),
         s \in ConStrs => OfString(availablePool'[s], usedPool'[s], dbp', s)
  PROVE  Lists'
  <1> SUFFICES ASSUME NEW t \in ConStrs
               PROVE  OfString(availablePool'[t], usedPool'[t], dbp', t)
    BY DEF Lists
  <1>1. CASE t = s
    BY <1>1
  <1>2. CASE t /= s
    <2>1. OfString(availablePool[t], usedPool[t], dbp, t)
      BY DEF Lists
    <2>2. OfString(availablePool[t], usedPool[t], dbp', t)
      BY <2>1, OfStringKept
    <2> QED BY <1>2, <2>2 DEF AtString
  <1> QED BY <1>1, <1>2

\* A connection is found where it was, or it is one of s and found there.
LEMMA LiveStep ==
  ASSUME LiveInv, life = "open", MadeInv', NEW s, AtString(s),
         \A d \in DBPs : Live(d)' =>
            \/ Live(d) /\ dbp'[d].con = dbp[d].con
            \/ dbp'[d].con = s /\ d \in ToSet(availablePool'[s]) \cup ToSet(usedPool'[s]),
         \A d \in DBPs : Live(d)' /\ d \in ToSet(availablePool[s]) \cup ToSet(usedPool[s])
            => d \in ToSet(availablePool'[s]) \cup ToSet(usedPool'[s])
  PROVE  LiveInv'
  <1> SUFFICES ASSUME NEW d \in DBPs, Live(d)'
               PROVE  d \in ToSet(availablePool'[dbp'[d].con]) \cup ToSet(usedPool'[dbp'[d].con])
    BY DEF LiveInv, Live
  <1>1. CASE Live(d) /\ dbp'[d].con = dbp[d].con
    <2>1. d \in ToSet(availablePool[dbp[d].con]) \cup ToSet(usedPool[dbp[d].con])
      BY <1>1 DEF LiveInv, Live
    <2>2. dbp'[d].con \in ConStrs
      BY DEF MadeInv, Live
    <2>3. CASE dbp[d].con = s
      BY <1>1, <2>1, <2>3
    <2>4. CASE dbp[d].con /= s
      BY <1>1, <2>1, <2>2, <2>4 DEF AtString
    <2> QED BY <2>3, <2>4
  <1>2. CASE dbp'[d].con = s /\ d \in ToSet(availablePool'[s]) \cup ToSet(usedPool'[s])
    BY <1>2
  <1> QED BY <1>1, <1>2

LEMMA SameLists ==
  ASSUME Types, Lists, UNCHANGED <<availablePool, usedPool>>, Kept(dbp, dbp')
  PROVE  /\ availablePool' \in [ConStrs -> Seq(DBPs)] /\ usedPool' \in [ConStrs -> Seq(DBPs)]
         /\ Lists'
  <1> SUFFICES ASSUME NEW t \in ConStrs
               PROVE  OfString(availablePool[t], usedPool[t], dbp', t)
    BY DEF Lists, Types
  <1>1. OfString(availablePool[t], usedPool[t], dbp, t)
    BY DEF Lists
  <1> QED BY <1>1, OfStringKept

LEMMA SameLive ==
  ASSUME LiveInv, UNCHANGED <<availablePool, usedPool>>, life' = "open" => life = "open",
         \A d \in DBPs : Live(d)' => Live(d) /\ dbp'[d].con = dbp[d].con
  PROVE  LiveInv'
  BY DEF LiveInv, Live

------------------------------------------------------------------------------
\* The clients: one of them changes, and the counts with it.
LEMMA ClientStep ==
  ASSUME Types, HeldInv, NEW c \in Clients, NEW x \in Client, Kept(dbp, dbp'),
         client' = [client EXCEPT ![c] = x],
         x.pc = "holding" => x.db \in DBPs /\ dbp'[x.db].db /= "none",
         x.pc = "waiting" => x.con \in ConStrs
  PROVE  client' \in [Clients -> Client] /\ HeldInv'
  <1>1. /\ client' \in [Clients -> Client] /\ client'[c] = x
        /\ \A b \in Clients : b /= c => client'[b] = client[b]
    BY DEF Types
  <1>2. HeldInv'
    <2> SUFFICES ASSUME NEW b \in Clients
                 PROVE  /\ client'[b].pc = "holding" =>
                             client'[b].db \in DBPs /\ dbp'[client'[b].db].db /= "none"
                        /\ client'[b].pc = "waiting" => client'[b].con \in ConStrs
      BY DEF HeldInv
    <2>1. CASE b = c
      BY <1>1, <2>1
    <2>2. CASE b /= c
      <3>1. client'[b] = client[b]
        BY <1>1, <2>2
      <3> QED BY <3>1 DEF HeldInv, Kept
    <2> QED BY <2>1, <2>2
  <1> QED BY <1>1, <1>2

LEMMA SameClients ==
  ASSUME Types, HeldInv, UNCHANGED client, Kept(dbp, dbp')
  PROVE  client' \in [Clients -> Client] /\ HeldInv'
  BY DEF Types, HeldInv, Kept

In(pc) == {b \in Clients : client[b].pc = pc}

LEMMA Finite ==
  ASSUME NEW pc
  PROVE  IsFiniteSet(In(pc)) /\ Cardinality(In(pc)) \in Nat
  <1>1. In(pc) \subseteq Clients /\ IsFiniteSet(Clients)
    BY PoolAssumption DEF In
  <1>2. IsFiniteSet(In(pc))
    BY <1>1, FS_Subset
  <1> QED BY <1>2, FS_CardinalityType

LEMMA Counting ==
  ASSUME Types, NEW c \in Clients, NEW x \in Client, NEW pc,
         client' = [client EXCEPT ![c] = x]
  PROVE  Cardinality(In(pc)') =
           Cardinality(In(pc)) - (IF client[c].pc = pc THEN 1 ELSE 0)
                               + (IF x.pc = pc THEN 1 ELSE 0)
  <1> DEFINE rest == In(pc) \ {c}
  <1>1. /\ client'[c] = x
        /\ \A b \in Clients : b /= c => client'[b] = client[b]
    BY DEF Types
  <1>2. In(pc)' = IF x.pc = pc THEN rest \cup {c} ELSE rest
    BY <1>1 DEF In
  <1>3. /\ IsFiniteSet(rest) /\ Cardinality(rest) \in Nat
        /\ Cardinality(rest) = IF client[c].pc = pc THEN Cardinality(In(pc)) - 1
                                                    ELSE Cardinality(In(pc))
    <2>1. /\ IsFiniteSet(rest)
          /\ Cardinality(rest) = IF c \in In(pc) THEN Cardinality(In(pc)) - 1
                                                 ELSE Cardinality(In(pc))
      BY Finite, FS_RemoveElement
    <2>2. c \in In(pc) <=> client[c].pc = pc
      BY DEF In
    <2>3. Cardinality(rest) \in Nat
      BY <2>1, FS_CardinalityType
    <2> QED BY <2>1, <2>2, <2>3
  <1>4. Cardinality(rest \cup {c}) = Cardinality(rest) + 1
    BY <1>3, FS_AddElement
  <1> HIDE DEF rest
  <1>5. Cardinality(In(pc)') = Cardinality(rest) + (IF x.pc = pc THEN 1 ELSE 0)
    BY <1>2, <1>3, <1>4
  <1>6. Cardinality(In(pc)) \in Nat
    BY Finite
  <1> QED BY <1>3, <1>5, <1>6

LEMMA CountExactly ==
  CounterExact <=> (life /= "panicked" =>
     pSize = Cardinality(In("holding")) + Cardinality(In("waiting")) + failed)
  BY DEF CounterExact, Holders, Waiters, In

LEMMA ClientValues ==
  /\ Idle \in Client /\ Idle.pc = "idle"
  /\ \A s \in ConStrs : /\ Waiting(s) \in Client /\ Waiting(s).pc = "waiting"
                        /\ Waiting(s).con = s
  /\ \A d \in DBPs, s \in ConStrs : /\ Holding(d, s) \in Client
                                    /\ Holding(d, s).pc = "holding"
                                    /\ Holding(d, s).db = d
  BY DEF Idle, Waiting, Holding, Client

\* A step that starts no Timeout.
LEMMA SameTimers ==
  ASSUME Types, TimersInv, UNCHANGED timers, Kept(dbp, dbp')
  PROVE  timers' \in [DBPs -> Nat] /\ TimersInv'
  BY DEF Types, TimersInv, Kept

\* Counting, for the two kinds of client that count.
Counted(x) == IF x.pc = "idle" THEN 0 ELSE 1

LEMMA CountStep ==
  ASSUME IInv, NEW c \in Clients, NEW x \in Client, client' = [client EXCEPT ![c] = x],
         life /= "panicked", life' = life, pSize' \in Int, failed' \in Nat,
         pSize' - failed' - pSize + failed = Counted(x) - Counted(client[c])
  PROVE  CounterExact'
  <1>1. Cardinality(In("holding")') = Cardinality(In("holding"))
          - (IF client[c].pc = "holding" THEN 1 ELSE 0) + (IF x.pc = "holding" THEN 1 ELSE 0)
    BY Counting DEF IInv
  <1>2. Cardinality(In("waiting")') = Cardinality(In("waiting"))
          - (IF client[c].pc = "waiting" THEN 1 ELSE 0) + (IF x.pc = "waiting" THEN 1 ELSE 0)
    BY Counting DEF IInv
  <1>3. Cardinality(In("holding")) \in Nat /\ Cardinality(In("waiting")) \in Nat
    BY Finite
  <1>4. pSize = Cardinality(In("holding")) + Cardinality(In("waiting")) + failed
    BY CountExactly DEF IInv
  <1>5. pSize \in Int /\ failed \in Nat
    BY DEF IInv, Types
  <1>6. /\ x.pc \in {"idle", "waiting", "holding"}
        /\ client[c].pc \in {"idle", "waiting", "holding"}
    BY DEF IInv, Types, Client
  <1>7. Counted(x) = (IF x.pc = "holding" THEN 1 ELSE 0) + (IF x.pc = "waiting" THEN 1 ELSE 0)
    BY <1>6 DEF Counted
  <1>8. Counted(client[c]) = (IF client[c].pc = "holding" THEN 1 ELSE 0)
             + (IF client[c].pc = "waiting" THEN 1 ELSE 0)
    BY <1>6 DEF Counted
  <1> DEFINE xh == IF x.pc = "holding" THEN 1 ELSE 0
             xw == IF x.pc = "waiting" THEN 1 ELSE 0
             ch == IF client[c].pc = "holding" THEN 1 ELSE 0
             cw == IF client[c].pc = "waiting" THEN 1 ELSE 0
  <1>9. xh \in Int /\ xw \in Int /\ ch \in Int /\ cw \in Int
    OBVIOUS
  <1>10. /\ Cardinality(In("holding")') = Cardinality(In("holding")) - ch + xh
         /\ Cardinality(In("waiting")') = Cardinality(In("waiting")) - cw + xw
         /\ pSize' - failed' - pSize + failed = (xh + xw) - (ch + cw)
    BY <1>1, <1>2, <1>7, <1>8
  <1> HIDE DEF xh, xw, ch, cw
  <1>11. pSize' = Cardinality(In("holding")') + Cardinality(In("waiting")') + failed'
    BY <1>3, <1>4, <1>5, <1>9, <1>10
  <1> QED BY <1>11 DEF CounterExact, Holders, Waiters, In

LEMMA SameCount ==
  ASSUME IInv, UNCHANGED <<client, pSize, failed>>, life' /= "panicked" => life /= "panicked"
  PROVE  CounterExact'
  BY DEF IInv, CounterExact, Holders, Waiters

------------------------------------------------------------------------------
\* The operations.  TakeFirst is part of two of them.
LEMMA TakeFirstStep ==
  ASSUME IInv, NEW c \in Clients, NEW s \in ConStrs, TakeFirst(c, s),
         life = "open", availablePool[s] /= <<>>
  PROVE  /\ availablePool' \in [ConStrs -> Seq(DBPs)] /\ usedPool' \in [ConStrs -> Seq(DBPs)]
         /\ Lists' /\ dbp' \in [DBPs -> DBP] /\ Kept(dbp, dbp') /\ MadeInv'
         /\ client' \in [Clients -> Client] /\ HeldInv' /\ LiveInv'
         /\ Holding(Head(availablePool[s]), s) \in Client
         /\ client' = [client EXCEPT ![c] = Holding(Head(availablePool[s]), s)]
  <1> DEFINE a == availablePool[s]
             u == usedPool[s]
             d == Head(a)
  <1>1. OfString(a, u, dbp, s) /\ a \in Seq(DBPs) /\ u \in Seq(DBPs)
    BY DEF IInv, Types, Lists
  <1>2. /\ availablePool' = [availablePool EXCEPT ![s] = Tail(a)]
        /\ usedPool' = [usedPool EXCEPT ![s] = Append(u, d)]
        /\ client' = [client EXCEPT ![c] = Holding(d, s)]
        /\ dbp' = [dbp EXCEPT ![d].db = IF @ = "fresh" THEN "open" ELSE @]
    BY DEF TakeFirst
  <1>3. /\ OfString(Tail(a), Append(u, d), dbp, s)
        /\ ToSet(a) \cup ToSet(u) = ToSet(Tail(a)) \cup ToSet(Append(u, d))
        /\ d \in ToSet(a) /\ d \in DBPs
    BY <1>1, OfStringTake
  <1>4. dbp[d].db /= "none"
    BY <1>1, <1>3 DEF OfString
  <1>5. /\ dbp' \in [DBPs -> DBP] /\ Kept(dbp, dbp') /\ MadeInv'
        /\ \A e \in DBPs : dbp'[e].con = dbp[e].con /\ (Live(e)' => Live(e))
    BY <1>2, <1>3, <1>4, WakeStep DEF IInv
  <1>6. Tail(a) \in Seq(DBPs) /\ Append(u, d) \in Seq(DBPs)
    BY <1>3 DEF OfString
  <1>7. AtString(s) /\ availablePool'[s] = Tail(a) /\ usedPool'[s] = Append(u, d)
    <2> HIDE DEF a, u, d
    <2> QED BY <1>2, <1>6 DEF AtString, IInv, Types
  <1>8. OfString(availablePool'[s], usedPool'[s], dbp', s)
    BY <1>3, <1>5, <1>7, OfStringKept
  <1>9. Lists'
    BY <1>5, <1>7, <1>8, ListStep DEF IInv
  <1>10. LiveInv'
    BY <1>3, <1>5, <1>7, LiveStep DEF IInv
  <1>11. dbp'[d].db /= "none"
    BY <1>3, <1>4, <1>5 DEF Kept
  <1>12. /\ Holding(d, s) \in Client /\ Holding(d, s).pc = "holding" /\ Holding(d, s).db = d
    BY <1>3, ClientValues
  <1>13. client' \in [Clients -> Client] /\ HeldInv'
    BY <1>2, <1>3, <1>5, <1>11, <1>12, ClientStep DEF IInv
  <1> QED BY <1>2, <1>5, <1>7, <1>9, <1>10, <1>12, <1>13 DEF AtString

LEMMA OpenAvailableKeeps ==
  ASSUME IInv, NEW c \in Clients, NEW s \in ConStrs, OpenAvailable(c, s)
  PROVE  IInv'
  <1>1. /\ life = "open" /\ client[c].pc = "idle" /\ availablePool[s] /= <<>>
        /\ pSize' = pSize + 1 /\ TakeFirst(c, s) /\ UNCHANGED <<timers, life, failed>>
    BY DEF OpenAvailable
  <1> DEFINE x == Holding(Head(availablePool[s]), s)
  <1>2. /\ availablePool' \in [ConStrs -> Seq(DBPs)] /\ usedPool' \in [ConStrs -> Seq(DBPs)]
        /\ Lists' /\ dbp' \in [DBPs -> DBP] /\ Kept(dbp, dbp') /\ MadeInv'
        /\ client' \in [Clients -> Client] /\ HeldInv' /\ LiveInv'
        /\ x \in Client /\ client' = [client EXCEPT ![c] = x]
    BY <1>1, TakeFirstStep
  <1>3. pSize \in Int /\ failed \in Nat /\ x.pc = "holding"
    BY DEF IInv, Types, Holding
  <1> HIDE DEF x
  <1>4. CounterExact'
    <2>1. pSize' - failed' - pSize + failed = Counted(x) - Counted(client[c])
      BY <1>1, <1>3 DEF Counted
    <2>2. life /= "panicked" /\ life' = life /\ pSize' \in Int /\ failed' \in Nat
      BY <1>1, <1>3
    <2> QED BY <1>2, <2>1, <2>2, CountStep
  <1>5. timers' \in [DBPs -> Nat] /\ TimersInv'
    BY <1>1, <1>2, SameTimers DEF IInv
  <1>6. ReleaseClosesAll'
    BY <1>1 DEF ReleaseClosesAll
  <1> QED BY <1>1, <1>2, <1>3, <1>4, <1>5, <1>6 DEF IInv, Types

LEMMA WaitTakeKeeps ==
  ASSUME IInv, NEW c \in Clients, WaitTake(c)
  PROVE  IInv'
  <1> DEFINE s == client[c].con
  <1>1. /\ life = "open" /\ client[c].pc = "waiting" /\ Len(availablePool[s]) > 1
        /\ TakeFirst(c, s) /\ UNCHANGED <<pSize, timers, life, failed>>
    BY DEF WaitTake
  <1>2. s \in ConStrs
    BY <1>1 DEF IInv, HeldInv
  <1> DEFINE x == Holding(Head(availablePool[s]), s)
  <1> HIDE DEF s
  <1>3. availablePool[s] /= <<>>
    BY <1>1
  <1>4. /\ availablePool' \in [ConStrs -> Seq(DBPs)] /\ usedPool' \in [ConStrs -> Seq(DBPs)]
        /\ Lists' /\ dbp' \in [DBPs -> DBP] /\ Kept(dbp, dbp') /\ MadeInv'
        /\ client' \in [Clients -> Client] /\ HeldInv' /\ LiveInv'
        /\ x \in Client /\ client' = [client EXCEPT ![c] = x]
    BY <1>1, <1>2, <1>3, TakeFirstStep
  <1>5. pSize \in Int /\ failed \in Nat /\ x.pc = "holding"
    BY DEF IInv, Types, Holding
  <1> HIDE DEF x
  <1>6. CounterExact'
    <2>1. pSize' - failed' - pSize + failed = Counted(x) - Counted(client[c])
      BY <1>1, <1>5 DEF Counted
    <2>2. life /= "panicked" /\ life' = life /\ pSize' \in Int /\ failed' \in Nat
      BY <1>1, <1>5
    <2> QED BY <1>4, <2>1, <2>2, CountStep
  <1>7. timers' \in [DBPs -> Nat] /\ TimersInv'
    BY <1>1, <1>4, SameTimers DEF IInv
  <1>8. ReleaseClosesAll'
    BY <1>1 DEF ReleaseClosesAll
  <1> QED BY <1>1, <1>4, <1>5, <1>6, <1>7, <1>8 DEF IInv, Types

LEMMA OpenNewKeeps ==
  ASSUME IInv, NEW c \in Clients, NEW s \in ConStrs, OpenNew(c, s)
  PROVE  IInv'
  <1>1. PICK d \in DBPs :
          /\ NewDBP(d, s, "open")
          /\ usedPool' = [usedPool EXCEPT ![s] = Append(@, d)]
          /\ client' = [client EXCEPT ![c] = Holding(d, s)]
    BY DEF OpenNew
  <1>2. /\ life = "open" /\ client[c].pc = "idle" /\ pSize' = pSize + 1
        /\ UNCHANGED <<availablePool, timers, life, failed>>
    BY DEF OpenNew
  <1>3. /\ dbp' \in [DBPs -> DBP] /\ Kept(dbp, dbp') /\ MadeInv'
        /\ dbp[d].db = "none" /\ dbp'[d].db = "open" /\ dbp'[d].con = s
        /\ \A e \in DBPs : e /= d => dbp'[e] = dbp[e]
    BY <1>1, NewDBPStep DEF IInv
  <1> DEFINE a == availablePool[s]
             u == usedPool[s]
             more == Append(u, d)
  <1>4. OfString(a, u, dbp, s) /\ a \in Seq(DBPs) /\ u \in Seq(DBPs)
    BY DEF IInv, Types, Lists
  <1>5. OfString(a, more, dbp', s) /\ ToSet(more) = ToSet(u) \cup {d}
    <2> HIDE DEF a, u
    <2>1. OfString(a, more, dbp', s)
      BY <1>3, <1>4, OfStringNew
    <2>2. d \notin ToSet(u) /\ IsInjective(u)
      BY <1>3, <1>4 DEF OfString
    <2>3. ToSet(more) = ToSet(u) \cup {d}
      BY <1>4, <2>2, AppendNew
    <2> QED BY <2>1, <2>3
  <1>6. more \in Seq(DBPs)
    BY <1>5 DEF OfString
  <1>7. usedPool' = [usedPool EXCEPT ![s] = more]
    BY <1>1
  <1> HIDE DEF more
  <1>8. AtString(s) /\ availablePool'[s] = a /\ usedPool'[s] = more
    BY <1>2, <1>6, <1>7 DEF AtString, IInv, Types
  <1>9. Lists'
    BY <1>3, <1>5, <1>8, ListStep DEF IInv
  <1>10. LiveInv'
    <2>1. \A e \in DBPs : Live(e)' =>
            \/ Live(e) /\ dbp'[e].con = dbp[e].con
            \/ dbp'[e].con = s /\ e \in ToSet(availablePool'[s]) \cup ToSet(usedPool'[s])
      BY <1>3, <1>5, <1>8 DEF Live
    <2>2. \A e \in DBPs : e \in ToSet(availablePool[s]) \cup ToSet(usedPool[s])
            => e \in ToSet(availablePool'[s]) \cup ToSet(usedPool'[s])
      BY <1>5, <1>8
    <2> QED BY <1>2, <1>3, <1>8, <2>1, <2>2, LiveStep DEF IInv
  <1>11. Holding(d, s) \in Client /\ Holding(d, s).pc = "holding" /\ Holding(d, s).db = d
    BY ClientValues
  <1>12. client' \in [Clients -> Client] /\ HeldInv'
    BY <1>1, <1>3, <1>11, ClientStep DEF IInv
  <1>13. pSize \in Int /\ failed \in Nat
    BY DEF IInv, Types
  <1>14. CounterExact'
    <2>1. pSize' - failed' - pSize + failed = Counted(Holding(d, s)) - Counted(client[c])
      BY <1>2, <1>11, <1>13 DEF Counted
    <2>2. life /= "panicked" /\ life' = life /\ pSize' \in Int /\ failed' \in Nat
      BY <1>2, <1>13
    <2> QED BY <1>1, <1>11, <2>1, <2>2, CountStep
  <1>15. timers' \in [DBPs -> Nat] /\ TimersInv'
    BY <1>2, <1>3, SameTimers DEF IInv
  <1>16. ReleaseClosesAll'
    BY <1>2 DEF ReleaseClosesAll
  <1> QED BY <1>2, <1>3, <1>8, <1>9, <1>10, <1>12, <1>13, <1>14, <1>15, <1>16
          DEF IInv, Types, AtString

\* Steps that touch neither a list nor a connection.
LEMMA QuietStep ==
  ASSUME IInv, UNCHANGED <<availablePool, usedPool, dbp, timers>>,
         life' = "open" => life = "open", life' = "released" => life = "released"
  PROVE  /\ availablePool' \in [ConStrs -> Seq(DBPs)] /\ usedPool' \in [ConStrs -> Seq(DBPs)]
         /\ Lists' /\ dbp' \in [DBPs -> DBP] /\ Kept(dbp, dbp') /\ MadeInv'
         /\ timers' \in [DBPs -> Nat] /\ TimersInv' /\ LiveInv' /\ ReleaseClosesAll'
  <1>1. dbp' \in [DBPs -> DBP] /\ Kept(dbp, dbp') /\ MadeInv'
    BY SameStep DEF IInv
  <1>2. /\ availablePool' \in [ConStrs -> Seq(DBPs)] /\ usedPool' \in [ConStrs -> Seq(DBPs)]
        /\ Lists'
    BY <1>1, SameLists DEF IInv
  <1>3. timers' \in [DBPs -> Nat] /\ TimersInv'
    BY <1>1, SameTimers DEF IInv
  <1>4. LiveInv'
    BY SameLive DEF IInv, Live
  <1>5. ReleaseClosesAll'
    BY DEF IInv, ReleaseClosesAll
  <1> QED BY <1>1, <1>2, <1>3, <1>4, <1>5

\* The first use of the released pool ends the program.
LEMMA PanicKeeps ==
  ASSUME IInv, life' = "panicked", pSize' \in Int,
         UNCHANGED <<availablePool, usedPool, dbp, client, timers, failed>>
  PROVE  IInv'
  <1>1. /\ availablePool' \in [ConStrs -> Seq(DBPs)] /\ usedPool' \in [ConStrs -> Seq(DBPs)]
        /\ Lists' /\ dbp' \in [DBPs -> DBP] /\ Kept(dbp, dbp') /\ MadeInv'
        /\ timers' \in [DBPs -> Nat] /\ TimersInv' /\ LiveInv' /\ ReleaseClosesAll'
    BY QuietStep
  <1>2. client' \in [Clients -> Client] /\ HeldInv'
    BY <1>1, SameClients DEF IInv
  <1>3. CounterExact'
    BY DEF CounterExact
  <1> QED BY <1>1, <1>2, <1>3 DEF IInv, Types

LEMMA OpenWaitKeeps ==
  ASSUME IInv, NEW c \in Clients, NEW s \in ConStrs, OpenWait(c, s)
  PROVE  IInv'
  <1>1. /\ life /= "panicked" /\ client[c].pc = "idle" /\ pSize' = pSize + 1
        /\ client' = [client EXCEPT ![c] = Waiting(s)]
        /\ UNCHANGED <<availablePool, usedPool, dbp, timers, life, failed>>
    BY DEF OpenWait
  <1>2. /\ availablePool' \in [ConStrs -> Seq(DBPs)] /\ usedPool' \in [ConStrs -> Seq(DBPs)]
        /\ Lists' /\ dbp' \in [DBPs -> DBP] /\ Kept(dbp, dbp') /\ MadeInv'
        /\ timers' \in [DBPs -> Nat] /\ TimersInv' /\ LiveInv' /\ ReleaseClosesAll'
    BY <1>1, QuietStep
  <1>3. Waiting(s) \in Client /\ Waiting(s).pc = "waiting" /\ Waiting(s).con = s
    BY ClientValues
  <1>4. client' \in [Clients -> Client] /\ HeldInv'
    BY <1>1, <1>2, <1>3, ClientStep DEF IInv
  <1>5. pSize \in Int /\ failed \in Nat
    BY DEF IInv, Types
  <1>6. CounterExact'
    <2>1. pSize' - failed' - pSize + failed = Counted(Waiting(s)) - Counted(client[c])
      BY <1>1, <1>3, <1>5 DEF Counted
    <2>2. life' = life /\ pSize' \in Int /\ failed' \in Nat
      BY <1>1, <1>5
    <2> QED BY <1>1, <1>3, <2>1, <2>2, CountStep
  <1> QED BY <1>1, <1>2, <1>4, <1>5, <1>6 DEF IInv, Types

LEMMA WaitTimeoutKeeps ==
  ASSUME IInv, NEW c \in Clients, WaitTimeout(c)
  PROVE  IInv'
  <1>1. /\ life /= "panicked" /\ client[c].pc = "waiting" /\ failed' = failed + 1
        /\ client' = [client EXCEPT ![c] = Idle]
        /\ UNCHANGED <<availablePool, usedPool, pSize, dbp, timers, life>>
    BY DEF WaitTimeout
  <1>2. /\ availablePool' \in [ConStrs -> Seq(DBPs)] /\ usedPool' \in [ConStrs -> Seq(DBPs)]
        /\ Lists' /\ dbp' \in [DBPs -> DBP] /\ Kept(dbp, dbp') /\ MadeInv'
        /\ timers' \in [DBPs -> Nat] /\ TimersInv' /\ LiveInv' /\ ReleaseClosesAll'
    BY <1>1, QuietStep
  <1>3. Idle \in Client /\ Idle.pc = "idle"
    BY ClientValues
  <1>4. client' \in [Clients -> Client] /\ HeldInv'
    BY <1>1, <1>2, <1>3, ClientStep DEF IInv
  <1>5. pSize \in Int /\ failed \in Nat
    BY DEF IInv, Types
  <1>6. CounterExact'
    <2>1. pSize' - failed' - pSize + failed = Counted(Idle) - Counted(client[c])
      BY <1>1, <1>3, <1>5 DEF Counted
    <2>2. life' = life /\ pSize' \in Int /\ failed' \in Nat
      BY <1>1, <1>5
    <2> QED BY <1>1, <1>3, <2>1, <2>2, CountStep
  <1> QED BY <1>1, <1>2, <1>4, <1>5, <1>6 DEF IInv, Types

LEMMA WaitShareKeeps ==
  ASSUME IInv, NEW c \in Clients, WaitShare(c)
  PROVE  IInv'
  <1> DEFINE s == client[c].con
             list == availablePool[s]
             d == Head(list)
  <1>1. /\ life = "open" /\ client[c].pc = "waiting" /\ Len(list) = 1
        /\ client' = [client EXCEPT ![c] = Holding(d, @.con)]
        /\ dbp' = [dbp EXCEPT ![d].db = IF @ = "fresh" THEN "open" ELSE @]
        /\ UNCHANGED <<availablePool, usedPool, pSize, timers, life, failed>>
    BY DEF WaitShare
  <1>2. s \in ConStrs
    BY <1>1 DEF IInv, HeldInv
  <1>3. client' = [client EXCEPT ![c] = Holding(d, s)]
    BY <1>1 DEF IInv, Types
  <1>4. OfString(list, usedPool[s], dbp, s) /\ list /= <<>>
    BY <1>1, <1>2 DEF IInv, Lists
  <1>5. d \in ToSet(list) /\ d \in DBPs
    BY <1>4, OfStringTake
  <1>6. dbp[d].db /= "none"
    BY <1>4, <1>5 DEF OfString
  <1> HIDE DEF d, list, s
  <1>7. /\ dbp' \in [DBPs -> DBP] /\ Kept(dbp, dbp') /\ MadeInv'
        /\ \A e \in DBPs : dbp'[e].con = dbp[e].con /\ (Live(e)' => Live(e))
    BY <1>1, <1>5, <1>6, WakeStep DEF IInv
  <1>8. /\ availablePool' \in [ConStrs -> Seq(DBPs)] /\ usedPool' \in [ConStrs -> Seq(DBPs)]
        /\ Lists'
    BY <1>1, <1>7, SameLists DEF IInv
  <1>9. LiveInv'
    BY <1>1, <1>7, SameLive DEF IInv
  <1>10. /\ Holding(d, s) \in Client /\ Holding(d, s).pc = "holding"
         /\ Holding(d, s).db = d
    BY <1>2, <1>5, ClientValues
  <1>11. dbp'[d].db /= "none"
    BY <1>5, <1>6, <1>7 DEF Kept
  <1>12. client' \in [Clients -> Client] /\ HeldInv'
    BY <1>3, <1>5, <1>7, <1>10, <1>11, ClientStep DEF IInv
  <1>13. pSize \in Int /\ failed \in Nat
    BY DEF IInv, Types
  <1>14. CounterExact'
    <2>1. pSize' - failed' - pSize + failed = Counted(Holding(d, s)) - Counted(client[c])
      BY <1>1, <1>10, <1>13 DEF Counted
    <2>2. life /= "panicked" /\ life' = life /\ pSize' \in Int /\ failed' \in Nat
      BY <1>1, <1>13
    <2> QED BY <1>3, <1>10, <2>1, <2>2, CountStep
  <1>15. timers' \in [DBPs -> Nat] /\ TimersInv'
    BY <1>1, <1>7, SameTimers DEF IInv
  <1>16. ReleaseClosesAll'
    BY <1>1 DEF ReleaseClosesAll
  <1> QED BY <1>1, <1>7, <1>8, <1>9, <1>12, <1>13, <1>14, <1>15, <1>16 DEF IInv, Types

LEMMA PoolInitKeeps ==
  ASSUME IInv, NEW s \in ConStrs, PoolInit(s)
  PROVE  IInv'
  <1>1. PICK d \in DBPs : /\ NewDBP(d, s, "fresh")
                          /\ availablePool' = [availablePool EXCEPT ![s] = Append(@, d)]
    BY DEF PoolInit
  <1>2. life = "open" /\ UNCHANGED <<usedPool, pSize, client, timers, life, failed>>
    BY DEF PoolInit
  <1>3. /\ dbp' \in [DBPs -> DBP] /\ Kept(dbp, dbp') /\ MadeInv'
        /\ dbp[d].db = "none" /\ dbp'[d].db = "fresh" /\ dbp'[d].con = s
        /\ \A e \in DBPs : e /= d => dbp'[e] = dbp[e]
    BY <1>1, NewDBPStep DEF IInv
  <1> DEFINE a == availablePool[s]
             u == usedPool[s]
             more == Append(a, d)
  <1>4. OfString(a, u, dbp, s) /\ a \in Seq(DBPs) /\ u \in Seq(DBPs)
    BY DEF IInv, Types, Lists
  <1>5. OfString(more, u, dbp', s) /\ ToSet(more) = ToSet(a) \cup {d}
    <2> HIDE DEF a, u
    <2>1. OfString(more, u, dbp', s)
      BY <1>3, <1>4, OfStringNew
    <2>2. d \notin ToSet(a) /\ IsInjective(a)
      BY <1>3, <1>4 DEF OfString
    <2>3. ToSet(more) = ToSet(a) \cup {d}
      BY <1>4, <2>2, AppendNew
    <2> QED BY <2>1, <2>3
  <1>6. more \in Seq(DBPs)
    BY <1>5 DEF OfString
  <1>7. availablePool' = [availablePool EXCEPT ![s] = more]
    BY <1>1
  <1> HIDE DEF more
  <1>8. AtString(s) /\ availablePool'[s] = more /\ usedPool'[s] = u
    BY <1>2, <1>6, <1>7 DEF AtString, IInv, Types
  <1>9. Lists'
    BY <1>3, <1>5, <1>8, ListStep DEF IInv
  <1>10. LiveInv'
    <2>1. \A e \in DBPs : Live(e)' =>
            \/ Live(e) /\ dbp'[e].con = dbp[e].con
            \/ dbp'[e].con = s /\ e \in ToSet(availablePool'[s]) \cup ToSet(usedPool'[s])
      BY <1>3, <1>5, <1>8 DEF Live
    <2>2. \A e \in DBPs : e \in ToSet(availablePool[s]) \cup ToSet(usedPool[s])
            => e \in ToSet(availablePool'[s]) \cup ToSet(usedPool'[s])
      BY <1>5, <1>8
    <2> QED BY <1>2, <1>3, <1>8, <2>1, <2>2, LiveStep DEF IInv
  <1>11. client' \in [Clients -> Client] /\ HeldInv'
    BY <1>2, <1>3, SameClients DEF IInv
  <1>12. CounterExact'
    BY <1>2, SameCount
  <1>13. timers' \in [DBPs -> Nat] /\ TimersInv'
    BY <1>2, <1>3, SameTimers DEF IInv
  <1>14. ReleaseClosesAll'
    BY <1>2 DEF ReleaseClosesAll
  <1> QED BY <1>2, <1>3, <1>8, <1>9, <1>10, <1>11, <1>12, <1>13, <1>14
          DEF IInv, Types, AtString

LEMMA CloseKeeps ==
  ASSUME IInv, NEW c \in Clients, Close(c)
  PROVE  IInv'
  <1> DEFINE d == client[c].db
             s == dbp[d].con
             a == availablePool[s]
             u == usedPool[s]
             i == Position(u, d)
  <1>1. /\ life = "open" /\ client[c].pc = "holding" /\ u /= <<>>
        /\ availablePool' = [availablePool EXCEPT ![s] = Append(@, u[i])]
        /\ usedPool' = [usedPool EXCEPT ![s] = RemoveAt(@, i)]
        /\ timers' = [timers EXCEPT ![d] = @ + 1]
        /\ client' = [client EXCEPT ![c] = Idle]
        /\ pSize' = pSize - 1
        /\ UNCHANGED <<dbp, life, failed>>
    BY DEF Close
  <1>2. d \in DBPs /\ dbp[d].db /= "none"
    BY <1>1 DEF IInv, HeldInv
  <1>3. s \in ConStrs
    BY <1>2 DEF IInv, MadeInv
  <1>4. OfString(a, u, dbp, s) /\ a \in Seq(DBPs) /\ u \in Seq(DBPs)
    BY <1>3 DEF IInv, Types, Lists
  <1>5. i \in 1 .. Len(u)
    BY <1>1, <1>4, PositionFacts
  <1>6. /\ availablePool' = [availablePool EXCEPT ![s] = Append(a, u[i])]
        /\ usedPool' = [usedPool EXCEPT ![s] = RemoveAt(u, i)]
    BY <1>1
  <1> HIDE DEF d, s, a, u, i
  <1>7. /\ OfString(Append(a, u[i]), RemoveAt(u, i), dbp, s)
        /\ ToSet(a) \cup ToSet(u) = ToSet(Append(a, u[i])) \cup ToSet(RemoveAt(u, i))
    BY <1>4, <1>5, OfStringGive
  <1>8. Append(a, u[i]) \in Seq(DBPs) /\ RemoveAt(u, i) \in Seq(DBPs)
    BY <1>7 DEF OfString
  <1>9. /\ AtString(s)
        /\ availablePool'[s] = Append(a, u[i]) /\ usedPool'[s] = RemoveAt(u, i)
    BY <1>3, <1>6, <1>8 DEF AtString, IInv, Types
  <1>10. dbp' \in [DBPs -> DBP] /\ Kept(dbp, dbp') /\ MadeInv'
    BY <1>1, SameStep DEF IInv
  <1>11. Lists'
    BY <1>1, <1>7, <1>9, <1>10, ListStep DEF IInv
  <1>12. LiveInv'
    <2>1. ToSet(availablePool[s]) \cup ToSet(usedPool[s])
            = ToSet(availablePool'[s]) \cup ToSet(usedPool'[s])
      BY <1>7, <1>9 DEF a, u
    <2>2. \A e \in DBPs : Live(e)' => Live(e) /\ dbp'[e].con = dbp[e].con
      BY <1>1 DEF Live
    <2> QED BY <1>1, <1>9, <1>10, <2>1, <2>2, LiveStep DEF IInv
  <1>13. Idle \in Client /\ Idle.pc = "idle"
    BY ClientValues
  <1>14. client' \in [Clients -> Client] /\ HeldInv'
    BY <1>1, <1>10, <1>13, ClientStep DEF IInv
  <1>15. pSize \in Int /\ failed \in Nat
    BY DEF IInv, Types
  <1>16. CounterExact'
    <2>1. pSize' - failed' - pSize + failed = Counted(Idle) - Counted(client[c])
      BY <1>1, <1>13, <1>15 DEF Counted
    <2>2. life /= "panicked" /\ life' = life /\ pSize' \in Int /\ failed' \in Nat
      BY <1>1, <1>15
    <2> QED BY <1>1, <1>13, <2>1, <2>2, CountStep
  <1>17. timers' \in [DBPs -> Nat] /\ TimersInv'
    BY <1>1, <1>2 DEF IInv, Types, TimersInv
  <1>18. ReleaseClosesAll'
    BY <1>1 DEF ReleaseClosesAll
  <1> QED BY <1>1, <1>9, <1>10, <1>11, <1>12, <1>14, <1>15, <1>16, <1>17, <1>18
          DEF IInv, Types, AtString

LEMMA CloseUnknownKeeps ==
  ASSUME IInv, NEW c \in Clients, CloseUnknown(c)
  PROVE  IInv'
  <1> DEFINE d == client[c].db
  <1>1. /\ life /= "panicked" /\ client[c].pc = "holding" /\ CloseDB({d})
        /\ client' = [client EXCEPT ![c] = Idle] /\ pSize' = pSize - 1
        /\ UNCHANGED <<availablePool, usedPool, timers, life, failed>>
    BY DEF CloseUnknown
  <1>2. d \in DBPs /\ dbp[d].db /= "none"
    BY <1>1 DEF IInv, HeldInv
  <1> HIDE DEF d
  <1>3. /\ dbp' \in [DBPs -> DBP] /\ Kept(dbp, dbp') /\ MadeInv'
        /\ \A e \in DBPs : /\ e \in {d} => dbp'[e].db = "closed"
                           /\ e \notin {d} => dbp'[e] = dbp[e]
                           /\ dbp'[e].con = dbp[e].con
    BY <1>1, <1>2, CloseDBStep DEF IInv
  <1>4. /\ availablePool' \in [ConStrs -> Seq(DBPs)] /\ usedPool' \in [ConStrs -> Seq(DBPs)]
        /\ Lists'
    BY <1>1, <1>3, SameLists DEF IInv
  <1>5. \A e \in DBPs : Live(e)' => Live(e) /\ dbp'[e].con = dbp[e].con
    BY <1>3 DEF Live
  <1>6. LiveInv'
    BY <1>1, <1>5, SameLive DEF IInv
  <1>7. Idle \in Client /\ Idle.pc = "idle"
    BY ClientValues
  <1>8. client' \in [Clients -> Client] /\ HeldInv'
    BY <1>1, <1>3, <1>7, ClientStep DEF IInv
  <1>9. pSize \in Int /\ failed \in Nat
    BY DEF IInv, Types
  <1>10. CounterExact'
    <2>1. pSize' - failed' - pSize + failed = Counted(Idle) - Counted(client[c])
      BY <1>1, <1>7, <1>9 DEF Counted
    <2>2. life' = life /\ pSize' \in Int /\ failed' \in Nat
      BY <1>1, <1>9
    <2> QED BY <1>1, <1>7, <2>1, <2>2, CountStep
  <1>11. timers' \in [DBPs -> Nat] /\ TimersInv'
    BY <1>1, <1>3, SameTimers DEF IInv
  <1>12. ReleaseClosesAll'
    BY <1>1, <1>3 DEF IInv, ReleaseClosesAll
  <1> QED BY <1>1, <1>3, <1>4, <1>6, <1>8, <1>9, <1>10, <1>11, <1>12 DEF IInv, Types

LEMMA TimeoutKeeps ==
  ASSUME IInv, NEW d \in DBPs, Timeout(d)
  PROVE  IInv'
  <1> DEFINE s == dbp[d].con
             list == availablePool[s]
             u == usedPool[s]
             i == Position(list, d)
  <1>1. /\ life /= "panicked" /\ timers[d] > 0
        /\ timers' = [timers EXCEPT ![d] = @ - 1]
        /\ UNCHANGED <<usedPool, pSize, client, life, failed>>
    BY DEF Timeout
  <1>2. \/ /\ life = "open" /\ list /= <<>>
           /\ availablePool' = [availablePool EXCEPT ![s] = RemoveAt(@, i)]
           /\ CloseDB({list[i]})
        \/ UNCHANGED <<availablePool, dbp>>
    BY DEF Timeout
  <1>3. dbp[d].db /= "none" /\ s \in ConStrs
    BY <1>1 DEF IInv, TimersInv, MadeInv
  <1>4. timers' \in [DBPs -> Nat] /\ \A e \in DBPs : timers'[e] > 0 => timers[e] > 0
    BY <1>1 DEF IInv, Types
  <1>5. /\ CounterExact' /\ pSize' \in Int /\ failed' \in Nat
        /\ life' \in {"open", "released", "panicked"}
    BY <1>1, SameCount DEF IInv, Types
  <1>6. CASE UNCHANGED <<availablePool, dbp>>
    <2>1. dbp' \in [DBPs -> DBP] /\ Kept(dbp, dbp') /\ MadeInv'
      BY <1>6, SameStep DEF IInv
    <2>2. /\ availablePool' \in [ConStrs -> Seq(DBPs)] /\ usedPool' \in [ConStrs -> Seq(DBPs)]
          /\ Lists'
      BY <1>1, <1>6, <2>1, SameLists DEF IInv
    <2>3. LiveInv' /\ ReleaseClosesAll'
      BY <1>1, <1>6 DEF IInv, LiveInv, ReleaseClosesAll
    <2>4. client' \in [Clients -> Client] /\ HeldInv'
      BY <1>1, <2>1, SameClients DEF IInv
    <2>5. TimersInv'
      BY <1>4, <1>6 DEF IInv, TimersInv
    <2> QED BY <1>4, <1>5, <2>1, <2>2, <2>3, <2>4, <2>5 DEF IInv, Types
  <1>7. CASE /\ life = "open" /\ list /= <<>>
             /\ availablePool' = [availablePool EXCEPT ![s] = RemoveAt(@, i)]
             /\ CloseDB({list[i]})
    <2>1. OfString(list, u, dbp, s) /\ list \in Seq(DBPs)
      BY <1>3 DEF IInv, Types, Lists
    <2>2. i \in 1 .. Len(list)
      BY <1>7, <2>1, PositionFacts
    <2>3. availablePool' = [availablePool EXCEPT ![s] = RemoveAt(list, i)]
      BY <1>7
    <2> HIDE DEF s, list, u, i
    <2>4. /\ OfString(RemoveAt(list, i), u, dbp, s) /\ list[i] \in DBPs
      BY <2>1, <2>2, OfStringDrop
    <2>5. ToSet(RemoveAt(list, i)) = ToSet(list) \ {list[i]} /\ list[i] \in ToSet(list)
      <3>1. ToSet(RemoveAt(list, i)) = ToSet(list) \ {list[i]}
        BY <2>1, <2>2, OfStringDrop
      <3> QED BY <2>1, <2>2, <3>1, ListFacts
    <2>6. dbp[list[i]].db /= "none"
      BY <2>1, <2>5 DEF OfString
    <2>7. /\ dbp' \in [DBPs -> DBP] /\ Kept(dbp, dbp') /\ MadeInv'
          /\ \A e \in DBPs : /\ e \in {list[i]} => dbp'[e].db = "closed"
                             /\ e \notin {list[i]} => dbp'[e] = dbp[e]
                             /\ dbp'[e].con = dbp[e].con
      BY <1>7, <2>4, <2>6, CloseDBStep DEF IInv
    <2>8. RemoveAt(list, i) \in Seq(DBPs)
      BY <2>4 DEF OfString
    <2>9. AtString(s) /\ availablePool'[s] = RemoveAt(list, i) /\ usedPool'[s] = u
      BY <1>1, <1>3, <2>3, <2>8 DEF AtString, IInv, Types, u
    <2>10. Lists'
      <3>1. OfString(RemoveAt(list, i), u, dbp', s)
        BY <2>4, <2>7, OfStringKept
      <3> QED BY <2>7, <2>9, <3>1, ListStep DEF IInv
    <2>11. LiveInv'
      <3>1. \A e \in DBPs : Live(e)' => /\ Live(e) /\ dbp'[e].con = dbp[e].con
                                        /\ e /= list[i]
        BY <2>7 DEF Live
      <3>2. \A e \in DBPs : Live(e)' /\ e \in ToSet(availablePool[s]) \cup ToSet(usedPool[s])
              => e \in ToSet(availablePool'[s]) \cup ToSet(usedPool'[s])
        BY <2>5, <2>9, <3>1 DEF list, u
      <3> QED BY <1>7, <2>7, <2>9, <3>1, <3>2, LiveStep DEF IInv
    <2>12. client' \in [Clients -> Client] /\ HeldInv'
      BY <1>1, <2>7, SameClients DEF IInv
    <2>13. TimersInv'
      BY <1>4, <2>7 DEF IInv, TimersInv, Kept
    <2>14. ReleaseClosesAll'
      BY <1>1, <1>7 DEF ReleaseClosesAll
    <2> QED BY <1>4, <1>5, <2>7, <2>9, <2>10, <2>11, <2>12, <2>13, <2>14
            DEF IInv, Types, AtString
  <1> QED BY <1>2, <1>6, <1>7

LEMMA ReleaseKeeps ==
  ASSUME IInv, Release
  PROVE  IInv'
  <1> DEFINE ds == UNION {ToSet(availablePool[s]) \cup ToSet(usedPool[s]) : s \in ConStrs}
  <1>1. /\ life = "open" /\ life' = "released" /\ CloseDB(ds)
        /\ availablePool' = [s \in ConStrs |-> <<>>]
        /\ usedPool' = [s \in ConStrs |-> <<>>]
        /\ UNCHANGED <<pSize, client, timers, failed>>
    BY DEF Release
  <1>2. \A d \in DBPs : d \in ds => dbp[d].db /= "none"
    <2> SUFFICES ASSUME NEW d \in ds PROVE dbp[d].db /= "none"
      OBVIOUS
    <2>1. PICK s \in ConStrs : d \in ToSet(availablePool[s]) \cup ToSet(usedPool[s])
      OBVIOUS
    <2> QED BY <2>1 DEF IInv, Lists, OfString
  <1>3. \A d \in DBPs : Live(d) => d \in ds
    <2> SUFFICES ASSUME NEW d \in DBPs, Live(d) PROVE d \in ds
      OBVIOUS
    <2>1. dbp[d].con \in ConStrs
      BY DEF IInv, MadeInv, Live
    <2>2. d \in ToSet(availablePool[dbp[d].con]) \cup ToSet(usedPool[dbp[d].con])
      BY <1>1 DEF IInv, LiveInv, Live
    <2> QED BY <2>1, <2>2
  <1> HIDE DEF ds
  <1>4. /\ dbp' \in [DBPs -> DBP] /\ Kept(dbp, dbp') /\ MadeInv'
        /\ \A d \in DBPs : /\ d \in ds => dbp'[d].db = "closed"
                           /\ d \notin ds => dbp'[d] = dbp[d]
    BY <1>1, <1>2, CloseDBStep DEF IInv
  <1>5. ReleaseClosesAll'
    <2> SUFFICES ASSUME NEW d \in DBPs PROVE dbp'[d].db \in {"none", "closed"}
      BY DEF ReleaseClosesAll
    <2>1. CASE d \in ds
      BY <1>4, <2>1
    <2>2. CASE d \notin ds
      BY <1>3, <1>4, <2>2, DBPFields DEF IInv, Live
    <2> QED BY <2>1, <2>2
  <1>6. <<>> \in Seq(DBPs) /\ ToSet(<<>>) = {} /\ IsInjective(<<>>)
    BY DEF ToSet, IsInjective
  <1>7. /\ availablePool' \in [ConStrs -> Seq(DBPs)] /\ usedPool' \in [ConStrs -> Seq(DBPs)]
        /\ Lists'
    BY <1>1, <1>6 DEF Lists, OfString
  <1>8. LiveInv'
    BY <1>1 DEF LiveInv
  <1>9. client' \in [Clients -> Client] /\ HeldInv'
    BY <1>1, <1>4, SameClients DEF IInv
  <1>10. timers' \in [DBPs -> Nat] /\ TimersInv'
    BY <1>1, <1>4, SameTimers DEF IInv
  <1>11. CounterExact' /\ pSize' \in Int /\ failed' \in Nat
    BY <1>1, SameCount DEF IInv, Types
  <1> QED BY <1>1, <1>4, <1>5, <1>7, <1>8, <1>9, <1>10, <1>11 DEF IInv, Types

------------------------------------------------------------------------------
\* The invariant is inductive: it holds at first and every call keeps it.
THEOREM Inductive == Spec => []IInv
  <1>1. Init => IInv
    <2> SUFFICES ASSUME Init PROVE IInv
      OBVIOUS
    <2>1. <<>> \in Seq(DBPs) /\ ToSet(<<>>) = {} /\ IsInjective(<<>>)
      BY DEF ToSet, IsInjective
    <2>2. [db |-> "none", con |-> None] \in DBP
      BY DEF DBP
    <2>3. Types
      BY <2>1, <2>2, ClientValues DEF Init, Types
    <2>4. Lists
      BY <2>1 DEF Init, Lists, OfString
    <2>5. MadeInv /\ TimersInv /\ LiveInv /\ ReleaseClosesAll
      BY DEF Init, MadeInv, TimersInv, LiveInv, ReleaseClosesAll
    <2>6. HeldInv
      BY ClientValues DEF Init, HeldInv
    <2>7. CounterExact
      <3>1. In("holding") = {} /\ In("waiting") = {}
        BY ClientValues DEF Init, In
      <3>2. Cardinality(In("holding")) = 0 /\ Cardinality(In("waiting")) = 0
        BY <3>1, FS_EmptySet
      <3>3. pSize = 0 /\ failed = 0
        BY DEF Init
      <3> QED BY <3>2, <3>3, CountExactly
    <2> QED BY <2>3, <2>4, <2>5, <2>6, <2>7 DEF IInv
  <1>2. IInv /\ [Next]_vars => IInv'
    <2> SUFFICES ASSUME IInv, [Next]_vars PROVE IInv'
      OBVIOUS
    <2>1. ASSUME NEW c \in Clients, NEW s \in ConStrs,
                 OpenAvailable(c, s) \/ OpenNew(c, s) \/ OpenWait(c, s)
          PROVE  IInv'
      BY <2>1, OpenAvailableKeeps, OpenNewKeeps, OpenWaitKeeps
    <2>2. ASSUME NEW c \in Clients, OpenReleased(c) PROVE IInv'
      <3>1. pSize' \in Int
        BY <2>2 DEF OpenReleased, IInv, Types
      <3> QED BY <2>2, <3>1, PanicKeeps DEF OpenReleased
    <2>3. ASSUME NEW c \in Clients,
                 WaitTake(c) \/ WaitShare(c) \/ WaitTimeout(c) \/ Close(c) \/ CloseUnknown(c)
          PROVE  IInv'
      BY <2>3, WaitTakeKeeps, WaitShareKeeps, WaitTimeoutKeeps, CloseKeeps, CloseUnknownKeeps
    <2>4. ASSUME NEW s \in ConStrs, PoolInit(s) PROVE IInv'
      BY <2>4, PoolInitKeeps
    <2>5. ASSUME NEW d \in DBPs, Timeout(d) PROVE IInv'
      BY <2>5, TimeoutKeeps
    <2>6. CASE Release
      BY <2>6, ReleaseKeeps
    <2>7. CASE PoolInitReleased
      <3>1. pSize' \in Int
        BY <2>7 DEF PoolInitReleased, IInv, Types
      <3> QED BY <2>7, <3>1, PanicKeeps DEF PoolInitReleased
    <2>8. CASE UNCHANGED vars
      <3>1. /\ availablePool' \in [ConStrs -> Seq(DBPs)]
            /\ usedPool' \in [ConStrs -> Seq(DBPs)]
            /\ Lists' /\ dbp' \in [DBPs -> DBP] /\ Kept(dbp, dbp') /\ MadeInv'
            /\ timers' \in [DBPs -> Nat] /\ TimersInv' /\ LiveInv' /\ ReleaseClosesAll'
        BY <2>8, QuietStep DEF vars
      <3>2. client' \in [Clients -> Client] /\ HeldInv'
        BY <2>8, <3>1, SameClients DEF IInv, vars
      <3>3. CounterExact'
        BY <2>8, SameCount DEF vars
      <3> QED BY <2>8, <3>1, <3>2, <3>3 DEF IInv, Types, vars
    <2> QED BY <2>1, <2>2, <2>3, <2>4, <2>5, <2>6, <2>7, <2>8 DEF Next
  <1> QED BY <1>1, <1>2, PTL DEF Spec

\* Each connection is in one list of pooling.go, once, under its own string,
\* whichever position Close and Timeout took.
THEOREM ListsCorrect == Spec => []ListedOnce
  <1>1. IInv => ListedOnce
    <2> SUFFICES ASSUME IInv PROVE ListedOnce
      OBVIOUS
    <2>1. \A s \in ConStrs : OfString(availablePool[s], usedPool[s], dbp, s)
      BY DEF IInv, Lists
    <2>2. Available \cap Used = {}
      <3> SUFFICES ASSUME NEW d \in Available, d \in Used PROVE FALSE
        OBVIOUS
      <3>1. PICK s \in ConStrs : d \in ToSet(availablePool[s])
        BY DEF Available
      <3>2. PICK t \in ConStrs : d \in ToSet(usedPool[t])
        BY DEF Used
      <3>3. dbp[d].con = s /\ dbp[d].con = t
        BY <2>1, <3>1, <3>2 DEF OfString
      <3> QED BY <2>1, <3>1, <3>2, <3>3 DEF OfString
    <2> QED BY <2>1, <2>2 DEF ListedOnce, OfString
  <1> QED BY <1>1, Inductive, PTL

\* pSize is what Open and Close of pooling.go meant it to be, but for the calls
\* that gave up.
THEOREM CounterCorrect == Spec => []CounterExact
  <1>1. IInv => CounterExact
    BY DEF IInv
  <1> QED BY <1>1, Inductive, PTL

\* Release closes every sql.DB the pool ever opened and had not closed.
THEOREM ReleaseCloses == Spec => []ReleaseClosesAll
  <1>1. IInv => ReleaseClosesAll
    BY DEF IInv
  <1> QED BY <1>1, Inductive, PTL

------------------------------------------------------------------------------
\* Below the limit.  As long as no Open had to wait, the connections in use are
\* those that clients hold, each by one client.
AvailableOf(s) == ToSet(availablePool[s])
UsedOf(s) == ToSet(usedPool[s])
Holds(c) == client[c].pc = "holding"

HoldersListed ==
  \A c \in Clients : Holds(c) /\ life = "open" => client[c].db \in UsedOf(dbp[client[c].db].con)

OneHolder ==
  life = "open" => \A b, c \in Clients : Holds(b) /\ Holds(c) /\ client[b].db = client[c].db => b = c

UsedHeld ==
  life = "open" =>
    \A s \in ConStrs : \A d \in UsedOf(s) :
      dbp[d].db = "open" /\ \E c \in Clients : Holds(c) /\ client[c].db = d

AvailableWatched ==
  \A s \in ConStrs : \A d \in AvailableOf(s) :
    /\ life = "open" /\ dbp[d].db \in {"fresh", "open"}
    /\ dbp[d].db = "open" => timers[d] > 0

BelowInv ==
  ~crossed => /\ \A c \in Clients : client[c].pc /= "waiting"
              /\ HoldersListed /\ OneHolder /\ UsedHeld /\ AvailableWatched

LEMMA ListedFacts ==
  ASSUME IInv, NEW s \in ConStrs
  PROVE  /\ availablePool[s] \in Seq(DBPs) /\ usedPool[s] \in Seq(DBPs)
         /\ IsInjective(availablePool[s]) /\ IsInjective(usedPool[s])
         /\ AvailableOf(s) \subseteq DBPs /\ UsedOf(s) \subseteq DBPs
         /\ AvailableOf(s) \cap UsedOf(s) = {}
         /\ \A d \in AvailableOf(s) \cup UsedOf(s) : dbp[d].con = s /\ dbp[d].db /= "none"
  <1>1. OfString(availablePool[s], usedPool[s], dbp, s)
    BY DEF IInv, Lists
  <1>2. AvailableOf(s) \subseteq DBPs /\ UsedOf(s) \subseteq DBPs
    BY <1>1, ListFacts DEF OfString, AvailableOf, UsedOf
  <1> QED BY <1>1, <1>2 DEF OfString, AvailableOf, UsedOf

LEMMA ClientFacts ==
  ASSUME IInv, NEW c \in Clients, NEW x, client' = [client EXCEPT ![c] = x]
  PROVE  client'[c] = x /\ \A b \in Clients : b /= c => client'[b] = client[b]
  BY DEF IInv, Types

LEMMA HeldFacts ==
  ASSUME IInv, NEW c \in Clients, Holds(c)
  PROVE  client[c].db \in DBPs /\ dbp[client[c].db].con \in ConStrs
  BY DEF IInv, HeldInv, MadeInv, Holds

LEMMA OpenAvailableBelow ==
  ASSUME IInv, BelowInv, NEW c \in Clients, NEW s \in ConStrs, OpenAvailable(c, s)
  PROVE  BelowInv'
  <1> SUFFICES ASSUME ~crossed PROVE BelowInv'
    BY DEF OpenAvailable, BelowInv
  <1> DEFINE d == Head(availablePool[s])
             x == Holding(d, s)
  <1>1. /\ life = "open" /\ life' = "open" /\ client[c].pc = "idle" /\ availablePool[s] /= <<>>
        /\ availablePool' = [availablePool EXCEPT ![s] = Tail(availablePool[s])]
        /\ usedPool' = [usedPool EXCEPT ![s] = Append(usedPool[s], d)]
        /\ client' = [client EXCEPT ![c] = x] /\ UNCHANGED timers
        /\ dbp' = [dbp EXCEPT ![d].db = IF @ = "fresh" THEN "open" ELSE @]
    BY DEF OpenAvailable, TakeFirst
  <1>2. /\ ToSet(Tail(availablePool[s])) = AvailableOf(s) \ {d} /\ d \in AvailableOf(s)
    BY <1>1, ListedFacts, RemoveHead DEF AvailableOf
  <1>3. d \in DBPs /\ d \notin UsedOf(s) /\ dbp[d].con = s /\ dbp[d].db \in {"fresh", "open"}
    <2> HIDE DEF d
    <2> QED BY <1>2, ListedFacts DEF BelowInv, AvailableWatched
  <1>4. ToSet(Append(usedPool[s], d)) = UsedOf(s) \cup {d}
    <2> HIDE DEF d
    <2> QED BY <1>3, ListedFacts, AppendNew DEF UsedOf
  <1>5. x.pc = "holding" /\ x.db = d
    BY DEF Holding
  <1> HIDE DEF d, x
  <1>6. client'[c] = x /\ \A b \in Clients : b /= c => client'[b] = client[b]
    BY <1>1, ClientFacts
  <1>7. /\ \A e \in DBPs : e /= d => dbp'[e] = dbp[e]
        /\ dbp'[d].db = "open" /\ dbp'[d].con = s
    <2>1. dbp \in [DBPs -> DBP] /\ dbp[d] \in DBP
      BY <1>3 DEF IInv, Types
    <2>2. (IF dbp[d].db = "fresh" THEN "open" ELSE dbp[d].db) = "open"
      BY <1>3
    <2>3. dbp' = [dbp EXCEPT ![d] = [dbp[d] EXCEPT !.db = "open"]]
      BY <1>1, <2>1, <2>2
    <2>4. [dbp[d] EXCEPT !.db = "open"] = [db |-> "open", con |-> dbp[d].con]
      BY <1>3, DBPUpdate DEF IInv
    <2> QED BY <1>3, <2>1, <2>3, <2>4
  <1>8. \A t \in ConStrs :
          /\ AvailableOf(t)' = IF t = s THEN AvailableOf(s) \ {d} ELSE AvailableOf(t)
          /\ UsedOf(t)' = IF t = s THEN UsedOf(s) \cup {d} ELSE UsedOf(t)
    BY <1>1, <1>2, <1>4 DEF AvailableOf, UsedOf, IInv, Types
  <1>9. \A t \in ConStrs : /\ AvailableOf(t) \subseteq DBPs /\ UsedOf(t) \subseteq DBPs
                           /\ \A e \in AvailableOf(t) \cup UsedOf(t) : dbp[e].con = t
    BY ListedFacts
  <1>10. \A b \in Clients : b /= c => (Holds(b)' <=> Holds(b)) /\ (Holds(b) => client[b].db /= d)
    <2> SUFFICES ASSUME NEW b \in Clients, b /= c, Holds(b), client[b].db = d PROVE FALSE
      BY <1>6 DEF Holds
    <2> QED BY <1>1, <1>3 DEF BelowInv, HoldersListed
  <1>11. \A b \in Clients : client'[b].pc /= "waiting"
    BY <1>5, <1>6 DEF BelowInv
  <1>12. HoldersListed'
    <2> SUFFICES ASSUME NEW b \in Clients, Holds(b)'
                 PROVE  client'[b].db \in ToSet(usedPool'[dbp'[client'[b].db].con])
      BY DEF HoldersListed, UsedOf
    <2>3. \A t \in ConStrs :
            ToSet(usedPool'[t]) = IF t = s THEN UsedOf(s) \cup {d} ELSE UsedOf(t)
      BY <1>8 DEF UsedOf
    <2>1. CASE b = c
      BY <1>5, <1>6, <1>7, <2>1, <2>3
    <2>2. CASE b /= c
      <3>1. Holds(b) /\ client'[b] = client[b] /\ client[b].db /= d
        BY <1>6, <1>10, <2>2
      <3>2. /\ client[b].db \in DBPs /\ dbp[client[b].db].con \in ConStrs
            /\ client[b].db \in UsedOf(dbp[client[b].db].con)
        BY <1>1, <3>1, HeldFacts DEF BelowInv, HoldersListed
      <3> QED BY <1>7, <2>3, <3>1, <3>2
    <2> QED BY <2>1, <2>2
  <1>13. OneHolder'
    BY <1>1, <1>5, <1>6, <1>10 DEF BelowInv, OneHolder
  <1>14. UsedHeld'
    <2> SUFFICES ASSUME NEW t \in ConStrs, NEW e \in UsedOf(t)'
                 PROVE  dbp'[e].db = "open" /\ \E b \in Clients : Holds(b)' /\ client'[b].db = e
      BY DEF UsedHeld
    <2>1. CASE e = d
      BY <1>5, <1>6, <1>7, <2>1 DEF Holds
    <2>2. CASE e /= d
      <3>1. e \in UsedOf(t)
        BY <1>8, <2>2
      <3>2. PICK b \in Clients : Holds(b) /\ client[b].db = e
        BY <1>1, <3>1 DEF BelowInv, UsedHeld
      <3>3. b /= c
        BY <1>1, <3>2 DEF Holds
      <3>4. Holds(b)' /\ client'[b].db = e
        BY <1>6, <1>10, <3>2, <3>3
      <3>5. dbp'[e].db = "open"
        BY <1>1, <1>7, <1>9, <2>2, <3>1 DEF BelowInv, UsedHeld
      <3> QED BY <3>4, <3>5
    <2> QED BY <2>1, <2>2
  <1>15. AvailableWatched'
    <2> SUFFICES ASSUME NEW t \in ConStrs, NEW e \in AvailableOf(t)'
                 PROVE  /\ life' = "open" /\ dbp'[e].db \in {"fresh", "open"}
                        /\ dbp'[e].db = "open" => timers'[e] > 0
      BY DEF AvailableWatched
    <2>1. e \in AvailableOf(t) /\ e /= d
      BY <1>3, <1>8, <1>9
    <2> QED BY <1>1, <1>7, <1>9, <2>1 DEF BelowInv, AvailableWatched
  <1> QED BY <1>11, <1>12, <1>13, <1>14, <1>15 DEF BelowInv

LEMMA OpenNewBelow ==
  ASSUME IInv, BelowInv, NEW c \in Clients, NEW s \in ConStrs, OpenNew(c, s)
  PROVE  BelowInv'
  <1> SUFFICES ASSUME ~crossed PROVE BelowInv'
    BY DEF OpenNew, BelowInv
  <1>1. PICK d \in DBPs :
          /\ NewDBP(d, s, "open")
          /\ usedPool' = [usedPool EXCEPT ![s] = Append(usedPool[s], d)]
          /\ client' = [client EXCEPT ![c] = Holding(d, s)]
    BY DEF OpenNew
  <1>2. /\ life = "open" /\ life' = "open" /\ client[c].pc = "idle"
        /\ UNCHANGED <<availablePool, timers>>
    BY DEF OpenNew
  <1>3. /\ dbp[d].db = "none" /\ dbp'[d].db = "open" /\ dbp'[d].con = s
        /\ \A e \in DBPs : e /= d => dbp'[e] = dbp[e]
    BY <1>1, NewDBPStep DEF IInv
  <1>4. \A t \in ConStrs :
          /\ AvailableOf(t) \subseteq DBPs /\ UsedOf(t) \subseteq DBPs
          /\ d \notin AvailableOf(t) /\ d \notin UsedOf(t)
          /\ \A e \in AvailableOf(t) \cup UsedOf(t) : dbp[e].con = t
    BY <1>3, ListedFacts
  <1>5. ToSet(Append(usedPool[s], d)) = UsedOf(s) \cup {d}
    BY <1>4, ListedFacts, AppendNew DEF UsedOf
  <1>6. \A t \in ConStrs :
          /\ AvailableOf(t)' = AvailableOf(t)
          /\ ToSet(usedPool'[t]) = IF t = s THEN UsedOf(s) \cup {d} ELSE UsedOf(t)
    BY <1>1, <1>2, <1>5 DEF AvailableOf, UsedOf, IInv, Types
  <1>7. /\ client'[c].pc = "holding" /\ client'[c].db = d
        /\ \A b \in Clients : b /= c => client'[b] = client[b]
    <2>1. client'[c] = Holding(d, s) /\ \A b \in Clients : b /= c => client'[b] = client[b]
      BY <1>1, ClientFacts
    <2> QED BY <2>1 DEF Holding
  <1>8. \A b \in Clients : b /= c => (Holds(b)' <=> Holds(b)) /\ (Holds(b) => client[b].db /= d)
    BY <1>3, <1>7 DEF Holds, IInv, HeldInv
  <1>9. \A b \in Clients : client'[b].pc /= "waiting"
    BY <1>7 DEF BelowInv
  <1>10. HoldersListed'
    <2> SUFFICES ASSUME NEW b \in Clients, Holds(b)'
                 PROVE  client'[b].db \in ToSet(usedPool'[dbp'[client'[b].db].con])
      BY DEF HoldersListed, UsedOf
    <2>1. CASE b = c
      BY <1>3, <1>6, <1>7, <2>1
    <2>2. CASE b /= c
      <3>1. Holds(b) /\ client'[b] = client[b] /\ client[b].db /= d
        BY <1>7, <1>8, <2>2
      <3>2. /\ client[b].db \in DBPs /\ dbp[client[b].db].con \in ConStrs
            /\ client[b].db \in UsedOf(dbp[client[b].db].con)
        BY <1>2, <3>1, HeldFacts DEF BelowInv, HoldersListed
      <3> QED BY <1>3, <1>6, <3>1, <3>2
    <2> QED BY <2>1, <2>2
  <1>11. OneHolder'
    BY <1>2, <1>7, <1>8 DEF BelowInv, OneHolder
  <1>12. UsedHeld'
    <2> SUFFICES ASSUME NEW t \in ConStrs, NEW e \in UsedOf(t)'
                 PROVE  dbp'[e].db = "open" /\ \E b \in Clients : Holds(b)' /\ client'[b].db = e
      BY DEF UsedHeld
    <2>1. CASE e = d
      BY <1>3, <1>7, <2>1 DEF Holds
    <2>2. CASE e /= d
      <3>1. e \in UsedOf(t)
        BY <1>6, <2>2 DEF UsedOf
      <3>2. PICK b \in Clients : Holds(b) /\ client[b].db = e
        BY <1>2, <3>1 DEF BelowInv, UsedHeld
      <3>3. b /= c
        BY <1>2, <3>2 DEF Holds
      <3>4. Holds(b)' /\ client'[b].db = e
        BY <1>7, <1>8, <3>2, <3>3
      <3>5. dbp'[e].db = "open"
        BY <1>2, <1>3, <1>4, <2>2, <3>1 DEF BelowInv, UsedHeld
      <3> QED BY <3>4, <3>5
    <2> QED BY <2>1, <2>2
  <1>13. AvailableWatched'
    <2> SUFFICES ASSUME NEW t \in ConStrs, NEW e \in AvailableOf(t)'
                 PROVE  /\ life' = "open" /\ dbp'[e].db \in {"fresh", "open"}
                        /\ dbp'[e].db = "open" => timers'[e] > 0
      BY DEF AvailableWatched
    <2>1. e \in AvailableOf(t) /\ e /= d /\ e \in DBPs
      BY <1>4, <1>6
    <2> QED BY <1>2, <1>3, <2>1 DEF BelowInv, AvailableWatched
  <1> QED BY <1>9, <1>10, <1>11, <1>12, <1>13 DEF BelowInv

\* The clients and the connections in use are left alone.
LEMMA UsedSame ==
  ASSUME IInv, BelowInv, ~crossed, UNCHANGED <<usedPool, client, life>>,
         life = "open" => \A s \in ConStrs : \A d \in UsedOf(s) : dbp'[d] = dbp[d]
  PROVE  /\ \A c \in Clients : client'[c].pc /= "waiting"
         /\ HoldersListed' /\ OneHolder' /\ UsedHeld'
  <1>1. \A s \in ConStrs : UsedOf(s)' = UsedOf(s)
    BY DEF UsedOf
  <1>2. HoldersListed'
    <2> SUFFICES ASSUME NEW b \in Clients, Holds(b), life = "open"
                 PROVE  client[b].db \in ToSet(usedPool[dbp'[client[b].db].con])
      BY DEF HoldersListed, UsedOf, Holds
    <2>1. client[b].db \in UsedOf(dbp[client[b].db].con) /\ dbp[client[b].db].con \in ConStrs
      BY HeldFacts DEF BelowInv, HoldersListed
    <2>2. dbp'[client[b].db] = dbp[client[b].db]
      BY <2>1
    <2> QED BY <2>1, <2>2 DEF UsedOf
  <1>3. OneHolder'
    BY DEF BelowInv, OneHolder, Holds
  <1>4. UsedHeld'
    BY <1>1 DEF BelowInv, UsedHeld, Holds
  <1> QED BY <1>2, <1>3, <1>4 DEF BelowInv

LEMMA PoolInitBelow ==
  ASSUME IInv, BelowInv, NEW s \in ConStrs, PoolInit(s)
  PROVE  BelowInv'
  <1> SUFFICES ASSUME ~crossed PROVE BelowInv'
    BY DEF PoolInit, BelowInv
  <1>1. PICK d \in DBPs :
          /\ NewDBP(d, s, "fresh")
          /\ availablePool' = [availablePool EXCEPT ![s] = Append(availablePool[s], d)]
    BY DEF PoolInit
  <1>2. life = "open" /\ life' = "open" /\ UNCHANGED <<usedPool, client, life, timers>>
    BY DEF PoolInit
  <1>3. /\ dbp[d].db = "none" /\ dbp'[d].db = "fresh"
        /\ \A e \in DBPs : e /= d => dbp'[e] = dbp[e]
    BY <1>1, NewDBPStep DEF IInv
  <1>4. \A t \in ConStrs :
          /\ AvailableOf(t) \subseteq DBPs /\ UsedOf(t) \subseteq DBPs
          /\ d \notin AvailableOf(t) /\ d \notin UsedOf(t)
    BY <1>3, ListedFacts
  <1>5. ToSet(Append(availablePool[s], d)) = AvailableOf(s) \cup {d}
    BY <1>4, ListedFacts, AppendNew DEF AvailableOf
  <1>6. \A t \in ConStrs : AvailableOf(t)' \subseteq AvailableOf(t) \cup {d}
    BY <1>1, <1>5 DEF AvailableOf, IInv, Types
  <1>7. AvailableWatched'
    <2> SUFFICES ASSUME NEW t \in ConStrs, NEW e \in AvailableOf(t)'
                 PROVE  /\ life' = "open" /\ dbp'[e].db \in {"fresh", "open"}
                        /\ dbp'[e].db = "open" => timers'[e] > 0
      BY DEF AvailableWatched
    <2>1. e = d \/ (e \in AvailableOf(t) /\ e /= d /\ e \in DBPs)
      BY <1>4, <1>6
    <2> QED BY <1>2, <1>3, <2>1 DEF BelowInv, AvailableWatched
  <1>8. \A t \in ConStrs : \A e \in UsedOf(t) : dbp'[e] = dbp[e]
    BY <1>3, <1>4
  <1> QED BY <1>2, <1>7, <1>8, UsedSame DEF BelowInv

LEMMA FoundPosition ==
  ASSUME NEW S, NEW list \in Seq(S), NEW d \in ToSet(list)
  PROVE  /\ list /= <<>> /\ Position(list, d) \in 1 .. Len(list)
         /\ list[Position(list, d)] = d
  <1>1. \E i \in DOMAIN list : list[i] = d
    BY ListFacts
  <1>2. list /= <<>>
    BY <1>1
  <1>3. Position(list, d) = CHOOSE i \in DOMAIN list : list[i] = d
    BY <1>1 DEF Position
  <1>4. Position(list, d) \in DOMAIN list /\ list[Position(list, d)] = d
    BY <1>1, <1>3
  <1> QED BY <1>2, <1>4, ListFacts

LEMMA CloseBelow ==
  ASSUME IInv, BelowInv, NEW c \in Clients, Close(c)
  PROVE  BelowInv'
  <1> SUFFICES ASSUME ~crossed PROVE BelowInv'
    BY DEF Close, BelowInv
  <1> DEFINE d == client[c].db
             s == dbp[d].con
             i == Position(usedPool[s], d)
             e == usedPool[s][i]
  <1>1. /\ life = "open" /\ life' = "open" /\ Holds(c)
        /\ availablePool' = [availablePool EXCEPT ![s] = Append(availablePool[s], e)]
        /\ usedPool' = [usedPool EXCEPT ![s] = RemoveAt(usedPool[s], i)]
        /\ timers' = [timers EXCEPT ![d] = @ + 1]
        /\ client' = [client EXCEPT ![c] = Idle] /\ UNCHANGED dbp
    BY DEF Close, Holds
  <1>2. d \in DBPs /\ s \in ConStrs /\ d \in UsedOf(s)
    BY <1>1, HeldFacts DEF BelowInv, HoldersListed
  <1> HIDE DEF d, s
  <1>3. i \in 1 .. Len(usedPool[s]) /\ e = d
    BY <1>2, ListedFacts, FoundPosition DEF UsedOf
  <1> HIDE DEF i
  <1>4. ToSet(RemoveAt(usedPool[s], i)) = UsedOf(s) \ {d}
    BY <1>2, <1>3, ListedFacts, RemovePosition DEF UsedOf
  <1> HIDE DEF e
  <1>5. ToSet(Append(availablePool[s], e)) = AvailableOf(s) \cup {d}
    <2>1. d \notin AvailableOf(s)
      BY <1>2, ListedFacts
    <2> QED BY <1>2, <1>3, <2>1, ListedFacts, AppendNew DEF AvailableOf
  <1>6. \A t \in ConStrs :
          /\ AvailableOf(t)' = IF t = s THEN AvailableOf(s) \cup {d} ELSE AvailableOf(t)
          /\ ToSet(usedPool'[t]) = IF t = s THEN UsedOf(s) \ {d} ELSE UsedOf(t)
    BY <1>1, <1>4, <1>5 DEF AvailableOf, UsedOf, IInv, Types
  <1>7. /\ ~Holds(c)' /\ client'[c].pc = "idle"
        /\ \A b \in Clients : b /= c => client'[b] = client[b] /\ (Holds(b)' <=> Holds(b))
    <2>1. client'[c] = Idle /\ \A b \in Clients : b /= c => client'[b] = client[b]
      BY <1>1, ClientFacts
    <2> QED BY <2>1 DEF Holds, Idle
  <1>8. \A b \in Clients : b /= c /\ Holds(b) => client[b].db /= d
    BY <1>1 DEF BelowInv, OneHolder, d
  <1>9. \A b \in Clients : client'[b].pc /= "waiting"
    BY <1>7 DEF BelowInv
  <1>10. HoldersListed'
    <2> SUFFICES ASSUME NEW b \in Clients, Holds(b)'
                 PROVE  client'[b].db \in ToSet(usedPool'[dbp[client'[b].db].con])
      BY <1>1 DEF HoldersListed, UsedOf
    <2>1. b /= c /\ Holds(b) /\ client'[b] = client[b] /\ client[b].db /= d
      BY <1>7, <1>8
    <2>2. /\ dbp[client[b].db].con \in ConStrs
          /\ client[b].db \in UsedOf(dbp[client[b].db].con)
      BY <1>1, <2>1, HeldFacts DEF BelowInv, HoldersListed
    <2> QED BY <1>6, <2>1, <2>2
  <1>11. OneHolder'
    BY <1>1, <1>7 DEF BelowInv, OneHolder
  <1>12. UsedHeld'
    <2> SUFFICES ASSUME NEW t \in ConStrs, NEW f \in ToSet(usedPool'[t])
                 PROVE  dbp'[f].db = "open" /\ \E b \in Clients : Holds(b)' /\ client'[b].db = f
      BY DEF UsedHeld, UsedOf
    <2>1. f \in UsedOf(t) /\ f /= d
      <3>1. \A g \in UsedOf(t) : dbp[g].con = t
        BY ListedFacts
      <3> QED BY <1>6, <3>1 DEF s
    <2>2. PICK b \in Clients : Holds(b) /\ client[b].db = f
      BY <1>1, <2>1 DEF BelowInv, UsedHeld
    <2>3. b /= c
      BY <2>1, <2>2 DEF d
    <2>4. Holds(b)' /\ client'[b].db = f
      BY <1>7, <2>2, <2>3
    <2>5. dbp'[f].db = "open"
      BY <1>1, <2>1 DEF BelowInv, UsedHeld
    <2> QED BY <2>4, <2>5
  <1>13. AvailableWatched'
    <2> SUFFICES ASSUME NEW t \in ConStrs, NEW f \in AvailableOf(t)'
                 PROVE  /\ life' = "open" /\ dbp'[f].db \in {"fresh", "open"}
                        /\ dbp'[f].db = "open" => timers'[f] > 0
      BY DEF AvailableWatched
    <2>1. timers \in [DBPs -> Nat]
      BY DEF IInv, Types
    <2>2. CASE f = d
      <3>1. dbp'[f].db = "open"
        BY <1>1, <1>2, <2>2 DEF BelowInv, UsedHeld
      <3>2. timers'[f] > 0
        BY <1>1, <1>2, <2>1, <2>2
      <3> QED BY <1>1, <3>1, <3>2
    <2>3. CASE f /= d
      <3>1. f \in AvailableOf(t) /\ f \in DBPs
        <4>1. f \in AvailableOf(t)
          BY <1>6, <2>3
        <4> QED BY <4>1, ListedFacts
      <3>2. timers'[f] = timers[f]
        BY <1>1, <2>1, <2>3, <3>1
      <3> QED BY <1>1, <3>1, <3>2 DEF BelowInv, AvailableWatched
    <2> QED BY <2>2, <2>3
  <1> QED BY <1>9, <1>10, <1>11, <1>12, <1>13 DEF BelowInv

\* A pool that is gone has no lists.
LEMMA GoneBelow ==
  ASSUME IInv, BelowInv, ~crossed, life' /= "open",
         \A c \in Clients : client'[c].pc /= "waiting",
         \A s \in ConStrs : availablePool'[s] = <<>> \/ (life /= "open" /\ availablePool'[s] = availablePool[s])
  PROVE  BelowInv'
  <1>1. \A s \in ConStrs : AvailableOf(s)' = {}
    <2> SUFFICES ASSUME NEW s \in ConStrs, NEW d \in AvailableOf(s)' PROVE FALSE
      OBVIOUS
    <2>1. CASE availablePool'[s] = <<>>
      BY <2>1 DEF AvailableOf, ToSet
    <2>2. CASE life /= "open" /\ availablePool'[s] = availablePool[s]
      BY <2>2 DEF AvailableOf, BelowInv, AvailableWatched
    <2> QED BY <2>1, <2>2
  <1> QED BY <1>1 DEF BelowInv, HoldersListed, OneHolder, UsedHeld, AvailableWatched

LEMMA CloseUnknownBelow ==
  ASSUME IInv, BelowInv, NEW c \in Clients, CloseUnknown(c)
  PROVE  BelowInv'
  <1> SUFFICES ASSUME ~crossed PROVE BelowInv'
    BY DEF CloseUnknown, BelowInv
  <1>1. /\ Holds(c) /\ client' = [client EXCEPT ![c] = Idle]
        /\ UNCHANGED <<availablePool, usedPool, life>>
        /\ life = "released" \/ usedPool[dbp[client[c].db].con] = <<>>
    BY DEF CloseUnknown, Holds
  <1>2. life /= "open"
    <2> SUFFICES ASSUME life = "open" PROVE FALSE
      OBVIOUS
    <2>1. client[c].db \in UsedOf(dbp[client[c].db].con)
      BY <1>1 DEF BelowInv, HoldersListed
    <2> QED BY <1>1, <2>1 DEF UsedOf, ToSet
  <1>3. \A b \in Clients : client'[b].pc /= "waiting"
    BY <1>1, ClientFacts DEF BelowInv, Idle
  <1> QED BY <1>1, <1>2, <1>3, GoneBelow

\* A Timeout takes its own connection off the list, if it is there, and else
\* one that nobody uses.
LEMMA TimeoutBelow ==
  ASSUME IInv, BelowInv, NEW d \in DBPs, Timeout(d)
  PROVE  BelowInv'
  <1> SUFFICES ASSUME ~crossed PROVE BelowInv'
    BY DEF Timeout, BelowInv
  <1> DEFINE s == dbp[d].con
             list == availablePool[s]
             i == Position(list, d)
             e == list[i]
  <1>1. /\ timers[d] > 0 /\ timers' = [timers EXCEPT ![d] = @ - 1]
        /\ UNCHANGED <<usedPool, client, life>>
        /\ IF life = "open" /\ list /= <<>>
           THEN /\ availablePool' = [availablePool EXCEPT ![s] = RemoveAt(list, i)]
                /\ CloseDB({e})
           ELSE UNCHANGED <<availablePool, dbp>>
    BY DEF Timeout
  <1>2. s \in ConStrs /\ timers \in [DBPs -> Nat]
    BY <1>1 DEF IInv, Types, TimersInv, MadeInv
  <1> HIDE DEF s
  <1>3. CASE life /= "open"
    BY <1>1, <1>3, GoneBelow DEF BelowInv
  <1>4. CASE life = "open" /\ list = <<>>
    <2>1. AvailableWatched'
      <3> SUFFICES ASSUME NEW t \in ConStrs, NEW f \in AvailableOf(t)'
                   PROVE  /\ life' = "open" /\ dbp'[f].db \in {"fresh", "open"}
                          /\ dbp'[f].db = "open" => timers'[f] > 0
        BY DEF AvailableWatched
      <3>1. f \in AvailableOf(t)
        BY <1>1, <1>4 DEF AvailableOf
      <3>2. f \in DBPs /\ f /= d
        <4>1. f \in DBPs /\ dbp[f].con = t
          BY <3>1, ListedFacts
        <4>2. CASE f = d
          BY <1>4, <3>1, <4>1, <4>2 DEF AvailableOf, ToSet, s
        <4> QED BY <4>1, <4>2
      <3> QED BY <1>1, <1>2, <1>4, <3>1, <3>2 DEF BelowInv, AvailableWatched
    <2> QED BY <1>1, <1>4, <2>1, UsedSame DEF BelowInv
  <1>5. CASE life = "open" /\ list /= <<>>
    <2>1. list \in Seq(DBPs) /\ IsInjective(list)
      BY <1>2, ListedFacts
    <2>2. i \in 1 .. Len(list) /\ e \in AvailableOf(s) /\ (d \in AvailableOf(s) => e = d)
      <3>1. i \in 1 .. Len(list)
        BY <1>5, <2>1, PositionFacts
      <3>2. e \in AvailableOf(s)
        <4> HIDE DEF i
        <4> QED BY <2>1, <3>1, ListFacts DEF AvailableOf
      <3> QED BY <2>1, <3>1, <3>2, FoundPosition DEF AvailableOf
    <2>3. /\ availablePool' = [availablePool EXCEPT ![s] = RemoveAt(list, i)]
          /\ dbp' = [f \in DBPs |-> IF f \in {e} THEN [dbp[f] EXCEPT !.db = "closed"] ELSE dbp[f]]
      BY <1>1, <1>5 DEF CloseDB
    <2>4. ToSet(RemoveAt(list, i)) = AvailableOf(s) \ {e}
      <3> HIDE DEF i
      <3> QED BY <2>1, <2>2, RemovePosition DEF AvailableOf
    <2> HIDE DEF i, e
    <2>5. \A t \in ConStrs :
            AvailableOf(t)' = IF t = s THEN AvailableOf(s) \ {e} ELSE AvailableOf(t)
      BY <1>2, <2>3, <2>4 DEF AvailableOf, IInv, Types
    <2> HIDE DEF list
    <2>6. \A t \in ConStrs : /\ AvailableOf(t) \subseteq DBPs /\ UsedOf(t) \subseteq DBPs
                             /\ AvailableOf(t) \cap UsedOf(t) = {}
                             /\ \A f \in AvailableOf(t) \cup UsedOf(t) : dbp[f].con = t
      BY ListedFacts
    <2>7. \A t \in ConStrs : \A f \in UsedOf(t) : dbp'[f] = dbp[f]
      <3> SUFFICES ASSUME NEW t \in ConStrs, NEW f \in UsedOf(t) PROVE dbp'[f] = dbp[f]
        OBVIOUS
      <3>1. f \in DBPs /\ f /= e
        BY <1>2, <2>2, <2>6
      <3> QED BY <2>3, <3>1
    <2>8. AvailableWatched'
      <3> SUFFICES ASSUME NEW t \in ConStrs, NEW f \in AvailableOf(t)'
                   PROVE  /\ life' = "open" /\ dbp'[f].db \in {"fresh", "open"}
                          /\ dbp'[f].db = "open" => timers'[f] > 0
        BY DEF AvailableWatched
      <3>1. f \in AvailableOf(t) /\ f \in DBPs /\ f /= e
        BY <1>2, <2>2, <2>5, <2>6
      <3>2. f /= d
        BY <2>2, <2>6, <3>1 DEF s
      <3>3. dbp'[f] = dbp[f] /\ timers'[f] = timers[f]
        BY <1>1, <1>2, <2>3, <3>1, <3>2
      <3> QED BY <1>1, <1>5, <3>1, <3>3 DEF BelowInv, AvailableWatched
    <2> QED BY <1>1, <2>7, <2>8, UsedSame DEF BelowInv
  <1> QED BY <1>3, <1>4, <1>5

\* The invariant below the limit is kept by every step.
LEMMA BelowInductive == Spec => []BelowInv
  <1>1. Init => BelowInv
    <2> SUFFICES ASSUME Init PROVE BelowInv
      OBVIOUS
    <2>1. /\ \A s \in ConStrs : availablePool[s] = <<>> /\ usedPool[s] = <<>>
          /\ \A c \in Clients : client[c] = Idle
      BY DEF Init
    <2>2. \A s \in ConStrs : AvailableOf(s) = {} /\ UsedOf(s) = {}
      BY <2>1 DEF AvailableOf, UsedOf, ToSet
    <2>3. \A c \in Clients : client[c].pc = "idle"
      BY <2>1 DEF Idle
    <2> QED BY <2>2, <2>3 DEF BelowInv, HoldersListed, OneHolder, UsedHeld, AvailableWatched, Holds
  <1>2. IInv /\ BelowInv /\ [Next]_vars => BelowInv'
    <2> SUFFICES ASSUME IInv, BelowInv, [Next]_vars PROVE BelowInv'
      OBVIOUS
    <2>1. ASSUME NEW c \in Clients, NEW s \in ConStrs, OpenAvailable(c, s) \/ OpenNew(c, s)
          PROVE  BelowInv'
      BY <2>1, OpenAvailableBelow, OpenNewBelow
    <2>2. ASSUME NEW c \in Clients, NEW s \in ConStrs, OpenWait(c, s) PROVE BelowInv'
      BY <2>2 DEF OpenWait, BelowInv
    <2>3. ASSUME NEW c \in Clients, WaitTake(c) \/ WaitShare(c) \/ WaitTimeout(c)
          PROVE  BelowInv'
      BY <2>3 DEF WaitTake, WaitShare, WaitTimeout, BelowInv
    <2>4. ASSUME NEW c \in Clients, Close(c) \/ CloseUnknown(c) PROVE BelowInv'
      BY <2>4, CloseBelow, CloseUnknownBelow
    <2>5. ASSUME NEW s \in ConStrs, PoolInit(s) PROVE BelowInv'
      BY <2>5, PoolInitBelow
    <2>6. ASSUME NEW d \in DBPs, Timeout(d) PROVE BelowInv'
      BY <2>6, TimeoutBelow
    <2>7. CASE Release
      <3>1. /\ life' /= "open" /\ UNCHANGED <<client, crossed>>
            /\ \A s \in ConStrs : availablePool'[s] = <<>>
        BY <2>7 DEF Release
      <3>2. CASE ~crossed
        BY <3>1, <3>2, GoneBelow DEF BelowInv
      <3> QED BY <3>1, <3>2 DEF BelowInv
    <2>8. CASE PoolInitReleased \/ \E c \in Clients : OpenReleased(c)
      <3>1. life /= "open" /\ life' /= "open" /\ UNCHANGED <<client, crossed, availablePool>>
        BY <2>8 DEF PoolInitReleased, OpenReleased
      <3>2. CASE ~crossed
        BY <3>1, <3>2, GoneBelow DEF BelowInv
      <3> QED BY <3>1, <3>2 DEF BelowInv
    <2>9. CASE UNCHANGED vars
      BY <2>9 DEF vars, BelowInv, HoldersListed, OneHolder, UsedHeld, AvailableWatched, Holds,
                  AvailableOf, UsedOf
    <2> QED BY <2>1, <2>2, <2>3, <2>4, <2>5, <2>6, <2>7, <2>8, <2>9 DEF Next
  <1> QED BY <1>1, <1>2, Inductive, PTL DEF Spec

\* Below the limit two clients of the pool of pooling.go never hold one
\* connection, and the lists say who uses what, for any poolSize and any use.
THEOREM ExclusiveCorrect == Spec => []ExclusiveBelowLimit
  <1>1. IInv /\ BelowInv => ExclusiveBelowLimit
    <2> SUFFICES ASSUME IInv, BelowInv, ~crossed, life = "open"
                 PROVE  /\ \A c1, c2 \in Holders : client[c1].db = client[c2].db => c1 = c2
                        /\ Used = {client[c].db : c \in Holders}
                        /\ \A d \in Used : dbp[d].db = "open"
                        /\ \A d \in Available : dbp[d].db \in {"fresh", "open"}
      BY DEF ExclusiveBelowLimit
    <2>1. \A c \in Clients : c \in Holders <=> Holds(c)
      BY DEF Holders, Holds
    <2>2. Used = {client[c].db : c \in Holders}
      <3>1. ASSUME NEW d \in Used PROVE \E c \in Holders : client[c].db = d
        <4>1. PICK s \in ConStrs : d \in UsedOf(s)
          BY <3>1 DEF Used, UsedOf
        <4> QED BY <2>1, <4>1 DEF BelowInv, UsedHeld
      <3>2. ASSUME NEW c \in Holders PROVE client[c].db \in Used
        <4>1. c \in Clients /\ Holds(c)
          BY <2>1 DEF Holders
        <4> QED BY <4>1, HeldFacts DEF BelowInv, HoldersListed, Used, UsedOf
      <3> QED BY <3>1, <3>2
    <2>3. \A c1, c2 \in Holders : client[c1].db = client[c2].db => c1 = c2
      BY <2>1 DEF BelowInv, OneHolder, Holders
    <2> QED BY <2>2, <2>3 DEF BelowInv, UsedHeld, AvailableWatched, Used, UsedOf,
                              Available, AvailableOf
  <1> QED BY <1>1, Inductive, BelowInductive, PTL

\* Below the limit a connection that has been used and is idle has a Timeout
\* that Close started for it.
THEOREM WatchedCorrect == Spec => []IdleWatched
  <1>1. BelowInv => IdleWatched
    BY DEF IdleWatched, BelowInv, AvailableWatched, Available, AvailableOf
  <1> QED BY <1>1, BelowInductive, PTL
==============================================================================
