-------------------------------- MODULE Pool --------------------------------
(***************************************************************************)
(* The client-side connection pool of go_ibm_db (pooling.go), its calls    *)
(* taken one at a time: Open, Init, Close, Release, and the goroutine      *)
(* Timeout that every Close starts.  The wait loop of Open is not one      *)
(* step: other calls run while it sleeps.  PoolSteps takes Open apart.     *)
(*                                                                         *)
(* A key is in availablePool or usedPool exactly when its list is not      *)
(* empty, so a missing key is an empty list here.  Time is abstracted: a   *)
(* deadline, or the lifetime a Timeout sleeps, may end at any moment.      *)
(***************************************************************************)
EXTENDS Integers, FiniteSets, SequencesExt

CONSTANTS Clients,     \* goroutines that use the pool
          DBPs,        \* the DBP objects, each with its sql.DB
          ConStrs,     \* connection strings
          None,        \* Go's nil
          PoolSize,    \* poolSize
          MaxTimers,   \* bound: pending Timeout goroutines of one DBP
          MaxFailed    \* bound: calls of Open that return nil

ASSUME PoolAssumption == /\ IsFiniteSet(Clients)
                         /\ PoolSize \in Nat \ {0}
                         /\ MaxTimers \in Nat /\ MaxFailed \in Nat
                         /\ None \notin DBPs

VARIABLES availablePool, \* [ConStrs -> Seq(DBPs)]
          usedPool,      \* [ConStrs -> Seq(DBPs)]
          pSize,         \* the global counter pSize
          dbp,           \* [DBPs -> its sql.DB and its field con]
          client,        \* [Clients -> what it does and the DBP it holds]
          timers,        \* [DBPs -> number of pending Timeout goroutines]
          life,          \* "open"; "released": both maps are nil; "panicked"
          failed,        \* history: calls of Open that returned nil
          crossed        \* history: has an Open ever had to wait?

vars == <<availablePool, usedPool, pSize, dbp, client, timers, life, failed, crossed>>

\* db: not made; opened by Init and never handed out; open; closed.
DBP == [db : {"none", "fresh", "open", "closed"}, con : ConStrs \cup {None}]

Client == [pc : {"idle", "waiting", "holding"},
           db : DBPs \cup {None}, con : ConStrs \cup {None}]

Idle == [pc |-> "idle", db |-> None, con |-> None]
Waiting(s) == [pc |-> "waiting", db |-> None, con |-> s]
Holding(d, s) == [pc |-> "holding", db |-> d, con |-> s]

Init == /\ availablePool = [s \in ConStrs |-> <<>>]
        /\ usedPool = [s \in ConStrs |-> <<>>]
        /\ pSize = 0
        /\ dbp = [d \in DBPs |-> [db |-> "none", con |-> None]]
        /\ client = [c \in Clients |-> Idle]
        /\ timers = [d \in DBPs |-> 0]
        /\ life = "open"
        /\ failed = 0
        /\ crossed = FALSE

------------------------------------------------------------------------------
\* sql.Open: makes no connection to the server, and fails only for a driver
\* that is not registered.
NewDBP(d, s, state) == /\ dbp[d].db = "none"
                       /\ dbp' = [dbp EXCEPT ![d] = [db |-> state, con |-> s]]

CloseDB(ds) == dbp' = [d \in DBPs |-> IF d \in ds THEN [dbp[d] EXCEPT !.db = "closed"]
                                                  ELSE dbp[d]]

\* Fault variant: the connection at the front is taken whoever is asked for.
PositionFirst(list, d) == 1

\* The search of Close and Timeout: pos stays 0 when d is not in the list.
Position(list, d) ==
  IF \E i \in DOMAIN list : list[i] = d THEN CHOOSE i \in DOMAIN list : list[i] = d ELSE 1

\* Fault variant: the connection stays available as well.
TakeFirstKeep(c, s) ==
  LET d == Head(availablePool[s])
  IN  /\ usedPool' = [usedPool EXCEPT ![s] = Append(@, d)]
      /\ client' = [client EXCEPT ![c] = Holding(d, s)]
      /\ dbp' = [dbp EXCEPT ![d].db = IF @ = "fresh" THEN "open" ELSE @]
      /\ UNCHANGED availablePool

\* The first available connection moves to usedPool.
TakeFirst(c, s) ==
  LET d == Head(availablePool[s])
  IN  /\ availablePool' = [availablePool EXCEPT ![s] = Tail(@)]
      /\ usedPool' = [usedPool EXCEPT ![s] = Append(@, d)]
      /\ client' = [client EXCEPT ![c] = Holding(d, s)]
      /\ dbp' = [dbp EXCEPT ![d].db = IF @ = "fresh" THEN "open" ELSE @]

\* Open below the limit: an available connection, or a new one.
OpenAvailable(c, s) ==
  /\ life = "open" /\ client[c].pc = "idle"
  /\ pSize < PoolSize /\ availablePool[s] /= <<>>
  /\ pSize' = pSize + 1
  /\ TakeFirst(c, s)
  /\ UNCHANGED <<timers, life, failed, crossed>>

OpenNew(c, s) ==
  /\ life = "open" /\ client[c].pc = "idle"
  /\ pSize < PoolSize /\ availablePool[s] = <<>>
  /\ pSize' = pSize + 1
  /\ \E d \in DBPs : /\ NewDBP(d, s, "open")
                     /\ usedPool' = [usedPool EXCEPT ![s] = Append(@, d)]
                     /\ client' = [client EXCEPT ![c] = Holding(d, s)]
  /\ UNCHANGED <<availablePool, timers, life, failed, crossed>>

\* After Release the map usedPool is nil, and Open stores into it.
OpenReleased(c) ==
  /\ life = "released" /\ client[c].pc = "idle"
  /\ pSize < PoolSize
  /\ pSize' = pSize + 1
  /\ life' = "panicked"
  /\ UNCHANGED <<availablePool, usedPool, dbp, client, timers, failed, crossed>>

\* Open at the limit waits for a connection of its string.
OpenWait(c, s) ==
  /\ life /= "panicked" /\ client[c].pc = "idle"
  /\ pSize >= PoolSize
  /\ pSize' = pSize + 1
  /\ client' = [client EXCEPT ![c] = Waiting(s)]
  /\ crossed' = TRUE
  /\ UNCHANGED <<availablePool, usedPool, dbp, timers, life, failed>>

\* One of several available connections is taken.
WaitTake(c) ==
  /\ life = "open" /\ client[c].pc = "waiting"
  /\ Len(availablePool[client[c].con]) > 1
  /\ TakeFirst(c, client[c].con)
  /\ UNCHANGED <<pSize, timers, life, failed, crossed>>

\* The only available connection is returned and stays where it is.
WaitShare(c) ==
  LET list == availablePool[client[c].con]
  IN  /\ life = "open" /\ client[c].pc = "waiting"
      /\ Len(list) = 1
      /\ client' = [client EXCEPT ![c] = Holding(Head(list), @.con)]
      /\ dbp' = [dbp EXCEPT ![Head(list)].db = IF @ = "fresh" THEN "open" ELSE @]
      /\ UNCHANGED <<availablePool, usedPool, pSize, timers, life, failed, crossed>>

\* The deadline passes.  pSize keeps counting the call.
WaitTimeout(c) ==
  /\ life /= "panicked" /\ client[c].pc = "waiting"
  /\ failed < MaxFailed
  /\ failed' = failed + 1
  /\ client' = [client EXCEPT ![c] = Idle]
  /\ UNCHANGED <<availablePool, usedPool, pSize, dbp, timers, life, crossed>>

\* One round of the loop of Init, which looks at no limit.
PoolInit(s) ==
  /\ life = "open"
  /\ \E d \in DBPs : /\ NewDBP(d, s, "fresh")
                     /\ availablePool' = [availablePool EXCEPT ![s] = Append(@, d)]
  /\ UNCHANGED <<usedPool, pSize, client, timers, life, failed, crossed>>

\* Init, too, stores into a nil map after Release.
PoolInitReleased ==
  /\ life = "released"
  /\ life' = "panicked"
  /\ UNCHANGED <<availablePool, usedPool, pSize, dbp, client, timers, failed, crossed>>

\* Fault variants: Close forgets the counter; it starts no Timeout.
CloseUncounted(c) ==
  LET d == client[c].db  s == dbp[d].con
  IN  /\ life /= "panicked" /\ client[c].pc = "holding"
      /\ life = "released" \/ usedPool[s] = <<>>
      /\ CloseDB({d}) /\ client' = [client EXCEPT ![c] = Idle]
      /\ UNCHANGED <<availablePool, usedPool, pSize, timers, life, failed, crossed>>
CloseNoTimer(c) ==
  LET d == client[c].db  s == dbp[d].con  i == Position(usedPool[s], d)
  IN  /\ life = "open" /\ client[c].pc = "holding" /\ usedPool[s] /= <<>>
      /\ availablePool' = [availablePool EXCEPT ![s] = Append(@, usedPool[s][i])]
      /\ usedPool' = [usedPool EXCEPT ![s] = RemoveAt(@, i)]
      /\ client' = [client EXCEPT ![c] = Idle]
      /\ pSize' = pSize - 1
      /\ UNCHANGED <<dbp, timers, life, failed, crossed>>

\* Close while its string has connections in use: the one at the position
\* found becomes available, which need not be the one that is closed.
Close(c) ==
  LET d == client[c].db  s == dbp[d].con  i == Position(usedPool[s], d)
  IN  /\ life = "open" /\ client[c].pc = "holding" /\ usedPool[s] /= <<>>
      /\ timers[d] < MaxTimers
      /\ availablePool' = [availablePool EXCEPT ![s] = Append(@, usedPool[s][i])]
      /\ usedPool' = [usedPool EXCEPT ![s] = RemoveAt(@, i)]
      /\ timers' = [timers EXCEPT ![d] = @ + 1]
      /\ client' = [client EXCEPT ![c] = Idle]
      /\ pSize' = pSize - 1
      /\ UNCHANGED <<dbp, life, failed, crossed>>

\* Close while its string has none in use, or no pool is left.
CloseUnknown(c) ==
  LET d == client[c].db
  IN  /\ life /= "panicked" /\ client[c].pc = "holding"
      /\ life = "released" \/ usedPool[dbp[d].con] = <<>>
      /\ CloseDB({d})
      /\ client' = [client EXCEPT ![c] = Idle]
      /\ pSize' = pSize - 1
      /\ UNCHANGED <<availablePool, usedPool, timers, life, failed, crossed>>

\* The goroutine that Close started wakes up.  The connection it removes and
\* closes need not be its own either.
Timeout(d) ==
  LET s == dbp[d].con  list == availablePool[s]  i == Position(list, d)
  IN  /\ life /= "panicked" /\ timers[d] > 0
      /\ timers' = [timers EXCEPT ![d] = @ - 1]
      /\ IF life = "open" /\ list /= <<>>
         THEN /\ availablePool' = [availablePool EXCEPT ![s] = RemoveAt(@, i)]
              /\ CloseDB({list[i]})
         ELSE UNCHANGED <<availablePool, dbp>>
      /\ UNCHANGED <<usedPool, pSize, client, life, failed, crossed>>

\* Fault variant: the connections in use are forgotten but not closed.
ReleaseAvailable ==
  /\ life = "open"
  /\ CloseDB(UNION {ToSet(availablePool[s]) : s \in ConStrs})
  /\ availablePool' = [s \in ConStrs |-> <<>>]
  /\ usedPool' = [s \in ConStrs |-> <<>>]
  /\ life' = "released"
  /\ UNCHANGED <<pSize, client, timers, failed, crossed>>

Release ==
  /\ life = "open"
  /\ CloseDB(UNION {ToSet(availablePool[s]) \cup ToSet(usedPool[s]) : s \in ConStrs})
  /\ availablePool' = [s \in ConStrs |-> <<>>]
  /\ usedPool' = [s \in ConStrs |-> <<>>]
  /\ life' = "released"
  /\ UNCHANGED <<pSize, client, timers, failed, crossed>>

Next == \/ \E c \in Clients, s \in ConStrs :
             OpenAvailable(c, s) \/ OpenNew(c, s) \/ OpenWait(c, s)
        \/ \E c \in Clients : \/ OpenReleased(c) \/ WaitTake(c) \/ WaitShare(c)
                              \/ WaitTimeout(c) \/ Close(c) \/ CloseUnknown(c)
        \/ \E s \in ConStrs : PoolInit(s)
        \/ \E d \in DBPs : Timeout(d)
        \/ Release \/ PoolInitReleased

Spec == Init /\ [][Next]_vars

------------------------------------------------------------------------------
Holders == {c \in Clients : client[c].pc = "holding"}
Waiters == {c \in Clients : client[c].pc = "waiting"}
Available == UNION {ToSet(availablePool[s]) : s \in ConStrs}
Used == UNION {ToSet(usedPool[s]) : s \in ConStrs}

\* The variables have their types.
TypeOK ==
  /\ \A s \in ConStrs : /\ availablePool[s] \in Seq(DBPs)
                        /\ usedPool[s] \in Seq(DBPs)
  /\ pSize \in 0 .. Cardinality(Clients) + MaxFailed
  /\ dbp \in [DBPs -> DBP]
  /\ client \in [Clients -> Client]
  /\ timers \in [DBPs -> 0 .. MaxTimers]
  /\ life \in {"open", "released", "panicked"}
  /\ failed \in 0 .. MaxFailed
  /\ crossed \in BOOLEAN

\* However Open, Close and Timeout pick positions, with or without the
\* connection they look for, a connection is in one list, once, and it is the
\* list of its own string.
ListedOnce ==
  /\ Available \cap Used = {}
  /\ \A s \in ConStrs : /\ IsInjective(availablePool[s]) /\ IsInjective(usedPool[s])
                        /\ \A d \in ToSet(availablePool[s]) \cup ToSet(usedPool[s]) :
                             dbp[d].con = s

\* pSize counts the clients that hold a connection or wait for one, and, for
\* ever, every call of Open that gave up: after PoolSize of those the pool
\* serves nobody below the limit any more.  Close balances Open on each of its
\* paths.
CounterExact ==
  life /= "panicked" =>
    pSize = Cardinality(Holders) + Cardinality(Waiters) + failed

\* As long as no Open had to wait, the pool works as intended: two clients
\* never hold one connection, the connections in use are the held ones and
\* are open, and the idle ones are open.
ExclusiveBelowLimit ==
  ~crossed /\ life = "open" =>
    /\ \A c1, c2 \in Holders : client[c1].db = client[c2].db => c1 = c2
    /\ Used = {client[c].db : c \in Holders}
    /\ \A d \in Used : dbp[d].db = "open"
    /\ \A d \in Available : dbp[d].db \in {"fresh", "open"}

\* As long as no Open had to wait, an idle connection that has been used is
\* watched by a Timeout of its own, however often it was reused since.
IdleWatched ==
  ~crossed => \A d \in Available : dbp[d].db = "open" => timers[d] > 0

\* Wherever Open, Close and Timeout moved a connection, Release finds it, or
\* it was closed before.
ReleaseClosesAll ==
  life = "released" => \A d \in DBPs : dbp[d].db \in {"none", "closed"}
==============================================================================
