-------------------------------- MODULE Pool --------------------------------
(***************************************************************************)
(* The connection pool of the database package (client/Pool.ts) with the   *)
(* borrowers of Connection.scope (client/Connection.ts).                   *)
(*                                                                         *)
(* JavaScript runs one callback at a time, so every synchronous stretch of *)
(* the class is one action: a call by a borrower, the settling of          *)
(* client.connect() or client.end(), a setTimeout, a setImmediate, an      *)
(* event of the client.                                                    *)
(***************************************************************************)
EXTENDS Integers, Sequences, FiniteSets

CONSTANTS
  Conns,           \* PoolConnection objects; one is reused once nothing refers to it
  Items,           \* borrowers; the PendingItem of a waiting borrower is the borrower
  NoConn,
  MaxConnections, MaxConnecting, MaxIdle, RateLimitCount,  \* poolConfig
  MaxUses,         \* poolConfig.maxUses, 0 when it is not set
  HasMaxAge        \* poolConfig.maxAgeMs is set

ASSUME ConfigAssumption ==
  /\ MaxConnections \in Nat \ {0} /\ MaxConnecting \in Nat \ {0}
  /\ RateLimitCount \in Nat \ {0}
  /\ MaxIdle \in Nat /\ MaxUses \in Nat /\ HasMaxAge \in BOOLEAN
  /\ NoConn \notin Conns

VARIABLES
  ended, idle, active, queue, connectingCount, remainingRateLimit,
  uses,         \* PoolConnection.uses
  disposed,     \* the connections whose PoolConnection.disposed is set
  connecting,   \* client.connect() in flight
  retryTimers,  \* armed reconnectIntervalMs timers
  rateTimers,   \* armed rateLimitPeriodMs timers
  idleTimers,   \* the connections with an armed idleTimeoutMs timer
  immediates,   \* the connections with a scheduled setImmediate(disposeConnection)
  open,         \* connected to the server
  holder,       \* the connection each borrower was given and still uses
  endDone,      \* the promise of end() has settled
  poolError     \* disposeConnection has thrown 'Connection is already disposed'

vars == <<ended, idle, active, queue, connectingCount, remainingRateLimit, uses,
          disposed, connecting, retryTimers, rateTimers, idleTimers, immediates,
          open, holder, endDone, poolError>>

IdleSet == {idle[k] : k \in DOMAIN idle}
Queued  == {queue[k] : k \in DOMAIN queue}
Front(s) == SubSeq(s, 1, Len(s) - 1)
Last(s)  == s[Len(s)]
WithoutAt(s, k) == SubSeq(s, 1, k - 1) \o SubSeq(s, k + 1, Len(s))   \* splice(k, 1)

(* Nothing in the process or on the server refers to c: it can stand for a new object. *)
Unused == {c \in Conns :
  c \notin active \cup IdleSet \cup connecting \cup immediates \cup idleTimers \cup open
  /\ \A i \in Items : holder[i] # c}

TypeOK ==
  /\ ended \in BOOLEAN /\ endDone \in BOOLEAN /\ poolError \in BOOLEAN
  /\ idle \in Seq(Conns) /\ queue \in Seq(Items)
  /\ active \subseteq Conns /\ disposed \subseteq Conns /\ connecting \subseteq Conns
  /\ idleTimers \subseteq Conns /\ immediates \subseteq Conns /\ open \subseteq Conns
  /\ IsFiniteSet(active) /\ IsFiniteSet(connecting)
  /\ connectingCount \in Nat /\ remainingRateLimit \in Nat
  /\ retryTimers \in Nat /\ rateTimers \in Nat
  /\ uses \in [Conns -> 0 .. MaxUses]
  /\ holder \in [Items -> Conns \cup {NoConn}]

Init ==
  /\ ended = FALSE /\ endDone = FALSE /\ poolError = FALSE
  /\ idle = <<>> /\ queue = <<>> /\ active = {}
  /\ connectingCount = 0 /\ remainingRateLimit = RateLimitCount
  /\ uses = [c \in Conns |-> 0]
  /\ disposed = {} /\ connecting = {} /\ open = {}
  /\ retryTimers = 0 /\ rateTimers = 0 /\ idleTimers = {} /\ immediates = {}
  /\ holder = [i \in Items |-> NoConn]

-----------------------------------------------------------------------------
(* uses++; counts only as far as maxUses is compared with. *)
Bump(u, c) == [u EXCEPT ![c] = IF @ < MaxUses THEN @ + 1 ELSE @]

(* Mutant: the attempts in flight are not counted against maxConnections. *)
MayConnectUncounted(count, limit) ==
  /\ ~ended' /\ count < Len(queue') /\ count < MaxConnecting /\ limit > 0
  /\ Cardinality(active') + Len(idle') < MaxConnections

(* The early returns of maybeCreateNew, after the caller's own changes: count *)
(* and limit are connectingCount and remainingRateLimit at the call.          *)
MayConnect(count, limit) ==
  /\ ~ended'
  /\ count < Len(queue')
  /\ Cardinality(active') + Len(idle') + count < MaxConnections
  /\ count < MaxConnecting
  /\ limit > 0

(* att is the set of attempts in flight. A new object starts undisposed. *)
MaybeCreateNew(count, limit, att) ==
  \/ /\ MayConnect(count, limit)
     /\ \E c \in Unused \ att :
          connecting' = att \cup {c} /\ disposed' = disposed \ {c}
     /\ connectingCount' = count + 1 /\ remainingRateLimit' = limit - 1
  \/ /\ ~MayConnect(count, limit)
     /\ connecting' = att /\ disposed' = disposed
     /\ connectingCount' = count /\ remainingRateLimit' = limit

(* disposeConnection: throws when it is called a second time. *)
DisposeConnection(c) ==
  /\ disposed' = disposed \cup {c}
  /\ poolError' = (poolError \/ c \in disposed)

(* Mutant: the item that came last is served first. *)
HandleAvailableLifo(c, act, h, u) ==
  IF queue # <<>>
  THEN /\ active' = act \cup {c} /\ queue' = Front(queue)
       /\ holder' = [h EXCEPT ![Last(queue)] = c] /\ uses' = Bump(u, c)
       /\ UNCHANGED <<idle, idleTimers, immediates>>
  ELSE /\ idle' = Append(idle, c) /\ idleTimers' = idleTimers \cup {c}
       /\ active' = act /\ holder' = h /\ uses' = u
       /\ UNCHANGED <<queue, immediates>>

(* handleAvailableConnection: act, h and u are active, holder and uses at the call. *)
HandleAvailable(c, act, h, u) ==
  \/ /\ queue # <<>>
     /\ active' = act \cup {c} /\ queue' = Tail(queue)
     /\ holder' = [h EXCEPT ![Head(queue)] = c]
     /\ uses' = Bump(u, c)
     /\ UNCHANGED <<idle, idleTimers, immediates>>
  \/ /\ queue = <<>> /\ Len(idle) >= MaxIdle
     /\ immediates' = immediates \cup {c}
     /\ active' = act /\ holder' = h /\ uses' = u
     /\ UNCHANGED <<idle, queue, idleTimers>>
  \/ /\ queue = <<>> /\ Len(idle) < MaxIdle
     /\ idle' = Append(idle, c) /\ idleTimers' = idleTimers \cup {c}
     /\ active' = act /\ holder' = h /\ uses' = u
     /\ UNCHANGED <<queue, immediates>>
-----------------------------------------------------------------------------
(* The calls of borrowers. *)

CanAsk(i) == ~ended /\ holder[i] = NoConn /\ i \notin Queued

(* acquire() with an idle connection at hand: the one used last. *)
AcquireIdle(i) ==
  /\ CanAsk(i) /\ idle # <<>>
  /\ idle' = Front(idle)
  /\ active' = active \cup {Last(idle)}
  /\ idleTimers' = idleTimers \ {Last(idle)}
  /\ uses' = Bump(uses, Last(idle))
  /\ holder' = [holder EXCEPT ![i] = Last(idle)]
  /\ UNCHANGED <<ended, queue, connectingCount, remainingRateLimit, disposed, connecting,
                 retryTimers, rateTimers, immediates, open, endDone, poolError>>

(* acquire() without one: wait in the queue, and perhaps start connecting. *)
AcquireQueued(i) ==
  /\ CanAsk(i) /\ idle = <<>>
  /\ queue' = Append(queue, i)
  /\ UNCHANGED <<ended, idle, active, uses, retryTimers, rateTimers, idleTimers,
                 immediates, open, holder, endDone, poolError>>
  /\ MaybeCreateNew(connectingCount, remainingRateLimit, connecting)

WornOut(c) == MaxUses > 0 /\ uses[c] >= MaxUses

(* release() of a connection that is neither worn out nor too old. *)
ReleaseUsable(i) ==
  /\ ~ended /\ holder[i] \in active /\ ~WornOut(holder[i])
  /\ HandleAvailable(holder[i], active \ {holder[i]}, [holder EXCEPT ![i] = NoConn], uses)
  /\ UNCHANGED <<ended, connectingCount, remainingRateLimit, disposed, connecting,
                 retryTimers, rateTimers, open, endDone, poolError>>

(* dispose(), and release() of a connection worn out or too old. *)
Discard(i) ==
  /\ ~ended /\ holder[i] \in active
  /\ active' = active \ {holder[i]}
  /\ immediates' = immediates \cup {holder[i]}
  /\ holder' = [holder EXCEPT ![i] = NoConn]
  /\ UNCHANGED <<ended, idle, queue, uses, retryTimers, rateTimers, idleTimers,
                 open, endDone, poolError>>
  /\ MaybeCreateNew(connectingCount, remainingRateLimit, connecting)

ReleaseSpent(i) == Discard(i) /\ (WornOut(holder[i]) \/ HasMaxAge)

(* The callback of scope() threw. *)
Dispose(i) == Discard(i)

(* release() and dispose() of an ended pool return at once. *)
GiveBackAfterEnd(i) ==
  /\ ended /\ holder[i] # NoConn
  /\ holder' = [holder EXCEPT ![i] = NoConn]
  /\ UNCHANGED <<ended, idle, active, queue, connectingCount, remainingRateLimit, uses,
                 disposed, connecting, retryTimers, rateTimers, idleTimers, immediates,
                 open, endDone, poolError>>

GiveBack(i) == ReleaseUsable(i) \/ ReleaseSpent(i) \/ Dispose(i) \/ GiveBackAfterEnd(i)
-----------------------------------------------------------------------------
(* The outcome of client.connect(). The finally block arms a rate timer in every case. *)

ConnectOk(c) ==
  /\ c \in connecting /\ ~ended
  /\ open' = open \cup {c}
  /\ rateTimers' = rateTimers + 1
  /\ HandleAvailable(c, active, holder, [uses EXCEPT ![c] = 0])
  /\ UNCHANGED <<ended, retryTimers, endDone, poolError>>
  /\ MaybeCreateNew(connectingCount - 1, remainingRateLimit, connecting \ {c})

(* Mutant: a connection established after end() is forgotten. *)
ConnectOkAfterEndForgotten(c) ==
  /\ c \in connecting /\ ended
  /\ open' = open \cup {c}
  /\ connecting' = connecting \ {c} /\ connectingCount' = connectingCount - 1
  /\ rateTimers' = rateTimers + 1
  /\ UNCHANGED <<ended, idle, active, queue, remainingRateLimit, uses, disposed, retryTimers,
                 idleTimers, immediates, holder, endDone, poolError>>

ConnectOkAfterEnd(c) ==
  /\ c \in connecting /\ ended
  /\ open' = open \cup {c}
  /\ connecting' = connecting \ {c} /\ connectingCount' = connectingCount - 1
  /\ rateTimers' = rateTimers + 1
  /\ DisposeConnection(c)
  /\ UNCHANGED <<ended, idle, active, queue, remainingRateLimit, uses, retryTimers,
                 idleTimers, immediates, holder, endDone>>

(* A recoverable error: the slot stays taken until the retry timer fires. *)
ConnectRetry(c) ==
  /\ c \in connecting
  /\ connecting' = connecting \ {c}
  /\ retryTimers' = retryTimers + 1 /\ rateTimers' = rateTimers + 1
  /\ DisposeConnection(c)
  /\ UNCHANGED <<ended, idle, active, queue, connectingCount, remainingRateLimit, uses,
                 idleTimers, immediates, open, holder, endDone>>

(* Any other error: the first in the queue is rejected if nobody has a connection. *)
ConnectFailed(c) ==
  /\ c \in connecting
  /\ connecting' = connecting \ {c} /\ connectingCount' = connectingCount - 1
  /\ rateTimers' = rateTimers + 1
  /\ queue' = IF active = {} /\ queue # <<>> THEN Tail(queue) ELSE queue
  /\ DisposeConnection(c)
  /\ UNCHANGED <<ended, idle, active, remainingRateLimit, uses, retryTimers,
                 idleTimers, immediates, open, holder, endDone>>

ConnectSettles(c) == ConnectOk(c) \/ ConnectOkAfterEnd(c) \/ ConnectRetry(c) \/ ConnectFailed(c)
-----------------------------------------------------------------------------
(* Timers, immediates and events. *)

RetryTimer ==
  /\ retryTimers > 0 /\ retryTimers' = retryTimers - 1
  /\ UNCHANGED <<ended, idle, active, queue, uses, rateTimers, idleTimers, immediates,
                 open, holder, endDone, poolError>>
  /\ MaybeCreateNew(connectingCount - 1, remainingRateLimit, connecting)

(* Mutant: the limit is renewed without looking at the queue. *)
RateTimerSilent ==
  /\ rateTimers > 0 /\ rateTimers' = rateTimers - 1
  /\ remainingRateLimit' = remainingRateLimit + 1
  /\ UNCHANGED <<ended, idle, active, queue, connectingCount, uses, disposed, connecting,
                 retryTimers, idleTimers, immediates, open, holder, endDone, poolError>>

RateTimer ==
  /\ rateTimers > 0 /\ rateTimers' = rateTimers - 1
  /\ UNCHANGED <<ended, idle, active, queue, uses, retryTimers, idleTimers, immediates,
                 open, holder, endDone, poolError>>
  /\ MaybeCreateNew(connectingCount, remainingRateLimit + 1, connecting)

(* acquireTimeoutMs passed: the k-th waiting item is rejected. *)
ItemTimeout(k) ==
  /\ k \in DOMAIN queue
  /\ queue' = WithoutAt(queue, k)
  /\ UNCHANGED <<ended, idle, active, connectingCount, remainingRateLimit, uses, disposed,
                 connecting, retryTimers, rateTimers, idleTimers, immediates, open,
                 holder, endDone, poolError>>

(* Mutant: the connection is looked up but stays in idle. *)
RemoveIdleKeeps(c) == c \in IdleSet /\ idle' = idle

(* removeIdleConnection and, in the callers, disposeConnection of what was removed. *)
RemoveIdle(c) == \E k \in DOMAIN idle : idle[k] = c /\ idle' = WithoutAt(idle, k)

(* The idle timer of c; it finds nothing to do when c has left idle without acquire(). *)
IdleTimeout(c) ==
  /\ c \in idleTimers /\ idleTimers' = idleTimers \ {c}
  /\ \/ c \in IdleSet /\ RemoveIdle(c) /\ DisposeConnection(c)
     \/ c \notin IdleSet /\ UNCHANGED <<idle, disposed, poolError>>
  /\ UNCHANGED <<ended, active, queue, connectingCount, remainingRateLimit, uses, connecting,
                 retryTimers, rateTimers, immediates, open, holder, endDone>>

Immediate(c) ==
  /\ c \in immediates /\ immediates' = immediates \ {c}
  /\ DisposeConnection(c)
  /\ UNCHANGED <<ended, idle, active, queue, connectingCount, remainingRateLimit, uses,
                 connecting, retryTimers, rateTimers, idleTimers, open, holder, endDone>>

(* The server or the network drops the connection; pg emits 'error' unless the client is *)
(* being ended. The handler leaves a lent connection where it is.                        *)
ClientError(c) ==
  /\ c \in open \ disposed /\ open' = open \ {c}
  /\ \/ c \in active /\ UNCHANGED <<idle, disposed, poolError>>
     \/ c \in IdleSet \ active /\ RemoveIdle(c) /\ DisposeConnection(c)
     \/ c \notin active \cup IdleSet /\ DisposeConnection(c) /\ UNCHANGED idle
  /\ UNCHANGED <<ended, active, queue, connectingCount, remainingRateLimit, uses, connecting,
                 retryTimers, rateTimers, idleTimers, immediates, holder, endDone>>

(* client.end() of a disposed connection completes. *)
Closed(c) ==
  /\ c \in open \cap disposed /\ open' = open \ {c}
  /\ UNCHANGED <<ended, idle, active, queue, connectingCount, remainingRateLimit, uses,
                 disposed, connecting, retryTimers, rateTimers, idleTimers, immediates,
                 holder, endDone, poolError>>
-----------------------------------------------------------------------------
(* Mutant: lent connections are left to their borrowers, whose release() does nothing. *)
EndIdleOnly ==
  /\ ~ended /\ ended' = TRUE
  /\ queue' = <<>> /\ disposed' = disposed \cup IdleSet
  /\ UNCHANGED <<idle, active, connectingCount, remainingRateLimit, uses, connecting,
                 retryTimers, rateTimers, idleTimers, immediates, open, holder, endDone,
                 poolError>>

(* end(), up to its await and after it; the await lasts at most the five *)
(* seconds after which disposeConnection stops waiting. allSettled takes *)
(* the error of a connection that is disposed already.                   *)
End ==
  /\ ~ended /\ ended' = TRUE
  /\ queue' = <<>>
  /\ disposed' = disposed \cup IdleSet \cup active
  /\ UNCHANGED <<idle, active, connectingCount, remainingRateLimit, uses, connecting,
                 retryTimers, rateTimers, idleTimers, immediates, open, holder, endDone,
                 poolError>>

EndSettles ==
  /\ ended /\ ~endDone /\ endDone' = TRUE
  /\ idle' = <<>> /\ active' = {}
  /\ UNCHANGED <<ended, queue, connectingCount, remainingRateLimit, uses, disposed,
                 connecting, retryTimers, rateTimers, idleTimers, immediates, open,
                 holder, poolError>>

CloseIdle ==
  /\ idle # <<>> /\ idle' = <<>>
  /\ disposed' = disposed \cup IdleSet
  /\ UNCHANGED <<ended, active, queue, connectingCount, remainingRateLimit, uses,
                 connecting, retryTimers, rateTimers, idleTimers, immediates, open, holder,
                 endDone, poolError>>
-----------------------------------------------------------------------------
Next ==
  \/ \E i \in Items : AcquireIdle(i) \/ AcquireQueued(i) \/ GiveBack(i)
  \/ \E c \in Conns : ConnectSettles(c)
  \/ RetryTimer \/ RateTimer
  \/ \E k \in DOMAIN queue : ItemTimeout(k)
  \/ \E c \in Conns : IdleTimeout(c) \/ Immediate(c) \/ ClientError(c) \/ Closed(c)
  \/ End \/ EndSettles \/ CloseIdle

Spec == Init /\ [][Next]_vars

(* Timers fire, connection attempts settle, callbacks of scope() finish. Nothing is  *)
(* assumed of acquireTimeoutMs, of new borrowers, of errors or of the end of the pool. *)
Fairness ==
  /\ WF_vars(RetryTimer) /\ WF_vars(RateTimer)
  /\ \A c \in Conns :
       WF_vars(ConnectSettles(c)) /\ WF_vars(Immediate(c)) /\ WF_vars(Closed(c)) /\ WF_vars(IdleTimeout(c))
  /\ \A i \in Items : WF_vars(GiveBack(i))

FairSpec == Spec /\ Fairness
-----------------------------------------------------------------------------
(* Lent, idle and establishing connections together never exceed maxConnections,      *)
(* although maybeCreateNew checks the three before an await and each moves on its own. *)
Capacity == Cardinality(active) + Len(idle) + connectingCount <= MaxConnections

(* Every unit of connectingCount belongs to an attempt or a retry timer that will give *)
(* it back, every unit missing from remainingRateLimit to an attempt or a rate timer.   *)
Accounting ==
  /\ connectingCount = Cardinality(connecting) + retryTimers
  /\ remainingRateLimit + Cardinality(connecting) + rateTimers = RateLimitCount

(* A connection is in one place of the pool and with one borrower: handed over by the  *)
(* idle stack, the queue or a fresh connect, it never has two borrowers (Pool.acquire,  *)
(* Pool.release, handleAvailableConnection).                                           *)
Exclusive ==
  /\ \A i, j \in Items : i # j /\ holder[i] # NoConn => holder[i] # holder[j]
  /\ \A k, l \in DOMAIN idle : k # l => idle[k] # idle[l]
  /\ active \cap IdleSet = {}
  /\ ~ended => active = {holder[i] : i \in Items} \ {NoConn}

(* Until end() nothing lent or idle is disposed, whatever timers, immediates and error  *)
(* events are pending for it.                                                           *)
PooledUsable == ~ended => (active \cup IdleSet) \cap disposed = {}

(* No connection stays open on the server that the pool has lost track of: it is lent,  *)
(* idle, disposed or about to be.                                                       *)
NoLeak == open \subseteq active \cup IdleSet \cup immediates \cup disposed

(* The pool lends as Lending says: in arrival order, an idle connection never past the   *)
(* queue, to one borrower at a time, nothing after end().                                *)
Lend == INSTANCE Lending WITH
          Borrowers <- Items, waiting <- queue, lent <- holder, closed <- ended
LendingSpec == Lend!Spec

(* Unless recoverable connection errors go on forever, a waiting item is served or       *)
(* rejected without the help of its own timeout.                                         *)
WaitersServed ==
  \A i \in Items :
    <>[][~\E c \in Conns : ConnectRetry(c)]_vars => (i \in Queued ~> i \notin Queued)

(* After end() every connection is closed in the end, the ones included that were still  *)
(* being established or waiting for their setImmediate.                                   *)
EndDrains == ended ~> (open = {} /\ connecting = {})
=============================================================================
