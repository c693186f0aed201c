----------------------------- MODULE PoolProofs -----------------------------
(* Theorems about Pool for every set of connections and borrowers and every *)
(* configuration.                                                          *)
EXTENDS Pool, TLAPS, FiniteSetTheorems, SequenceTheorems

(* A connection popped from, spliced out of or pushed to a sequence. *)
LEMMA FrontType ==
  ASSUME NEW S, NEW s \in Seq(S), s # <<>>
  PROVE  Front(s) \in Seq(S) /\ Len(Front(s)) = Len(s) - 1 /\ Last(s) \in S
<1>1. Len(s) \in Nat /\ Len(s) > 0 /\ Len(s) - 1 \in Nat
  BY EmptySeq
<1>2. Last(s) \in S
  BY <1>1, ElementOfSeq DEF Last
<1>3. \A i \in 1 .. Len(s) - 1 : s[i] \in S
  BY <1>1, ElementOfSeq
<1>4. \A n \in Nat : n = Len(s) - 1 => SubSeq(s, 1, n) \in Seq(S) /\ Len(SubSeq(s, 1, n)) = n
  BY <1>3, SubSeqProperties
<1> QED BY <1>1, <1>2, <1>4 DEF Front

LEMMA WithoutAtType ==
  ASSUME NEW S, NEW s \in Seq(S), NEW k \in DOMAIN s
  PROVE  WithoutAt(s, k) \in Seq(S) /\ Len(WithoutAt(s, k)) = Len(s) - 1
<1>1. k \in 1 .. Len(s) /\ Len(s) \in Nat
  OBVIOUS
<1> DEFINE before == SubSeq(s, 1, k - 1)
           after  == SubSeq(s, k + 1, Len(s))
<1>2. \A i \in 1 .. Len(s) : s[i] \in S
  BY ElementOfSeq
<1>3. before \in Seq(S) /\ Len(before) = k - 1
  BY <1>1, <1>2, SubSeqProperties
<1>4. after \in Seq(S) /\ Len(after) = Len(s) - k
  BY <1>1, <1>2, SubSeqProperties
<1> HIDE DEF before, after
<1>5. before \o after \in Seq(S) /\ Len(before \o after) = Len(s) - 1
  BY <1>1, <1>3, <1>4, ConcatProperties
<1> QED BY <1>5 DEF WithoutAt, before, after

LEMMA BumpType ==
  ASSUME NEW u \in [Conns -> 0 .. MaxUses], NEW c
  PROVE  Bump(u, c) \in [Conns -> 0 .. MaxUses]
<1>1. MaxUses \in Nat
  BY ConfigAssumption DEF ConfigAssumption
<1>2. \A n \in 0 .. MaxUses : (IF n < MaxUses THEN n + 1 ELSE n) \in 0 .. MaxUses
  BY <1>1
<1> QED BY <1>2 DEF Bump

(* maybeCreateNew takes a slot and a unit of the rate limit for each attempt, *)
(* and none that would exceed maxConnections.                                 *)
LEMMA MaybeCreateNewFacts ==
  ASSUME disposed \subseteq Conns,
         NEW count \in Nat, NEW limit \in Nat,
         NEW att \in SUBSET Conns, IsFiniteSet(att),
         Cardinality(active') \in Nat, Len(idle') \in Nat,
         MaybeCreateNew(count, limit, att)
  PROVE  /\ connecting' \subseteq Conns /\ IsFiniteSet(connecting')
         /\ disposed' \subseteq Conns
         /\ connectingCount' \in Nat /\ remainingRateLimit' \in Nat
         /\ connectingCount' - Cardinality(connecting') = count - Cardinality(att)
         /\ remainingRateLimit' + Cardinality(connecting') = limit + Cardinality(att)
         /\ Cardinality(active') + Len(idle') + count <= MaxConnections
            => Cardinality(active') + Len(idle') + connectingCount' <= MaxConnections
<1>1. CASE MayConnect(count, limit)
  <2>1. PICK c \in Unused \ att : connecting' = att \cup {c} /\ disposed' = disposed \ {c}
    BY <1>1 DEF MaybeCreateNew
  <2>2. c \in Conns /\ c \notin att
    BY <2>1 DEF Unused
  <2>3. IsFiniteSet(connecting') /\ Cardinality(connecting') = Cardinality(att) + 1
    BY <2>1, <2>2, FS_AddElement
  <2>4. Cardinality(att) \in Nat
    BY FS_CardinalityType
  <2>5. connectingCount' = count + 1 /\ remainingRateLimit' = limit - 1 /\ limit > 0
    BY <1>1 DEF MaybeCreateNew, MayConnect
  <2>6. Cardinality(active') + Len(idle') + count < MaxConnections
    BY <1>1 DEF MayConnect
  <2>7. MaxConnections \in Nat
    BY ConfigAssumption DEF ConfigAssumption
  <2>8. connecting' \subseteq Conns /\ disposed' \subseteq Conns
    BY <2>1, <2>2
  <2>9. /\ connectingCount' \in Nat /\ remainingRateLimit' \in Nat
        /\ connectingCount' - Cardinality(connecting') = count - Cardinality(att)
        /\ remainingRateLimit' + Cardinality(connecting') = limit + Cardinality(att)
    BY <2>3, <2>4, <2>5, SMTT(30)
  <2>10. Cardinality(active') + Len(idle') + connectingCount' <= MaxConnections
    BY <2>5, <2>6, <2>7, SMTT(30)
  <2> QED BY <2>3, <2>8, <2>9, <2>10
<1>2. CASE ~MayConnect(count, limit)
  BY <1>2, FS_CardinalityType DEF MaybeCreateNew
<1> QED BY <1>1, <1>2

(* handleAvailableConnection adds at most the one connection it is given. *)
LEMMA HandleAvailableFacts ==
  ASSUME TypeOK, NEW c \in Conns,
         NEW act \in SUBSET Conns, IsFiniteSet(act),
         NEW h \in [Items -> Conns \cup {NoConn}],
         NEW u \in [Conns -> 0 .. MaxUses],
         HandleAvailable(c, act, h, u)
  PROVE  /\ idle' \in Seq(Conns) /\ queue' \in Seq(Items)
         /\ active' \subseteq Conns /\ IsFiniteSet(active')
         /\ idleTimers' \subseteq Conns /\ immediates' \subseteq Conns
         /\ uses' \in [Conns -> 0 .. MaxUses]
         /\ holder' \in [Items -> Conns \cup {NoConn}]
         /\ Cardinality(active') + Len(idle') <= Cardinality(act) + Len(idle) + 1
<1>0. /\ IsFiniteSet(act \cup {c}) /\ Cardinality(act \cup {c}) <= Cardinality(act) + 1
      /\ Cardinality(act) \in Nat /\ Cardinality(act \cup {c}) \in Nat
  <2>1. Cardinality(act) \in Nat
    BY FS_CardinalityType
  <2>2. /\ IsFiniteSet(act \cup {c})
        /\ \/ Cardinality(act \cup {c}) = Cardinality(act)
           \/ Cardinality(act \cup {c}) = Cardinality(act) + 1
    BY FS_AddElement
  <2> QED BY <2>1, <2>2, SMTT(30)
<1>1. CASE queue # <<>>
  <2>1. /\ active' = act \cup {c} /\ queue' = Tail(queue) /\ uses' = Bump(u, c)
        /\ holder' = [h EXCEPT ![Head(queue)] = c]
        /\ idle' = idle /\ idleTimers' = idleTimers /\ immediates' = immediates
    BY <1>1 DEF HandleAvailable
  <2>2. uses' \in [Conns -> 0 .. MaxUses]
    BY <2>1, BumpType
  <2>3. Tail(queue) \in Seq(Items) /\ Head(queue) \in Items
    BY <1>1, HeadTailProperties DEF TypeOK
  <2>4. Len(idle) \in Nat
    BY DEF TypeOK
  <2>5. Cardinality(active') + Len(idle') <= Cardinality(act) + Len(idle) + 1
    BY <1>0, <2>1, <2>4, SMTT(30)
  <2>6. holder' \in [Items -> Conns \cup {NoConn}]
    BY <2>1, <2>3
  <2> QED BY <1>0, <2>1, <2>2, <2>3, <2>5, <2>6 DEF TypeOK
<1>2. CASE queue = <<>>
  <2>1. /\ active' = act /\ queue' = queue /\ holder' = h /\ uses' = u
        /\ idle' = idle \/ idle' = Append(idle, c)
        /\ idleTimers' \subseteq idleTimers \cup {c}
        /\ immediates' \subseteq immediates \cup {c}
    BY <1>2 DEF HandleAvailable
  <2>0. idle \in Seq(Conns) /\ Len(idle) \in Nat
    BY DEF TypeOK
  <2>3. Append(idle, c) \in Seq(Conns) /\ Len(Append(idle, c)) = Len(idle) + 1
    BY <2>0, AppendProperties
  <2>2. idle' \in Seq(Conns) /\ Len(idle') \in Nat /\ Len(idle') <= Len(idle) + 1
    <3>1. CASE idle' = idle
      BY <2>0, <3>1
    <3>2. CASE idle' = Append(idle, c)
      BY <2>0, <2>3, <3>2
    <3> QED BY <2>1, <3>1, <3>2
  <2>4. Cardinality(active') + Len(idle') <= Cardinality(act) + Len(idle) + 1
    BY <1>0, <2>0, <2>1, <2>2, SMTT(30)
  <2> QED BY <2>1, <2>2, <2>4 DEF TypeOK
<1> QED BY <1>1, <1>2
-----------------------------------------------------------------------------
(* The type of everything maybeCreateNew does not assign. *)
RestOK ==
  /\ ended \in BOOLEAN /\ endDone \in BOOLEAN /\ poolError \in BOOLEAN
  /\ idle \in Seq(Conns) /\ queue \in Seq(Items)
  /\ active \subseteq Conns /\ IsFiniteSet(active)
  /\ idleTimers \subseteq Conns /\ immediates \subseteq Conns /\ open \subseteq Conns
  /\ retryTimers \in Nat /\ rateTimers \in Nat
  /\ uses \in [Conns -> 0 .. MaxUses]
  /\ holder \in [Items -> Conns \cup {NoConn}]

(* The counters never lose or gain a unit, and with them the limit holds. *)
Bounded == TypeOK /\ Accounting /\ Capacity

LEMMA BoundedInit == Init => Bounded
<1> SUFFICES ASSUME Init PROVE Bounded
  OBVIOUS
<1>1. IsFiniteSet({}) /\ Cardinality({}) = 0
  BY FS_EmptySet
<1>2. MaxUses \in Nat /\ RateLimitCount \in Nat /\ MaxConnections \in Nat
  BY ConfigAssumption DEF ConfigAssumption
<1>3. uses \in [Conns -> 0 .. MaxUses] /\ holder \in [Items -> Conns \cup {NoConn}]
  BY <1>2 DEF Init
<1>7. <<>> \in Seq(Conns) /\ <<>> \in Seq(Items)
  OBVIOUS
<1>4. TypeOK
  BY <1>1, <1>2, <1>3, <1>7 DEF Init, TypeOK
<1>5. Accounting
  BY <1>1, <1>2 DEF Init, Accounting
<1>6. Capacity
  BY <1>1, <1>2 DEF Init, Capacity
<1> QED BY <1>4, <1>5, <1>6 DEF Bounded

(* A call that ends in maybeCreateNew with counters that add up leaves them so. *)
LEMMA CreateBounded ==
  ASSUME RestOK', disposed \subseteq Conns,
         NEW count \in Nat, NEW limit \in Nat,
         NEW att \in SUBSET Conns, IsFiniteSet(att),
         MaybeCreateNew(count, limit, att),
         count = Cardinality(att) + retryTimers',
         limit + Cardinality(att) + rateTimers' = RateLimitCount,
         Cardinality(active') + Len(idle') + count <= MaxConnections
  PROVE  Bounded'
<1>1. /\ Cardinality(active') \in Nat /\ Len(idle') \in Nat /\ Cardinality(att) \in Nat
      /\ retryTimers' \in Nat /\ rateTimers' \in Nat
  BY FS_CardinalityType DEF RestOK
<1>2. /\ connecting' \subseteq Conns /\ IsFiniteSet(connecting')
      /\ disposed' \subseteq Conns
      /\ connectingCount' \in Nat /\ remainingRateLimit' \in Nat
      /\ connectingCount' - Cardinality(connecting') = count - Cardinality(att)
      /\ remainingRateLimit' + Cardinality(connecting') = limit + Cardinality(att)
      /\ Cardinality(active') + Len(idle') + connectingCount' <= MaxConnections
  BY <1>1, MaybeCreateNewFacts
<1>3. Cardinality(connecting') \in Nat
  BY <1>2, FS_CardinalityType
<1>4. TypeOK'
  BY <1>2 DEF RestOK, TypeOK
<1>5. connectingCount' = Cardinality(connecting') + retryTimers'
  BY <1>1, <1>2, <1>3, SMTT(40)
<1>6. remainingRateLimit' + Cardinality(connecting') + rateTimers' = RateLimitCount
  BY <1>1, <1>2, <1>3, SMTT(40)
<1> QED BY <1>2, <1>4, <1>5, <1>6 DEF Bounded, Accounting, Capacity

LEMMA BoundedStep == Bounded /\ [Next]_vars => Bounded'
<1> SUFFICES ASSUME Bounded, [Next]_vars PROVE Bounded'
  OBVIOUS
<1>0. /\ Cardinality(active) \in Nat /\ Cardinality(connecting) \in Nat
      /\ Len(idle) \in Nat /\ connectingCount \in Nat
  BY FS_CardinalityType DEF Bounded, TypeOK
<1>t. /\ TypeOK /\ RestOK
      /\ connectingCount \in Nat /\ remainingRateLimit \in Nat
      /\ retryTimers \in Nat /\ rateTimers \in Nat
      /\ IsFiniteSet(active) /\ IsFiniteSet(connecting)
      /\ active \subseteq Conns /\ connecting \subseteq Conns /\ disposed \subseteq Conns
  BY DEF Bounded, TypeOK, RestOK
<1>b. /\ connectingCount = Cardinality(connecting) + retryTimers
      /\ remainingRateLimit + Cardinality(connecting) + rateTimers = RateLimitCount
      /\ Cardinality(active) + Len(idle) + connectingCount <= MaxConnections
      /\ MaxConnections \in Nat /\ RateLimitCount \in Nat
  BY ConfigAssumption DEF Bounded, Accounting, Capacity, ConfigAssumption
<1>slots. /\ Cardinality(connecting) \in Nat /\ retryTimers \in Nat /\ connectingCount \in Nat
          /\ connectingCount = Cardinality(connecting) + retryTimers
  BY <1>0, <1>t, <1>b
<1>rate. /\ Cardinality(connecting) \in Nat /\ rateTimers \in Nat /\ remainingRateLimit \in Nat
         /\ remainingRateLimit + Cardinality(connecting) + rateTimers = RateLimitCount
  BY <1>0, <1>t, <1>b
<1>cap. /\ Cardinality(active) \in Nat /\ Len(idle) \in Nat /\ connectingCount \in Nat
        /\ MaxConnections \in Nat
        /\ Cardinality(active) + Len(idle) + connectingCount <= MaxConnections
  BY <1>0, <1>b
<1>rem. ASSUME NEW c \in connecting
        PROVE  /\ IsFiniteSet(connecting \ {c}) /\ connecting \ {c} \subseteq Conns
               /\ Cardinality(connecting \ {c}) = Cardinality(connecting) - 1
               /\ Cardinality(connecting \ {c}) \in Nat
               /\ connectingCount - 1 \in Nat
  <2>1. /\ IsFiniteSet(connecting \ {c})
        /\ Cardinality(connecting \ {c}) = Cardinality(connecting) - 1
    BY <1>t, FS_RemoveElement
  <2>2. Cardinality(connecting \ {c}) \in Nat
    BY <2>1, FS_CardinalityType
  <2>3. connectingCount - 1 \in Nat
    BY <1>slots, <2>1, <2>2, SMTT(30)
  <2> QED BY <1>t, <2>1, <2>2, <2>3
<1>end. ASSUME NEW c \in connecting
        PROVE  /\ connectingCount - 1 = Cardinality(connecting \ {c}) + retryTimers
               /\ connectingCount = Cardinality(connecting \ {c}) + (retryTimers + 1)
               /\ remainingRateLimit + Cardinality(connecting \ {c}) + (rateTimers + 1)
                    = RateLimitCount
  <2>1. Cardinality(connecting \ {c}) = Cardinality(connecting) - 1
    BY <1>rem
  <2>2. /\ connectingCount - 1 = Cardinality(connecting \ {c}) + retryTimers
        /\ connectingCount = Cardinality(connecting \ {c}) + (retryTimers + 1)
    BY <1>slots, <2>1, SMTT(30)
  <2>3. remainingRateLimit + Cardinality(connecting \ {c}) + (rateTimers + 1) = RateLimitCount
    BY <1>rate, <2>1, SMTT(30)
  <2> QED BY <2>2, <2>3
<1>rel. ASSUME NEW c \in active
        PROVE  /\ IsFiniteSet(active \ {c}) /\ active \ {c} \subseteq Conns
               /\ Cardinality(active \ {c}) = Cardinality(active) - 1
               /\ Cardinality(active \ {c}) \in Nat
  <2>1. /\ IsFiniteSet(active \ {c})
        /\ Cardinality(active \ {c}) = Cardinality(active) - 1
    BY <1>t, FS_RemoveElement
  <2> QED BY <1>t, <2>1, FS_CardinalityType
<1>1. ASSUME NEW i \in Items, AcquireIdle(i) PROVE Bounded'
  <2>1. /\ Front(idle) \in Seq(Conns) /\ Len(Front(idle)) = Len(idle) - 1
        /\ Last(idle) \in Conns
    BY <1>1, FrontType DEF AcquireIdle, Bounded, TypeOK
  <2>2. /\ IsFiniteSet(active \cup {Last(idle)})
        /\ \/ Cardinality(active \cup {Last(idle)}) = Cardinality(active)
           \/ Cardinality(active \cup {Last(idle)}) = Cardinality(active) + 1
    BY <1>t, FS_AddElement
  <2>3. uses' \in [Conns -> 0 .. MaxUses]
    BY <1>1, BumpType DEF AcquireIdle, Bounded, TypeOK
  <2>4. TypeOK'
    BY <1>1, <2>1, <2>2, <2>3 DEF AcquireIdle, Bounded, TypeOK
  <2>5. Accounting'
    BY <1>1, <1>b DEF AcquireIdle, Accounting
  <2>6. /\ active' = active \cup {Last(idle)} /\ idle' = Front(idle)
        /\ connectingCount' = connectingCount
    BY <1>1 DEF AcquireIdle
  <2>7. Cardinality(active') \in Nat /\ Cardinality(active') <= Cardinality(active) + 1
    BY <1>cap, <2>2, <2>6, FS_CardinalityType
  <2>8. Len(idle') = Len(idle) - 1
    BY <2>1, <2>6
  <2>9. Capacity'
    BY <1>cap, <2>6, <2>7, <2>8, SMTT(30) DEF Capacity
  <2> QED BY <2>4, <2>5, <2>9 DEF Bounded
<1>2. ASSUME NEW i \in Items, AcquireQueued(i) PROVE Bounded'
  <2>1. /\ active' = active /\ idle' = idle /\ queue' = Append(queue, i)
        /\ rateTimers' = rateTimers /\ retryTimers' = retryTimers
        /\ UNCHANGED <<ended, endDone, poolError, idleTimers, immediates, open, holder, uses>>
        /\ MaybeCreateNew(connectingCount, remainingRateLimit, connecting)
    BY <1>2 DEF AcquireQueued
  <2>2. RestOK'
    BY <1>t, <2>1, AppendProperties DEF RestOK
  <2> QED BY <1>t, <1>b, <2>1, <2>2, CreateBounded
<1>3. ASSUME NEW i \in Items, ReleaseUsable(i) PROVE Bounded'
  <2>1. /\ holder[i] \in active
        /\ HandleAvailable(holder[i], active \ {holder[i]}, [holder EXCEPT ![i] = NoConn], uses)
        /\ UNCHANGED <<ended, connectingCount, remainingRateLimit, disposed, connecting,
                       retryTimers, rateTimers, open, endDone, poolError>>
    BY <1>3 DEF ReleaseUsable
  <2>2. [holder EXCEPT ![i] = NoConn] \in [Items -> Conns \cup {NoConn}]
    BY <1>t DEF TypeOK
  <2>3. /\ idle' \in Seq(Conns) /\ queue' \in Seq(Items)
        /\ active' \subseteq Conns /\ IsFiniteSet(active')
        /\ idleTimers' \subseteq Conns /\ immediates' \subseteq Conns
        /\ uses' \in [Conns -> 0 .. MaxUses]
        /\ holder' \in [Items -> Conns \cup {NoConn}]
        /\ Cardinality(active') + Len(idle') <= Cardinality(active \ {holder[i]}) + Len(idle) + 1
    BY <1>t, <1>rel, <2>1, <2>2, HandleAvailableFacts DEF TypeOK
  <2>4. TypeOK'
    BY <1>t, <2>1, <2>3 DEF TypeOK
  <2>5. Accounting'
    BY <1>b, <2>1 DEF Accounting
  <2>6. Cardinality(active') \in Nat /\ Len(idle') \in Nat
    BY <2>3, FS_CardinalityType
  <2>7. Cardinality(active \ {holder[i]}) = Cardinality(active) - 1
    BY <1>rel, <2>1
  <2>8. Cardinality(active') + Len(idle') <= Cardinality(active) + Len(idle)
    BY <1>cap, <2>3, <2>6, <2>7, SMTT(30)
  <2>9. connectingCount' = connectingCount
    BY <2>1
  <2>10. Capacity'
    BY <1>cap, <2>6, <2>8, <2>9, SMTT(30) DEF Capacity
  <2> QED BY <2>4, <2>5, <2>10 DEF Bounded
<1>4. ASSUME NEW i \in Items, Discard(i) PROVE Bounded'
  <2>1. /\ holder[i] \in active
        /\ active' = active \ {holder[i]} /\ idle' = idle /\ queue' = queue
        /\ immediates' = immediates \cup {holder[i]}
        /\ holder' = [holder EXCEPT ![i] = NoConn]
        /\ rateTimers' = rateTimers /\ retryTimers' = retryTimers
        /\ UNCHANGED <<ended, endDone, poolError, idleTimers, open, uses>>
        /\ MaybeCreateNew(connectingCount, remainingRateLimit, connecting)
    BY <1>4 DEF Discard
  <2>2. RestOK'
    BY <1>t, <1>rel, <2>1 DEF RestOK
  <2>4. Cardinality(active') \in Nat /\ Cardinality(active') = Cardinality(active) - 1
    BY <1>rel, <2>1
  <2>5. idle' = idle
    BY <2>1
  <2>3. Cardinality(active') + Len(idle') + connectingCount <= MaxConnections
    BY <1>cap, <2>4, <2>5, SMTT(30)
  <2> QED BY <1>t, <1>b, <2>1, <2>2, <2>3, CreateBounded
<1>5. ASSUME NEW i \in Items, GiveBackAfterEnd(i) PROVE Bounded'
  BY <1>5, <1>b, <1>t DEF GiveBackAfterEnd, Bounded, TypeOK, Accounting, Capacity
<1>6. ASSUME NEW c \in Conns, ConnectOk(c) PROVE Bounded'
  <2>1. /\ c \in connecting
        /\ open' = open \cup {c} /\ rateTimers' = rateTimers + 1 /\ retryTimers' = retryTimers
        /\ HandleAvailable(c, active, holder, [uses EXCEPT ![c] = 0])
        /\ UNCHANGED <<ended, endDone, poolError>>
        /\ MaybeCreateNew(connectingCount - 1, remainingRateLimit, connecting \ {c})
    BY <1>6 DEF ConnectOk
  <2>2. [uses EXCEPT ![c] = 0] \in [Conns -> 0 .. MaxUses]
    BY <1>t, ConfigAssumption DEF TypeOK, ConfigAssumption
  <2>3. /\ idle' \in Seq(Conns) /\ queue' \in Seq(Items)
        /\ active' \subseteq Conns /\ IsFiniteSet(active')
        /\ idleTimers' \subseteq Conns /\ immediates' \subseteq Conns
        /\ uses' \in [Conns -> 0 .. MaxUses]
        /\ holder' \in [Items -> Conns \cup {NoConn}]
        /\ Cardinality(active') + Len(idle') <= Cardinality(active) + Len(idle) + 1
    BY <1>t, <2>1, <2>2, HandleAvailableFacts DEF TypeOK
  <2>4. RestOK'
    BY <1>t, <2>1, <2>3 DEF RestOK
  <2>5. Cardinality(active') \in Nat /\ Len(idle') \in Nat
    BY <2>3, FS_CardinalityType
  <2>6. Cardinality(active') + Len(idle') + (connectingCount - 1) <= MaxConnections
    BY <1>cap, <2>3, <2>5, SMTT(30)
  <2>7. /\ connectingCount - 1 = Cardinality(connecting \ {c}) + retryTimers'
        /\ remainingRateLimit + Cardinality(connecting \ {c}) + rateTimers' = RateLimitCount
    BY <1>end, <2>1
  <2> QED BY <1>t, <1>rem, <2>1, <2>4, <2>6, <2>7, CreateBounded
<1>7. ASSUME NEW c \in Conns, ConnectOkAfterEnd(c) PROVE Bounded'
  <2>1. TypeOK'
    BY <1>7, <1>t, <1>rem DEF ConnectOkAfterEnd, DisposeConnection, TypeOK
  <2>2. Accounting'
    BY <1>7, <1>end DEF ConnectOkAfterEnd, Accounting
  <2>3. Capacity'
    BY <1>7, <1>0, <1>b DEF ConnectOkAfterEnd, Capacity
  <2> QED BY <2>1, <2>2, <2>3 DEF Bounded
<1>8. ASSUME NEW c \in Conns, ConnectRetry(c) PROVE Bounded'
  <2>1. TypeOK'
    BY <1>8, <1>t, <1>rem DEF ConnectRetry, DisposeConnection, TypeOK
  <2>2. Accounting'
    BY <1>8, <1>end DEF ConnectRetry, Accounting
  <2>3. Capacity'
    BY <1>8, <1>b DEF ConnectRetry, Capacity
  <2> QED BY <2>1, <2>2, <2>3 DEF Bounded
<1>9. ASSUME NEW c \in Conns, ConnectFailed(c) PROVE Bounded'
  <2>1. queue' \in Seq(Items)
    BY <1>9, <1>t, HeadTailProperties DEF ConnectFailed, TypeOK
  <2>2. TypeOK'
    BY <1>9, <1>t, <1>rem, <2>1 DEF ConnectFailed, DisposeConnection, TypeOK
  <2>3. Accounting'
    BY <1>9, <1>end DEF ConnectFailed, Accounting
  <2>4. Capacity'
    BY <1>9, <1>0, <1>b DEF ConnectFailed, Capacity
  <2> QED BY <2>2, <2>3, <2>4 DEF Bounded
<1>10. ASSUME RetryTimer PROVE Bounded'
  <2>1. /\ retryTimers > 0 /\ retryTimers' = retryTimers - 1 /\ rateTimers' = rateTimers
        /\ UNCHANGED <<ended, idle, active, queue, uses, idleTimers, immediates, open, holder,
                       endDone, poolError>>
        /\ MaybeCreateNew(connectingCount - 1, remainingRateLimit, connecting)
    BY <1>10 DEF RetryTimer
  <2>2. RestOK'
    BY <1>t, <2>1 DEF RestOK
  <2>5. retryTimers > 0 /\ retryTimers' = retryTimers - 1 /\ active' = active /\ idle' = idle
    BY <2>1
  <2>3. /\ connectingCount - 1 \in Nat
        /\ connectingCount - 1 = Cardinality(connecting) + retryTimers'
    BY <1>slots, <2>5, SMTT(30)
  <2>4. Cardinality(active') + Len(idle') + (connectingCount - 1) <= MaxConnections
    BY <1>cap, <2>5, SMTT(30)
  <2> QED BY <1>t, <1>b, <2>1, <2>2, <2>3, <2>4, CreateBounded
<1>11. ASSUME RateTimer PROVE Bounded'
  <2>1. /\ rateTimers > 0 /\ rateTimers' = rateTimers - 1 /\ retryTimers' = retryTimers
        /\ UNCHANGED <<ended, idle, active, queue, uses, idleTimers, immediates, open, holder,
                       endDone, poolError>>
        /\ MaybeCreateNew(connectingCount, remainingRateLimit + 1, connecting)
    BY <1>11 DEF RateTimer
  <2>2. RestOK'
    BY <1>t, <2>1 DEF RestOK
  <2>4. rateTimers > 0 /\ rateTimers' = rateTimers - 1
    BY <2>1
  <2>3. /\ remainingRateLimit + 1 \in Nat
        /\ remainingRateLimit + 1 + Cardinality(connecting) + rateTimers' = RateLimitCount
    BY <1>rate, <2>4, SMTT(30)
  <2> QED BY <1>t, <1>b, <2>1, <2>2, <2>3, CreateBounded
<1>12. ASSUME NEW k \in DOMAIN queue, ItemTimeout(k) PROVE Bounded'
  <2>1. WithoutAt(queue, k) \in Seq(Items)
    BY <1>t, WithoutAtType DEF TypeOK
  <2>2. TypeOK'
    BY <1>12, <1>t, <2>1 DEF ItemTimeout, TypeOK
  <2> QED BY <1>12, <1>b, <2>2 DEF ItemTimeout, Bounded, Accounting, Capacity
<1>13. ASSUME NEW c \in Conns, RemoveIdle(c)
       PROVE  idle' \in Seq(Conns) /\ Len(idle') \in Nat /\ Len(idle') <= Len(idle)
  <2>1. PICK k \in DOMAIN idle : idle' = WithoutAt(idle, k)
    BY <1>13 DEF RemoveIdle
  <2>2. idle' \in Seq(Conns) /\ Len(idle') = Len(idle) - 1
    BY <1>t, <2>1, WithoutAtType DEF TypeOK
  <2> QED BY <1>0, <2>2
<1>14. ASSUME NEW c \in Conns, IdleTimeout(c) PROVE Bounded'
  <2>1. idle' \in Seq(Conns) /\ Len(idle') \in Nat /\ Len(idle') <= Len(idle)
    BY <1>14, <1>13, <1>0, <1>t DEF IdleTimeout, TypeOK
  <2>2. TypeOK'
    BY <1>14, <1>t, <2>1 DEF IdleTimeout, DisposeConnection, TypeOK
  <2>3. Accounting'
    BY <1>14, <1>b DEF IdleTimeout, Accounting
  <2>4. Capacity'
    BY <1>14, <1>0, <1>b, <2>1 DEF IdleTimeout, Capacity
  <2> QED BY <2>2, <2>3, <2>4 DEF Bounded
<1>15. ASSUME NEW c \in Conns, Immediate(c) PROVE Bounded'
  <2>1. TypeOK'
    BY <1>15, <1>t DEF Immediate, DisposeConnection, TypeOK
  <2> QED BY <1>15, <1>b, <2>1 DEF Immediate, Bounded, Accounting, Capacity
<1>16. ASSUME NEW c \in Conns, ClientError(c) PROVE Bounded'
  <2>1. idle' \in Seq(Conns) /\ Len(idle') \in Nat /\ Len(idle') <= Len(idle)
    BY <1>16, <1>13, <1>0, <1>t DEF ClientError, TypeOK
  <2>2. TypeOK'
    BY <1>16, <1>t, <2>1 DEF ClientError, DisposeConnection, TypeOK
  <2>3. Accounting'
    BY <1>16, <1>b DEF ClientError, Accounting
  <2>4. Capacity'
    BY <1>16, <1>0, <1>b, <2>1 DEF ClientError, Capacity
  <2> QED BY <2>2, <2>3, <2>4 DEF Bounded
<1>17. ASSUME NEW c \in Conns, Closed(c) PROVE Bounded'
  BY <1>17, <1>t, <1>b DEF Closed, Bounded, TypeOK, Accounting, Capacity
<1>18. ASSUME End PROVE Bounded'
  <2>1. TypeOK'
    BY <1>18, <1>t DEF End, TypeOK, IdleSet
  <2> QED BY <1>18, <1>b, <2>1 DEF End, Bounded, Accounting, Capacity
<1>19. ASSUME EndSettles PROVE Bounded'
  <2>1. IsFiniteSet({}) /\ Cardinality({}) = 0 /\ Len(<<>>) = 0
    BY FS_EmptySet
  <2>2. TypeOK'
    BY <1>19, <1>t, <2>1 DEF EndSettles, TypeOK
  <2>3. Accounting'
    BY <1>19, <1>b DEF EndSettles, Accounting
  <2>4. Capacity'
    BY <1>19, <1>0, <1>b, <2>1 DEF EndSettles, Capacity
  <2> QED BY <2>2, <2>3, <2>4 DEF Bounded
<1>20. ASSUME CloseIdle PROVE Bounded'
  <2>1. Len(<<>>) = 0
    OBVIOUS
  <2>2. TypeOK'
    BY <1>20, <1>t DEF CloseIdle, TypeOK, IdleSet
  <2>3. Accounting'
    BY <1>20, <1>b DEF CloseIdle, Accounting
  <2>4. Capacity'
    BY <1>20, <1>0, <1>b, <2>1 DEF CloseIdle, Capacity
  <2> QED BY <2>2, <2>3, <2>4 DEF Bounded
<1>21. CASE UNCHANGED vars
  BY <1>21, <1>t, <1>b DEF vars, Bounded, TypeOK, Accounting, Capacity
<1>22. CASE \E i \in Items : AcquireIdle(i) \/ AcquireQueued(i) \/ GiveBack(i)
  BY <1>22, <1>1, <1>2, <1>3, <1>4, <1>5 DEF GiveBack, ReleaseSpent, Dispose
<1>23. CASE \E c \in Conns : ConnectSettles(c)
  BY <1>23, <1>6, <1>7, <1>8, <1>9 DEF ConnectSettles
<1>24. CASE \E c \in Conns : IdleTimeout(c) \/ Immediate(c) \/ ClientError(c) \/ Closed(c)
  BY <1>24, <1>14, <1>15, <1>16, <1>17
<1> QED
  BY <1>10, <1>11, <1>12, <1>18, <1>19, <1>20, <1>21, <1>22, <1>23, <1>24 DEF Next

(* The pool's fields keep their types, its counters add up and the connections it *)
(* counts never exceed maxConnections, for every configuration.                   *)
THEOREM BoundedCorrect == Spec => []Bounded
BY BoundedInit, BoundedStep, PTL DEF Spec

(* Pool's fields keep their types. *)
THEOREM TypeCorrect == Spec => []TypeOK
<1>1. Bounded => TypeOK
  BY DEF Bounded
<1> QED BY <1>1, BoundedCorrect, PTL

(* Every unit of connectingCount and of the rate limit has an owner that returns it. *)
THEOREM AccountingCorrect == Spec => []Accounting
<1>1. Bounded => Accounting
  BY DEF Bounded
<1> QED BY <1>1, BoundedCorrect, PTL

(* maxConnections bounds the lent, idle and establishing connections together. *)
THEOREM CapacityCorrect == Spec => []Capacity
<1>1. Bounded => Capacity
  BY DEF Bounded
<1> QED BY <1>1, BoundedCorrect, PTL
-----------------------------------------------------------------------------
(* Where a connection can be: who holds, keeps and disposes what.          *)

Elems(s) == {s[k] : k \in DOMAIN s}
Distinct(s) == \A k, l \in DOMAIN s : k # l => s[k] # s[l]

(* Pushing something new. *)
LEMMA AppendElems ==
  ASSUME NEW S, NEW s \in Seq(S), NEW x \in S
  PROVE  /\ Elems(Append(s, x)) = Elems(s) \cup {x}
         /\ Append(s, x) # <<>>
         /\ Distinct(s) /\ x \notin Elems(s) => Distinct(Append(s, x))
<1>1. /\ Len(s) \in Nat /\ DOMAIN s = 1 .. Len(s)
      /\ Append(s, x) \in Seq(S) /\ Len(Append(s, x)) = Len(s) + 1
      /\ \A k \in 1 .. Len(s) : Append(s, x)[k] = s[k]
      /\ Append(s, x)[Len(s) + 1] = x
  BY AppendProperties
<1> DEFINE t == Append(s, x)
<1> HIDE DEF t
<1>2. DOMAIN t = 1 .. Len(s) + 1
  BY <1>1 DEF t
<1>3. Elems(t) = Elems(s) \cup {x}
  <2>1. ASSUME NEW y \in Elems(t) PROVE y \in Elems(s) \cup {x}
    <3>1. PICK k \in 1 .. Len(s) + 1 : y = t[k]
      BY <1>2 DEF Elems
    <3>2. CASE k = Len(s) + 1
      BY <1>1, <3>1, <3>2 DEF t
    <3>3. CASE k # Len(s) + 1
      <4>1. k \in 1 .. Len(s)
        BY <1>1, <3>3
      <4> QED BY <1>1, <3>1, <4>1 DEF t, Elems
    <3> QED BY <3>2, <3>3
  <2>2. ASSUME NEW y \in Elems(s) PROVE y \in Elems(t)
    <3>1. PICK k \in 1 .. Len(s) : y = s[k]
      BY <1>1 DEF Elems
    <3>2. y = t[k] /\ k \in 1 .. Len(s) + 1
      BY <1>1, <3>1 DEF t
    <3> QED BY <1>2, <3>2 DEF Elems
  <2>3. x \in Elems(t)
    <3>1. x = t[Len(s) + 1] /\ Len(s) + 1 \in 1 .. Len(s) + 1
      BY <1>1 DEF t
    <3> QED BY <1>2, <3>1 DEF Elems
  <2> QED BY <2>1, <2>2, <2>3
<1>4. t # <<>>
  BY <1>1 DEF t
<1>5. ASSUME Distinct(s), x \notin Elems(s) PROVE Distinct(t)
  <2>1. \A k \in 1 .. Len(s) : s[k] # x
    BY <1>1, <1>5 DEF Elems
  <2>2. ASSUME NEW k \in 1 .. Len(s) + 1, NEW l \in 1 .. Len(s) + 1, k # l
        PROVE  t[k] # t[l]
    <3>1. CASE k = Len(s) + 1
      <4>1. l \in 1 .. Len(s)
        BY <1>1, <2>2, <3>1
      <4> QED BY <1>1, <2>1, <3>1, <4>1 DEF t
    <3>2. CASE l = Len(s) + 1
      <4>1. k \in 1 .. Len(s)
        BY <1>1, <2>2, <3>2
      <4> QED BY <1>1, <2>1, <3>2, <4>1 DEF t
    <3>3. CASE k # Len(s) + 1 /\ l # Len(s) + 1
      <4>1. k \in 1 .. Len(s) /\ l \in 1 .. Len(s)
        BY <1>1, <3>3
      <4> QED BY <1>1, <1>5, <2>2, <4>1 DEF t, Distinct
    <3> QED BY <3>1, <3>2, <3>3
  <2> QED BY <1>2, <2>2 DEF Distinct
<1> QED BY <1>3, <1>4, <1>5 DEF t

(* Taking out the element at a place; the first and the last are instances. *)
LEMMA RemoveElems ==
  ASSUME NEW S, NEW s \in Seq(S), NEW k \in DOMAIN s, Distinct(s),
         NEW t \in Seq(S), Len(t) = Len(s) - 1,
         \A j \in 1 .. Len(s) - 1 : t[j] = IF j < k THEN s[j] ELSE s[j + 1]
  PROVE  Elems(t) = Elems(s) \ {s[k]} /\ Distinct(t)
<1>1. /\ Len(s) \in Nat /\ Len(s) - 1 \in Nat /\ DOMAIN s = 1 .. Len(s) /\ k \in 1 .. Len(s)
      /\ DOMAIN t = 1 .. Len(s) - 1
  <2>1. Len(s) \in Nat /\ DOMAIN s = 1 .. Len(s) /\ DOMAIN t = 1 .. Len(t)
    BY LenProperties
  <2> QED BY <2>1
<1> DEFINE from(j) == IF j < k THEN j ELSE j + 1
<1>2. \A j \in 1 .. Len(s) - 1 : from(j) \in 1 .. Len(s) /\ from(j) # k /\ t[j] = s[from(j)]
  BY <1>1
<1>3. \A i, j \in 1 .. Len(s) - 1 : i # j => from(i) # from(j)
  BY <1>1
<1>4. \A i \in 1 .. Len(s) : i # k => \E j \in 1 .. Len(s) - 1 : from(j) = i
  <2> TAKE i \in 1 .. Len(s)
  <2> HAVE i # k
  <2>1. CASE i < k
    <3>1. i \in 1 .. Len(s) - 1 /\ from(i) = i
      BY <1>1, <2>1
    <3> QED BY <3>1
  <2>2. CASE i > k
    <3>1. i - 1 \in 1 .. Len(s) - 1 /\ from(i - 1) = i
      BY <1>1, <2>2
    <3> QED BY <3>1
  <2> QED BY <1>1, <2>1, <2>2
<1> HIDE DEF from
<1>5. ASSUME NEW y \in Elems(t) PROVE y \in Elems(s) \ {s[k]}
  <2>1. PICK j \in 1 .. Len(s) - 1 : y = t[j]
    BY <1>1 DEF Elems
  <2>2. from(j) \in DOMAIN s /\ from(j) # k /\ y = s[from(j)]
    BY <1>1, <1>2, <2>1
  <2> QED BY <2>2 DEF Elems, Distinct
<1>6. ASSUME NEW y \in Elems(s) \ {s[k]} PROVE y \in Elems(t)
  <2>1. PICK i \in 1 .. Len(s) : y = s[i] /\ i # k
    BY <1>1 DEF Elems
  <2>2. PICK j \in 1 .. Len(s) - 1 : from(j) = i
    BY <1>4, <2>1
  <2> QED BY <1>1, <1>2, <2>1, <2>2 DEF Elems
<1>7. Distinct(t)
  <2> SUFFICES ASSUME NEW i \in 1 .. Len(s) - 1, NEW j \in 1 .. Len(s) - 1, i # j
               PROVE  t[i] # t[j]
    BY <1>1 DEF Distinct
  <2>1. from(i) \in DOMAIN s /\ from(j) \in DOMAIN s /\ from(i) # from(j)
    BY <1>1, <1>2, <1>3
  <2> QED BY <1>2, <2>1 DEF Distinct
<1> QED BY <1>5, <1>6, <1>7

LEMMA WithoutAtElems ==
  ASSUME NEW S, NEW s \in Seq(S), NEW k \in DOMAIN s, Distinct(s)
  PROVE  Elems(WithoutAt(s, k)) = Elems(s) \ {s[k]} /\ Distinct(WithoutAt(s, k))
<1>1. k \in 1 .. Len(s) /\ Len(s) \in Nat
  BY LenProperties
<1> DEFINE before == SubSeq(s, 1, k - 1)
           after  == SubSeq(s, k + 1, Len(s))
<1>2. \A i \in 1 .. Len(s) : s[i] \in S
  BY ElementOfSeq
<1>3. /\ before \in Seq(S) /\ Len(before) = k - 1
      /\ \A i \in 1 .. k - 1 : before[i] = s[i]
  BY <1>1, <1>2, SubSeqProperties
<1>4. /\ after \in Seq(S) /\ Len(after) = Len(s) - k
      /\ \A i \in 1 .. Len(s) - k : after[i] = s[k + i]
  BY <1>1, <1>2, SubSeqProperties
<1> HIDE DEF before, after
<1>c. /\ before \o after \in Seq(S)
      /\ Len(before \o after) = Len(before) + Len(after)
      /\ \A i \in 1 .. Len(before) + Len(after) :
            (before \o after)[i] = IF i <= Len(before) THEN before[i] ELSE after[i - Len(before)]
  BY <1>3, <1>4, ConcatProperties, Zenon
<1>5. /\ Len(before) + Len(after) = Len(s) - 1
      /\ before \o after \in Seq(S)
      /\ Len(before \o after) = Len(s) - 1
      /\ \A i \in 1 .. Len(s) - 1 :
            (before \o after)[i] = IF i <= k - 1 THEN before[i] ELSE after[i - (k - 1)]
  <2>1. Len(before) + Len(after) = Len(s) - 1
    BY <1>1, <1>3, <1>4
  <2> QED BY <1>3, <2>1, <1>c
<1>6. ASSUME NEW i \in 1 .. Len(s) - 1
      PROVE  (before \o after)[i] = IF i < k THEN s[i] ELSE s[i + 1]
  <2>1. CASE i < k
    <3>1. i \in 1 .. k - 1 /\ i <= k - 1
      BY <1>1, <2>1
    <3> QED BY <1>3, <1>5, <2>1, <3>1
  <2>2. CASE ~(i < k)
    <3>1. /\ i - (k - 1) \in 1 .. Len(s) - k /\ ~(i <= k - 1)
          /\ k + (i - (k - 1)) = i + 1
      BY <1>1, <2>2
    <3>2. (before \o after)[i] = after[i - (k - 1)]
      BY <1>5, <3>1
    <3>3. after[i - (k - 1)] = s[k + (i - (k - 1))]
      BY <1>4, <3>1
    <3> QED BY <2>2, <3>1, <3>2, <3>3
  <2> QED BY <2>1, <2>2
<1> DEFINE both == before \o after
<1>7. /\ both \in Seq(S) /\ Len(both) = Len(s) - 1
      /\ \A i \in 1 .. Len(s) - 1 : both[i] = IF i < k THEN s[i] ELSE s[i + 1]
  BY <1>5, <1>6
<1>8. WithoutAt(s, k) = both
  BY DEF WithoutAt, before, after
<1> HIDE DEF both
<1> QED BY <1>7, <1>8, RemoveElems

LEMMA FrontElems ==
  ASSUME NEW S, NEW s \in Seq(S), s # <<>>, Distinct(s)
  PROVE  Elems(Front(s)) = Elems(s) \ {Last(s)} /\ Distinct(Front(s)) /\ Last(s) \in Elems(s)
<1>1. Len(s) \in Nat /\ DOMAIN s = 1 .. Len(s) /\ Len(s) \in DOMAIN s /\ Len(s) - 1 \in Nat
  BY EmptySeq, LenProperties
<1>2. \A i \in 1 .. Len(s) - 1 : s[i] \in S
  BY <1>1, ElementOfSeq
<1>3. \A n \in Nat : n = Len(s) - 1 =>
        /\ SubSeq(s, 1, n) \in Seq(S) /\ Len(SubSeq(s, 1, n)) = n
        /\ \A i \in 1 .. n : SubSeq(s, 1, n)[i] = s[i]
  BY <1>2, SubSeqProperties
<1>f. /\ SubSeq(s, 1, Len(s) - 1) \in Seq(S) /\ Len(SubSeq(s, 1, Len(s) - 1)) = Len(s) - 1
      /\ \A i \in 1 .. Len(s) - 1 : SubSeq(s, 1, Len(s) - 1)[i] = s[i]
  BY <1>1, <1>3, Zenon
<1>4. /\ Front(s) \in Seq(S) /\ Len(Front(s)) = Len(s) - 1
      /\ \A i \in 1 .. Len(s) - 1 : Front(s)[i] = s[i]
  BY <1>f, Zenon DEF Front
<1>g. \A i \in 1 .. Len(s) - 1 : i < Len(s)
  BY <1>1
<1>5. Elems(Front(s)) = Elems(s) \ {s[Len(s)]} /\ Distinct(Front(s))
  BY <1>1, <1>4, <1>g, RemoveElems
<1> QED BY <1>1, <1>5 DEF Last, Elems

LEMMA TailElems ==
  ASSUME NEW S, NEW s \in Seq(S), s # <<>>, Distinct(s)
  PROVE  Elems(Tail(s)) = Elems(s) \ {Head(s)} /\ Distinct(Tail(s)) /\ Head(s) \in Elems(s)
<1>1. /\ Len(s) \in Nat /\ DOMAIN s = 1 .. Len(s) /\ 1 \in DOMAIN s /\ Len(s) - 1 \in Nat
      /\ Head(s) = s[1]
  BY EmptySeq, LenProperties
<1>2. /\ Tail(s) \in Seq(S) /\ Len(Tail(s)) = Len(s) - 1
      /\ \A i \in 1 .. Len(s) - 1 : Tail(s)[i] = s[i + 1] /\ ~(i < 1)
  BY <1>1, HeadTailProperties
<1>3. Elems(Tail(s)) = Elems(s) \ {s[1]} /\ Distinct(Tail(s))
  BY <1>1, <1>2, RemoveElems
<1> QED BY <1>1, <1>3 DEF Elems

LEMMA EmptyElems == Elems(<<>>) = {} /\ Distinct(<<>>)
<1>1. DOMAIN <<>> = {}
  OBVIOUS
<1> QED BY <1>1 DEF Elems, Distinct

-----------------------------------------------------------------------------
(* Where connections are, with the fields as parameters because handleAvailable-  *)
(* Connection and maybeCreateNew run in the middle of a step: e is ended, kept    *)
(* the set of idle connections, h the holders.                                    *)
Places(e, act, kept, imm, con, dis, op, h) ==
  /\ \A c \in act : c \notin kept
  /\ \A i, j \in Items : i # j /\ h[i] # NoConn => h[i] # h[j]
  /\ ~e => /\ \A i \in Items : h[i] # NoConn => h[i] \in act
           /\ \A c \in act : \E i \in Items : h[i] = c
           /\ \A c \in imm : c \notin act /\ c \notin kept
           /\ \A c \in dis : c \notin act /\ c \notin kept
  /\ e => \A c \in act \cup kept : c \in dis
  /\ \A c \in con : /\ c \notin act /\ c \notin kept /\ c \notin imm /\ c \notin dis /\ c \notin op
                    /\ \A i \in Items : h[i] # c
  /\ \A c \in op : c \in act \/ c \in kept \/ c \in imm \/ c \in dis

(* A connection between two places: in the hands of the code that moves it. *)
Loose(c, act, kept, imm, con, dis, h) ==
  /\ c \notin act /\ c \notin kept /\ c \notin imm /\ c \notin con /\ c \notin dis
  /\ \A i \in Items : h[i] # c

Holders == [Items -> Conns \cup {NoConn}]

LEMMA ConnIsSome == NoConn \notin Conns
BY ConfigAssumption DEF ConfigAssumption

(* Ways to take a connection in hand. *)
LEMMA TakeIdle ==
  ASSUME NEW act, NEW kept, NEW imm, NEW con, NEW dis, NEW op, NEW h \in Holders,
         NEW c \in kept, c \in Conns,
         Places(FALSE, act, kept, imm, con, dis, op, h)
  PROVE  /\ Places(FALSE, act, kept \ {c}, imm, con, dis, op \ {c}, h)
         /\ Loose(c, act, kept \ {c}, imm, con, dis, h)
BY ConnIsSome DEF Places, Loose, Holders

LEMMA TakeBack ==
  ASSUME NEW act, NEW kept, NEW imm, NEW con, NEW dis, NEW op, NEW h \in Holders,
         NEW i \in Items, h[i] \in act, h[i] \in Conns, con \subseteq Conns,
         Places(FALSE, act, kept, imm, con, dis, op, h)
  PROVE  /\ Places(FALSE, act \ {h[i]}, kept, imm, con, dis, op \ {h[i]}, [h EXCEPT ![i] = NoConn])
         /\ Loose(h[i], act \ {h[i]}, kept, imm, con, dis, [h EXCEPT ![i] = NoConn])
<1> DEFINE g == [h EXCEPT ![i] = NoConn]
           c == h[i]
<1>1. \A j \in Items : g[j] = IF j = i THEN NoConn ELSE h[j]
  BY DEF Holders
<1>2. c # NoConn /\ c \in act /\ h[i] = c
  BY ConnIsSome
<1>3. \A j \in Items : g[j] # c
  BY <1>1, <1>2 DEF Places
<1> HIDE DEF g, c
<1>4. \A j, k \in Items : j # k /\ g[j] # NoConn => g[j] # g[k]
  BY <1>1 DEF Places
<1>5. \A j \in Items : g[j] # NoConn => g[j] \in act \ {c}
  BY <1>1, <1>3 DEF Places
<1>6. \A d \in act \ {c} : \E j \in Items : g[j] = d
  BY <1>1, <1>2 DEF Places
<1>7. \A d \in con : \A j \in Items : g[j] # d
  <2> SUFFICES ASSUME NEW d \in con, NEW j \in Items, g[j] = d PROVE FALSE
    OBVIOUS
  <2>1. CASE h[j] = d
    BY <2>1 DEF Places
  <2>2. CASE d = NoConn
    BY <2>2, ConnIsSome
  <2> QED BY <1>1, <2>1, <2>2
<1>8. Places(FALSE, act \ {c}, kept, imm, con, dis, op \ {c}, g)
  BY <1>4, <1>5, <1>6, <1>7 DEF Places
<1>9. Loose(c, act \ {c}, kept, imm, con, dis, g)
  BY <1>2, <1>3 DEF Places, Loose
<1> QED BY <1>8, <1>9 DEF g, c

LEMMA TakeConnected ==
  ASSUME NEW act, NEW kept, NEW imm, NEW con, NEW dis, NEW op, NEW h \in Holders,
         NEW c \in con,
         Places(FALSE, act, kept, imm, con, dis, op, h)
  PROVE  /\ Places(FALSE, act, kept, imm, con \ {c}, dis, op, h)
         /\ Loose(c, act, kept, imm, con \ {c}, dis, h)
BY DEF Places, Loose

(* Ways to put it down again. *)
LEMMA PutToBorrower ==
  ASSUME NEW act, NEW kept, NEW imm, NEW con, NEW dis, NEW op, NEW h \in Holders,
         NEW c \in Conns, NEW i \in Items, h[i] = NoConn, act \subseteq Conns, NEW op2, op2 \subseteq op \cup {c},
         Places(FALSE, act, kept, imm, con, dis, op, h),
         Loose(c, act, kept, imm, con, dis, h)
  PROVE  Places(FALSE, act \cup {c}, kept, imm, con, dis, op2, [h EXCEPT ![i] = c])
<1> DEFINE g == [h EXCEPT ![i] = c]
<1>1. \A j \in Items : g[j] = IF j = i THEN c ELSE h[j]
  BY DEF Holders
<1> HIDE DEF g
<1>2. \A j, k \in Items : j # k /\ g[j] # NoConn => g[j] # g[k]
  BY <1>1 DEF Places, Loose
<1>3. \A j \in Items : g[j] # NoConn => g[j] \in act \cup {c}
  BY <1>1 DEF Places
<1>4. \A d \in act \cup {c} : \E j \in Items : g[j] = d
  <2>1. i \in Items /\ g[i] = c
    BY <1>1
  <2>2. ASSUME NEW d \in act PROVE \E j \in Items : g[j] = d
    <3>1. PICK j \in Items : h[j] = d
      BY DEF Places
    <3>2. j # i
      BY <3>1, ConnIsSome
    <3> QED BY <1>1, <3>1, <3>2
  <2> QED BY <2>1, <2>2
<1>5. \A d \in con : \A j \in Items : g[j] # d
  BY <1>1 DEF Places, Loose
<1>6. \A d \in con : d # c
  BY DEF Loose
<1>7. Places(FALSE, act \cup {c}, kept, imm, con, dis, op2, g)
  BY <1>2, <1>3, <1>4, <1>5, <1>6 DEF Places, Loose
<1> QED BY <1>7 DEF g

LEMMA PutToIdle ==
  ASSUME NEW act, NEW kept, NEW imm, NEW con, NEW dis, NEW op, NEW h \in Holders,
         NEW c \in Conns, NEW op2, op2 \subseteq op \cup {c},
         Places(FALSE, act, kept, imm, con, dis, op, h),
         Loose(c, act, kept, imm, con, dis, h)
  PROVE  Places(FALSE, act, kept \cup {c}, imm, con, dis, op2, h)
BY DEF Places, Loose

LEMMA PutToImmediates ==
  ASSUME NEW act, NEW kept, NEW imm, NEW con, NEW dis, NEW op, NEW h \in Holders,
         NEW c \in Conns, NEW op2, op2 \subseteq op \cup {c},
         Places(FALSE, act, kept, imm, con, dis, op, h),
         Loose(c, act, kept, imm, con, dis, h)
  PROVE  Places(FALSE, act, kept, imm \cup {c}, con, dis, op2, h)
BY DEF Places, Loose

(* disposeConnection, wherever the connection was but with a borrower. *)
LEMMA PutToDisposed ==
  ASSUME NEW e \in BOOLEAN, NEW act, NEW kept, NEW imm, NEW con, NEW dis, NEW op, NEW h \in Holders,
         NEW c, ~e => c \notin act,
         NEW imm2, imm2 \subseteq imm, imm \subseteq imm2 \cup {c},
         NEW op2, op2 \subseteq op \cup {c},
         Places(e, act, kept, imm, con, dis, op, h)
  PROVE  Places(e, act, kept \ {c}, imm2, con \ {c}, dis \cup {c}, op2, h)
BY DEF Places

(* maybeCreateNew: a new object is referred to by nothing yet. *)
LEMMA PutToConnecting ==
  ASSUME NEW act, NEW kept, NEW imm, NEW con, NEW dis, NEW op, NEW h \in Holders,
         NEW c, c \notin act, c \notin kept, c \notin imm, c \notin op, \A i \in Items : h[i] # c,
         Places(FALSE, act, kept, imm, con, dis, op, h)
  PROVE  Places(FALSE, act, kept, imm, con \cup {c}, dis \ {c}, op, h)
BY DEF Places

(* end(), up to its await; what it leaves behind; the rest of the steps. *)
LEMMA EndPlaces ==
  ASSUME NEW act, NEW kept, NEW imm, NEW con, NEW dis, NEW op, NEW h,
         Places(FALSE, act, kept, imm, con, dis, op, h)
  PROVE  Places(TRUE, act, kept, imm, con, dis \cup kept \cup act, op, h)
BY DEF Places

LEMMA SettlePlaces ==
  ASSUME NEW act, NEW kept, NEW imm, NEW con, NEW dis, NEW op, NEW h,
         Places(TRUE, act, kept, imm, con, dis, op, h)
  PROVE  Places(TRUE, {}, {}, imm, con, dis, op, h)
BY DEF Places

LEMMA CloseIdlePlaces ==
  ASSUME NEW e \in BOOLEAN, NEW act, NEW kept, NEW imm, NEW con, NEW dis, NEW op, NEW h,
         Places(e, act, kept, imm, con, dis, op, h)
  PROVE  Places(e, act, {}, imm, con, dis \cup kept, op, h)
BY DEF Places

LEMMA BrokenPlaces ==
  ASSUME NEW e \in BOOLEAN, NEW act, NEW kept, NEW imm, NEW con, NEW dis, NEW op, NEW h,
         NEW op2, op2 \subseteq op, Places(e, act, kept, imm, con, dis, op, h)
  PROVE  Places(e, act, kept, imm, con, dis, op2, h)
BY DEF Places

LEMMA GivenBackPlaces ==
  ASSUME NEW act, NEW kept, NEW imm, NEW con, NEW dis, NEW op, NEW h \in Holders,
         NEW i \in Items, con \subseteq Conns,
         Places(TRUE, act, kept, imm, con, dis, op, h)
  PROVE  Places(TRUE, act, kept, imm, con, dis, op, [h EXCEPT ![i] = NoConn])
<1> DEFINE g == [h EXCEPT ![i] = NoConn]
<1>1. \A j \in Items : g[j] = IF j = i THEN NoConn ELSE h[j]
  BY DEF Holders
<1> HIDE DEF g
<1>2. \A j, k \in Items : j # k /\ g[j] # NoConn => g[j] # g[k]
  BY <1>1 DEF Places
<1>3. \A d \in con : \A j \in Items : g[j] # d
  BY <1>1, ConnIsSome DEF Places
<1>4. Places(TRUE, act, kept, imm, con, dis, op, g)
  BY <1>2, <1>3 DEF Places
<1> QED BY <1>4 DEF g
-----------------------------------------------------------------------------
(* The queue: nobody waits twice, or with a connection, or next to an idle one. *)
Orderly(q, kept, h) ==
  /\ Distinct(q) /\ \A i \in Elems(q) : h[i] = NoConn
  /\ Distinct(kept) /\ (kept # <<>> => q = <<>>)

(* The inductive invariant. *)
WellPlaced ==
  /\ Orderly(queue, idle, holder)
  /\ ended => queue = <<>>
  /\ Places(ended, active, IdleSet, immediates, connecting, disposed, open, holder)

(* handleAvailableConnection of a connection in hand. *)
LEMMA HandOver ==
  ASSUME idle \in Seq(Conns), queue \in Seq(Items), NEW c \in Conns,
         NEW act, act \subseteq Conns, NEW con, NEW op, NEW h \in Holders, NEW u,
         HandleAvailable(c, act, h, u),
         Orderly(queue, idle, h),
         Places(FALSE, act, IdleSet, immediates, con, disposed, op, h),
         Loose(c, act, IdleSet, immediates, con, disposed, h)
  PROVE  /\ Orderly(queue', idle', holder')
         /\ Places(FALSE, active', IdleSet', immediates', con, disposed, op \cup {c}, holder')
         /\ active' \subseteq act \cup {c} /\ IdleSet' \subseteq IdleSet \cup {c}
         /\ immediates' \subseteq immediates \cup {c}
<1> DEFINE op2 == op \cup {c}
<1>op. op2 \subseteq op \cup {c}
  OBVIOUS
<1> HIDE DEF op2
<1>t. idle \in Seq(Conns) /\ queue \in Seq(Items)
  OBVIOUS
<1>o. /\ Distinct(queue) /\ \A i \in Elems(queue) : h[i] = NoConn
      /\ Distinct(idle) /\ (idle # <<>> => queue = <<>>)
  BY DEF Orderly
<1>s. IdleSet = Elems(idle) /\ IdleSet' = Elems(idle')
  BY DEF IdleSet, Elems
<1>1. CASE queue # <<>>
  <2>1. /\ active' = act \cup {c} /\ queue' = Tail(queue)
        /\ holder' = [h EXCEPT ![Head(queue)] = c]
        /\ idle' = idle /\ immediates' = immediates
    BY <1>1 DEF HandleAvailable
  <2>2. Head(queue) \in Items /\ Head(queue) \in Elems(queue)
    BY <1>1, <1>t, <1>o, TailElems, HeadTailProperties
  <2>3. Elems(queue') = Elems(queue) \ {Head(queue)} /\ Distinct(queue')
    BY <1>1, <1>t, <1>o, <2>1, TailElems
  <2>4. Elems(queue) \subseteq Items
    BY <1>t, ElementOfSeq DEF Elems
  <2>5. \A i \in Items : holder'[i] = IF i = Head(queue) THEN c ELSE h[i]
    BY <2>1, <2>2 DEF Holders
  <2>6. \A i \in Elems(queue') : holder'[i] = NoConn
    BY <1>o, <2>3, <2>4, <2>5
  <2>7. Orderly(queue', idle', holder')
    BY <1>1, <1>o, <2>1, <2>3, <2>6 DEF Orderly
  <2>8. Places(FALSE, act \cup {c}, IdleSet, immediates, con, disposed, op2,
               [h EXCEPT ![Head(queue)] = c])
    BY <1>o, <1>op, <2>2, PutToBorrower
  <2> QED BY <1>s, <2>1, <2>5, <2>7, <2>8 DEF op2
<1>2. CASE queue = <<>> /\ Len(idle) >= MaxIdle
  <2>1. /\ active' = act /\ queue' = queue /\ holder' = h
        /\ idle' = idle /\ immediates' = immediates \cup {c}
    <3>1. Len(idle) \in Nat /\ MaxIdle \in Nat
      BY <1>t, LenProperties, ConfigAssumption DEF ConfigAssumption
    <3>2. ~(Len(idle) < MaxIdle)
      BY <1>2, <3>1
    <3> QED BY <1>2, <3>2 DEF HandleAvailable
  <2>2. Places(FALSE, act, IdleSet, immediates \cup {c}, con, disposed, op2, h)
    BY <1>op, PutToImmediates
  <2> QED BY <1>s, <2>1, <2>2 DEF op2
<1>3. CASE queue = <<>> /\ ~(Len(idle) >= MaxIdle)
  <2>1. /\ active' = act /\ queue' = queue /\ holder' = h
        /\ idle' = Append(idle, c) /\ immediates' = immediates
    BY <1>3 DEF HandleAvailable
  <2>2. Elems(idle') = Elems(idle) \cup {c} /\ Distinct(idle')
    BY <1>t, <1>o, <1>s, <2>1, AppendElems DEF Loose
  <2>3. Places(FALSE, act, IdleSet \cup {c}, immediates, con, disposed, op2, h)
    BY <1>op, PutToIdle
  <2>4. Orderly(queue', idle', holder')
    BY <1>3, <1>o, <2>1, <2>2 DEF Orderly
  <2> QED BY <1>s, <2>1, <2>2, <2>3, <2>4 DEF op2
<1> QED BY <1>1, <1>2, <1>3

(* maybeCreateNew, at the end of a step whose other assignments are well placed *)
(* and put no connection anywhere that was nowhere before.                     *)
LEMMA CreatePlaces ==
  ASSUME NEW count, NEW limit, NEW att, MaybeCreateNew(count, limit, att),
         ended' \in BOOLEAN, holder' \in Holders,
         \A c \in Unused : /\ c \notin active' /\ c \notin IdleSet'
                           /\ c \notin immediates' /\ c \notin open'
                           /\ \A i \in Items : holder'[i] # c,
         Places(ended', active', IdleSet', immediates', att, disposed, open', holder')
  PROVE  Places(ended', active', IdleSet', immediates', connecting', disposed', open', holder')
<1>1. CASE MayConnect(count, limit)
  <2>1. PICK c \in Unused : connecting' = att \cup {c} /\ disposed' = disposed \ {c}
    BY <1>1 DEF MaybeCreateNew
  <2>2. ended' = FALSE
    BY <1>1 DEF MayConnect
  <2> DEFINE a == active'  k == IdleSet'  m == immediates'  o == open'  h == holder'
  <2>3. /\ c \notin a /\ c \notin k /\ c \notin m /\ c \notin o /\ \A i \in Items : h[i] # c
        /\ h \in Holders /\ Places(FALSE, a, k, m, att, disposed, o, h)
    BY <2>1, <2>2
  <2> HIDE DEF a, k, m, o, h
  <2>4. Places(FALSE, a, k, m, att \cup {c}, disposed \ {c}, o, h)
    BY <2>3, PutToConnecting
  <2> QED BY <2>1, <2>2, <2>4 DEF a, k, m, o, h
<1>2. CASE ~MayConnect(count, limit)
  BY <1>2 DEF MaybeCreateNew
<1> QED BY <1>1, <1>2

LEMMA WellPlacedInit == Init => WellPlaced
BY EmptyElems DEF Init, WellPlaced, Orderly, Places, IdleSet, Elems

LEMMA WellPlacedStep == TypeOK /\ TypeOK' /\ WellPlaced /\ [Next]_vars => WellPlaced'
<1> SUFFICES ASSUME TypeOK, TypeOK', WellPlaced, [Next]_vars PROVE WellPlaced'
  OBVIOUS
<1>t. /\ idle \in Seq(Conns) /\ queue \in Seq(Items) /\ holder \in Holders
      /\ active \subseteq Conns /\ connecting \subseteq Conns
      /\ ended \in BOOLEAN /\ ended' \in BOOLEAN /\ holder' \in Holders
  BY DEF TypeOK, Holders
<1>q. /\ Orderly(queue, idle, holder)
      /\ Distinct(queue) /\ \A i \in Queued : holder[i] = NoConn
      /\ Distinct(idle) /\ (idle # <<>> => queue = <<>>)
      /\ ended => queue = <<>>
  BY DEF WellPlaced, Orderly, Queued, Elems
<1>p. Places(ended, active, IdleSet, immediates, connecting, disposed, open, holder)
  BY DEF WellPlaced
<1>s. IdleSet = Elems(idle) /\ IdleSet' = Elems(idle') /\ Queued = Elems(queue)
  BY DEF IdleSet, Queued, Elems
<1>o. ASSUME queue' = queue, idle' = idle, holder' = holder PROVE Orderly(queue', idle', holder')
  BY <1>o, <1>q
<1>u. ASSUME NEW c \in Unused
      PROVE  /\ c \in Conns /\ c \notin active /\ c \notin IdleSet /\ c \notin immediates
             /\ c \notin open /\ c \notin connecting /\ \A i \in Items : holder[i] # c
  BY DEF Unused
<1>1. ASSUME NEW i \in Items, AcquireIdle(i) PROVE WellPlaced'
  <2> DEFINE c == Last(idle)
  <2>1. /\ ended = FALSE /\ ended' = FALSE /\ holder[i] = NoConn /\ idle # <<>>
        /\ idle' = Front(idle) /\ active' = active \cup {c}
        /\ holder' = [holder EXCEPT ![i] = c] /\ queue' = queue /\ queue = <<>>
        /\ UNCHANGED <<disposed, connecting, immediates, open>>
    BY <1>1, <1>t, <1>q DEF AcquireIdle, CanAsk
  <2>2. IdleSet' = IdleSet \ {c} /\ Distinct(idle') /\ c \in IdleSet /\ c \in Conns
    BY <1>t, <1>q, <1>s, <2>1, FrontElems, FrontType
  <2> HIDE DEF c
  <2>3. /\ Places(FALSE, active, IdleSet \ {c}, immediates, connecting, disposed, open \ {c}, holder)
        /\ Loose(c, active, IdleSet \ {c}, immediates, connecting, disposed, holder)
    BY <1>t, <1>p, <2>1, <2>2, TakeIdle
  <2>4. open \subseteq (open \ {c}) \cup {c}
    OBVIOUS
  <2>5. Places(FALSE, active \cup {c}, IdleSet \ {c}, immediates, connecting, disposed, open,
               [holder EXCEPT ![i] = c])
    BY <1>t, <2>1, <2>2, <2>3, <2>4, PutToBorrower
  <2>6. Orderly(queue', idle', holder')
    BY <2>1, <2>2, EmptyElems DEF Orderly
  <2> QED BY <2>1, <2>2, <2>5, <2>6 DEF WellPlaced
<1>2. ASSUME NEW i \in Items, AcquireQueued(i) PROVE WellPlaced'
  <2>1. /\ ended = FALSE /\ ended' = FALSE /\ holder[i] = NoConn /\ i \notin Queued
        /\ idle = <<>> /\ queue' = Append(queue, i)
        /\ UNCHANGED <<idle, active, immediates, open, holder>>
        /\ MaybeCreateNew(connectingCount, remainingRateLimit, connecting)
    BY <1>2, <1>t DEF AcquireQueued, CanAsk
  <2>2. Elems(queue') = Elems(queue) \cup {i} /\ Distinct(queue')
    BY <1>t, <1>q, <1>s, <2>1, AppendElems
  <2>3. Orderly(queue', idle', holder')
    BY <1>q, <1>s, <2>1, <2>2 DEF Orderly
  <2>4. Places(ended', active', IdleSet', immediates', connecting, disposed, open', holder')
    BY <1>p, <1>s, <2>1
  <2>5. Places(ended', active', IdleSet', immediates', connecting', disposed', open', holder')
    BY <1>t, <1>u, <1>s, <2>1, <2>4, CreatePlaces
  <2> QED BY <2>1, <2>3, <2>5 DEF WellPlaced
<1>h. ASSUME NEW i \in Items, ~ended, holder[i] \in active
      PROVE  LET c == holder[i]
                 h == [holder EXCEPT ![i] = NoConn]
             IN  /\ c \in Conns /\ h \in Holders
                 /\ Places(FALSE, active \ {c}, IdleSet, immediates, connecting, disposed, open \ {c}, h)
                 /\ Loose(c, active \ {c}, IdleSet, immediates, connecting, disposed, h)
                 /\ \A j \in Items : h[j] = holder[j] \/ h[j] = NoConn
                 /\ Orderly(queue, idle, h)
  <2> DEFINE c == holder[i]
             h == [holder EXCEPT ![i] = NoConn]
  <2>1. c \in Conns /\ h \in Holders
    BY <1>t, <1>h DEF Holders
  <2>2. \A j \in Items : h[j] = holder[j] \/ h[j] = NoConn
    BY <1>t DEF Holders
  <2>3. ended = FALSE
    BY <1>t, <1>h
  <2>4. /\ Places(FALSE, active \ {c}, IdleSet, immediates, connecting, disposed, open \ {c}, h)
        /\ Loose(c, active \ {c}, IdleSet, immediates, connecting, disposed, h)
    BY <1>t, <1>p, <1>h, <2>1, <2>3, TakeBack
  <2>5. Elems(queue) \subseteq Items
    BY <1>t, ElementOfSeq DEF Elems
  <2> HIDE DEF h
  <2>6. Orderly(queue, idle, h)
    BY <1>q, <1>s, <2>2, <2>5 DEF Orderly
  <2> QED BY <2>1, <2>2, <2>4, <2>6 DEF h
<1>3. ASSUME NEW i \in Items, ReleaseUsable(i) PROVE WellPlaced'
  <2> DEFINE c == holder[i]
             h == [holder EXCEPT ![i] = NoConn]
  <2>1. /\ ended = FALSE /\ ended' = FALSE /\ c \in active
        /\ HandleAvailable(c, active \ {c}, h, uses)
        /\ UNCHANGED <<disposed, connecting, open>>
    BY <1>3, <1>t DEF ReleaseUsable
  <2>2. /\ c \in Conns /\ h \in Holders /\ active \ {c} \subseteq Conns
        /\ Places(FALSE, active \ {c}, IdleSet, immediates, connecting, disposed, open \ {c}, h)
        /\ Loose(c, active \ {c}, IdleSet, immediates, connecting, disposed, h)
        /\ Orderly(queue, idle, h)
    BY <1>h, <1>t, <2>1
  <2> HIDE DEF c, h
  <2> DEFINE op == open \ {c}
             a  == active'
             k  == IdleSet'
             m  == immediates'
             g  == holder'
  <2> HIDE DEF op
  <2>4. /\ Orderly(queue', idle', g)
        /\ Places(FALSE, a, k, m, connecting, disposed, op \cup {c}, g)
    BY <1>t, <2>1, <2>2, HandOver DEF op
  <2> HIDE DEF a, k, m, g
  <2>5. open \subseteq op \cup {c}
    BY DEF op
  <2>6. Places(FALSE, a, k, m, connecting, disposed, open, g)
    BY <2>4, <2>5, BrokenPlaces
  <2> QED BY <2>1, <2>4, <2>6 DEF WellPlaced, a, k, m, g
<1>4. ASSUME NEW i \in Items, Discard(i) PROVE WellPlaced'
  <2> DEFINE c == holder[i]
             h == [holder EXCEPT ![i] = NoConn]
  <2>1. /\ ended = FALSE /\ ended' = FALSE /\ c \in active
        /\ active' = active \ {c} /\ immediates' = immediates \cup {c}
        /\ holder' = h /\ UNCHANGED <<idle, queue, open>>
        /\ MaybeCreateNew(connectingCount, remainingRateLimit, connecting)
    BY <1>4, <1>t DEF Discard
  <2>2. /\ c \in Conns /\ h \in Holders
        /\ Places(FALSE, active \ {c}, IdleSet, immediates, connecting, disposed, open \ {c}, h)
        /\ Loose(c, active \ {c}, IdleSet, immediates, connecting, disposed, h)
        /\ \A j \in Items : h[j] = holder[j] \/ h[j] = NoConn
        /\ Orderly(queue, idle, h)
    BY <1>h, <2>1
  <2> HIDE DEF c, h
  <2>3. open \subseteq (open \ {c}) \cup {c}
    OBVIOUS
  <2>4. Places(FALSE, active \ {c}, IdleSet, immediates \cup {c}, connecting, disposed, open, h)
    BY <2>2, <2>3, PutToImmediates
  <2>5. Places(ended', active', IdleSet', immediates', connecting, disposed, open', holder')
    BY <1>s, <2>1, <2>4
  <2>6. \A d \in Unused : /\ d \notin active' /\ d \notin IdleSet'
                          /\ d \notin immediates' /\ d \notin open'
                          /\ \A j \in Items : holder'[j] # d
    BY <1>u, <1>s, <2>1, <2>2, ConnIsSome
  <2>7. Places(ended', active', IdleSet', immediates', connecting', disposed', open', holder')
    BY <1>t, <2>1, <2>5, <2>6, CreatePlaces
  <2>8. Orderly(queue', idle', holder')
    BY <2>1, <2>2
  <2> QED BY <2>1, <2>7, <2>8 DEF WellPlaced
<1>5. ASSUME NEW i \in Items, GiveBackAfterEnd(i) PROVE WellPlaced'
  <2>1. /\ ended = TRUE /\ ended' = TRUE /\ queue = <<>>
        /\ holder' = [holder EXCEPT ![i] = NoConn]
        /\ UNCHANGED <<idle, active, queue, disposed, connecting, immediates, open>>
    BY <1>5, <1>t, <1>q DEF GiveBackAfterEnd
  <2>2. Places(TRUE, active, IdleSet, immediates, connecting, disposed, open,
               [holder EXCEPT ![i] = NoConn])
    BY <1>t, <1>p, <2>1, GivenBackPlaces
  <2>3. Orderly(queue', idle', holder')
    BY <1>q, <2>1, EmptyElems DEF Orderly
  <2> QED BY <1>s, <2>1, <2>2, <2>3 DEF WellPlaced
<1>6. ASSUME NEW c \in Conns, ConnectOk(c) PROVE WellPlaced'
  <2>1. /\ ended = FALSE /\ ended' = FALSE /\ c \in connecting
        /\ open' = open \cup {c}
        /\ HandleAvailable(c, active, holder, [uses EXCEPT ![c] = 0])
        /\ MaybeCreateNew(connectingCount - 1, remainingRateLimit, connecting \ {c})
    BY <1>6, <1>t DEF ConnectOk
  <2>2. /\ Places(FALSE, active, IdleSet, immediates, connecting \ {c}, disposed, open, holder)
        /\ Loose(c, active, IdleSet, immediates, connecting \ {c}, disposed, holder)
    BY <1>t, <1>p, <2>1, TakeConnected
  <2>3. /\ Orderly(queue', idle', holder')
        /\ Places(FALSE, active', IdleSet', immediates', connecting \ {c}, disposed,
                  open \cup {c}, holder')
        /\ active' \subseteq active \cup {c} /\ IdleSet' \subseteq IdleSet \cup {c}
        /\ immediates' \subseteq immediates \cup {c}
        /\ \A i \in Items : holder'[i] = holder[i] \/ holder'[i] = c
    <3> DEFINE u    == [uses EXCEPT ![c] = 0]
               con2 == connecting \ {c}
    <3>0. /\ idle \in Seq(Conns) /\ queue \in Seq(Items) /\ c \in Conns
          /\ active \subseteq Conns /\ holder \in Holders /\ Orderly(queue, idle, holder)
      BY <1>t, <1>q
    <3>1. /\ HandleAvailable(c, active, holder, u)
          /\ Places(FALSE, active, IdleSet, immediates, con2, disposed, open, holder)
          /\ Loose(c, active, IdleSet, immediates, con2, disposed, holder)
      BY <2>1, <2>2
    <3> HIDE DEF u, con2
    <3>2. /\ Orderly(queue', idle', holder')
          /\ Places(FALSE, active', IdleSet', immediates', con2, disposed, open \cup {c}, holder')
      BY <3>0, <3>1, HandOver
    <3>3. /\ active' \subseteq active \cup {c} /\ IdleSet' \subseteq IdleSet \cup {c}
          /\ immediates' \subseteq immediates \cup {c}
      BY <3>0, <3>1, HandOver
    <3>4. \A i \in Items : holder'[i] = holder[i] \/ holder'[i] = c
      BY <3>0, <3>1 DEF HandleAvailable, Holders
    <3> QED BY <3>2, <3>3, <3>4 DEF con2
  <2>4. \A d \in Unused : /\ d \notin active' /\ d \notin IdleSet'
                          /\ d \notin immediates' /\ d \notin open'
                          /\ \A j \in Items : holder'[j] # d
    BY <1>u, <2>1, <2>3
  <2>5. Places(ended', active', IdleSet', immediates', connecting', disposed', open', holder')
    BY <1>t, <2>1, <2>3, <2>4, CreatePlaces
  <2> QED BY <2>1, <2>3, <2>5 DEF WellPlaced
<1>con. ASSUME NEW c \in connecting
        PROVE  c \notin active /\ c \notin IdleSet /\ c \notin immediates /\ c \notin open
  BY <1>p DEF Places
<1>7. ASSUME NEW c \in Conns, ConnectOkAfterEnd(c) PROVE WellPlaced'
  <2>1. /\ c \in connecting /\ connecting' = connecting \ {c}
        /\ open' = open \cup {c} /\ disposed' = disposed \cup {c}
        /\ UNCHANGED <<ended, idle, active, queue, immediates, holder>>
    BY <1>7 DEF ConnectOkAfterEnd, DisposeConnection
  <2>2. Places(ended, active, IdleSet \ {c}, immediates, connecting \ {c}, disposed \cup {c},
               open \cup {c}, holder)
    BY <1>t, <1>p, <1>con, <2>1, PutToDisposed
  <2>3. IdleSet' = IdleSet \ {c}
    BY <1>con, <1>s, <2>1
  <2> QED BY <1>q, <2>1, <2>2, <2>3 DEF WellPlaced
<1>8. ASSUME NEW c \in Conns, ConnectRetry(c) PROVE WellPlaced'
  <2>1. /\ c \in connecting /\ connecting' = connecting \ {c} /\ disposed' = disposed \cup {c}
        /\ UNCHANGED <<ended, idle, active, queue, immediates, holder, open>>
    BY <1>8 DEF ConnectRetry, DisposeConnection
  <2>2. Places(ended, active, IdleSet \ {c}, immediates, connecting \ {c}, disposed \cup {c},
               open, holder)
    BY <1>t, <1>p, <1>con, <2>1, PutToDisposed
  <2>3. IdleSet' = IdleSet \ {c}
    BY <1>con, <1>s, <2>1
  <2> QED BY <1>q, <2>1, <2>2, <2>3 DEF WellPlaced
<1>9. ASSUME NEW c \in Conns, ConnectFailed(c) PROVE WellPlaced'
  <2>1. /\ c \in connecting /\ connecting' = connecting \ {c} /\ disposed' = disposed \cup {c}
        /\ queue' = queue \/ (queue # <<>> /\ queue' = Tail(queue))
        /\ UNCHANGED <<ended, idle, active, immediates, holder, open>>
    BY <1>9 DEF ConnectFailed, DisposeConnection
  <2>2. Places(ended, active, IdleSet \ {c}, immediates, connecting \ {c}, disposed \cup {c},
               open, holder)
    BY <1>t, <1>p, <1>con, <2>1, PutToDisposed
  <2>3. IdleSet' = IdleSet \ {c}
    BY <1>con, <1>s, <2>1
  <2>4. ASSUME queue # <<>>, queue' = Tail(queue)
        PROVE  Orderly(queue', idle', holder') /\ ~ended'
    <3>1. Elems(queue') = Elems(queue) \ {Head(queue)} /\ Distinct(queue')
      BY <1>t, <1>q, <2>4, TailElems
    <3> QED BY <1>q, <1>s, <2>1, <2>4, <3>1 DEF Orderly
  <2> QED BY <1>q, <2>1, <2>2, <2>3, <2>4 DEF WellPlaced
<1>10. ASSUME UNCHANGED <<ended, idle, active, queue, immediates, holder, open>>,
              NEW count, NEW limit, MaybeCreateNew(count, limit, connecting)
       PROVE  WellPlaced'
  <2>1. Places(ended', active', IdleSet', immediates', connecting, disposed, open', holder')
    BY <1>p, <1>s, <1>10
  <2>2. Places(ended', active', IdleSet', immediates', connecting', disposed', open', holder')
    BY <1>t, <1>u, <1>s, <1>10, <2>1, CreatePlaces
  <2> QED BY <1>q, <1>10, <2>2 DEF WellPlaced
<1>11. ASSUME RetryTimer \/ RateTimer PROVE WellPlaced'
  BY <1>10, <1>11 DEF RetryTimer, RateTimer
<1>12. ASSUME NEW k \in DOMAIN queue, ItemTimeout(k) PROVE WellPlaced'
  <2>1. /\ queue' = WithoutAt(queue, k)
        /\ UNCHANGED <<ended, idle, active, disposed, connecting, immediates, holder, open>>
    BY <1>12 DEF ItemTimeout
  <2>2. queue # <<>>
    BY <1>12
  <2>3. Elems(queue') = Elems(queue) \ {queue[k]} /\ Distinct(queue')
    BY <1>t, <1>q, <1>12, <2>1, WithoutAtElems
  <2>4. Orderly(queue', idle', holder') /\ ~ended'
    BY <1>q, <1>s, <2>1, <2>2, <2>3 DEF Orderly
  <2> QED BY <1>p, <1>s, <2>1, <2>4 DEF WellPlaced
<1>13. ASSUME NEW c, RemoveIdle(c)
       PROVE  IdleSet' = IdleSet \ {c} /\ Distinct(idle') /\ queue = <<>>
  <2>1. PICK k \in DOMAIN idle : idle[k] = c /\ idle' = WithoutAt(idle, k)
    BY <1>13 DEF RemoveIdle
  <2>2. Elems(idle') = Elems(idle) \ {c} /\ Distinct(idle')
    BY <1>t, <1>q, <2>1, WithoutAtElems
  <2>3. idle # <<>>
    BY <2>1
  <2> QED BY <1>q, <1>s, <2>2, <2>3
<1>14. ASSUME NEW c \in IdleSet, RemoveIdle(c), DisposeConnection(c), NEW op2, op2 \subseteq open,
              open' = op2, UNCHANGED <<ended, active, queue, connecting, immediates, holder>>
       PROVE  WellPlaced'
  <2>1. c \notin active /\ c \notin connecting
    BY <1>p DEF Places
  <2>2. Places(ended, active, IdleSet \ {c}, immediates, connecting \ {c}, disposed \cup {c},
               op2, holder)
    BY <1>t, <1>p, <1>14, <2>1, PutToDisposed
  <2>3. connecting \ {c} = connecting /\ disposed' = disposed \cup {c}
    BY <1>14, <2>1 DEF DisposeConnection
  <2>4. Orderly(queue', idle', holder')
    BY <1>q, <1>s, <1>13, <1>14 DEF Orderly
  <2> QED BY <1>q, <1>13, <1>14, <2>2, <2>3, <2>4 DEF WellPlaced
<1>15. ASSUME NEW c \in Conns, IdleTimeout(c) PROVE WellPlaced'
  <2>1. CASE c \in IdleSet
    BY <1>14, <1>15, <2>1 DEF IdleTimeout
  <2>2. CASE c \notin IdleSet
    BY <1>q, <1>p, <1>s, <1>15, <2>2 DEF IdleTimeout, WellPlaced
  <2> QED BY <2>1, <2>2
<1>16. ASSUME NEW c \in Conns, c \notin IdleSet, c \notin connecting, ~ended => c \notin active,
              disposed' = disposed \cup {c}, immediates' \subseteq immediates,
              immediates \subseteq immediates' \cup {c}, open' \subseteq open,
              UNCHANGED <<ended, idle, active, queue, connecting, holder>>
       PROVE  WellPlaced'
  <2> DEFINE imm2 == immediates'
             op2 == open'
  <2>1. imm2 \subseteq immediates /\ immediates \subseteq imm2 \cup {c} /\ op2 \subseteq open \cup {c}
    BY <1>16
  <2> HIDE DEF imm2, op2
  <2>2. Places(ended, active, IdleSet \ {c}, imm2, connecting \ {c}, disposed \cup {c}, op2, holder)
    BY <1>t, <1>p, <1>16, <2>1, PutToDisposed
  <2>3. IdleSet' = IdleSet \ {c} /\ connecting' = connecting \ {c}
    BY <1>s, <1>16
  <2> QED BY <1>q, <1>16, <2>2, <2>3 DEF WellPlaced, imm2, op2
<1>17. ASSUME NEW c \in Conns, Immediate(c) PROVE WellPlaced'
  <2>1. c \in immediates /\ c \notin connecting
    BY <1>p, <1>17 DEF Immediate, Places
  <2>2. CASE ended /\ c \in IdleSet
    <3>1. c \in disposed
      BY <1>p, <2>2 DEF Places
    <3>2. /\ disposed' = disposed /\ immediates' = immediates \ {c}
          /\ UNCHANGED <<ended, idle, active, queue, connecting, open, holder>>
      BY <1>17, <3>1 DEF Immediate, DisposeConnection
    <3>3. Places(ended, active, IdleSet, immediates \ {c}, connecting, disposed, open, holder)
      BY <1>p, <3>1 DEF Places
    <3> QED BY <1>q, <1>s, <3>2, <3>3 DEF WellPlaced
  <2>3. CASE ~(ended /\ c \in IdleSet)
    <3>1. c \notin IdleSet /\ (~ended => c \notin active)
      BY <1>p, <1>t, <2>1, <2>3 DEF Places
    <3>2. /\ disposed' = disposed \cup {c} /\ immediates' = immediates \ {c}
          /\ UNCHANGED <<ended, idle, active, queue, connecting, open, holder>>
      BY <1>17 DEF Immediate, DisposeConnection
    <3> QED BY <1>16, <2>1, <3>1, <3>2
  <2> QED BY <2>2, <2>3
<1>18. ASSUME NEW c \in Conns, open' = open \ {c},
              UNCHANGED <<ended, idle, active, queue, disposed, connecting, immediates, holder>>
       PROVE  WellPlaced'
  <2>1. Places(ended, active, IdleSet, immediates, connecting, disposed, open \ {c}, holder)
    BY <1>t, <1>p, BrokenPlaces
  <2> QED BY <1>q, <1>s, <1>18, <2>1 DEF WellPlaced
<1>19. ASSUME NEW c \in Conns, ClientError(c) PROVE WellPlaced'
  <2>1. /\ c \in open /\ open' = open \ {c}
        /\ UNCHANGED <<ended, active, queue, connecting, immediates, holder>>
    BY <1>19 DEF ClientError
  <2>2. CASE c \in active /\ UNCHANGED <<idle, disposed, poolError>>
    BY <1>18, <2>1, <2>2
  <2>3. CASE c \in IdleSet \ active /\ RemoveIdle(c) /\ DisposeConnection(c)
    <3>1. open \ {c} \subseteq open
      OBVIOUS
    <3> QED BY <1>14, <2>1, <2>3, <3>1
  <2>4. CASE c \notin active \cup IdleSet /\ DisposeConnection(c) /\ UNCHANGED idle
    <3>1. c \notin connecting
      BY <1>p, <2>1 DEF Places
    <3>2. /\ disposed' = disposed \cup {c} /\ immediates' \subseteq immediates
          /\ immediates \subseteq immediates' \cup {c} /\ open' \subseteq open
      BY <2>1, <2>4 DEF DisposeConnection
    <3> QED BY <1>16, <2>1, <2>4, <3>1, <3>2
  <2> QED BY <1>19, <2>2, <2>3, <2>4 DEF ClientError
<1>20. ASSUME NEW c \in Conns, Closed(c) PROVE WellPlaced'
  BY <1>18, <1>20 DEF Closed
<1>21. ASSUME End PROVE WellPlaced'
  <2>1. /\ ended = FALSE /\ ended' = TRUE /\ queue' = <<>>
        /\ disposed' = disposed \cup IdleSet \cup active
        /\ UNCHANGED <<idle, active, connecting, immediates, open, holder>>
    BY <1>21, <1>t DEF End
  <2>2. Places(TRUE, active, IdleSet, immediates, connecting, disposed \cup IdleSet \cup active,
               open, holder)
    BY <1>p, <2>1, EndPlaces
  <2>3. Orderly(queue', idle', holder')
    BY <1>q, <2>1, EmptyElems DEF Orderly
  <2> QED BY <1>s, <2>1, <2>2, <2>3 DEF WellPlaced
<1>22. ASSUME EndSettles PROVE WellPlaced'
  <2>1. /\ ended = TRUE /\ ended' = TRUE /\ idle' = <<>> /\ active' = {}
        /\ UNCHANGED <<queue, disposed, connecting, immediates, open, holder>>
    BY <1>22, <1>t DEF EndSettles
  <2>2. Places(TRUE, {}, {}, immediates, connecting, disposed, open, holder)
    BY <1>p, <2>1, SettlePlaces
  <2>3. Orderly(queue', idle', holder') /\ IdleSet' = {}
    BY <1>q, <1>s, <2>1, EmptyElems DEF Orderly
  <2> QED BY <1>q, <2>1, <2>2, <2>3 DEF WellPlaced
<1>23. ASSUME CloseIdle PROVE WellPlaced'
  <2>1. /\ idle' = <<>> /\ disposed' = disposed \cup IdleSet
        /\ UNCHANGED <<ended, active, queue, connecting, immediates, open, holder>>
    BY <1>23 DEF CloseIdle
  <2>2. Places(ended, active, {}, immediates, connecting, disposed \cup IdleSet, open, holder)
    BY <1>p, <1>t, CloseIdlePlaces
  <2>3. Orderly(queue', idle', holder') /\ IdleSet' = {}
    BY <1>q, <1>s, <2>1, EmptyElems DEF Orderly
  <2> QED BY <1>q, <2>1, <2>2, <2>3 DEF WellPlaced
<1>24. CASE UNCHANGED vars
  BY <1>q, <1>p, <1>s, <1>24 DEF vars, WellPlaced
<1>25. CASE \E i \in Items : AcquireIdle(i) \/ AcquireQueued(i) \/ GiveBack(i)
  BY <1>25, <1>1, <1>2, <1>3, <1>4, <1>5 DEF GiveBack, ReleaseSpent, Dispose
<1>26. CASE \E c \in Conns : ConnectSettles(c)
  BY <1>26, <1>6, <1>7, <1>8, <1>9 DEF ConnectSettles
<1>27. CASE \E c \in Conns : IdleTimeout(c) \/ Immediate(c) \/ ClientError(c) \/ Closed(c)
  BY <1>27, <1>15, <1>17, <1>19, <1>20
<1> QED
  BY <1>11, <1>12, <1>21, <1>22, <1>23, <1>24, <1>25, <1>26, <1>27 DEF Next
-----------------------------------------------------------------------------
(* Connections are where the pool says, for every configuration. *)
THEOREM WellPlacedCorrect == Spec => []WellPlaced
BY WellPlacedInit, WellPlacedStep, TypeCorrect, PTL DEF Spec

(* No connection ever has two borrowers or is in two places of the pool. *)
THEOREM ExclusiveCorrect == Spec => []Exclusive
<1>1. TypeOK /\ WellPlaced => Exclusive
  <2> SUFFICES ASSUME TypeOK, WellPlaced PROVE Exclusive
    OBVIOUS
  <2>1. /\ Distinct(idle) /\ active \subseteq Conns
        /\ Places(ended, active, IdleSet, immediates, connecting, disposed, open, holder)
    BY DEF WellPlaced, Orderly, TypeOK
  <2>2. \A k, l \in DOMAIN idle : k # l => idle[k] # idle[l]
    BY <2>1 DEF Distinct
  <2>3. \A i, j \in Items : i # j /\ holder[i] # NoConn => holder[i] # holder[j]
    BY <2>1 DEF Places
  <2>4. active \cap IdleSet = {}
    BY <2>1 DEF Places
  <2>5. ~ended => active = {holder[i] : i \in Items} \ {NoConn}
    BY <2>1, ConnIsSome DEF Places
  <2> QED BY <2>2, <2>3, <2>4, <2>5 DEF Exclusive
<1> QED BY <1>1, TypeCorrect, WellPlacedCorrect, PTL

(* What can be borrowed, or is, has not been disposed before end(). *)
THEOREM PooledUsableCorrect == Spec => []PooledUsable
<1>1. WellPlaced => PooledUsable
  BY DEF WellPlaced, Places, PooledUsable
<1> QED BY <1>1, WellPlacedCorrect, PTL

(* The pool never loses track of a connection that is open on the server. *)
THEOREM NoLeakCorrect == Spec => []NoLeak
<1>1. WellPlaced => NoLeak
  BY DEF WellPlaced, Places, NoLeak
<1> QED BY <1>1, WellPlacedCorrect, PTL
-----------------------------------------------------------------------------
(* The pool implements Lending. *)

(* Each borrower with a connection accounts for one lent connection. *)
LEMMA LentLimit ==
  ASSUME TypeOK, WellPlaced, ended = FALSE
  PROVE  IsFiniteSet(Lend!Lent) /\ Cardinality(Lend!Lent) <= Cardinality(active)
<1> DEFINE f == [b \in Lend!Lent |-> holder[b]]
<1>1. \A b \in Lend!Lent : b \in Items /\ holder[b] # NoConn
  BY DEF Lend!Lent
<1>2. Places(FALSE, active, IdleSet, immediates, connecting, disposed, open, holder)
  BY DEF WellPlaced
<1>3. \A b \in Lend!Lent : holder[b] \in active
  BY <1>1, <1>2 DEF Places
<1>4. \A a, b \in Lend!Lent : holder[a] = holder[b] => a = b
  BY <1>1, <1>2 DEF Places
<1>5. f \in Injection(Lend!Lent, active)
  BY <1>3, <1>4 DEF Injection, IsInjective
<1>6. IsFiniteSet(active)
  BY DEF TypeOK
<1> HIDE DEF f
<1> QED BY <1>5, <1>6, FS_Injection

(* The instance has a copy of the standard operator. *)
LEMMA SameCardinality == \A S : Lend!Cardinality(S) = Cardinality(S)
BY Zenon DEF Lend!Cardinality, Cardinality

LEMMA LendingInit == Init => Lend!Init
BY DEF Init, Lend!Init

LEMMA LendingStep ==
  Bounded /\ WellPlaced /\ [Next]_vars => [Lend!Next]_(Lend!lendVars)
<1> SUFFICES ASSUME Bounded, WellPlaced, [Next]_vars
             PROVE  Lend!Next \/ UNCHANGED Lend!lendVars
  OBVIOUS
<1>t. /\ TypeOK /\ idle \in Seq(Conns) /\ queue \in Seq(Items) /\ holder \in Holders
      /\ ended \in BOOLEAN /\ active \subseteq Conns /\ connecting \subseteq Conns
      /\ IsFiniteSet(active) /\ IsFiniteSet(connecting)
  BY DEF Bounded, TypeOK, Holders
<1>c. /\ Cardinality(active) \in Nat /\ Len(idle) \in Nat /\ Cardinality(connecting) \in Nat
      /\ retryTimers \in Nat /\ MaxConnections \in Nat
      /\ connectingCount = Cardinality(connecting) + retryTimers
      /\ Cardinality(active) + Len(idle) + connectingCount <= MaxConnections
  BY <1>t, FS_CardinalityType, LenProperties, ConfigAssumption
     DEF Bounded, Accounting, Capacity, TypeOK, ConfigAssumption
<1>o. /\ \A i \in Queued : holder[i] = NoConn
      /\ idle # <<>> => queue = <<>>
  BY DEF WellPlaced, Orderly, Queued, Elems
<1>p. Places(ended, active, IdleSet, immediates, connecting, disposed, open, holder)
  BY DEF WellPlaced
<1>l. ASSUME ended = FALSE
      PROVE  /\ IsFiniteSet(Lend!Lent) /\ Cardinality(Lend!Lent) \in Nat
             /\ Cardinality(Lend!Lent) <= Cardinality(active)
  BY <1>t, <1>l, LentLimit, FS_CardinalityType
<1>n. ended = FALSE => ~ended
  OBVIOUS
<1>v. ASSUME queue' = queue, holder' = holder, ended' = ended PROVE UNCHANGED Lend!lendVars
  BY <1>v DEF Lend!lendVars
<1>1. ASSUME NEW i \in Items, AcquireIdle(i) PROVE Lend!Next
  <2> DEFINE c == Last(idle)
  <2>1. /\ ended = FALSE /\ ended' = ended /\ holder[i] = NoConn /\ idle # <<>>
        /\ holder' = [holder EXCEPT ![i] = c] /\ queue' = queue /\ queue = <<>>
    BY <1>1, <1>t, <1>o DEF AcquireIdle, CanAsk
  <2>2. c \in Conns /\ c \in IdleSet /\ Len(idle) > 0
    <3>1. c \in Conns
      BY <1>t, <2>1, FrontType
    <3>2. Len(idle) > 0
      BY <1>t, <1>c, <2>1, EmptySeq
    <3>3. Len(idle) \in DOMAIN idle
      BY <1>t, <1>c, <3>2, LenProperties
    <3> QED BY <3>1, <3>2, <3>3 DEF Last, IdleSet
  <2>3. \A b \in Lend!Lent : holder[b] # c
    BY <1>p, <2>1, <2>2 DEF Places, Lend!Lent
  <2>4. Cardinality(Lend!Lent) < MaxConnections
    <3>1. /\ Cardinality(Lend!Lent) \in Nat /\ Cardinality(Lend!Lent) <= Cardinality(active)
      BY <1>l, <2>1
    <3> QED BY <1>c, <2>2, <3>1, SMTT(30)
  <2> HIDE DEF c
  <2>5. Lend!Lendable(c, Lend!Lent)
    BY <1>n, <2>1, <2>3, <2>4, SameCardinality DEF Lend!Lendable
  <2>6. i \notin Lend!Lent
    BY <2>1 DEF Lend!Lent
  <2>7. Lend!BorrowNow(i, c)
    BY <2>1, <2>5, <2>6 DEF Lend!BorrowNow
  <2> QED BY <2>2, <2>7 DEF Lend!Next
<1>2. ASSUME NEW i \in Items, AcquireQueued(i) PROVE Lend!Next
  <2>1. Lend!Ask(i)
    BY <1>2 DEF AcquireQueued, CanAsk, Queued, Lend!Ask, Lend!Lent, Lend!IsWaiting
  <2> QED BY <2>1 DEF Lend!Next
<1>3. ASSUME NEW i \in Items, ReleaseUsable(i) PROVE Lend!Next
  <2> DEFINE c == holder[i]
             h == [holder EXCEPT ![i] = NoConn]
  <2>1. /\ ended = FALSE /\ ended' = ended /\ c \in active /\ c # NoConn
        /\ HandleAvailable(c, active \ {c}, h, uses)
    BY <1>3, <1>t, ConnIsSome DEF ReleaseUsable
  <2>2. i \in Lend!Lent
    BY <2>1 DEF Lend!Lent
  <2>3. CASE queue # <<>>
    <3>1. queue' = Tail(queue) /\ holder' = [h EXCEPT ![Head(queue)] = c]
      BY <2>1, <2>3 DEF HandleAvailable
    <3>2. \A b \in Lend!Lent \ {i} : holder[b] # c
      BY <1>p, <2>1 DEF Places, Lend!Lent
    <3>3. Cardinality(Lend!Lent \ {i}) < MaxConnections
      <4>1. /\ Cardinality(Lend!Lent) \in Nat /\ Cardinality(Lend!Lent) <= Cardinality(active)
            /\ Cardinality(Lend!Lent \ {i}) = Cardinality(Lend!Lent) - 1
        BY <1>l, <2>1, <2>2, FS_RemoveElement
      <4> QED BY <1>c, <4>1, SMTT(30)
    <3>4. Lend!Lendable(holder[i], Lend!Lent \ {i})
      BY <1>n, <2>1, <3>2, <3>3, SameCardinality DEF Lend!Lendable
    <3>5. Lend!PassOn(i)
      BY <2>1, <2>2, <2>3, <3>1, <3>4 DEF Lend!PassOn
    <3> QED BY <3>5 DEF Lend!Next
  <2>4. CASE queue = <<>>
    <3>1. queue' = queue /\ holder' = h
      BY <2>1, <2>4 DEF HandleAvailable
    <3>2. Lend!GiveBack(i)
      BY <2>1, <2>2, <3>1 DEF Lend!GiveBack
    <3> QED BY <3>2 DEF Lend!Next
  <2> QED BY <2>3, <2>4
<1>4. ASSUME NEW i \in Items, Discard(i) PROVE Lend!Next
  <2>1. holder[i] # NoConn
    BY <1>4, <1>t, ConnIsSome DEF Discard
  <2>2. Lend!GiveBack(i)
    BY <1>4, <2>1 DEF Discard, Lend!GiveBack, Lend!Lent
  <2> QED BY <2>2 DEF Lend!Next
<1>5. ASSUME NEW i \in Items, GiveBackAfterEnd(i) PROVE Lend!Next
  <2>1. Lend!GiveBack(i)
    BY <1>5 DEF GiveBackAfterEnd, Lend!GiveBack, Lend!Lent
  <2> QED BY <2>1 DEF Lend!Next
<1>6. ASSUME NEW c \in Conns, ConnectOk(c) PROVE Lend!Next \/ UNCHANGED Lend!lendVars
  <2>1. /\ ended = FALSE /\ ended' = ended /\ c \in connecting
        /\ HandleAvailable(c, active, holder, [uses EXCEPT ![c] = 0])
    BY <1>6, <1>t DEF ConnectOk
  <2>2. CASE queue # <<>>
    <3>1. queue' = Tail(queue) /\ holder' = [holder EXCEPT ![Head(queue)] = c]
      BY <2>1, <2>2 DEF HandleAvailable
    <3>2. \A b \in Lend!Lent : holder[b] # c
      BY <1>p, <2>1 DEF Places, Lend!Lent
    <3>3. Cardinality(Lend!Lent) < MaxConnections
      <4>1. /\ Cardinality(Lend!Lent) \in Nat /\ Cardinality(Lend!Lent) <= Cardinality(active)
        BY <1>l, <2>1
      <4>2. Cardinality(connecting) # 0
        BY <1>t, <2>1, FS_EmptySet
      <4> QED BY <1>c, <4>1, <4>2, SMTT(30)
    <3>4. Lend!Lendable(c, Lend!Lent)
      BY <1>n, <2>1, <3>2, <3>3, SameCardinality DEF Lend!Lendable
    <3>5. Lend!LendToFirst(c)
      BY <2>1, <2>2, <3>1, <3>4 DEF Lend!LendToFirst
    <3> QED BY <3>5 DEF Lend!Next
  <2>3. CASE queue = <<>>
    <3>1. queue' = queue /\ holder' = holder
      BY <2>1, <2>3 DEF HandleAvailable
    <3> QED BY <1>v, <2>1, <3>1
  <2> QED BY <2>2, <2>3
<1>7. ASSUME NEW k \in DOMAIN queue, queue' = WithoutAt(queue, k),
             holder' = holder, ended' = ended
      PROVE  Lend!Next
  <2>1. Lend!TurnAway(k)
    BY <1>7 DEF WithoutAt, Lend!TurnAway
  <2> QED BY <2>1 DEF Lend!Next
<1>8. ASSUME queue # <<>> PROVE 1 \in DOMAIN queue /\ Tail(queue) = WithoutAt(queue, 1)
  <2>1. Tail(queue) = SubSeq(queue, 2, Len(queue)) /\ Tail(queue) \in Seq(Items)
    BY <1>t, <1>8, TailIsSubSeq, HeadTailProperties
  <2>2. SubSeq(queue, 1, 0) = <<>>
    BY SubSeqEmpty
  <2>3. <<>> \o Tail(queue) = Tail(queue)
    BY <2>1, ConcatEmptySeq
  <2>4. 1 - 1 = 0 /\ 1 + 1 = 2
    OBVIOUS
  <2>5. Tail(queue) = WithoutAt(queue, 1)
    BY <2>1, <2>2, <2>3, <2>4, Zenon DEF WithoutAt
  <2>6. 1 \in DOMAIN queue
    BY <1>t, <1>8, EmptySeq, LenProperties
  <2> QED BY <2>5, <2>6
<1>9. ASSUME NEW c \in Conns, ConnectFailed(c) PROVE Lend!Next \/ UNCHANGED Lend!lendVars
  <2>1. /\ queue' = queue \/ (queue # <<>> /\ queue' = Tail(queue))
        /\ holder' = holder /\ ended' = ended
    BY <1>9 DEF ConnectFailed
  <2> QED BY <1>v, <1>7, <1>8, <2>1
<1>10. ASSUME NEW k \in DOMAIN queue, ItemTimeout(k) PROVE Lend!Next
  BY <1>7, <1>10 DEF ItemTimeout
<1>11. ASSUME End PROVE Lend!Next
  <2>1. Lend!Close
    BY <1>11 DEF End, Lend!Close
  <2> QED BY <2>1 DEF Lend!Next
<1>12. CASE \E i \in Items : AcquireIdle(i) \/ AcquireQueued(i) \/ GiveBack(i)
  BY <1>12, <1>1, <1>2, <1>3, <1>4, <1>5 DEF GiveBack, ReleaseSpent, Dispose
<1>13. CASE \E c \in Conns : ConnectSettles(c)
  BY <1>13, <1>6, <1>9, <1>v DEF ConnectSettles, ConnectOkAfterEnd, ConnectRetry
<1>14. CASE \E c \in Conns : IdleTimeout(c) \/ Immediate(c) \/ ClientError(c) \/ Closed(c)
  BY <1>14, <1>v DEF IdleTimeout, Immediate, ClientError, Closed
<1>15. CASE RetryTimer \/ RateTimer \/ EndSettles \/ CloseIdle
  BY <1>15, <1>v DEF RetryTimer, RateTimer, EndSettles, CloseIdle
<1>16. CASE UNCHANGED vars
  BY <1>16, <1>v DEF vars
<1> QED BY <1>10, <1>11, <1>12, <1>13, <1>14, <1>15, <1>16 DEF Next

(* Every behaviour of the pool is one of Lending: connections go to borrowers in *)
(* arrival order, one borrower at a time, at most maxConnections, none after end(). *)
THEOREM LendingCorrect == Spec => LendingSpec
BY LendingInit, LendingStep, BoundedCorrect, WellPlacedCorrect, PTL
   DEF Spec, LendingSpec, Lend!Spec
=============================================================================
