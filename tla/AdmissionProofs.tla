--------------------------- MODULE AdmissionProofs ---------------------------
(***************************************************************************)
(* Proofs about the gates of the agent, for any clients, nonces, capacity, *)
(* refill, size of the store and values of the clock skew: RateBound and   *)
(* ReplayCaught hold of Spec.                                              *)
(*                                                                         *)
(* RateBound is inductive once what a client was served is added to what   *)
(* the bucket holds and still has to gain (Account); ReplayCaught once a   *)
(* nonce that passed is known to be in the store with a late enough        *)
(* expiry, or to be out of its window (Remembered).                        *)
(***************************************************************************)
EXTENDS Admission, TLAPS, FiniteSetTheorems, WellFoundedInduction

\* The units of the full buckets the launches have made.
Filled == Capacity * launches

\* What is served, held and still to be gained never exceeds the full buckets
\* and the refill of the ticks that passed.
Account ==
  \A i \in Clients :
    served[i] * Unit + bucket[i].tokens + Gained(i) <= Filled + Refill * elapsed

\* The store suits every skew a request may use, and has lost nothing early.
Sound == steady /\ \A k \in loaded : 2 * k <= ttl

Past(n) == 2 * (now - stamp[n]) >= ttl

Remembered ==
  Sound => \A n \in Nonces : passes[n] >= 1 =>
             \/ Past(n)
             \/ \E e \in seen : e.nonce = n /\ 2 * (e.expiry - stamp[n]) >= ttl

Buckets == [tokens : 0..Capacity, last : Times]
Seen    == [nonce : Nonces, expiry : Nat, rank : Nat]

IInv == TypeOK /\ Account /\ Remembered /\ ReplayCaught

-----------------------------------------------------------------------------
\* The instants of the clock are numbers.
LEMMA TimesNat == Times \subseteq Nat /\ \A t \in Times : t \in Int
BY AdmissionAssumption DEF Times

\* Gained(i) is a natural number, and no bucket gains while time stands still.
LEMMA GainedNat ==
  ASSUME TypeOK, NEW i \in Clients
  PROVE Gained(i) \in Nat
<1>1. bucket[i].last \in Nat /\ now \in Nat
  BY TimesNat DEF TypeOK
<1>2. CASE now > bucket[i].last
  <2>1. now - bucket[i].last \in Nat
    BY <1>1, <1>2
  <2> QED
    BY <1>2, <2>1, AdmissionAssumption DEF Gained
<1>3. CASE ~(now > bucket[i].last)
  BY <1>3 DEF Gained
<1> QED
  BY <1>2, <1>3

\* What a bucket holds and what a client was served are natural numbers.
LEMMA BucketNat ==
  ASSUME TypeOK, NEW i \in Clients
  PROVE bucket[i].last \in Nat /\ bucket[i].tokens \in Nat /\ served[i] \in Nat
<1>1. bucket[i] \in Buckets /\ served[i] \in Nat
  BY DEF TypeOK, Buckets
<1>2. bucket[i].last \in Times /\ bucket[i].tokens \in 0..Capacity
  BY <1>1 DEF Buckets
<1>3. \A x \in 0..Capacity : x \in Nat
  BY AdmissionAssumption
<1> QED
  BY <1>1, <1>2, <1>3, TimesNat

\* A launch fills a bucket.
LEMMA FilledNat ==
  ASSUME TypeOK
  PROVE Filled \in Nat /\ Capacity * (launches + 1) = Filled + Capacity
<1>1. launches \in Nat /\ Capacity \in Nat
  BY AdmissionAssumption DEF TypeOK
<1> QED
  BY <1>1 DEF Filled

\* The invariant holds when the agent is launched: nothing is served or stored.
LEMMA InitIInv == Init => IInv
<1> SUFFICES ASSUME Init PROVE IInv
  OBVIOUS
<1>1. 0 \in Times /\ skew \in Nat
  BY AdmissionAssumption DEF Init, Times
<1>2. bucket \in [Clients -> Buckets]
  BY <1>1, AdmissionAssumption DEF Init, Buckets
<1>3. TypeOK
  BY <1>1, <1>2, AdmissionAssumption DEF Init, TypeOK, Buckets
<1>4. Account
  BY AdmissionAssumption DEF Init, Account, Gained, Filled
<1>5. Remembered /\ ReplayCaught
  BY DEF Init, Remembered, ReplayCaught
<1> QED
  BY <1>3, <1>4, <1>5 DEF IInv

-----------------------------------------------------------------------------
\* What consume() does to the account of client i.
LEMMA ConsumeStep ==
  ASSUME IInv, NEW i \in Clients, NEW ok \in BOOLEAN, Consume(i, ok),
         UNCHANGED <<now, elapsed, launches>>
  PROVE /\ bucket' \in [Clients -> Buckets]
        /\ served' \in [Clients -> Nat]
        /\ Account'
<1> USE AdmissionAssumption
<1> DEFINE r == Refilled(i)
           t == IF ok THEN r - Unit ELSE r
<1>1. bucket[i].tokens \in 0..Capacity /\ now \in Times /\ served[i] \in Nat
  BY DEF IInv, TypeOK
<1>2. Gained(i) \in Nat
  BY GainedNat DEF IInv
<1>3. r \in 0..Capacity /\ r <= bucket[i].tokens + Gained(i)
  BY <1>1, <1>2 DEF Refilled
<1>4. ok <=> r >= Unit
  BY DEF Consume
<1>5. t \in 0..Capacity
  BY <1>3, <1>4
<1>6. /\ bucket' = [bucket EXCEPT ![i] = [tokens |-> t, last |-> now]]
      /\ served' = [served EXCEPT ![i] = IF ok THEN @ + 1 ELSE @]
  BY DEF Consume
<1> HIDE DEF r, t
<1>7. [tokens |-> t, last |-> now] \in Buckets
  BY <1>1, <1>5 DEF Buckets
<1>8. bucket \in [Clients -> Buckets] /\ served \in [Clients -> Nat]
  BY DEF IInv, TypeOK, Buckets
<1>9. bucket' \in [Clients -> Buckets] /\ served' \in [Clients -> Nat]
  BY <1>6, <1>7, <1>8
<1>10. Account'
  <2> SUFFICES ASSUME NEW j \in Clients
               PROVE served'[j] * Unit + bucket'[j].tokens + Gained(j)' <= Filled' + Refill * elapsed'
    BY DEF Account
  <2>0. Filled \in Nat /\ Filled' = Filled
    BY FilledNat DEF IInv, Filled
  <2>1. served[j] * Unit + bucket[j].tokens + Gained(j) <= Filled + Refill * elapsed
    BY DEF IInv, Account
  <2>2. CASE j # i
    <3>1. served'[j] = served[j] /\ bucket'[j] = bucket[j]
      BY <2>2, <1>6, <1>8
    <3>2. Gained(j)' = Gained(j)
      BY <3>1 DEF Gained
    <3> QED
      BY <2>0, <2>1, <3>1, <3>2
  <2>3. CASE j = i
    <3>1. bucket'[i].tokens = t /\ bucket'[i].last = now
      BY <1>6, <1>8
    <3>2. Gained(i)' = 0
      BY <3>1, <1>1, TimesNat DEF Gained
    <3>3. served'[i] * Unit + t = served[i] * Unit + r
      <4>1. CASE ok
        <5>1. served'[i] = served[i] + 1 /\ t = r - Unit
          BY <4>1, <1>6, <1>8 DEF t
        <5>2. (served[i] + 1) * Unit = served[i] * Unit + Unit
          BY <1>1
        <5>3. served[i] * Unit \in Int /\ r \in Int
          BY <1>1, <1>3
        <5> QED
          BY <5>1, <5>2, <5>3
      <4>2. CASE ~ok
        BY <4>2, <1>6, <1>8 DEF t
      <4> QED
        BY <4>1, <4>2
    <3>4. served[i] * Unit \in Int /\ Refill * elapsed \in Int /\ served'[i] * Unit \in Int
      BY <1>1, <1>9, TimesNat DEF IInv, TypeOK
    <3> QED
      BY <2>0, <2>1, <2>3, <3>1, <3>2, <3>3, <3>4, <1>1, <1>2, <1>3, <1>5
  <2> QED
    BY <2>2, <2>3
<1> QED
  BY <1>9, <1>10

-----------------------------------------------------------------------------
\* What the nonce store does to the memory of the nonces: a request that
\* passes finds no live entry, so an earlier pass is out of its window.
LEMMA NonceStep ==
  ASSUME IInv, NEW n \in Nonces, NEW genuine \in BOOLEAN, NEW k \in loaded,
         genuine => InWindow(stamp[n], k),
         ~\E e \in Live : e.nonce = n,
         Store(n), turn \in Nat,
         passes' = IF genuine THEN [passes EXCEPT ![n] = @ + 1] ELSE passes,
         UNCHANGED <<now, ttl, stamp, loaded>>
  PROVE Remembered' /\ ReplayCaught'
<1> DEFINE new == [nonce |-> n, expiry |-> now + ttl, rank |-> turn]
<1>1. now \in Nat /\ ttl \in Nat /\ k \in Nat /\ passes \in [Nonces -> Nat]
  BY TimesNat, AdmissionAssumption DEF IInv, TypeOK
<1>2. \A m \in Nonces : stamp[m] \in Nat
  BY TimesNat DEF IInv, TypeOK
<1>3. seen \subseteq Seen
  BY DEF IInv, TypeOK, Seen
<1>4. SUFFICES ASSUME Sound'
               PROVE \A m \in Nonces :
                       /\ passes'[m] >= 1 =>
                            \/ Past(m)
                            \/ \E e \in seen' : e.nonce = m /\ 2 * (e.expiry - stamp[m]) >= ttl
                       /\ passes'[m] <= 1 \/ Past(m)
  <2>1. \A m \in Nonces : Past(m)' = Past(m)
    BY DEF Past
  <2> QED
    BY <1>4, <2>1 DEF Remembered, ReplayCaught, Sound, Past
<1>5. Sound /\ steady /\ seen' = Live \cup {new}
  BY <1>4 DEF Sound, Store
<1>6. 2 * k <= ttl
  BY <1>5 DEF Sound
<1>7. ASSUME NEW m \in Nonces, passes[m] >= 1
      PROVE Past(m) \/ \E e \in Live : e.nonce = m /\ 2 * (e.expiry - stamp[m]) >= ttl
  <2>1. CASE Past(m)
    BY <2>1
  <2>2. CASE \E e \in seen : e.nonce = m /\ 2 * (e.expiry - stamp[m]) >= ttl
    <3>1. PICK e \in seen : e.nonce = m /\ 2 * (e.expiry - stamp[m]) >= ttl
      BY <2>2
    <3>2. e.expiry \in Nat
      BY <3>1, <1>3 DEF Seen
    <3>3. CASE e.expiry > now
      BY <3>1, <3>3 DEF Live
    <3>4. CASE ~(e.expiry > now)
      BY <3>1, <3>2, <3>4, <1>1, <1>2 DEF Past
    <3> QED
      BY <3>3, <3>4
  <2> QED
    BY <2>1, <2>2, <1>5, <1>7 DEF IInv, Remembered
<1>8. \A m \in Nonces : passes[m] <= 1 \/ Past(m)
  BY <1>5 DEF IInv, ReplayCaught, Sound, Past
<1>9. ASSUME NEW m \in Nonces, m # n \/ ~genuine
      PROVE /\ passes'[m] >= 1 =>
                 \/ Past(m)
                 \/ \E e \in seen' : e.nonce = m /\ 2 * (e.expiry - stamp[m]) >= ttl
            /\ passes'[m] <= 1 \/ Past(m)
  <2>1. passes'[m] = passes[m]
    BY <1>1, <1>9
  <2> QED
    BY <2>1, <1>5, <1>7, <1>8
<1>10. ASSUME genuine
       PROVE /\ \E e \in seen' : e.nonce = n /\ 2 * (e.expiry - stamp[n]) >= ttl
             /\ passes'[n] <= 1 \/ Past(n)
  <2>1. stamp[n] - now <= k /\ stamp[n] \in Nat
    BY <1>2, <1>10 DEF InWindow
  <2>2. 2 * (now + ttl - stamp[n]) >= ttl
    BY <2>1, <1>1, <1>6
  <2>3. new.nonce = n /\ new.expiry = now + ttl /\ new \in seen'
    BY <1>5
  <2>4. passes'[n] = passes[n] + 1 /\ passes[n] \in Nat
    BY <1>1, <1>10
  <2>5. passes[n] >= 1 => Past(n)
    BY <1>7
  <2>6. 2 * (new.expiry - stamp[n]) >= ttl
    <3> DEFINE x == new.expiry
    <3>1. x = now + ttl
      BY <2>3
    <3> HIDE DEF x, new
    <3>2. 2 * (x - stamp[n]) >= ttl
      BY <2>1, <2>2, <3>1, <1>1
    <3> QED
      BY <3>2 DEF x
  <2> HIDE DEF new
  <2>7. passes'[n] <= 1 \/ Past(n)
    BY <2>4, <2>5
  <2> QED
    BY <2>3, <2>6, <2>7
<1> QED
  BY <1>9, <1>10

\* A request that stores nothing forgets expired entries at most.
LEMMA PruneStep ==
  ASSUME IInv, seen' = seen \/ seen' = Live,
         UNCHANGED <<now, ttl, stamp, loaded, passes, steady>>
  PROVE Remembered' /\ ReplayCaught'
<1>1. now \in Nat /\ ttl \in Nat
  BY TimesNat DEF IInv, TypeOK
<1>2. \A m \in Nonces : stamp[m] \in Nat
  BY TimesNat DEF IInv, TypeOK
<1>3. seen \subseteq Seen
  BY DEF IInv, TypeOK, Seen
<1>4. ReplayCaught'
  BY DEF IInv, ReplayCaught
<1>5. ASSUME Sound', NEW m \in Nonces, passes'[m] >= 1
      PROVE Past(m)' \/ \E e \in seen' : e.nonce = m /\ 2 * (e.expiry - stamp[m]) >= ttl
  <2>1. Sound /\ passes[m] >= 1
    BY <1>5 DEF Sound
  <2>2. CASE Past(m)
    BY <2>2 DEF Past
  <2>3. CASE \E e \in seen : e.nonce = m /\ 2 * (e.expiry - stamp[m]) >= ttl
    <3>1. PICK e \in seen : e.nonce = m /\ 2 * (e.expiry - stamp[m]) >= ttl
      BY <2>3
    <3>2. e.expiry \in Nat
      BY <3>1, <1>3 DEF Seen
    <3>3. CASE e.expiry > now
      BY <3>1, <3>3 DEF Live
    <3>4. CASE ~(e.expiry > now)
      BY <3>1, <3>2, <3>4, <1>1, <1>2 DEF Past
    <3> QED
      BY <3>3, <3>4
  <2> QED
    BY <2>1, <2>2, <2>3 DEF IInv, Remembered
<1> QED
  BY <1>4, <1>5 DEF Remembered

\* A signed request keeps the invariant: the limiter first, then the window
\* and the nonce store.
LEMMA RequestStep ==
  ASSUME IInv, NEW i \in Clients, NEW n \in Nonces, NEW genuine \in BOOLEAN, NEW k \in loaded,
         Request(i, n, genuine, k)
  PROVE IInv'
<1>1. PICK ok \in BOOLEAN :
        /\ Consume(i, ok)
        /\ turn' = IF ok THEN turn + 1 ELSE turn
        /\ IF ok /\ (genuine => InWindow(stamp[n], k))
           THEN IF \E e \in Live : e.nonce = n
                THEN seen' = Live /\ UNCHANGED <<passes, steady>>
                ELSE /\ Store(n)
                     /\ passes' = IF genuine THEN [passes EXCEPT ![n] = @ + 1] ELSE passes
           ELSE UNCHANGED <<seen, passes, steady>>
        /\ UNCHANGED <<now, skew, loaded, ttl, stamp, elapsed, launches>>
  BY Zenon DEF Request
<1>2. /\ bucket' \in [Clients -> Buckets] /\ served' \in [Clients -> Nat]
      /\ Account'
  BY <1>1, ConsumeStep
<1>3. turn \in Nat /\ turn' \in Nat /\ ttl \in Nat /\ now \in Nat /\ steady \in BOOLEAN
  BY <1>1, TimesNat DEF IInv, TypeOK
<1>4. seen \subseteq Seen /\ Live \subseteq seen /\ passes \in [Nonces -> Nat]
  BY DEF IInv, TypeOK, Seen, Live
<1>5. /\ seen' \subseteq Seen /\ passes' \in [Nonces -> Nat] /\ steady' \in BOOLEAN
      /\ Remembered' /\ ReplayCaught'
  <2>1. CASE seen' = seen \/ seen' = Live
    <3>1. CASE UNCHANGED <<passes, steady>>
      <4>1. Remembered' /\ ReplayCaught'
        BY <1>1, <2>1, <3>1, PruneStep
      <4> QED
        BY <2>1, <3>1, <4>1, <1>3, <1>4
    <3>2. CASE ~UNCHANGED <<passes, steady>>
      <4>1. /\ genuine => InWindow(stamp[n], k)
            /\ ~\E e \in Live : e.nonce = n
            /\ Store(n)
            /\ passes' = IF genuine THEN [passes EXCEPT ![n] = @ + 1] ELSE passes
        BY <1>1, <3>2
      <4>2. Remembered' /\ ReplayCaught'
        BY <1>1, <1>3, <4>1, NonceStep
      <4>3. passes' \in [Nonces -> Nat]
        BY <1>4, <4>1
      <4>4. steady' \in BOOLEAN
        BY <4>1 DEF Store
      <4> QED
        BY <2>1, <4>2, <4>3, <4>4, <1>4
    <3> QED
      BY <3>1, <3>2
  <2>2. CASE ~(seen' = seen \/ seen' = Live)
    <3>1. /\ genuine => InWindow(stamp[n], k)
          /\ ~\E e \in Live : e.nonce = n
          /\ Store(n)
          /\ passes' = IF genuine THEN [passes EXCEPT ![n] = @ + 1] ELSE passes
      BY <1>1, <2>2
    <3>2. Remembered' /\ ReplayCaught'
      BY <1>1, <1>3, <3>1, NonceStep
    <3>3. passes' \in [Nonces -> Nat]
      BY <1>4, <3>1
    <3>4. seen' \subseteq Live \cup {[nonce |-> n, expiry |-> now + ttl, rank |-> turn]}
      BY <3>1 DEF Store
    <3>5. [nonce |-> n, expiry |-> now + ttl, rank |-> turn] \in Seen
      BY <1>3 DEF Seen
    <3>6. steady' \in BOOLEAN
      BY <3>1 DEF Store
    <3> QED
      BY <3>2, <3>3, <3>4, <3>5, <3>6, <1>4
  <2> QED
    BY <2>1, <2>2
<1>6. TypeOK'
  BY <1>1, <1>2, <1>3, <1>5 DEF IInv, TypeOK, Buckets, Seen
<1> QED
  BY <1>2, <1>5, <1>6 DEF IInv

\* A request that only meets the limiter keeps the invariant.
LEMMA PlainRequestStep ==
  ASSUME IInv, NEW i \in Clients, PlainRequest(i)
  PROVE IInv'
<1>1. PICK ok \in BOOLEAN :
        /\ Consume(i, ok)
        /\ UNCHANGED <<now, skew, loaded, ttl, seen, turn, stamp, passes, elapsed, launches, steady>>
  BY Zenon DEF PlainRequest
<1>2. /\ bucket' \in [Clients -> Buckets] /\ served' \in [Clients -> Nat]
      /\ Account'
  BY <1>1, ConsumeStep
<1>3. Remembered' /\ ReplayCaught'
  BY <1>1, PruneStep
<1>4. TypeOK'
  BY <1>1, <1>2 DEF IInv, TypeOK, Buckets
<1> QED
  BY <1>2, <1>3, <1>4 DEF IInv

-----------------------------------------------------------------------------
\* One tick adds Refill to what a bucket has to gain, or nothing.
LEMMA TickStep ==
  ASSUME IInv, Tick
  PROVE IInv'
<1> USE AdmissionAssumption
<1>1. now \in Nat /\ elapsed \in Nat /\ ttl \in Nat /\ now' = now + 1 /\ elapsed' = elapsed + 1
  BY TimesNat DEF IInv, TypeOK, Tick
<1>2. UNCHANGED <<skew, loaded, ttl, bucket, seen, passes, served, turn, stamp, launches, steady>>
  BY DEF Tick, gates
<1>3. now' \in Times /\ elapsed' \in Times
  BY <1>1 DEF Tick, Times
<1>4. TypeOK'
  BY <1>2, <1>3 DEF IInv, TypeOK
<1>5. Account'
  <2> SUFFICES ASSUME NEW i \in Clients
               PROVE served'[i] * Unit + bucket'[i].tokens + Gained(i)' <= Filled' + Refill * elapsed'
    BY DEF Account
  <2>0. Filled \in Nat /\ Filled' = Filled
    BY <1>2, FilledNat DEF IInv, Filled
  <2>1. served[i] * Unit + bucket[i].tokens + Gained(i) <= Filled + Refill * elapsed
    BY DEF IInv, Account
  <2>2. Refill * (elapsed + 1) = Refill * elapsed + Refill
    BY <1>1
  <2>3. bucket[i].last \in Nat /\ bucket[i].tokens \in Nat /\ served[i] \in Nat
    BY BucketNat DEF IInv
  <2>4. Gained(i)' <= Gained(i) + Refill /\ Gained(i)' \in Nat
    <3>1. CASE now > bucket[i].last
      <4>1. (now + 1 - bucket[i].last) * Refill = (now - bucket[i].last) * Refill + Refill
        BY <1>1, <2>3
      <4>2. Gained(i) = (now - bucket[i].last) * Refill
        BY <3>1 DEF Gained
      <4>3. Gained(i)' = (now + 1 - bucket[i].last) * Refill
        BY <3>1, <1>1, <1>2, <2>3 DEF Gained
      <4>4. Gained(i) \in Nat
        BY GainedNat DEF IInv
      <4> QED
        BY <4>1, <4>2, <4>3, <4>4
    <3>2. CASE now = bucket[i].last
      <4>1. Gained(i) = 0 /\ Gained(i)' = 1 * Refill
        BY <3>2, <1>1, <1>2, <2>3 DEF Gained
      <4> QED
        BY <4>1
    <3>3. CASE now < bucket[i].last
      BY <3>3, <1>1, <1>2, <2>3 DEF Gained
    <3> QED
      BY <3>1, <3>2, <3>3, <1>1, <2>3
  <2>5. Gained(i) \in Nat
    BY GainedNat DEF IInv
  <2>6. served[i] * Unit \in Int /\ Refill * elapsed \in Int
    BY <1>1, <2>3
  <2>7. served'[i] = served[i] /\ bucket'[i] = bucket[i]
    BY <1>2
  <2> QED
    BY <2>0, <2>1, <2>2, <2>3, <2>4, <2>5, <2>6, <2>7, <1>1
<1>6. \A n \in Nonces : stamp[n] \in Nat /\ (Past(n) => Past(n)')
  <2>1. \A n \in Nonces : stamp[n] \in Nat
    BY TimesNat DEF IInv, TypeOK
  <2> QED
    BY <1>1, <1>2, <2>1 DEF Past
<1>7. Remembered'
  BY <1>2, <1>6 DEF IInv, Remembered, Sound
<1>8. ReplayCaught'
  BY <1>2, <1>6 DEF IInv, ReplayCaught, Past
<1> QED
  BY <1>4, <1>5, <1>7, <1>8 DEF IInv

\* A clock that is set back takes from what a bucket has to gain, and a skew
\* that changes takes nothing from the store.
LEMMA ClockStep ==
  ASSUME IInv, SetBack \/ (\E k \in Skews : SetSkew(k)) \/ UNCHANGED vars
  PROVE IInv'
<1> USE AdmissionAssumption
<1>1. UNCHANGED <<bucket, seen, passes, served, turn, stamp, elapsed, launches, ttl>>
  BY DEF SetBack, SetSkew, vars, gates
<1>2. now \in Times /\ now \in Nat
  BY TimesNat DEF IInv, TypeOK
<1>3. now' \in Times /\ now' <= now
  BY <1>2 DEF SetBack, SetSkew, vars, Times
<1>4. loaded \subseteq loaded' /\ loaded' \in SUBSET Skews /\ skew' \in Skews
  BY DEF SetBack, SetSkew, vars, IInv, TypeOK
<1>5. (steady' => steady /\ now' = now) /\ steady' \in BOOLEAN
  <2>1. steady \in BOOLEAN
    BY DEF IInv, TypeOK
  <2>2. CASE SetBack
    BY <2>2 DEF SetBack
  <2>3. CASE (\E k \in Skews : SetSkew(k)) \/ UNCHANGED vars
    BY <2>1, <2>3 DEF SetSkew, vars
  <2> QED
    BY <2>2, <2>3
<1>6. TypeOK'
  BY <1>1, <1>3, <1>4, <1>5 DEF IInv, TypeOK
<1>7. Account'
  <2> SUFFICES ASSUME NEW i \in Clients
               PROVE served'[i] * Unit + bucket'[i].tokens + Gained(i)' <= Filled' + Refill * elapsed'
    BY DEF Account
  <2>0. Filled \in Nat /\ Filled' = Filled
    BY <1>1, FilledNat DEF IInv, Filled
  <2>1. served[i] * Unit + bucket[i].tokens + Gained(i) <= Filled + Refill * elapsed
    BY DEF IInv, Account
  <2>2. bucket[i].last \in Nat /\ bucket[i].tokens \in Nat /\ served[i] \in Nat /\ elapsed \in Nat
    BY BucketNat, TimesNat DEF IInv, TypeOK
  <2>3. Gained(i) \in Nat
    BY GainedNat DEF IInv
  <2>4. Gained(i)' \in Nat /\ Gained(i)' <= Gained(i)
    <3>1. CASE now' > bucket[i].last
      <4> DEFINE a == now' - bucket[i].last
                 b == now - bucket[i].last
      <4>1. a \in Nat /\ b \in Nat /\ a <= b
        BY <3>1, <1>2, <1>3, <2>2, TimesNat
      <4>2. Gained(i)' = a * Refill /\ Gained(i) = b * Refill
        <5>1. bucket'[i].last = bucket[i].last
          BY <1>1
        <5>2. now' \in Nat
          BY <1>3, TimesNat
        <5>3. now > bucket[i].last
          BY <3>1, <1>2, <1>3, <2>2, <5>2
        <5> QED
          BY <3>1, <5>1, <5>3 DEF Gained
      <4> HIDE DEF a, b
      <4>3. \E d \in Nat : b = a + d
        <5>1. b - a \in Nat /\ b = a + (b - a)
          BY <4>1
        <5> QED
          BY <5>1
      <4>4. PICK d \in Nat : b = a + d
        BY <4>3
      <4>5. (a + d) * Refill = a * Refill + d * Refill
        BY <4>1
      <4>6. a * Refill \in Nat /\ d * Refill \in Nat
        BY <4>1
      <4> QED
        BY <4>2, <4>4, <4>5, <4>6
    <3>2. CASE ~(now' > bucket[i].last)
      BY <3>2, <1>1, <2>3 DEF Gained
    <3> QED
      BY <3>1, <3>2
  <2>5. served[i] * Unit \in Int /\ Refill * elapsed \in Int
    BY <2>2
  <2>6. served'[i] = served[i] /\ bucket'[i] = bucket[i] /\ elapsed' = elapsed
    BY <1>1
  <2> QED
    BY <2>0, <2>1, <2>2, <2>3, <2>4, <2>5, <2>6
<1>8. Sound' => Sound /\ now' = now
  BY <1>1, <1>4, <1>5 DEF Sound
<1>9. Remembered'
  BY <1>1, <1>8 DEF IInv, Remembered, Past
<1>10. ReplayCaught'
  BY <1>1, <1>8 DEF IInv, ReplayCaught, Sound
<1> QED
  BY <1>6, <1>7, <1>9, <1>10 DEF IInv

-----------------------------------------------------------------------------
\* A restart fills the buckets, which the account grants it, and what the store
\* forgets is out of its window, or the run no longer steady.
LEMMA RestartStep ==
  ASSUME IInv, Restart
  PROVE IInv'
<1> USE AdmissionAssumption
<1>1. /\ launches' = launches + 1 /\ launches' \in 1..MaxLaunches
      /\ loaded' = {skew} /\ ttl' = 2 * skew /\ seen' = {}
      /\ bucket' = [i \in Clients |-> [tokens |-> Capacity, last |-> now]]
      /\ steady' = (steady /\ \A n \in Nonces : passes[n] >= 1 => now - stamp[n] >= skew)
      /\ UNCHANGED <<now, skew, stamp, passes, served, elapsed, turn>>
  BY DEF Restart, IInv, TypeOK
<1>2. now \in Times /\ now \in Nat /\ skew \in Skews /\ skew \in Nat
  BY TimesNat DEF IInv, TypeOK
<1>3. TypeOK'
  <2>1. Capacity \in 0..Capacity
    OBVIOUS
  <2>2. bucket' \in [Clients -> [tokens : 0..Capacity, last : Times]]
    BY <1>1, <1>2, <2>1
  <2>3. steady' \in BOOLEAN
    BY <1>1 DEF IInv, TypeOK
  <2> QED
    BY <1>1, <1>2, <2>2, <2>3 DEF IInv, TypeOK
<1>4. Account'
  <2> SUFFICES ASSUME NEW i \in Clients
               PROVE served'[i] * Unit + bucket'[i].tokens + Gained(i)' <= Filled' + Refill * elapsed'
    BY DEF Account
  <2>1. served[i] * Unit + bucket[i].tokens + Gained(i) <= Filled + Refill * elapsed
    BY DEF IInv, Account
  <2>2. bucket[i].tokens \in Nat /\ served[i] \in Nat /\ elapsed \in Nat /\ Gained(i) \in Nat
    BY BucketNat, GainedNat, TimesNat DEF IInv, TypeOK
  <2>3. served[i] * Unit \in Int /\ Refill * elapsed \in Int
    BY <2>2
  <2>4. bucket'[i].tokens = Capacity /\ Gained(i)' = 0
    BY <1>1, <1>2 DEF Gained
  <2>5. Filled \in Nat /\ Filled' = Filled + Capacity
    BY <1>1, FilledNat DEF IInv, Filled
  <2>6. served'[i] = served[i] /\ elapsed' = elapsed
    BY <1>1
  <2> QED
    BY <2>1, <2>2, <2>3, <2>4, <2>5, <2>6
<1>5. \A n \in Nonces : steady' /\ passes[n] >= 1 => Past(n)'
  <2> SUFFICES ASSUME NEW n \in Nonces, steady', passes[n] >= 1
               PROVE Past(n)'
    OBVIOUS
  <2>1. now - stamp[n] >= skew
    BY <1>1
  <2>2. stamp[n] \in Nat
    BY TimesNat DEF IInv, TypeOK
  <2> QED
    BY <1>1, <1>2, <2>1, <2>2 DEF Past
<1>6. Remembered'
  BY <1>1, <1>5 DEF Remembered, Sound
<1>7. ReplayCaught'
  <2>1. \A n \in Nonces : passes[n] <= 1 \/ passes[n] >= 1
    BY DEF IInv, TypeOK
  <2> QED
    BY <1>1, <1>5, <2>1 DEF ReplayCaught, Past
<1> QED
  BY <1>3, <1>4, <1>6, <1>7 DEF IInv

-----------------------------------------------------------------------------
\* No step of the agent or of the clock breaks the invariant.
LEMMA NextIInv == IInv /\ [Next]_vars => IInv'
<1> SUFFICES ASSUME IInv, [Next]_vars PROVE IInv'
  OBVIOUS
<1>1. CASE \E i \in Clients, n \in Nonces, genuine \in BOOLEAN, k \in loaded : Request(i, n, genuine, k)
  BY <1>1, RequestStep
<1>2. CASE Tick
  BY <1>2, TickStep
<1>3. CASE SetBack \/ (\E k \in Skews : SetSkew(k)) \/ UNCHANGED vars
  BY <1>3, ClockStep
<1>4. CASE \E i \in Clients : PlainRequest(i)
  BY <1>4, PlainRequestStep
<1>5. CASE Restart
  BY <1>5, RestartStep
<1> QED
  BY <1>1, <1>2, <1>3, <1>4, <1>5 DEF Next

\* The account bounds what was served: tokens and gains are never negative.
LEMMA IInvRateBound == IInv => RateBound
<1> SUFFICES ASSUME IInv, NEW i \in Clients
             PROVE served[i] * Unit <= Filled + Refill * elapsed
  BY DEF RateBound, Filled
<1>0. Filled \in Nat
  BY FilledNat DEF IInv
<1>1. bucket[i].tokens \in Nat /\ served[i] \in Nat /\ elapsed \in Nat
  BY BucketNat, TimesNat DEF IInv, TypeOK
<1>2. Gained(i) \in Nat
  BY GainedNat DEF IInv
<1>3. served[i] * Unit \in Int /\ Refill * elapsed \in Int
  BY <1>1, AdmissionAssumption
<1>4. served[i] * Unit + bucket[i].tokens + Gained(i) <= Filled + Refill * elapsed
  BY DEF IInv, Account
<1> QED
  BY <1>0, <1>1, <1>2, <1>3, <1>4, AdmissionAssumption

\* In every reachable state the inductive invariant holds.
LEMMA Invariance == Spec => []IInv
BY InitIInv, NextIInv, PTL DEF Spec

\* The clock, the buckets and the store are well typed, for any size of both.
THEOREM TypesHold == Spec => []TypeOK
<1>1. IInv => TypeOK
  BY DEF IInv
<1> QED
  BY Invariance, <1>1, PTL

\* However requests, restarts and changes of the clock and the config alternate,
\* no client exceeds its rate (consume()).
THEOREM RateIsBounded == Spec => []RateBound
<1>1. IInv => RateBound
  BY IInvRateBound
<1> QED
  BY Invariance, <1>1, PTL

\* While the store suits the skews and loses nothing early, a signed message
\* passes once within its window (checkAndStore()).
THEOREM ReplaysCaught == Spec => []ReplayCaught
<1>1. IInv => ReplayCaught
  BY DEF IInv
<1> QED
  BY Invariance, <1>1, PTL

-----------------------------------------------------------------------------
\* The order of the store, in an invariant of its own: every entry came before
\* this turn, and on a clock that runs forward none expires later than a new one.
StoreInv ==
  /\ IsFiniteSet(seen) /\ StoreInOrder
  /\ \A e \in seen : e.rank < turn
  /\ steady => \A e \in seen : e.expiry <= now + ttl

\* A store that is not empty has an entry that came first.
LEMMA OldestExists ==
  ASSUME NEW S, S \subseteq Seen, S # {}
  PROVE  Oldest(S) \in S /\ \A f \in S : Oldest(S).rank <= f.rank
<1> DEFINE Ranks == {e.rank : e \in S}
<1>1. Ranks \subseteq Nat /\ Ranks # {}
  BY DEF Seen
<1> DEFINE R == OpToRel(<, Nat)
<1> HIDE DEF Ranks
<1>2. PICK x \in Ranks : \A y \in Ranks : ~(<<y, x>> \in R)
  BY <1>1, NatLessThanWellFounded, WFMin
<1>3. \A y \in Ranks : x <= y
  <2> TAKE y \in Ranks
  <2>1. x \in Nat /\ y \in Nat /\ ~(<<y, x>> \in R)
    BY <1>1, <1>2
  <2>2. y < x => <<y, x>> \in R
    BY <2>1 DEF OpToRel
  <2> HIDE DEF R
  <2> QED
    BY <2>1, <2>2
<1>4. PICK e \in S : e.rank = x
  BY DEF Ranks
<1>5. \A f \in S : e.rank <= f.rank
  BY <1>3, <1>4 DEF Ranks
<1> QED
  BY <1>5 DEF Oldest

\* prune() keeps the order, and makes no room.
LEMMA LiveInOrder ==
  ASSUME IInv, StoreInv
  PROVE  /\ Live \subseteq seen /\ Live \subseteq Seen
         /\ IsFiniteSet(Live) /\ Cardinality(Live) \in Nat /\ Cardinality(Live) <= MaxEntries
<1>1. Live \subseteq seen
  BY DEF Live
<1>2. seen \subseteq Seen
  BY DEF IInv, TypeOK, Seen
<1>3. IsFiniteSet(seen) /\ Cardinality(seen) <= MaxEntries
  BY DEF StoreInv, StoreInOrder
<1>4. IsFiniteSet(Live) /\ Cardinality(Live) <= Cardinality(seen)
  BY <1>1, <1>3, FS_Subset
<1>5. Cardinality(Live) \in Nat /\ Cardinality(seen) \in Nat
  BY <1>3, <1>4, FS_CardinalityType
<1> QED
  BY <1>1, <1>2, <1>3, <1>4, <1>5, AdmissionAssumption

\* checkAndStore() of a nonce that is not in the store: the entry that makes
\* room came first, and the new one is the last.
LEMMA StoreOrdered ==
  ASSUME IInv, StoreInv, NEW n \in Nonces, ~\E e \in Live : e.nonce = n, Store(n),
         turn' = turn + 1, UNCHANGED <<now, ttl>>
  PROVE  StoreInv'
<1> DEFINE new  == [nonce |-> n, expiry |-> now + ttl, rank |-> turn]
           full == Cardinality(Live) >= MaxEntries
           kept == IF full THEN Live \ {Oldest(Live)} ELSE Live
<1>1. /\ Live \subseteq seen /\ Live \subseteq Seen
      /\ IsFiniteSet(Live) /\ Cardinality(Live) \in Nat /\ Cardinality(Live) <= MaxEntries
  BY LiveInOrder
<1>2. MaxEntries \in Nat \ {0} /\ turn \in Nat /\ now \in Nat /\ ttl \in Nat
  BY AdmissionAssumption, TimesNat DEF IInv, TypeOK
<1>3. seen' = kept \cup {new} /\ steady' = (steady /\ ~full)
  BY DEF Store
<1>4. kept \subseteq Live /\ IsFiniteSet(kept) /\ Cardinality(kept) \in Nat /\ Cardinality(kept) < MaxEntries
  <2>1. CASE ~full
    BY <1>1, <1>2, <2>1
  <2>2. CASE full
    <3>1. Live # {}
      BY <1>1, <1>2, <2>2, FS_EmptySet
    <3>2. Oldest(Live) \in Live
      BY <1>1, <3>1, OldestExists
    <3>3. IsFiniteSet(kept) /\ Cardinality(kept) = Cardinality(Live) - 1
      BY <1>1, <2>2, <3>2, FS_RemoveElement
    <3>4. Cardinality(kept) \in Nat
      BY <3>3, FS_CardinalityType
    <3> QED
      BY <1>1, <1>2, <2>2, <3>3, <3>4
  <2> QED
    BY <2>1, <2>2
<1>5. new \notin kept
  BY <1>4
<1>6. new.nonce = n /\ new.expiry = now + ttl /\ new.rank = turn
  OBVIOUS
<1> HIDE DEF new, kept
<1>7. IsFiniteSet(seen') /\ Cardinality(seen') <= MaxEntries
  <2>1. IsFiniteSet(kept \cup {new}) /\ Cardinality(kept \cup {new}) = Cardinality(kept) + 1
    BY <1>4, <1>5, FS_AddElement
  <2> QED
    BY <1>2, <1>3, <1>4, <2>1
<1>8. \A e \in kept : e \in seen /\ e \in Live /\ e.rank \in Nat /\ e.rank < turn /\ e.expiry \in Nat /\ e.nonce # n
  BY <1>1, <1>4 DEF StoreInv, Seen
<1>9. \A d, e \in seen' : d.nonce = e.nonce \/ d.rank = e.rank => d = e
  <2>1. \A d, e \in kept : d.nonce = e.nonce \/ d.rank = e.rank => d = e
    BY <1>8 DEF StoreInv, StoreInOrder
  <2>2. \A d \in kept : ~(d.nonce = new.nonce \/ d.rank = new.rank)
    BY <1>2, <1>6, <1>8
  <2> QED
    BY <1>3, <2>1, <2>2
<1>10. \A e \in seen' : e.rank < turn'
  BY <1>2, <1>3, <1>6, <1>8
<1>11. ASSUME steady' PROVE steady /\ \A e \in seen' : e.expiry <= now + ttl
  <2>1. steady
    BY <1>3, <1>11, Zenon
  <2>2. \A e \in kept : e.expiry <= now + ttl
    BY <1>8, <2>1 DEF StoreInv
  <2> QED
    BY <1>2, <1>3, <1>6, <2>1, <2>2
<1>12. ASSUME steady' PROVE \A d, e \in seen' : d.rank < e.rank => d.expiry <= e.expiry
  <2>1. \A d, e \in kept : d.rank < e.rank => d.expiry <= e.expiry
    BY <1>8, <1>11, <1>12 DEF StoreInv, StoreInOrder
  <2>2. \A d \in kept : d.expiry <= new.expiry /\ ~(new.rank < d.rank)
    BY <1>2, <1>3, <1>6, <1>8, <1>11, <1>12
  <2>3. ~(new.rank < new.rank)
    BY <1>2, <1>6
  <2> QED
    BY <1>3, <2>1, <2>2, <2>3
<1> QED
  BY <1>7, <1>9, <1>10, <1>11, <1>12 DEF StoreInv, StoreInOrder

\* Every other step keeps or forgets entries; a clock that is set back is not
\* steady.
LEMMA StoreForgets ==
  ASSUME IInv, StoreInv, seen' \subseteq seen, turn' \in {turn, turn + 1},
         steady' => steady /\ now <= now' /\ (ttl' = ttl \/ seen' = {}), now' \in Nat, ttl' \in Nat
  PROVE  StoreInv'
<1>1. IsFiniteSet(seen) /\ Cardinality(seen) \in Nat /\ Cardinality(seen) <= MaxEntries
  BY FS_CardinalityType DEF StoreInv, StoreInOrder
<1>2. IsFiniteSet(seen') /\ Cardinality(seen') <= Cardinality(seen) /\ Cardinality(seen') \in Nat
  BY <1>1, FS_Subset, FS_CardinalityType
<1>3. turn \in Nat /\ now \in Nat /\ ttl \in Nat /\ MaxEntries \in Nat /\ seen \subseteq Seen
  BY AdmissionAssumption, TimesNat DEF IInv, TypeOK, Seen
<1>4. Cardinality(seen') <= MaxEntries
  BY <1>1, <1>2, <1>3
<1>5. \A e \in seen' : e \in seen /\ e.rank \in Nat /\ e.expiry \in Nat
  BY <1>3 DEF Seen
<1>6. \A e \in seen' : e.rank < turn'
  BY <1>3, <1>5 DEF StoreInv
<1>7. steady' => \A e \in seen' : e.expiry <= now' + ttl'
  BY <1>3, <1>5 DEF StoreInv
<1>8. /\ \A d, e \in seen' : d.nonce = e.nonce \/ d.rank = e.rank => d = e
      /\ steady' => \A d, e \in seen' : d.rank < e.rank => d.expiry <= e.expiry
  BY <1>5 DEF StoreInv, StoreInOrder
<1> QED
  BY <1>2, <1>4, <1>6, <1>7, <1>8 DEF StoreInv, StoreInOrder

LEMMA StoreStep ==
  ASSUME IInv, StoreInv, [Next]_vars
  PROVE  StoreInv'
<1>1. now \in Nat /\ ttl \in Nat /\ turn \in Nat /\ skew \in Nat /\ Live \subseteq seen
  BY AdmissionAssumption, TimesNat DEF IInv, TypeOK, Live
<1>2. ASSUME NEW i \in Clients, NEW n \in Nonces, NEW genuine \in BOOLEAN, NEW k \in loaded,
             Request(i, n, genuine, k)
      PROVE  StoreInv'
  <2>1. PICK ok \in BOOLEAN :
          /\ turn' = IF ok THEN turn + 1 ELSE turn
          /\ IF ok /\ (genuine => InWindow(stamp[n], k))
             THEN IF \E e \in Live : e.nonce = n
                  THEN seen' = Live /\ UNCHANGED <<passes, steady>>
                  ELSE /\ Store(n)
                       /\ passes' = IF genuine THEN [passes EXCEPT ![n] = @ + 1] ELSE passes
             ELSE UNCHANGED <<seen, passes, steady>>
          /\ UNCHANGED <<now, skew, loaded, ttl, stamp, elapsed, launches>>
    BY <1>2 DEF Request
  <2>2. CASE ok /\ Store(n) /\ ~\E e \in Live : e.nonce = n
    BY <2>1, <2>2, StoreOrdered
  <2>3. CASE seen' \in {seen, Live} /\ UNCHANGED steady
    BY <1>1, <2>1, <2>3, StoreForgets
  <2> QED
    BY <2>1, <2>2, <2>3
<1>3. ASSUME NEW i \in Clients, PlainRequest(i) PROVE StoreInv'
  BY <1>1, <1>3, StoreForgets DEF PlainRequest
<1>4. CASE Tick
  BY <1>1, <1>4, StoreForgets DEF Tick, gates
<1>5. CASE SetBack
  BY <1>1, <1>5, StoreForgets DEF SetBack, gates
<1>6. CASE \E k \in Skews : SetSkew(k)
  BY <1>1, <1>6, StoreForgets DEF SetSkew, gates
<1>7. CASE Restart
  <2>1. /\ seen' = {} /\ UNCHANGED <<now, turn>> /\ ttl' = 2 * skew
        /\ steady' = (steady /\ \A n \in Nonces : passes[n] >= 1 => now - stamp[n] >= skew)
    BY <1>7 DEF Restart
  <2>2. steady' => steady
    BY <2>1, Zenon
  <2>3. ttl' \in Nat
    BY <1>1, <2>1
  <2> QED
    BY <1>1, <2>1, <2>2, <2>3, StoreForgets
<1>8. CASE UNCHANGED vars
  BY <1>1, <1>8, StoreForgets DEF vars, gates
<1> QED
  BY <1>2, <1>3, <1>4, <1>5, <1>6, <1>7, <1>8 DEF Next

\* The nonce store holds a nonce once and never more than its maximum, and while
\* the clock runs forward it evicts the entry that expires first (checkAndStore()).
THEOREM StoreIsOrdered == Spec => []StoreInOrder
<1>1. Init => StoreInv
  <2>1. IsFiniteSet({}) /\ Cardinality({}) = 0
    BY FS_EmptySet
  <2> QED
    BY <2>1, AdmissionAssumption DEF Init, StoreInv, StoreInOrder
<1>2. IInv /\ StoreInv /\ [Next]_vars => StoreInv'
  BY StoreStep
<1>3. StoreInv => StoreInOrder
  BY DEF StoreInv
<1> QED
  BY Invariance, <1>1, <1>2, <1>3, PTL DEF Spec
=============================================================================
