------------------------------ MODULE Admission ------------------------------
(***************************************************************************)
(* The two gates a signed request to the agent passes before its handler   *)
(* runs: the token bucket of its client (security/rateLimit.ts) and, after *)
(* the timestamp window, the nonce store (security/nonceStore.ts), in the  *)
(* order of handleRequest() and authenticate() in agent/server.ts.         *)
(*                                                                         *)
(* Messages may be delivered again, late and in any order, also with a     *)
(* signature that does not verify.  Both gates live in the memory of the   *)
(* agent, which may be restarted, and read Date.now(), which may be set    *)
(* back.                                                                   *)
(*                                                                         *)
(* Time is counted in ticks; a token is worth Unit units, so that a refill *)
(* of a fraction of a token per tick stays an integer.                     *)
(***************************************************************************)
EXTENDS Integers, FiniteSets

CONSTANTS
  Clients,     \* remote addresses: the keys of the limiter
  Nonces,      \* nonces, each of one signed message
  Capacity,    \* units of a full bucket
  Unit,        \* units a request costs
  Refill,      \* units gained per tick
  MaxEntries,  \* size of the nonce store
  Skews,       \* values of config.agent.clockSkewSec, in ticks
  MaxTime,     \* bound: ticks of the clock
  MaxLaunches  \* bound: launches of the agent

ASSUME AdmissionAssumption ==
  /\ Capacity \in Nat /\ Unit \in Nat \ {0} /\ Refill \in Nat
  /\ MaxEntries \in Nat \ {0}
  /\ Skews \subseteq Nat
  /\ MaxTime \in Nat /\ MaxLaunches \in Nat \ {0}

VARIABLES
  now,      \* Date.now()
  skew,     \* agent.clockSkewSec in the config file
  loaded,   \* values of it since the launch: a request uses the one on arrival
  ttl,      \* NonceStore.ttlMs
  bucket,   \* bucket[i]: tokens and lastRefill of client i
  seen,     \* NonceStore.seen: entries in the order of their rank, the turn they came
  stamp,    \* stamp[n]: the timestamp that is signed with nonce n
  passes,   \* history: how often the message of n passed
  served,   \* history: requests of i the limiter let through
  elapsed,  \* history: ticks that passed
  turn,     \* history: requests let through
  launches, \* history: launches of the agent
  steady    \* history: no entry was evicted or forgotten in a restart too early,
            \* and the clock was not set back

Times == 0..MaxTime
gates == <<bucket, seen, passes, served>>
vars  == <<now, skew, loaded, ttl, bucket, seen, stamp, passes, served, elapsed, turn, launches, steady>>

\* bucket[i] stands for the bucket consume() makes for a client it does not
\* know yet.
Init ==
  /\ now = 0
  /\ skew \in Skews /\ loaded = {skew} /\ ttl = 2 * skew
  /\ stamp \in [Nonces -> Times]
  /\ bucket = [i \in Clients |-> [tokens |-> Capacity, last |-> now]]
  /\ seen = {} /\ turn = 0
  /\ passes = [n \in Nonces |-> 0] /\ served = [i \in Clients |-> 0]
  /\ elapsed = 0 /\ launches = 1 /\ steady = TRUE

-----------------------------------------------------------------------------
\* What client i gained since its last request.  A clock that was set back
\* gains nothing.
Gained(i) == IF now > bucket[i].last THEN (now - bucket[i].last) * Refill ELSE 0

\* A consume() without Math.min.
RefilledUncapped(i) == bucket[i].tokens + Gained(i)

\* consume(): the tokens of i when it is looked at.
Refilled(i) ==
  IF bucket[i].tokens + Gained(i) > Capacity THEN Capacity ELSE bucket[i].tokens + Gained(i)

\* A consume() that forgets `bucket.lastRefill = now`.
ConsumeKeepsLast(i, ok) ==
  /\ ok <=> Refilled(i) >= Unit
  /\ bucket' = [bucket EXCEPT ![i].tokens = IF ok THEN Refilled(i) - Unit ELSE Refilled(i)]
  /\ served' = [served EXCEPT ![i] = IF ok THEN @ + 1 ELSE @]

Consume(i, ok) ==
  /\ ok <=> Refilled(i) >= Unit
  /\ bucket' = [bucket EXCEPT ![i] = [tokens |-> IF ok THEN Refilled(i) - Unit ELSE Refilled(i),
                                      last |-> now]]
  /\ served' = [served EXCEPT ![i] = IF ok THEN @ + 1 ELSE @]

\* A prune() that drops an entry one tick early.
LiveEarly == {e \in seen : e.expiry > now + 1}

\* prune()
Live == {e \in seen : e.expiry > now}

\* checkAndStore() evicts the entry stored first when the store is full.
Oldest(S) == CHOOSE e \in S : \A f \in S : e.rank <= f.rank

\* A checkAndStore() that compares the size with > maxEntries.
StoreTooMuch(n) ==
  LET full == Cardinality(Live) > MaxEntries IN
  /\ seen' = (IF full THEN Live \ {Oldest(Live)} ELSE Live)
               \cup {[nonce |-> n, expiry |-> now + ttl, rank |-> turn]}
  /\ steady' = (steady /\ ~full)

Store(n) ==
  LET full == Cardinality(Live) >= MaxEntries IN
  /\ seen' = (IF full THEN Live \ {Oldest(Live)} ELSE Live)
               \cup {[nonce |-> n, expiry |-> now + ttl, rank |-> turn]}
  /\ steady' = (steady /\ ~full)

InWindow(ts, k) == ts - now <= k /\ now - ts <= k

\* A request of client i that presents nonce n, with the message signed for it or
\* with another one, of a fitting timestamp, whose signature does not verify.
\* It uses the skew of the config that was loaded when it arrived.
Request(i, n, genuine, k) ==
  \E ok \in BOOLEAN :
    /\ Consume(i, ok)
    /\ turn' = IF ok THEN turn + 1 ELSE turn
    /\ IF ok /\ (genuine => InWindow(stamp[n], k))
       THEN IF \E e \in Live : e.nonce = n
            THEN seen' = Live /\ UNCHANGED <<passes, steady>>
            ELSE /\ Store(n)
                 /\ passes' = IF genuine THEN [passes EXCEPT ![n] = @ + 1] ELSE passes
       ELSE UNCHANGED <<seen, passes, steady>>
    /\ UNCHANGED <<now, skew, loaded, ttl, stamp, elapsed, launches>>

\* A request of client i to a public route, or one that is refused before its
\* nonce is looked at: the limiter counts it all the same.
PlainRequest(i) ==
  \E ok \in BOOLEAN :
    /\ Consume(i, ok)
    /\ UNCHANGED <<now, skew, loaded, ttl, seen, turn, stamp, passes, elapsed, launches, steady>>

-----------------------------------------------------------------------------
Tick ==
  /\ now < MaxTime /\ elapsed < MaxTime
  /\ now' = now + 1 /\ elapsed' = elapsed + 1
  /\ UNCHANGED <<skew, loaded, ttl, gates, turn, stamp, launches, steady>>

\* The clock of the host is set back, by one tick or, in several steps, more.
SetBack ==
  /\ now > 0
  /\ now' = now - 1
  /\ steady' = FALSE
  /\ UNCHANGED <<skew, loaded, ttl, gates, turn, stamp, elapsed, launches>>

\* `config set agent.clockSkewSec`: the store keeps the ttl of its launch.
SetSkew(k) ==
  /\ k # skew
  /\ skew' = k
  /\ loaded' = loaded \cup {k}
  /\ UNCHANGED <<now, ttl, gates, turn, stamp, elapsed, launches, steady>>

\* The agent ends and startAgentServer() makes new gates, with the skew of now.
\* The store forgets its nonces, some maybe inside the window of their message.
Restart ==
  /\ launches < MaxLaunches
  /\ launches' = launches + 1
  /\ loaded' = {skew} /\ ttl' = 2 * skew
  /\ bucket' = [i \in Clients |-> [tokens |-> Capacity, last |-> now]]
  /\ seen' = {}
  /\ steady' = (steady /\ \A n \in Nonces : passes[n] >= 1 => now - stamp[n] >= skew)
  /\ UNCHANGED <<now, skew, stamp, passes, served, elapsed, turn>>

Next ==
  \/ \E i \in Clients, n \in Nonces, genuine \in BOOLEAN, k \in loaded : Request(i, n, genuine, k)
  \/ \E i \in Clients : PlainRequest(i)
  \/ Tick \/ SetBack
  \/ \E k \in Skews : SetSkew(k)
  \/ Restart

Spec == Init /\ [][Next]_vars

-----------------------------------------------------------------------------
TypeOK ==
  /\ now \in Times /\ skew \in Skews /\ loaded \in SUBSET Skews /\ ttl \in Nat
  /\ bucket \in [Clients -> [tokens : 0..Capacity, last : Times]]
  /\ seen \in SUBSET [nonce : Nonces, expiry : Nat, rank : Nat]
  /\ stamp \in [Nonces -> Times]
  /\ passes \in [Nonces -> Nat] /\ served \in [Clients -> Nat]
  /\ turn \in Nat /\ elapsed \in Times /\ launches \in 1..MaxLaunches /\ steady \in BOOLEAN

\* However requests, restarts and set-backs of the clock alternate, a client is
\* served no more than a full bucket for each launch and the refill of the ticks
\* that really passed.
RateBound ==
  \A i \in Clients : served[i] * Unit <= Capacity * launches + Refill * elapsed

\* A signed message passes once, also across restarts: a copy of it may pass
\* again only at the very last instant of its window, or when an entry was
\* evicted, the clock was set back, the skew was raised, or the agent restarted
\* while the window of a message that had passed was open.
ReplayCaught ==
  steady /\ (\A k \in loaded : 2 * k <= ttl)
    => \A n \in Nonces : passes[n] <= 1 \/ 2 * (now - stamp[n]) >= ttl

\* The store holds a nonce once and never more than maxEntries, and while the
\* clock runs forward the entry to be evicted is the one that expires first.
StoreInOrder ==
  /\ Cardinality(seen) <= MaxEntries
  /\ \A d, e \in seen : d.nonce = e.nonce \/ d.rank = e.rank => d = e
  /\ steady => \A d, e \in seen : d.rank < e.rank => d.expiry <= e.expiry
=============================================================================
