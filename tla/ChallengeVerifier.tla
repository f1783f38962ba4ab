-------------------------- MODULE ChallengeVerifier --------------------------
(***************************************************************************)
(* The identity worker of the agent: the challenges that WordPress         *)
(* registers (identity/challengeStore.ts), the polling cycles that look    *)
(* for their codes among the clients of the TeamSpeak server               *)
(* (identity/verifier.ts) and the webhook that reports a match             *)
(* (identity/notifier.ts).                                                 *)
(*                                                                         *)
(* setInterval() starts a cycle whether or not the cycles before it have   *)
(* ended.  A cycle compares expiry times with the time it started at, and  *)
(* awaits the client list, the details of each client and each webhook.    *)
(* JavaScript runs to completion between two awaits, so an action is what  *)
(* a cycle does from one await to the next.                                *)
(***************************************************************************)
EXTENDS Naturals

CONSTANTS
  Codes,            \* challenge codes, with the user each was made for
  Clients,          \* clients of the TeamSpeak server
  Cycles,           \* cycles that may run at once
  MaxMatches,       \* config.identity.verify.maxMatchesPerCycle
  MaxAttempts,      \* maxAttemptsPerChallenge
  MaxRegistrations, \* bound: registrations of one code
  Restarts          \* bound: whether the agent is ever started again

ASSUME VerifierAssumption ==
  /\ MaxMatches \in Nat \ {0} /\ MaxAttempts \in Nat
  /\ MaxRegistrations \in Nat /\ Restarts \in BOOLEAN

VARIABLES
  polling,        \* the interval timer is set
  challenge,      \* challenge[c]: the entry of the store for code c
  expired,        \* codes whose expiresAt has passed
  cycle,          \* cycle[k]: what cycle k awaits and has done
  flight,         \* webhooks on their way: <<c, u, n>>, the n-th for code c, shown by u
  registrations,  \* history: registrations of c
  notified,       \* history: webhooks sent for c
  received,       \* history: webhooks WordPress processed
  swept           \* history: codes that had expired when the last cycle started

Webhooks == Codes \X Clients \X (1..MaxRegistrations)

history == <<registrations, notified, received, swept>>
vars    == <<polling, challenge, expired, cycle, flight, registrations, notified, received, swept>>

Absent == [stored |-> FALSE, attempts |-> 0, consumed |-> FALSE, delivered |-> FALSE]
Opened == [stored |-> TRUE, attempts |-> 0, consumed |-> FALSE, delivered |-> FALSE]
Asleep == [phase |-> "idle", late |-> {}, left |-> {}, matches |-> 0, match |-> <<>>]

Init ==
  /\ polling = TRUE
  /\ challenge = [c \in Codes |-> Absent]
  /\ expired = {}
  /\ cycle = [k \in Cycles |-> Asleep]
  /\ registrations = [c \in Codes |-> 0] /\ notified = [c \in Codes |-> 0]
  /\ flight = {} /\ received = {} /\ swept = {}

-----------------------------------------------------------------------------
\* identityChallengeRegisterHandler(): a code that is registered again gets a
\* new entry, which no cycle takes for expired.
Register(c) ==
  /\ registrations[c] < MaxRegistrations
  /\ registrations' = [registrations EXCEPT ![c] = @ + 1]
  /\ challenge' = [challenge EXCEPT ![c] = Opened]
  /\ expired' = expired \ {c} /\ swept' = swept \ {c}
  /\ cycle' = [k \in Cycles |-> [cycle[k] EXCEPT !.late = @ \ {c}]]
  /\ UNCHANGED <<polling, flight, notified, received>>

\* The time of the challenge for c is over.
Expire(c) ==
  /\ challenge[c].stored /\ c \notin expired
  /\ expired' = expired \cup {c}
  /\ UNCHANGED <<polling, challenge, cycle, flight, history>>

\* A prune() that keeps challenges nobody used.
PruneConsumed == [c \in Codes |-> IF c \in expired /\ challenge[c].consumed THEN Absent ELSE challenge[c]]

\* prune()
Prune == [c \in Codes |-> IF c \in expired THEN Absent ELSE challenge[c]]

\* The timer fires: verifyOnce() up to `await this.ts3.clients()`.
StartCycle(k) ==
  /\ polling
  /\ cycle[k].phase = "idle"
  /\ challenge' = Prune
  /\ cycle' = [cycle EXCEPT ![k] = [Asleep EXCEPT !.phase = "listing", !.late = expired]]
  /\ swept' = expired
  /\ UNCHANGED <<polling, expired, flight, registrations, notified, received>>

\* The client list cannot be had.
ListFails(k) ==
  /\ cycle[k].phase = "listing"
  /\ cycle' = [cycle EXCEPT ![k] = Asleep]
  /\ UNCHANGED <<polling, challenge, expired, flight, history>>

\* The list of the clients S arrives; clients that are not voice clients are skipped.
Listed(k, S) ==
  /\ cycle[k].phase = "listing"
  /\ cycle' = [cycle EXCEPT ![k].phase = "reading", ![k].left = S]
  /\ UNCHANGED <<polling, challenge, expired, flight, history>>

-----------------------------------------------------------------------------
\* findActive(), with the time of the cycle's start.
Active(k, c) == challenge[c].stored /\ ~challenge[c].consumed /\ c \notin cycle[k].late

\* A limit that is checked with >.
FullLate(k) == cycle[k].matches > MaxMatches

\* The cycle reported as many matches as it may.
Full(k) == cycle[k].matches >= MaxMatches

\* The details of client u came, and show no active code.
NoMatch(k, u) ==
  /\ cycle[k].phase = "reading" /\ ~Full(k)
  /\ u \in cycle[k].left
  /\ cycle' = [cycle EXCEPT ![k].left = @ \ {u}]
  /\ UNCHANGED <<polling, challenge, expired, flight, history>>

\* A match that is consumed when the webhook was answered.
MatchConsumesLate(k, u, c, known) ==
  LET tries == challenge[c].attempts + 1
      hit   == tries <= MaxAttempts /\ known
  IN
  /\ challenge' = [challenge EXCEPT ![c].attempts = tries, ![c].consumed = tries > MaxAttempts]
  /\ cycle' = [cycle EXCEPT ![k].left = @ \ {u},
                            ![k].phase = IF hit THEN "notifying" ELSE @,
                            ![k].match = IF hit THEN <<c, u, notified[c] + 1>> ELSE @]
  /\ notified' = IF hit THEN [notified EXCEPT ![c] = @ + 1] ELSE notified
  /\ flight' = IF hit THEN flight \cup {<<c, u, notified[c] + 1>>} ELSE flight

\* A match that compares attempts with >= before it counts this one.
MatchLocksLate(k, u, c, known) ==
  LET tries == challenge[c].attempts + 1
      hit   == challenge[c].attempts <= MaxAttempts /\ known
  IN
  /\ challenge' = [challenge EXCEPT ![c].attempts = tries,
                                    ![c].consumed = hit \/ challenge[c].attempts > MaxAttempts]
  /\ cycle' = [cycle EXCEPT ![k].left = @ \ {u},
                            ![k].phase = IF hit THEN "notifying" ELSE @,
                            ![k].match = IF hit THEN <<c, u, notified[c] + 1>> ELSE @]
  /\ notified' = IF hit THEN [notified EXCEPT ![c] = @ + 1] ELSE notified
  /\ flight' = IF hit THEN flight \cup {<<c, u, notified[c] + 1>>} ELSE flight

\* Code c was found at client u: one attempt more locks the challenge, or, when
\* the unique id of u is known, uses it up and sends the webhook.
Match(k, u, c, known) ==
  LET tries == challenge[c].attempts + 1
      hit   == tries <= MaxAttempts /\ known
  IN
  /\ challenge' = [challenge EXCEPT ![c].attempts = tries,
                                    ![c].consumed = hit \/ tries > MaxAttempts]
  /\ cycle' = [cycle EXCEPT ![k].left = @ \ {u},
                            ![k].phase = IF hit THEN "notifying" ELSE @,
                            ![k].match = IF hit THEN <<c, u, notified[c] + 1>> ELSE @]
  /\ notified' = IF hit THEN [notified EXCEPT ![c] = @ + 1] ELSE notified
  /\ flight' = IF hit THEN flight \cup {<<c, u, notified[c] + 1>>} ELSE flight

\* The details of client u came, and c is the first active code they show.
Inspect(k, u, c, known) ==
  /\ cycle[k].phase = "reading" /\ ~Full(k)
  /\ u \in cycle[k].left
  /\ Active(k, c)
  /\ Match(k, u, c, known)
  /\ UNCHANGED <<polling, expired, registrations, received, swept>>

-----------------------------------------------------------------------------
\* WordPress processes webhook w, maybe when the agent has given up on it.
Receive(w) ==
  /\ w \in flight
  /\ flight' = flight \ {w}
  /\ received' = received \cup {w}
  /\ UNCHANGED <<polling, challenge, expired, cycle, registrations, notified, swept>>

Resume(k) ==
  cycle' = [cycle EXCEPT ![k].phase = "reading", ![k].match = <<>>, ![k].matches = @ + 1]

\* WordPress answered: markDelivered() on the entry the store has now, if any.
Delivered(k) ==
  /\ cycle[k].phase = "notifying" /\ cycle[k].match \in received
  /\ LET c == cycle[k].match[1] IN
     challenge' = [challenge EXCEPT ![c].delivered = challenge[c].stored]
  /\ Resume(k)
  /\ UNCHANGED <<polling, expired, flight, history>>

\* A failed delivery that marks the challenge all the same.
UndeliveredMarked(k) ==
  /\ cycle[k].phase = "notifying"
  /\ LET c == cycle[k].match[1] IN
     challenge' = [challenge EXCEPT ![c].delivered = challenge[c].stored]
  /\ Resume(k)
  /\ UNCHANGED <<polling, expired, flight, history>>

\* No answer in five seconds, a lost connection, or a refusal: the webhook is
\* lost, or WordPress has it and the agent does not know.
Undelivered(k) ==
  /\ cycle[k].phase = "notifying"
  /\ Resume(k)
  /\ flight' = flight \ {cycle[k].match} \/ flight' = flight
  /\ UNCHANGED <<polling, challenge, expired, history>>

\* verifyOnce() returns: every client was looked at, or the limit was reached.
EndCycle(k) ==
  /\ cycle[k].phase = "reading"
  /\ cycle[k].left = {} \/ Full(k)
  /\ cycle' = [cycle EXCEPT ![k] = Asleep]
  /\ UNCHANGED <<polling, challenge, expired, flight, history>>

\* stop(): cycles that run go on.
Stop ==
  /\ polling
  /\ polling' = FALSE
  /\ UNCHANGED <<challenge, expired, cycle, flight, history>>

\* The agent ends, killed or after stop(), and runAgentCommand() starts it again:
\* challenges and cycles were in its memory, webhooks are on their way all the
\* same, and the worker polls if the config says so now.
Restart ==
  /\ Restarts
  /\ polling' \in BOOLEAN
  /\ challenge' = [c \in Codes |-> Absent]
  /\ cycle' = [k \in Cycles |-> Asleep]
  /\ UNCHANGED <<expired, flight, history>>

Next ==
  \/ \E c \in Codes : Register(c) \/ Expire(c)
  \/ \E k \in Cycles : StartCycle(k) \/ ListFails(k) \/ Delivered(k) \/ Undelivered(k) \/ EndCycle(k)
  \/ \E k \in Cycles, S \in SUBSET Clients : Listed(k, S)
  \/ \E k \in Cycles, u \in Clients : NoMatch(k, u)
  \/ \E k \in Cycles, u \in Clients, c \in Codes, known \in BOOLEAN : Inspect(k, u, c, known)
  \/ \E w \in flight : Receive(w)
  \/ Stop
  \/ Restart

Spec == Init /\ [][Next]_vars

\* What a cycle awaits comes to an end: TeamSpeak queries and webhooks have
\* timeouts.  The timer fires again and again.
Advance(k) ==
  \/ ListFails(k) \/ Delivered(k) \/ Undelivered(k) \/ EndCycle(k)
  \/ \E S \in SUBSET Clients : Listed(k, S)
  \/ \E u \in Clients : NoMatch(k, u)
  \/ \E u \in Clients, c \in Codes, known \in BOOLEAN : Inspect(k, u, c, known)

Fairness == \A k \in Cycles : WF_vars(Advance(k)) /\ WF_vars(StartCycle(k))

FairSpec == Spec /\ Fairness

\* As FairSpec, with servers that answer: the client list comes, and a webhook
\* that is sent again and again is received and its answer comes back.
AnsweringSpec ==
  /\ FairSpec
  /\ \A w \in Webhooks : SF_vars(Receive(w))
  /\ \A k \in Cycles : SF_vars(Listed(k, Clients)) /\ SF_vars(Delivered(k))

-----------------------------------------------------------------------------
Entries == [stored : BOOLEAN, attempts : 0..(MaxAttempts + 1), consumed : BOOLEAN, delivered : BOOLEAN]
CycleStates == [phase : {"idle", "listing", "reading", "notifying"}, late : SUBSET Codes,
                left : SUBSET Clients, matches : 0..MaxMatches, match : {<<>>} \cup Webhooks]

TypeOK ==
  /\ polling \in BOOLEAN
  /\ challenge \in [Codes -> Entries]
  /\ expired \in SUBSET Codes
  /\ cycle \in [Cycles -> CycleStates]
  /\ \A k \in Cycles : cycle[k].phase = "notifying" <=> cycle[k].match # <<>>
  /\ registrations \in [Codes -> 0..MaxRegistrations]
  /\ notified \in [Codes -> 0..MaxRegistrations]
  /\ flight \in SUBSET Webhooks /\ received \in SUBSET Webhooks
  /\ swept \in SUBSET Codes

\* "single-use": however many cycles overlap, however many clients show a code
\* and however often the agent restarts, one webhook at most reports it for each time it was registered, and
\* none reports a challenge that is still open.
SingleUse ==
  \A c \in Codes :
    notified[c] + (IF challenge[c].stored /\ ~challenge[c].consumed THEN 1 ELSE 0)
      <= registrations[c]

\* "carry an attempt counter": the attempts of all cycles together lock a
\* challenge, and the first attempt beyond the limit already finds no open one.
AttemptLimit ==
  \A c \in Codes : challenge[c].attempts > MaxAttempts =>
    /\ challenge[c].consumed
    /\ notified[c] < registrations[c]

\* delivered is set only when WordPress has processed the match.
DeliveredIsReceived ==
  \A c \in Codes : challenge[c].delivered => \E w \in received : w[1] = c

\* "expire after a short TTL": a cycle that awaited something may use a code
\* after its expiry, but not when another cycle started since.
AcceptedFresh ==
  [][\A c \in Codes : notified'[c] # notified[c] => c \notin swept]_vars

\* While the worker polls, the store loses every challenge that expired.
ExpiredGoes ==
  \A c \in Codes : challenge[c].stored /\ c \in expired
                     ~> ~challenge[c].stored \/ c \notin expired \/ ~polling

\* "identity challenge verified but webhook pending retry": as long as the worker
\* polls and the challenge has not expired, a match WordPress did not learn
\* about is reported again.
RetryPending ==
  \A c \in Codes :
    notified[c] > 0 ~> (\E w \in received : w[1] = c) \/ c \in expired \/ ~polling
=============================================================================
