--------------------------- MODULE ChallengeProofs ---------------------------
(***************************************************************************)
(* Proofs about the identity worker, for any number of codes, clients and  *)
(* overlapping cycles: Spec keeps the type invariant, SingleUse,           *)
(* AttemptLimit and DeliveredIsReceived, and every step of it is an        *)
(* AcceptedFresh step.                                                     *)
(*                                                                         *)
(* Two facts make them inductive: a challenge the last cycle found expired *)
(* is not in the store, and a cycle that awaits a webhook has room for its *)
(* match.                                                                  *)
(***************************************************************************)
EXTENDS ChallengeVerifier, TLAPS

SweptGone == \A c \in swept : ~challenge[c].stored

RoomForMatch == \A k \in Cycles : cycle[k].phase = "notifying" => cycle[k].matches < MaxMatches

IInv ==
  /\ TypeOK /\ SingleUse /\ AttemptLimit /\ DeliveredIsReceived
  /\ SweptGone /\ RoomForMatch

-----------------------------------------------------------------------------
\* The records an action makes out of the entries and the states of cycles.
LEMMA EntryTypes ==
  /\ Absent \in Entries /\ Opened \in Entries
  /\ \A e \in Entries, n \in 0..(MaxAttempts + 1), b \in BOOLEAN :
       [e EXCEPT !.attempts = n, !.consumed = b] \in Entries
  /\ \A e \in Entries, b \in BOOLEAN : [e EXCEPT !.delivered = b] \in Entries
<1>1. 0 \in 0..(MaxAttempts + 1)
  BY VerifierAssumption
<1>2. Absent \in Entries /\ Opened \in Entries
  BY <1>1 DEF Entries, Absent, Opened
<1>3. \A e \in Entries, n \in 0..(MaxAttempts + 1), b \in BOOLEAN :
        [e EXCEPT !.attempts = n, !.consumed = b] \in Entries
  BY DEF Entries
<1>4. \A e \in Entries, b \in BOOLEAN : [e EXCEPT !.delivered = b] \in Entries
  BY DEF Entries
<1> QED
  BY <1>2, <1>3, <1>4

\* The records an action makes out of the state of a cycle.
LEMMA CycleTypes ==
  /\ Asleep \in CycleStates
  /\ \A S \in SUBSET Codes : [Asleep EXCEPT !.phase = "listing", !.late = S] \in CycleStates
  /\ \A e \in CycleStates, S \in SUBSET Codes : [e EXCEPT !.late = S] \in CycleStates
  /\ \A e \in CycleStates, S \in SUBSET Clients : [e EXCEPT !.left = S] \in CycleStates
  /\ \A e \in CycleStates, S \in SUBSET Clients :
       [e EXCEPT !.phase = "reading", !.left = S] \in CycleStates
  /\ \A e \in CycleStates, S \in SUBSET Clients, p \in {"reading", "notifying"},
        w \in {<<>>} \cup Webhooks :
       [e EXCEPT !.left = S, !.phase = p, !.match = w] \in CycleStates
  /\ \A e \in CycleStates, n \in 0..MaxMatches :
       [e EXCEPT !.phase = "reading", !.match = <<>>, !.matches = n] \in CycleStates
<1>1. Asleep \in CycleStates
  BY VerifierAssumption DEF CycleStates, Asleep
<1>2. \A S \in SUBSET Codes : [Asleep EXCEPT !.phase = "listing", !.late = S] \in CycleStates
  BY <1>1 DEF CycleStates
<1>3. \A e \in CycleStates, S \in SUBSET Codes : [e EXCEPT !.late = S] \in CycleStates
  BY DEF CycleStates
<1>4. \A e \in CycleStates, S \in SUBSET Clients : [e EXCEPT !.left = S] \in CycleStates
  BY DEF CycleStates
<1>5. \A e \in CycleStates, S \in SUBSET Clients :
        [e EXCEPT !.phase = "reading", !.left = S] \in CycleStates
  BY DEF CycleStates
<1>6. \A e \in CycleStates, S \in SUBSET Clients, p \in {"reading", "notifying"},
        w \in {<<>>} \cup Webhooks :
        [e EXCEPT !.left = S, !.phase = p, !.match = w] \in CycleStates
  BY DEF CycleStates
<1>7. \A e \in CycleStates, n \in 0..MaxMatches :
        [e EXCEPT !.phase = "reading", !.match = <<>>, !.matches = n] \in CycleStates
  BY DEF CycleStates
<1> QED
  BY <1>1, <1>2, <1>3, <1>4, <1>5, <1>6, <1>7

-----------------------------------------------------------------------------
\* Initially nothing is stored and nothing was sent.
LEMMA InitIInv == Init => IInv
<1> SUFFICES ASSUME Init PROVE IInv
  OBVIOUS
<1>1. TypeOK
  <2>1. challenge \in [Codes -> Entries] /\ cycle \in [Cycles -> CycleStates]
    BY EntryTypes, CycleTypes DEF Init
  <2>2. \A k \in Cycles : cycle[k].phase = "notifying" <=> cycle[k].match # <<>>
    BY DEF Init, Asleep
  <2>3. registrations \in [Codes -> 0..MaxRegistrations] /\ notified \in [Codes -> 0..MaxRegistrations]
    BY VerifierAssumption DEF Init
  <2> QED
    BY <2>1, <2>2, <2>3 DEF Init, TypeOK
<1>2. SingleUse /\ AttemptLimit /\ DeliveredIsReceived
  BY VerifierAssumption DEF Init, Absent, SingleUse, AttemptLimit, DeliveredIsReceived
<1>3. SweptGone /\ RoomForMatch
  BY DEF Init, Asleep, SweptGone, RoomForMatch
<1> QED
  BY <1>1, <1>2, <1>3 DEF IInv

-----------------------------------------------------------------------------
\* A new entry is open, and the registration that makes it is counted.
LEMMA RegisterStep ==
  ASSUME IInv, NEW c \in Codes, Register(c)
  PROVE IInv'
<1> USE DEF IInv
<1>1. \A d \in Codes : challenge'[d] = IF d = c THEN Opened ELSE challenge[d]
  BY DEF Register, TypeOK
<1>2. \A d \in Codes : registrations'[d] = IF d = c THEN registrations[d] + 1 ELSE registrations[d]
  BY DEF Register, TypeOK
<1>3. \A k \in Cycles : cycle'[k] = [cycle[k] EXCEPT !.late = @ \ {c}]
  BY DEF Register, TypeOK
<1>4. \A k \in Cycles : /\ cycle'[k].phase = cycle[k].phase
                        /\ cycle'[k].match = cycle[k].match
                        /\ cycle'[k].matches = cycle[k].matches
  <2> TAKE k \in Cycles
  <2>1. cycle[k] \in CycleStates
    BY DEF TypeOK
  <2>2. cycle'[k] = [cycle[k] EXCEPT !.late = @ \ {c}]
    BY <1>3
  <2> QED
    BY <2>1, <2>2 DEF CycleStates
<1>5. TypeOK'
  <2>1. challenge' \in [Codes -> Entries]
    BY EntryTypes DEF Register, TypeOK
  <2>2. cycle' \in [Cycles -> CycleStates]
    <3>1. \A k \in Cycles : cycle'[k] \in CycleStates
      <4> SUFFICES ASSUME NEW k \in Cycles PROVE cycle'[k] \in CycleStates
        OBVIOUS
      <4>1. cycle[k] \in CycleStates
        BY DEF TypeOK
      <4> DEFINE S == cycle[k].late \ {c}
      <4>2. S \in SUBSET Codes
        BY <4>1 DEF CycleStates
      <4>3. cycle'[k] = [cycle[k] EXCEPT !.late = S]
        BY <1>3
      <4> HIDE DEF S
      <4>4. \A e \in CycleStates : [e EXCEPT !.late = S] \in CycleStates
        BY <4>2, CycleTypes
      <4> QED
        BY <4>1, <4>3, <4>4
    <3> QED
      BY <3>1 DEF Register
  <2>3. registrations' \in [Codes -> 0..MaxRegistrations]
    BY VerifierAssumption DEF Register, TypeOK
  <2>4. \A k \in Cycles : cycle'[k].phase = "notifying" <=> cycle'[k].match # <<>>
    BY <1>4 DEF TypeOK
  <2>5. /\ polling' \in BOOLEAN /\ expired' \in SUBSET Codes /\ swept' \in SUBSET Codes
        /\ notified' \in [Codes -> 0..MaxRegistrations]
        /\ flight' \in SUBSET Webhooks /\ received' \in SUBSET Webhooks
    BY DEF Register, TypeOK
  <2> QED
    BY <2>1, <2>2, <2>3, <2>4, <2>5 DEF TypeOK
<1>6. SingleUse'
  BY <1>1, <1>2 DEF Register, Opened, SingleUse, TypeOK
<1>7. AttemptLimit'
  BY <1>1, <1>2, VerifierAssumption DEF Register, Opened, AttemptLimit, TypeOK
<1>8. DeliveredIsReceived'
  BY <1>1 DEF Register, Opened, DeliveredIsReceived
<1>9. SweptGone'
  BY <1>1 DEF Register, SweptGone, TypeOK
<1>10. RoomForMatch'
  BY <1>4 DEF RoomForMatch
<1> QED
  BY <1>5, <1>6, <1>7, <1>8, <1>9, <1>10

\* Pruning takes entries away, and with them all that expired.
LEMMA StartCycleStep ==
  ASSUME IInv, NEW k \in Cycles, StartCycle(k)
  PROVE IInv'
<1> USE DEF IInv
<1> DEFINE started == [Asleep EXCEPT !.phase = "listing", !.late = expired]
<1>1. \A c \in Codes : challenge'[c] = IF c \in expired THEN Absent ELSE challenge[c]
  BY DEF StartCycle, Prune
<1>2. cycle' = [cycle EXCEPT ![k] = started]
  BY DEF StartCycle
<1>3. started.phase = "listing" /\ started.match = <<>> /\ started \in CycleStates
  <2>1. started.phase = "listing" /\ started.match = <<>>
    BY DEF Asleep
  <2>2. expired \in SUBSET Codes
    BY DEF TypeOK
  <2> QED
    BY <2>1, <2>2, CycleTypes
<1> HIDE DEF started
<1>4. TypeOK'
  <2>1. challenge' \in [Codes -> Entries]
    BY EntryTypes DEF StartCycle, Prune, TypeOK
  <2>2. cycle' \in [Cycles -> CycleStates]
    BY <1>2, <1>3 DEF TypeOK
  <2>3. \A j \in Cycles : cycle'[j].phase = "notifying" <=> cycle'[j].match # <<>>
    BY <1>2, <1>3 DEF TypeOK
  <2> QED
    BY <2>1, <2>2, <2>3 DEF StartCycle, TypeOK
<1>5. SingleUse'
  <2> SUFFICES ASSUME NEW c \in Codes
               PROVE notified'[c] + (IF challenge'[c].stored /\ ~challenge'[c].consumed THEN 1 ELSE 0)
                       <= registrations'[c]
    BY DEF SingleUse
  <2>1. notified' = notified /\ registrations' = registrations
    BY DEF StartCycle
  <2>2. notified[c] \in Nat /\ registrations[c] \in Nat
    BY VerifierAssumption DEF TypeOK
  <2>3. CASE c \in expired
    <3>1. ~challenge'[c].stored
      BY <1>1, <2>3 DEF Absent
    <3>2. notified[c] <= registrations[c]
      BY <2>2 DEF SingleUse
    <3> QED
      BY <2>1, <2>2, <3>1, <3>2
  <2>4. CASE c \notin expired
    BY <1>1, <2>1, <2>4 DEF SingleUse
  <2> QED
    BY <2>3, <2>4
<1>6. AttemptLimit'
  <2> SUFFICES ASSUME NEW c \in Codes, challenge'[c].attempts > MaxAttempts
               PROVE challenge'[c].consumed /\ notified'[c] < registrations'[c]
    BY DEF AttemptLimit
  <2>1. c \notin expired
    BY <1>1, VerifierAssumption DEF Absent
  <2>2. challenge'[c] = challenge[c]
    BY <1>1, <2>1
  <2>3. notified' = notified /\ registrations' = registrations
    BY DEF StartCycle
  <2> QED
    BY <2>2, <2>3 DEF AttemptLimit
<1>7. DeliveredIsReceived'
  BY <1>1 DEF StartCycle, Absent, DeliveredIsReceived
<1>8. SweptGone'
  <2>1. expired \in SUBSET Codes /\ swept' = expired
    BY DEF StartCycle, TypeOK
  <2>2. \A c \in expired : challenge'[c] = Absent
    BY <1>1, <2>1
  <2> QED
    BY <2>1, <2>2 DEF SweptGone, Absent
<1>9. RoomForMatch'
  BY <1>2, <1>3 DEF RoomForMatch, TypeOK
<1> QED
  BY <1>4, <1>5, <1>6, <1>7, <1>8, <1>9

\* A match keeps the invariant: the challenge was open, so that one report more
\* is accounted for, and it is not open any more when it was reported.
LEMMA InspectStep ==
  ASSUME IInv, NEW k \in Cycles, NEW u \in Clients, NEW c \in Codes, NEW known \in BOOLEAN,
         Inspect(k, u, c, known)
  PROVE IInv'
<1> DEFINE tries == challenge[c].attempts + 1
           hit   == tries <= MaxAttempts /\ known
           used  == hit \/ tries > MaxAttempts
           hook  == <<c, u, notified[c] + 1>>
           entry == [challenge[c] EXCEPT !.attempts = tries, !.consumed = used]
           state == [cycle[k] EXCEPT !.left = @ \ {u},
                                     !.phase = IF hit THEN "notifying" ELSE @,
                                     !.match = IF hit THEN hook ELSE @]
<1> USE DEF IInv
<1>1. challenge[c] \in Entries /\ cycle[k] \in CycleStates
  BY DEF TypeOK
<1>2. /\ challenge' = [challenge EXCEPT ![c] = entry]
      /\ cycle' = [cycle EXCEPT ![k] = state]
      /\ notified' = IF hit THEN [notified EXCEPT ![c] = @ + 1] ELSE notified
      /\ flight' = IF hit THEN flight \cup {hook} ELSE flight
      /\ UNCHANGED <<polling, expired, registrations, received, swept>>
  BY DEF Inspect, Match
<1>3. cycle[k].phase = "reading" /\ challenge[c].stored /\ ~challenge[c].consumed
  BY DEF Inspect, Active
<1>4. cycle[k].matches \in 0..MaxMatches /\ ~(cycle[k].matches >= MaxMatches)
  BY <1>1 DEF Inspect, Full, CycleStates
<1>5. challenge[c].attempts \in 0..(MaxAttempts + 1)
  BY <1>1 DEF Entries
<1>6. /\ notified[c] + 1 <= registrations[c] /\ notified[c] + 1 \in 1..MaxRegistrations
      /\ hook \in Webhooks
  <2>1. notified[c] \in 0..MaxRegistrations /\ registrations[c] \in 0..MaxRegistrations
    BY DEF TypeOK
  <2>2. notified[c] + (IF challenge[c].stored /\ ~challenge[c].consumed THEN 1 ELSE 0)
          <= registrations[c]
    BY DEF SingleUse
  <2>3. notified[c] + 1 <= registrations[c]
    BY <2>2, <1>3
  <2>4. notified[c] + 1 \in 1..MaxRegistrations
    BY <2>1, <2>3, VerifierAssumption
  <2> QED
    BY <2>3, <2>4 DEF Webhooks
<1>7. tries \in 0..(MaxAttempts + 1) /\ (tries > MaxAttempts => ~hit)
  <2>1. ~(challenge[c].attempts > MaxAttempts)
    BY <1>3 DEF AttemptLimit
  <2> QED
    BY <2>1, <1>5, VerifierAssumption
<1>8. used \in BOOLEAN /\ hit \in BOOLEAN
  BY DEF used, hit
<1>9. cycle[k].match = <<>>
  BY <1>3 DEF TypeOK
<1>10. entry \in Entries
  BY <1>1, <1>7, <1>8, EntryTypes
<1>11. /\ entry.stored = challenge[c].stored /\ entry.attempts = tries
       /\ entry.consumed = used /\ entry.delivered = challenge[c].delivered
  BY <1>1 DEF Entries
<1>12. /\ state.phase = (IF hit THEN "notifying" ELSE "reading")
       /\ state.match = (IF hit THEN hook ELSE <<>>)
       /\ state.matches = cycle[k].matches
  BY <1>1, <1>3, <1>9 DEF CycleStates
<1>13. state \in CycleStates
  <2> DEFINE p == IF hit THEN "notifying" ELSE cycle[k].phase
             w == IF hit THEN hook ELSE cycle[k].match
             S == cycle[k].left \ {u}
  <2>1. p \in {"reading", "notifying"} /\ w \in {<<>>} \cup Webhooks
    BY <1>3, <1>6, <1>9
  <2>2. S \in SUBSET Clients
    BY <1>1 DEF CycleStates
  <2>3. state = [cycle[k] EXCEPT !.left = S, !.phase = p, !.match = w]
    OBVIOUS
  <2> HIDE DEF p, w, S, state
  <2> QED
    BY <1>1, <2>1, <2>2, <2>3, CycleTypes
<1>14. hook # <<>>
  OBVIOUS
<1>15. used <=> hit \/ tries > MaxAttempts
  OBVIOUS
<1> HIDE DEF tries, hit, used, hook, entry, state
<1>16. TypeOK'
  <2>1. challenge' \in [Codes -> Entries] /\ cycle' \in [Cycles -> CycleStates]
    BY <1>2, <1>10, <1>13 DEF TypeOK
  <2>2. \A j \in Cycles : cycle'[j].phase = "notifying" <=> cycle'[j].match # <<>>
    BY <1>2, <1>12, <1>14 DEF TypeOK
  <2>3. notified' \in [Codes -> 0..MaxRegistrations]
    <3>1. notified[c] + 1 \in 0..MaxRegistrations
      BY <1>6
    <3> QED
      BY <1>2, <3>1 DEF TypeOK
  <2>4. flight' \in SUBSET Webhooks
    BY <1>2, <1>6 DEF TypeOK
  <2> QED
    BY <1>2, <2>1, <2>2, <2>3, <2>4 DEF TypeOK
<1>17. \A d \in Codes : challenge'[d] = IF d = c THEN entry ELSE challenge[d]
  BY <1>2 DEF TypeOK
<1>18. \A d \in Codes : notified'[d] = IF d = c /\ hit THEN notified[d] + 1 ELSE notified[d]
  BY <1>2 DEF TypeOK
<1>19. SingleUse'
  <2> SUFFICES ASSUME NEW d \in Codes
               PROVE notified'[d] + (IF challenge'[d].stored /\ ~challenge'[d].consumed THEN 1 ELSE 0)
                       <= registrations'[d]
    BY DEF SingleUse
  <2>1. CASE d = c
    BY <2>1, <1>2, <1>6, <1>11, <1>15, <1>17, <1>18 DEF TypeOK
  <2>2. CASE d # c
    BY <2>2, <1>2, <1>17, <1>18 DEF SingleUse
  <2> QED
    BY <2>1, <2>2
<1>20. AttemptLimit'
  <2> SUFFICES ASSUME NEW d \in Codes, challenge'[d].attempts > MaxAttempts
               PROVE challenge'[d].consumed /\ notified'[d] < registrations'[d]
    BY DEF AttemptLimit
  <2>1. CASE d = c
    BY <2>1, <1>2, <1>6, <1>7, <1>11, <1>15, <1>17, <1>18 DEF TypeOK
  <2>2. CASE d # c
    BY <2>2, <1>2, <1>17, <1>18 DEF AttemptLimit
  <2> QED
    BY <2>1, <2>2
<1>21. DeliveredIsReceived'
  BY <1>2, <1>11, <1>17 DEF DeliveredIsReceived
<1>22. SweptGone'
  BY <1>2, <1>11, <1>17 DEF SweptGone, TypeOK
<1>23. RoomForMatch'
  <2> SUFFICES ASSUME NEW j \in Cycles, cycle'[j].phase = "notifying"
               PROVE cycle'[j].matches < MaxMatches
    BY DEF RoomForMatch
  <2>1. CASE j = k
    BY <2>1, <1>2, <1>4, <1>12, VerifierAssumption DEF TypeOK
  <2>2. CASE j # k
    BY <2>2, <1>2 DEF RoomForMatch, TypeOK
  <2> QED
    BY <2>1, <2>2
<1> QED
  BY <1>16, <1>19, <1>20, <1>21, <1>22, <1>23

\* A cycle that goes on after its webhook had room for the match.
LEMMA ResumeStep ==
  ASSUME IInv, NEW k \in Cycles, Delivered(k) \/ Undelivered(k)
  PROVE IInv'
<1> DEFINE m     == cycle[k].matches + 1
           state == [cycle[k] EXCEPT !.phase = "reading", !.match = <<>>, !.matches = m]
           c     == cycle[k].match[1]
           entry == [challenge[c] EXCEPT !.delivered = challenge[c].stored]
<1> USE DEF IInv
<1>1. /\ cycle[k].phase = "notifying"
      /\ cycle' = [cycle EXCEPT ![k] = state]
      /\ flight' \subseteq flight
      /\ UNCHANGED <<polling, expired, registrations, notified, received, swept>>
  BY DEF Delivered, Undelivered, Resume, history
<1>2. \/ challenge' = challenge
      \/ /\ challenge' = [challenge EXCEPT ![c] = entry]
         /\ cycle[k].match \in received
  BY DEF Delivered, Undelivered
<1>3. cycle[k] \in CycleStates /\ cycle[k].matches < MaxMatches
  BY <1>1 DEF TypeOK, RoomForMatch
<1>4. m \in 0..MaxMatches
  BY <1>3, VerifierAssumption DEF CycleStates
<1>5. state \in CycleStates /\ state.phase = "reading" /\ state.match = <<>>
  <2>1. state.phase = "reading" /\ state.match = <<>>
    BY <1>3 DEF CycleStates
  <2> HIDE DEF m
  <2> QED
    BY <1>3, <1>4, <2>1, CycleTypes
<1>6. cycle[k].match \in Webhooks
  <2>1. cycle[k].match \in {<<>>} \cup Webhooks
    BY <1>3 DEF CycleStates
  <2> QED
    BY <2>1, <1>1 DEF TypeOK
<1>7. c \in Codes
  BY <1>6 DEF Webhooks
<1>8. challenge[c] \in Entries
  BY <1>7 DEF TypeOK
<1>9. challenge[c].stored \in BOOLEAN
  BY <1>8 DEF Entries
<1>10. entry \in Entries
  BY <1>8, <1>9, EntryTypes
<1>11. /\ entry.stored = challenge[c].stored /\ entry.attempts = challenge[c].attempts
       /\ entry.consumed = challenge[c].consumed
  BY <1>8 DEF Entries
<1> HIDE DEF m, state, entry
<1>12. \A d \in Codes : /\ challenge'[d].stored = challenge[d].stored
                        /\ challenge'[d].attempts = challenge[d].attempts
                        /\ challenge'[d].consumed = challenge[d].consumed
  BY <1>2, <1>7, <1>11 DEF TypeOK
<1>13. \A d \in Codes : (d = c /\ cycle[k].match \in received) \/ challenge'[d] = challenge[d]
  BY <1>2, <1>7 DEF TypeOK
<1>14. TypeOK'
  <2>1. challenge' \in [Codes -> Entries]
    BY <1>2, <1>7, <1>10 DEF TypeOK
  <2>2. cycle' \in [Cycles -> CycleStates]
    BY <1>1, <1>5 DEF TypeOK
  <2>3. \A j \in Cycles : cycle'[j].phase = "notifying" <=> cycle'[j].match # <<>>
    BY <1>1, <1>5 DEF TypeOK
  <2> QED
    BY <1>1, <2>1, <2>2, <2>3 DEF TypeOK
<1>15. SingleUse' /\ AttemptLimit'
  BY <1>1, <1>12 DEF SingleUse, AttemptLimit
<1>16. DeliveredIsReceived'
  BY <1>1, <1>13 DEF DeliveredIsReceived
<1>17. SweptGone'
  BY <1>1, <1>12 DEF SweptGone, TypeOK
<1>18. RoomForMatch'
  BY <1>1, <1>5 DEF RoomForMatch, TypeOK
<1> QED
  BY <1>14, <1>15, <1>16, <1>17, <1>18

\* The steps of a cycle that await the list or look at a client without a match.
LEMMA CycleStep ==
  ASSUME IInv, NEW k \in Cycles,
         \/ ListFails(k) \/ EndCycle(k)
         \/ \E S \in SUBSET Clients : Listed(k, S)
         \/ \E u \in Clients : NoMatch(k, u)
  PROVE IInv'
<1> USE DEF IInv
<1>1. cycle[k] \in CycleStates
  BY DEF TypeOK
<1>2. cycle[k].phase \in {"listing", "reading"}
  BY DEF ListFails, EndCycle, Listed, NoMatch
<1>3. cycle[k].match = <<>>
  BY <1>2 DEF TypeOK
<1>4. UNCHANGED <<polling, challenge, expired, flight, registrations, notified, received, swept>>
  BY DEF ListFails, EndCycle, Listed, NoMatch, history
<1>5. \E e \in CycleStates : /\ cycle' = [cycle EXCEPT ![k] = e]
                             /\ e.phase # "notifying" /\ e.match = <<>>
  <2>1. CASE ListFails(k) \/ EndCycle(k)
    BY <2>1, CycleTypes DEF ListFails, EndCycle, Asleep
  <2>2. CASE \E S \in SUBSET Clients : Listed(k, S)
    <3>1. PICK S \in SUBSET Clients : Listed(k, S)
      BY <2>2
    <3> DEFINE e == [cycle[k] EXCEPT !.phase = "reading", !.left = S]
    <3>2. cycle' = [cycle EXCEPT ![k] = e]
      BY <3>1 DEF Listed
    <3>3. e.phase = "reading" /\ e.match = <<>>
      BY <1>1, <1>3 DEF CycleStates
    <3>4. e \in CycleStates
      BY <1>1, CycleTypes
    <3> HIDE DEF e
    <3> QED
      BY <3>2, <3>3, <3>4
  <2>3. CASE \E u \in Clients : NoMatch(k, u)
    <3>1. PICK u \in Clients : NoMatch(k, u)
      BY <2>3
    <3> DEFINE S == cycle[k].left \ {u}
               e == [cycle[k] EXCEPT !.left = S]
    <3>2. cycle' = [cycle EXCEPT ![k] = e]
      BY <3>1 DEF NoMatch
    <3>3. e.phase # "notifying" /\ e.match = <<>>
      BY <1>1, <1>2, <1>3 DEF CycleStates
    <3>4. S \in SUBSET Clients
      BY <1>1 DEF CycleStates
    <3> HIDE DEF S
    <3>5. e \in CycleStates
      BY <1>1, <3>4, CycleTypes
    <3> HIDE DEF e
    <3> QED
      BY <3>2, <3>3, <3>5
  <2> QED
    BY <2>1, <2>2, <2>3
<1>6. PICK e \in CycleStates : /\ cycle' = [cycle EXCEPT ![k] = e]
                               /\ e.phase # "notifying" /\ e.match = <<>>
  BY <1>5
<1>7. TypeOK'
  BY <1>4, <1>6 DEF TypeOK
<1>8. SingleUse' /\ AttemptLimit' /\ DeliveredIsReceived' /\ SweptGone'
  BY <1>4 DEF SingleUse, AttemptLimit, DeliveredIsReceived, SweptGone
<1>9. RoomForMatch'
  BY <1>6 DEF RoomForMatch, TypeOK
<1> QED
  BY <1>7, <1>8, <1>9

\* The other steps leave the challenges and the cycles alone.
LEMMA QuietStep ==
  ASSUME IInv,
         \/ \E c \in Codes : Expire(c)
         \/ \E w \in flight : Receive(w)
         \/ Stop
         \/ UNCHANGED vars
  PROVE IInv'
<1> USE DEF IInv
<1>1. UNCHANGED <<challenge, cycle, registrations, notified, swept>>
  BY DEF Expire, Receive, Stop, history, vars
<1>2. received \subseteq received' /\ received' \in SUBSET Webhooks /\ flight' \in SUBSET Webhooks
  BY DEF Expire, Receive, Stop, history, vars, TypeOK
<1>3. polling' \in BOOLEAN /\ expired' \in SUBSET Codes
  BY DEF Expire, Receive, Stop, history, vars, TypeOK
<1>4. TypeOK'
  BY <1>1, <1>2, <1>3 DEF TypeOK
<1>5. SingleUse' /\ AttemptLimit' /\ DeliveredIsReceived' /\ SweptGone' /\ RoomForMatch'
  BY <1>1, <1>2 DEF SingleUse, AttemptLimit, DeliveredIsReceived, SweptGone, RoomForMatch
<1> QED
  BY <1>4, <1>5

\* A new agent knows no challenge and runs no cycle.
LEMMA RestartStep ==
  ASSUME IInv, Restart
  PROVE IInv'
<1> USE DEF IInv
<1>1. /\ challenge' = [c \in Codes |-> Absent] /\ cycle' = [k \in Cycles |-> Asleep]
      /\ UNCHANGED <<expired, flight, registrations, notified, received, swept>>
      /\ polling' \in BOOLEAN
  BY DEF Restart, history
<1>2. TypeOK'
  <2>1. challenge' \in [Codes -> Entries] /\ cycle' \in [Cycles -> CycleStates]
    BY <1>1, EntryTypes, CycleTypes
  <2>2. \A k \in Cycles : cycle'[k].phase = "notifying" <=> cycle'[k].match # <<>>
    BY <1>1 DEF Asleep
  <2> QED
    BY <1>1, <2>1, <2>2 DEF TypeOK
<1>3. SingleUse'
  <2>1. ASSUME NEW c \in Codes
        PROVE notified[c] <= registrations[c]
    <3>1. notified[c] \in Nat /\ registrations[c] \in Nat
      BY VerifierAssumption DEF TypeOK
    <3> QED
      BY <3>1 DEF SingleUse
  <2>2. \A c \in Codes : notified[c] \in Nat
    BY VerifierAssumption DEF TypeOK
  <2> QED
    BY <1>1, <2>1, <2>2 DEF SingleUse, Absent
<1>4. AttemptLimit' /\ DeliveredIsReceived' /\ SweptGone'
  BY <1>1, VerifierAssumption DEF AttemptLimit, DeliveredIsReceived, SweptGone, Absent, TypeOK
<1>5. RoomForMatch'
  BY <1>1 DEF RoomForMatch, Asleep
<1> QED
  BY <1>2, <1>3, <1>4, <1>5

-----------------------------------------------------------------------------
\* Every step keeps the invariant.
LEMMA NextIInv == IInv /\ [Next]_vars => IInv'
<1> SUFFICES ASSUME IInv, [Next]_vars PROVE IInv'
  OBVIOUS
<1>1. CASE \E c \in Codes : Register(c)
  BY <1>1, RegisterStep
<1>2. CASE \E k \in Cycles : StartCycle(k)
  BY <1>2, StartCycleStep
<1>3. CASE \E k \in Cycles : Delivered(k) \/ Undelivered(k)
  BY <1>3, ResumeStep
<1>4. CASE \E k \in Cycles, u \in Clients, c \in Codes, known \in BOOLEAN : Inspect(k, u, c, known)
  BY <1>4, InspectStep
<1>5. CASE \E k \in Cycles : \/ ListFails(k) \/ EndCycle(k)
                             \/ \E S \in SUBSET Clients : Listed(k, S)
                             \/ \E u \in Clients : NoMatch(k, u)
  BY <1>5, CycleStep
<1>6. CASE \/ \E c \in Codes : Expire(c)
           \/ \E w \in flight : Receive(w)
           \/ Stop
           \/ UNCHANGED vars
  BY <1>6, QuietStep
<1>7. CASE Restart
  BY <1>7, RestartStep
<1> QED
  BY <1>1, <1>2, <1>3, <1>4, <1>5, <1>6, <1>7 DEF Next

\* In every reachable state the inductive invariant holds.
LEMMA Invariance == Spec => []IInv
BY InitIInv, NextIInv, PTL DEF Spec

\* The store, the cycles and the webhooks are well typed.
THEOREM TypesHold == Spec => []TypeOK
<1>1. IInv => TypeOK
  BY DEF IInv
<1> QED
  BY Invariance, <1>1, PTL

\* However many cycles overlap and restarts come, a challenge is reported once at
\* most for each time it was registered (challenges.ts, worker.ts).
THEOREM ReportedOnce == Spec => []SingleUse
<1>1. IInv => SingleUse
  BY DEF IInv
<1> QED
  BY Invariance, <1>1, PTL

\* The attempts of all cycles together lock a challenge that is still open.
THEOREM AttemptsLock == Spec => []AttemptLimit
<1>1. IInv => AttemptLimit
  BY DEF IInv
<1> QED
  BY Invariance, <1>1, PTL

\* A challenge counts as delivered only when WordPress processed a match of it.
THEOREM DeliveredWasReceived == Spec => []DeliveredIsReceived
<1>1. IInv => DeliveredIsReceived
  BY DEF IInv
<1> QED
  BY Invariance, <1>1, PTL

\* A cycle never reports a code that another cycle, started since, found
\* expired: its entry has left the store.
THEOREM Freshness == Spec => AcceptedFresh
<1>1. ASSUME IInv, [Next]_vars
      PROVE [\A c \in Codes : notified'[c] # notified[c] => c \notin swept]_vars
  <2>1. CASE notified' = notified
    BY <2>1
  <2>2. CASE \E k \in Cycles, u \in Clients, c \in Codes, known \in BOOLEAN : Inspect(k, u, c, known)
    <3>1. PICK k \in Cycles, u \in Clients, c \in Codes, known \in BOOLEAN : Inspect(k, u, c, known)
      BY <2>2
    <3>2. challenge[c].stored
      BY <3>1 DEF Inspect, Active
    <3>3. c \notin swept
      BY <3>2, <1>1 DEF IInv, SweptGone
    <3>4. \A d \in Codes : notified'[d] # notified[d] => d = c
      BY <3>1, <1>1 DEF Inspect, Match, IInv, TypeOK
    <3> QED
      BY <3>3, <3>4
  <2> QED
    BY <1>1, <2>1, <2>2 DEF Next, Register, Expire, StartCycle, ListFails, Delivered, Undelivered,
       EndCycle, Listed, NoMatch, Receive, Stop, Restart, history, vars
<1> QED
  BY InitIInv, NextIInv, <1>1, PTL DEF Spec, AcceptedFresh
=============================================================================
