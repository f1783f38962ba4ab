---------------------------- MODULE AgentApiProofs ----------------------------
(***************************************************************************)
(* Proofs about the credentials of a node, for any number of requests to   *)
(* the agent and of processes of the command line: the invariants of       *)
(* AgentApi hold of Spec.                                                  *)
(*                                                                         *)
(* As long as no process updated the file that had changed since its first *)
(* look, what every process at work found out still holds of the file      *)
(* (LooksHold); so an update replaces what its operation expects.  A       *)
(* secret that is generated was never used before (UsedIsDone): it is      *)
(* neither revoked nor granted already.                                    *)
(***************************************************************************)
EXTENDS AgentApi, TLAPS

Busy == {"loaded", "authed", "checked", "read"}

\* Requests and commands do what they may do; a request that got past
\* authenticate() has the agent's thread, who pairs presents a code, and who
\* sets the credential by hand a credential or ''.
Doing ==
  /\ \A r \in Requests : Phase(r) \in Busy => actor[r].op \in RequestOps
  /\ \A r \in Requests : Phase(r) \in {"authed", "checked", "read"} =>
                           actor[r].op # "use" /\ running = r
  /\ \A k \in Commands : Phase(k) \in Busy => actor[k].op \in CommandOps
  /\ \A k \in Commands : Phase(k) # "authed"
  /\ \A a \in Actors : Phase(a) \in Busy /\ actor[a].op = "pair" => actor[a].secret \in Codes
  /\ \A a \in Actors : Phase(a) \in Busy /\ actor[a].op = "setCredential" =>
                           actor[a].secret \in Creds \cup {None}

\* Someone holds x, or held it once.
Used(x) ==
  \/ x \in {file.credential, file.pairing} \cup revoked
  \/ \E a \in Actors : x \in {actor[a].secret, actor[a].config.credential, actor[a].config.pairing}
  \/ \E g \in granted : g[1] = x

\* A secret is used only when the actor that generated it has written it.
UsedIsDone == \A x \in Actors : Used(x) => Phase(x) = "done"

\* What operation o with secret s expects of the config f.
Expects(o, s, f) ==
  /\ o = "enable" => f.credential = None
  /\ o = "pair"   => f.pairing = s
  /\ o = "rotate" => f.credential # None

\* What actor a, being in state e, may rely on when the file is f.
Relies(a, e, f) ==
  /\ a \in Commands /\ e.phase = "loaded" => e.config = f
  /\ e.phase \in {"checked", "read"} => Expects(e.op, e.secret, f)
  /\ e.phase = "read" => e.config = f

LooksHold == \A a \in Actors \ behind : Relies(a, actor[a], file)

\* The config e was loaded with does not let its secret in.
Hopeless(e) == e.secret \notin {e.config.credential, e.config.pairing}

Shut ==
  ~overlapped =>
    /\ RevokedIsGone
    /\ \A g \in granted : g[1] # file.pairing
    /\ \A r \in Requests : actor[r].late => Phase(r) = "loaded" /\ Hopeless(actor[r])

IInv ==
  /\ TypeOK /\ Doing /\ UsedIsDone /\ LooksHold /\ Shut
  /\ PairedOrPairing /\ SingleUse /\ RevokedIsRefused

-----------------------------------------------------------------------------
\* The states an actor can be given.
LEMMA ActorTypes ==
  /\ Begin \in ActorState /\ [Begin EXCEPT !.phase = "refused"] \in ActorState
  /\ \A e \in ActorState, p \in Phases : [e EXCEPT !.phase = p] \in ActorState
  /\ \A e \in ActorState, f \in Configs : [e EXCEPT !.phase = "read", !.config = f] \in ActorState
  /\ \A e \in ActorState :
       [e EXCEPT !.phase = "done", !.secret = None, !.config = Fresh] \in ActorState
<1>1. Fresh \in Configs
  BY DEF Fresh, Configs
<1>2. Begin \in ActorState /\ [Begin EXCEPT !.phase = "refused"] \in ActorState
  BY <1>1 DEF Begin, ActorState, Phases
<1>3. \A e \in ActorState, p \in Phases : [e EXCEPT !.phase = p] \in ActorState
  BY DEF ActorState
<1>4. \A e \in ActorState, f \in Configs : [e EXCEPT !.phase = "read", !.config = f] \in ActorState
  BY DEF ActorState, Phases
<1>5. \A e \in ActorState :
        [e EXCEPT !.phase = "done", !.secret = None, !.config = Fresh] \in ActorState
  BY <1>1 DEF ActorState, Phases
<1> QED
  BY <1>2, <1>3, <1>4, <1>5

\* The state of an actor that begins with a secret of a fitting kind.
LEMMA LoadedType ==
  ASSUME NEW o \in RequestOps \cup CommandOps, NEW s \in Creds \cup Codes \cup {None},
         NEW f \in Configs
  PROVE  /\ Loaded(o, s, f) \in ActorState
         /\ Loaded(o, s, f).phase = "loaded" /\ Loaded(o, s, f).op = o
         /\ Loaded(o, s, f).secret = s /\ Loaded(o, s, f).config = f
         /\ Loaded(o, s, f).late = (s \in revoked)
<1>1. (s \in revoked) \in BOOLEAN
  OBVIOUS
<1>2. Loaded(o, s, f) = [phase |-> "loaded", op |-> o, secret |-> s, config |-> f, late |-> s \in revoked]
  BY DEF Loaded
<1>3. Loaded(o, s, f) \in ActorState
  BY <1>1, <1>2 DEF ActorState, Phases
<1> QED
  BY <1>2, <1>3

-----------------------------------------------------------------------------
\* What the new state e of actor a must satisfy when the file stays as it is.
Fits(a, e) ==
  /\ e \in ActorState
  /\ e.phase \in Busy =>
       /\ a \in Requests => e.op \in RequestOps
       /\ a \in Commands => e.op \in CommandOps
       /\ e.op = "pair" => e.secret \in Codes
       /\ e.op = "setCredential" => e.secret \in Creds \cup {None}
  /\ a \in Commands => e.phase # "authed"
  /\ \A x \in Actors : x \in {e.secret, e.config.credential, e.config.pairing} => Used(x)
  /\ ~overlapped /\ a \in Requests /\ e.late => e.phase = "loaded" /\ Hopeless(e)

\* A step of one actor that leaves the file alone.
LEMMA ActorStep ==
  ASSUME IInv, NEW a \in Actors, NEW e, Fits(a, e),
         actor' = [actor EXCEPT ![a] = e],
         Phase(a) # "done",
         running' \in Requests \cup {None},
         running' = running \/ running \in {None, a},
         a \in Requests /\ e.phase \in {"authed", "checked", "read"} => e.op # "use" /\ running' = a,
         behind' = behind \/ behind' = behind \ {a},
         a \notin behind' => Relies(a, e, file),
         UNCHANGED <<file, server, expired, revoked, granted, overlapped, byHand>>
  PROVE  IInv'
<1>1. /\ actor \in [Actors -> ActorState] /\ actor'[a] = e
      /\ \A b \in Actors \ {a} : actor'[b] = actor[b]
  BY DEF IInv, TypeOK
<1>2. /\ Phase(a)' = e.phase
      /\ \A b \in Actors \ {a} : Phase(b)' = Phase(b)
  BY <1>1 DEF Phase
<1>3. TypeOK'
  <2>1. actor' \in [Actors -> ActorState]
    BY <1>1 DEF Fits
  <2>2. behind' \in SUBSET Actors
    BY DEF IInv, TypeOK
  <2> QED
    BY <2>1, <2>2 DEF IInv, TypeOK
<1>4. Doing'
  <2>1. \A r \in Requests : Phase(r)' \in Busy => actor'[r].op \in RequestOps
    BY <1>1, <1>2 DEF Actors, IInv, Doing, Fits
  <2>2. \A r \in Requests : Phase(r)' \in {"authed", "checked", "read"} =>
                              actor'[r].op # "use" /\ running' = r
    <3>1. SUFFICES ASSUME NEW r \in Requests, Phase(r)' \in {"authed", "checked", "read"}
                   PROVE  actor'[r].op # "use" /\ running' = r
      OBVIOUS
    <3>2. CASE r = a
      BY <1>1, <1>2, <3>1, <3>2
    <3>3. CASE r # a
      <4>1. actor'[r] = actor[r] /\ running = r
        BY <1>1, <1>2, <3>1, <3>3 DEF Actors, IInv, Doing
      <4>2. r # None
        BY ActorAssumption
      <4> QED
        BY <1>2, <3>1, <3>3, <4>1, <4>2 DEF Actors, IInv, Doing
    <3> QED
      BY <3>2, <3>3
  <2>3. \A k \in Commands : /\ Phase(k)' \in Busy => actor'[k].op \in CommandOps
                            /\ Phase(k)' # "authed"
    BY <1>1, <1>2 DEF Actors, IInv, Doing, Fits
  <2>4. \A b \in Actors : Phase(b)' \in Busy =>
          /\ actor'[b].op = "pair" => actor'[b].secret \in Codes
          /\ actor'[b].op = "setCredential" => actor'[b].secret \in Creds \cup {None}
    BY <1>1, <1>2 DEF IInv, Doing, Fits
  <2> QED
    BY <2>1, <2>2, <2>3, <2>4 DEF Doing
<1>5. UsedIsDone'
  <2>1. SUFFICES ASSUME NEW x \in Actors, Used(x)'
                 PROVE  Phase(x)' = "done"
    BY DEF UsedIsDone
  <2>2. Used(x)
    BY <1>1, <2>1 DEF Used, Fits
  <2>3. Phase(x) = "done"
    BY <2>2 DEF IInv, UsedIsDone
  <2> QED
    BY <1>2, <2>3
<1>6. LooksHold'
  BY <1>1 DEF IInv, LooksHold
<1>7. Shut' /\ PairedOrPairing' /\ SingleUse'
  <2>1. ~overlapped => \A r \in Requests : actor'[r].late => Phase(r)' = "loaded" /\ Hopeless(actor'[r])
    BY <1>1, <1>2 DEF IInv, Shut, Fits, Actors
  <2> QED
    BY <2>1 DEF IInv, Shut, PairedOrPairing, SingleUse, RevokedIsGone, Hopeless
<1>8. RevokedIsRefused'
  BY <1>7 DEF Shut, RevokedIsRefused
<1> QED
  BY <1>3, <1>4, <1>5, <1>6, <1>7, <1>8 DEF IInv
-----------------------------------------------------------------------------
\* The node starts with no request or command at work.
LEMMA InitIInv == Init => IInv
<1> SUFFICES ASSUME Init
             PROVE  IInv
  OBVIOUS
<1>1. /\ file.credential \in {None, FirstCred} /\ file.pairing \in {None, FirstCode}
      /\ file \in Configs
      /\ file.credential = None \/ file.pairing = None
      /\ file.enabled \/ (file.credential = None /\ file.pairing = None)
  <2>1. /\ Fresh \in Configs /\ Fresh.enabled = FALSE
        /\ Fresh.credential = None /\ Fresh.pairing = None
    BY DEF Fresh, Configs
  <2>2. /\ [Fresh EXCEPT !.enabled = TRUE, !.pairing = FirstCode] \in Configs
        /\ [Fresh EXCEPT !.enabled = TRUE, !.pairing = FirstCode].enabled = TRUE
        /\ [Fresh EXCEPT !.enabled = TRUE, !.pairing = FirstCode].credential = None
        /\ [Fresh EXCEPT !.enabled = TRUE, !.pairing = FirstCode].pairing = FirstCode
    BY DEF Fresh, Configs, Codes
  <2>3. /\ [Fresh EXCEPT !.enabled = TRUE, !.credential = FirstCred] \in Configs
        /\ [Fresh EXCEPT !.enabled = TRUE, !.credential = FirstCred].enabled = TRUE
        /\ [Fresh EXCEPT !.enabled = TRUE, !.credential = FirstCred].credential = FirstCred
        /\ [Fresh EXCEPT !.enabled = TRUE, !.credential = FirstCred].pairing = None
    BY DEF Fresh, Configs, Creds
  <2> QED
    BY <2>1, <2>2, <2>3 DEF Init
<1>2. /\ \A a \in Actors : actor[a] = Begin /\ Phase(a) = "idle"
      /\ actor \in [Actors -> ActorState]
  BY ActorTypes DEF Init, Phase, Begin
<1>3. /\ Begin.phase = "idle" /\ Begin.secret = None /\ Begin.late = FALSE
      /\ Begin.config.credential = None /\ Begin.config.pairing = None
  BY DEF Begin, Fresh
<1>4. TypeOK
  BY <1>1, <1>2 DEF Init, TypeOK
<1>5. Doing
  BY <1>2 DEF Doing, Actors, Busy
<1>6. UsedIsDone
  <2>1. \A x : Used(x) => x \in {None, FirstCred, FirstCode}
    BY <1>1, <1>2, <1>3 DEF Init, Used
  <2> QED
    BY <2>1, ActorAssumption DEF UsedIsDone, Actors
<1>7. LooksHold
  BY <1>2, <1>3 DEF LooksHold, Relies
<1>8. Shut /\ RevokedIsRefused
  BY <1>2, <1>3 DEF Init, Shut, RevokedIsGone, RevokedIsRefused, Actors
<1> QED
  BY <1>1, <1>4, <1>5, <1>6, <1>7, <1>8 DEF Init, IInv, PairedOrPairing, SingleUse

-----------------------------------------------------------------------------
\* An actor that has its phase changed, or that ends, still fits.
LEMMA ChangedFits ==
  ASSUME IInv, NEW a \in Actors
  PROVE  /\ \A p \in Phases :
              LET e == [actor[a] EXCEPT !.phase = p] IN
              /\ e.phase = p /\ e.op = actor[a].op /\ e.secret = actor[a].secret
              /\ e.config = actor[a].config /\ e.late = actor[a].late /\ e \in ActorState
         /\ Fits(a, [Begin EXCEPT !.phase = "refused"])
         /\ [Begin EXCEPT !.phase = "refused"].phase = "refused"
<1>1. actor[a] \in ActorState
  BY DEF IInv, TypeOK
<1>2. /\ \A p \in Phases : [actor[a] EXCEPT !.phase = p] \in ActorState
      /\ [Begin EXCEPT !.phase = "refused"] \in ActorState
  BY <1>1, ActorTypes
<1>3. \A p \in Phases :
        LET e == [actor[a] EXCEPT !.phase = p] IN
        /\ e.phase = p /\ e.op = actor[a].op /\ e.secret = actor[a].secret
        /\ e.config = actor[a].config /\ e.late = actor[a].late /\ e \in ActorState
  BY <1>1, <1>2 DEF ActorState
<1>4. /\ [Begin EXCEPT !.phase = "refused"].phase = "refused"
      /\ [Begin EXCEPT !.phase = "refused"].secret = None
      /\ [Begin EXCEPT !.phase = "refused"].config = Fresh
      /\ [Begin EXCEPT !.phase = "refused"].late = FALSE
      /\ Fresh.credential = None /\ Fresh.pairing = None
  BY DEF Begin, Fresh
<1>5. Fits(a, [Begin EXCEPT !.phase = "refused"])
  BY <1>2, <1>4, ActorAssumption DEF Fits, Busy, Actors
<1> QED
  BY <1>3, <1>4, <1>5

\* An actor begins: what it presents is known, so nobody is yet to generate it.
LEMMA BeginStep ==
  ASSUME IInv, NEW a \in Actors, NEW o \in RequestOps \cup CommandOps,
         a \in Requests => o \in RequestOps, a \in Commands => o \in CommandOps,
         NEW s \in Known(Creds \cup Codes) \cup {None}, o = "pair" => s \in Codes,
         o = "setCredential" => s \in Creds \cup {None},
         Phase(a) = "idle",
         actor' = [actor EXCEPT ![a] = Loaded(o, s, file)],
         UNCHANGED <<file, server, running, expired, ghost>>
  PROVE  IInv'
<1> DEFINE e == Loaded(o, s, file)
<1>1. /\ s \in Creds \cup Codes \cup {None} /\ file \in Configs
      /\ s # None => s \in revoked \cup {file.credential, file.pairing}
  BY DEF IInv, TypeOK, Known
<1>2. /\ e \in ActorState /\ e.phase = "loaded" /\ e.op = o /\ e.secret = s /\ e.config = file
      /\ e.late = (s \in revoked)
  BY <1>1, LoadedType
<1> HIDE DEF e
<1>3. Fits(a, e)
  <2>1. \A x \in Actors : x \in {e.secret, e.config.credential, e.config.pairing} => Used(x)
    BY <1>1, <1>2, ActorAssumption DEF Used, Actors
  <2>2. ~overlapped /\ e.late => Hopeless(e)
    <3>1. e.late => s \in revoked
      BY <1>2, Zenon
    <3> QED
      BY <1>2, <3>1 DEF IInv, Shut, RevokedIsGone, Hopeless
  <2> QED
    BY <1>2, <2>1, <2>2 DEF Fits
<1>4. Relies(a, e, file)
  BY <1>2 DEF Relies
<1>5. actor' = [actor EXCEPT ![a] = e]
  BY DEF e
<1>6. /\ UNCHANGED <<file, server, expired, revoked, granted, overlapped, byHand>>
      /\ behind' = behind /\ running' = running /\ running' \in Requests \cup {None}
  BY DEF IInv, TypeOK, ghost
<1>7. Phase(a) # "done"
  OBVIOUS
<1> QED
  BY <1>2, <1>3, <1>4, <1>5, <1>6, <1>7, ActorStep
-----------------------------------------------------------------------------
\* A step of Arrive preserves the invariant.
LEMMA ArriveStep ==
  ASSUME IInv, NEW r \in Requests, NEW o \in RequestOps, NEW s \in Known(Creds \cup Codes),
         o = "pair" => s \in Codes, Arrive(r, o, s)
  PROVE  IInv'
<1>1. r \in Actors /\ r \notin Commands /\ o # "setCredential"
  BY ActorAssumption DEF Actors, RequestOps
<1> QED
  BY <1>1, BeginStep DEF Arrive

\* A step of Start preserves the invariant.
LEMMA StartStep ==
  ASSUME IInv, NEW k \in Commands, NEW o \in CommandOps,
         NEW s \in Known(Creds \cup Codes) \cup {None},
         o = "pair" => s \in Codes, o = "setCredential" => s \in Creds \cup {None},
         Start(k, o, s)
  PROVE  IInv'
<1>1. k \in Actors /\ k \notin Requests
  BY ActorAssumption DEF Actors
<1> QED
  BY <1>1, BeginStep DEF Start

\* A step of Refuse preserves the invariant.
LEMMA RefuseStep ==
  ASSUME IInv, NEW r \in Requests, Refuse(r)
  PROVE  IInv'
<1> DEFINE e == [Begin EXCEPT !.phase = "refused"]
<1>1. r \in Actors
  BY DEF Actors
<1>2. /\ actor' = [actor EXCEPT ![r] = e] /\ Phase(r) = "loaded"
      /\ UNCHANGED <<file, server, expired, revoked, granted, overlapped, byHand>>
      /\ behind' = behind /\ running' = running /\ running' \in Requests \cup {None}
  BY DEF Refuse, Refused, IInv, TypeOK, ghost
<1>3. Fits(r, e) /\ e.phase = "refused"
  BY <1>1, ChangedFits
<1> HIDE DEF e
<1>4. Relies(r, e, file)
  BY <1>3 DEF Relies
<1> QED
  BY <1>1, <1>2, <1>3, <1>4, ActorStep

\* A step of Authenticate preserves the invariant.  No late request gets
\* through: the config it was loaded with does not let its secret in.
LEMMA AuthenticateStep ==
  ASSUME IInv, NEW r \in Requests, Authenticate(r)
  PROVE  IInv'
<1>1. r \in Actors /\ r \notin Commands
  BY ActorAssumption DEF Actors
<1>2. /\ UNCHANGED <<file, server, expired, revoked, granted, overlapped, byHand>>
      /\ behind' = behind /\ Phase(r) = "loaded" /\ running = None
  BY DEF Authenticate, ghost
<1>3. ~overlapped => ~actor[r].late
  <2>1. ~Hopeless(actor[r])
    BY DEF Authenticate, Matches, Hopeless
  <2> QED
    BY <2>1 DEF IInv, Shut
<1>4. CASE actor[r].op = "use"
  <2> DEFINE e == [actor[r] EXCEPT !.phase = "done", !.secret = None, !.config = Fresh]
  <2>1. actor' = [actor EXCEPT ![r] = e] /\ running' = running
    BY <1>4, <1>1 DEF Authenticate, Done, IInv, TypeOK
  <2>2. actor[r] \in ActorState
    BY <1>1 DEF IInv, TypeOK
  <2>3. /\ e \in ActorState /\ e.phase = "done" /\ e.secret = None /\ e.config = Fresh
        /\ e.late = actor[r].late
    BY <2>2, ActorTypes DEF ActorState
  <2> HIDE DEF e
  <2>4. Fresh.credential = None /\ Fresh.pairing = None
    BY DEF Fresh
  <2>5. Fits(r, e)
    BY <1>1, <1>3, <2>3, <2>4, ActorAssumption DEF Fits, Busy, Actors
  <2>6. Relies(r, e, file)
    BY <2>3 DEF Relies
  <2>7. running' \in Requests \cup {None}
    BY <1>2, <2>1
  <2> QED
    BY <1>1, <1>2, <2>1, <2>3, <2>5, <2>6, <2>7, ActorStep
<1>5. CASE actor[r].op # "use"
  <2> DEFINE e == [actor[r] EXCEPT !.phase = "authed"]
  <2>1. actor' = [actor EXCEPT ![r] = e] /\ running' = r
    BY <1>5, <1>1 DEF Authenticate, Move, IInv, TypeOK
  <2>2. /\ e.phase = "authed" /\ e.op = actor[r].op /\ e.secret = actor[r].secret
        /\ e.config = actor[r].config /\ e.late = actor[r].late /\ e \in ActorState
    BY <1>1, ChangedFits DEF Phases
  <2> HIDE DEF e
  <2>3. Fits(r, e)
    <3>1. \A x \in Actors : x \in {e.secret, e.config.credential, e.config.pairing} => Used(x)
      BY <1>1, <2>2 DEF Used
    <3>2. /\ e.op \in RequestOps /\ (e.op = "pair" => e.secret \in Codes)
          /\ e.op # "setCredential"
      BY <1>1, <1>2, <2>2 DEF IInv, Doing, Busy, RequestOps
    <3> QED
      BY <1>1, <1>3, <2>2, <3>1, <3>2 DEF Fits
  <2>4. Relies(r, e, file)
    BY <1>1, <2>2 DEF Relies
  <2> QED
    BY <1>1, <1>2, <1>5, <2>1, <2>2, <2>3, <2>4, ActorStep
<1> QED
  BY <1>4, <1>5

\* An actor at work that goes on still fits; a late request does not go on.
LEMMA OnwardFits ==
  ASSUME IInv, NEW a \in Actors, NEW e \in ActorState, Phase(a) \in Busy,
         e.phase \in {"checked", "read"}, e.op = actor[a].op, e.secret = actor[a].secret,
         e.config = actor[a].config \/ e.config = file, e.late = actor[a].late,
         a \in Requests => Phase(a) # "loaded"
  PROVE  Fits(a, e)
<1>1. \A x \in Actors : x \in {e.secret, e.config.credential, e.config.pairing} => Used(x)
  BY DEF Used
<1>2. /\ a \in Requests => e.op \in RequestOps
      /\ a \in Commands => e.op \in CommandOps
      /\ e.op = "pair" => e.secret \in Codes
      /\ e.op = "setCredential" => e.secret \in Creds \cup {None}
  BY DEF IInv, Doing
<1>3. ~overlapped /\ a \in Requests => ~e.late
  BY DEF IInv, Shut
<1> QED
  BY <1>1, <1>2, <1>3 DEF Fits

\* A step of Recheck preserves the invariant.
LEMMA RecheckStep ==
  ASSUME IInv, NEW r \in Requests, Recheck(r)
  PROVE  IInv'
<1>1. r \in Actors /\ r \notin Commands
  BY ActorAssumption DEF Actors
<1>2. /\ UNCHANGED <<file, server, expired, revoked, granted, overlapped, byHand>>
      /\ behind' = behind \ {r} /\ Phase(r) = "authed"
  BY DEF Recheck
<1>3. actor[r].op # "use" /\ running = r /\ actor[r].op \in RequestOps
  BY <1>2 DEF IInv, Doing, Busy
<1>4. CASE HandlerAccepts(r)
  <2> DEFINE e == [actor[r] EXCEPT !.phase = "checked"]
  <2>1. actor' = [actor EXCEPT ![r] = e] /\ running' = running
    BY <1>1, <1>4 DEF Recheck, Move, IInv, TypeOK
  <2>2. /\ e.phase = "checked" /\ e.op = actor[r].op /\ e.secret = actor[r].secret
        /\ e.config = actor[r].config /\ e.late = actor[r].late /\ e \in ActorState
    BY <1>1, ChangedFits DEF Phases
  <2> HIDE DEF e
  <2>3. Fits(r, e)
    BY <1>1, <1>2, <2>2, OnwardFits DEF Busy
  <2>4. Relies(r, e, file)
    BY <1>1, <1>3, <1>4, <2>2 DEF Relies, Expects, HandlerAccepts, Matches, RequestOps
  <2> QED
    BY <1>1, <1>2, <1>3, <2>1, <2>2, <2>3, <2>4, ActorStep
<1>5. CASE ~HandlerAccepts(r)
  <2> DEFINE e == [Begin EXCEPT !.phase = "refused"]
  <2>1. actor' = [actor EXCEPT ![r] = e] /\ running' = None
    BY <1>5 DEF Recheck, Refused
  <2>2. Fits(r, e) /\ e.phase = "refused"
    BY <1>1, ChangedFits
  <2> HIDE DEF e
  <2>3. Relies(r, e, file)
    BY <2>2 DEF Relies
  <2> QED
    BY <1>1, <1>2, <1>3, <2>1, <2>2, <2>3, ActorStep
<1> QED
  BY <1>4, <1>5

\* A step of Check preserves the invariant: unless the file changed under it,
\* the command's copy of the config is still the file.
LEMMA CheckStep ==
  ASSUME IInv, NEW k \in Commands, Check(k)
  PROVE  IInv'
<1>1. k \in Actors /\ k \notin Requests
  BY ActorAssumption DEF Actors
<1>2. /\ UNCHANGED <<file, server, expired, revoked, granted, overlapped, byHand>>
      /\ behind' = behind /\ running' = running /\ running' \in Requests \cup {None}
      /\ Phase(k) = "loaded"
  BY DEF Check, ghost, IInv, TypeOK
<1>3. CASE CommandAccepts(k)
  <2> DEFINE e == [actor[k] EXCEPT !.phase = "checked"]
  <2>1. actor' = [actor EXCEPT ![k] = e]
    BY <1>1, <1>3 DEF Check, Move, IInv, TypeOK
  <2>2. /\ e.phase = "checked" /\ e.op = actor[k].op /\ e.secret = actor[k].secret
        /\ e.config = actor[k].config /\ e.late = actor[k].late /\ e \in ActorState
    BY <1>1, ChangedFits DEF Phases
  <2> HIDE DEF e
  <2>3. Fits(k, e)
    BY <1>1, <1>2, <2>2, OnwardFits DEF Busy
  <2>4. k \notin behind => Relies(k, e, file)
    <3>1. k \notin behind => actor[k].config = file
      BY <1>1, <1>2 DEF IInv, LooksHold, Relies, Phase
    <3> QED
      BY <1>3, <2>2, <3>1 DEF Relies, Expects, CommandAccepts, Matches
  <2> QED
    BY <1>1, <1>2, <2>1, <2>2, <2>3, <2>4, ActorStep
<1>4. CASE ~CommandAccepts(k)
  <2> DEFINE e == [Begin EXCEPT !.phase = "refused"]
  <2>1. actor' = [actor EXCEPT ![k] = e]
    BY <1>4 DEF Check, Refused
  <2>2. Fits(k, e) /\ e.phase = "refused"
    BY <1>1, ChangedFits
  <2> HIDE DEF e
  <2>3. Relies(k, e, file)
    BY <2>2 DEF Relies
  <2> QED
    BY <1>1, <1>2, <2>1, <2>2, <2>3, ActorStep
<1> QED
  BY <1>3, <1>4

\* A step of ReadFile preserves the invariant.
LEMMA ReadFileStep ==
  ASSUME IInv, NEW a \in Actors, ReadFile(a)
  PROVE  IInv'
<1> DEFINE e == [actor[a] EXCEPT !.phase = "read", !.config = file]
<1>1. /\ UNCHANGED <<file, server, expired, revoked, granted, overlapped, byHand>>
      /\ behind' = behind /\ running' = running /\ running' \in Requests \cup {None}
      /\ Phase(a) = "checked"
  BY DEF ReadFile, ghost, IInv, TypeOK
<1>2. actor' = [actor EXCEPT ![a] = e]
  BY DEF ReadFile, IInv, TypeOK
<1>3. actor[a] \in ActorState /\ file \in Configs
  BY DEF IInv, TypeOK
<1>4. /\ e \in ActorState /\ e.phase = "read" /\ e.config = file /\ e.op = actor[a].op
      /\ e.secret = actor[a].secret /\ e.late = actor[a].late
  BY <1>3, ActorTypes DEF ActorState
<1> HIDE DEF e
<1>5. Fits(a, e)
  BY <1>1, <1>4, OnwardFits DEF Busy
<1>6. a \notin behind => Relies(a, e, file)
  BY <1>1, <1>4 DEF IInv, LooksHold, Relies, Phase
<1>7. a \in Requests => actor[a].op # "use" /\ running = a
  BY <1>1 DEF IInv, Doing
<1> QED
  BY <1>1, <1>2, <1>4, <1>5, <1>6, <1>7, ActorStep

\* A step of WriteFails preserves the invariant.
LEMMA WriteFailsStep ==
  ASSUME IInv, NEW a \in Actors, WriteFails(a)
  PROVE  IInv'
<1> DEFINE e == [Begin EXCEPT !.phase = "refused"]
<1>1. /\ UNCHANGED <<file, server, expired, revoked, granted, overlapped, byHand>>
      /\ behind' = behind /\ Phase(a) = "read" /\ actor' = [actor EXCEPT ![a] = e]
      /\ running' = IF a \in Requests THEN None ELSE running
  BY DEF WriteFails, Refused, Return, ghost
<1>2. Fits(a, e) /\ e.phase = "refused"
  BY ChangedFits
<1> HIDE DEF e
<1>3. Relies(a, e, file)
  BY <1>2 DEF Relies
<1>4. a \in Requests => running = a
  BY <1>1 DEF IInv, Doing
<1>5. running \in Requests \cup {None}
  BY DEF IInv, TypeOK
<1> QED
  BY <1>1, <1>2, <1>3, <1>4, <1>5, ActorStep
-----------------------------------------------------------------------------
\* What an update makes of a config, operation by operation.
LEMMA UpdatedTo ==
  ASSUME IInv, NEW a \in Actors, Phase(a) = "read"
  PROVE  LET f == actor[a].config
             g == Updated(a) IN
         /\ f \in Configs /\ g \in Configs
         /\ g.credential \in {f.credential, None, a} \cup Typed(a)
         /\ g.pairing \in {f.pairing, None, a}
         /\ Typed(a) \subseteq {actor[a].secret} \cap {g.credential}
         /\ actor[a].op = "pair" => g.pairing = None
         /\ \/ actor[a].op = "enable" /\ g.enabled /\ g.credential = f.credential
            \/ actor[a].op = "pair"   /\ g.enabled = f.enabled /\ g.pairing = None
            \/ actor[a].op = "rotate" /\ g.enabled = f.enabled /\ g.pairing = f.pairing
            \/ actor[a].op \in {"unpair", "disable"} /\ g.credential = None /\ g.pairing = None
            \/ actor[a].op = "set" /\ g = f
            \/ actor[a].op \in HandOps
<1> DEFINE f == actor[a].config
           g == Updated(a)
<1>1. f \in Configs
  BY DEF IInv, TypeOK, ActorState
<1>2. /\ a \in Creds
      /\ a \in Commands => a \in Codes
      /\ actor[a].op # "setCredential" => Typed(a) = {}
  BY DEF Creds, Codes, Typed
<1>3. /\ actor[a].op \in RequestOps \cup CommandOps
      /\ actor[a].op # "use"
      /\ actor[a].op = "enable" => a \in Commands
  BY DEF IInv, Doing, Busy, Actors, RequestOps, CommandOps, HandOps
<1>4. CASE actor[a].op = "enable"
  <2>1. g = [f EXCEPT !.enabled = TRUE, !.pairing = a]
    BY <1>4 DEF Updated, Enabled
  <2> HIDE DEF g, f
  <2>2. /\ g \in Configs /\ g.enabled = TRUE
        /\ g.credential = f.credential /\ g.pairing = a
    BY <1>1, <1>2, <1>3, <1>4, <2>1 DEF Configs
  <2> QED
    BY <1>1, <1>2, <1>4, <2>2 DEF f, g
<1>5. CASE actor[a].op = "pair"
  <2>1. g = [f EXCEPT !.credential = a, !.pairing = None]
    BY <1>5 DEF Updated, Paired
  <2> HIDE DEF g, f
  <2>2. /\ g \in Configs /\ g.enabled = f.enabled
        /\ g.credential = a /\ g.pairing = None
    BY <1>1, <1>2, <2>1 DEF Configs
  <2> QED
    BY <1>1, <1>2, <1>5, <2>2 DEF f, g
<1>6. CASE actor[a].op = "rotate"
  <2>1. g = [f EXCEPT !.credential = a]
    BY <1>6 DEF Updated, Rotated
  <2> HIDE DEF g, f
  <2>2. /\ g \in Configs /\ g.enabled = f.enabled
        /\ g.credential = a /\ g.pairing = f.pairing
    BY <1>1, <1>2, <2>1 DEF Configs
  <2> QED
    BY <1>1, <1>2, <1>6, <2>2 DEF f, g
<1>7. CASE actor[a].op = "unpair"
  <2>1. g = [f EXCEPT !.credential = None, !.pairing = None]
    BY <1>7 DEF Updated, Unpaired
  <2> HIDE DEF g, f
  <2>2. g \in Configs /\ g.credential = None /\ g.pairing = None
    BY <1>1, <2>1 DEF Configs
  <2> QED
    BY <1>1, <1>2, <1>7, <2>2 DEF f, g
<1>8. CASE actor[a].op = "disable"
  <2>1. g = Fresh
    BY <1>8 DEF Updated
  <2> HIDE DEF g, f
  <2>2. g \in Configs /\ g.credential = None /\ g.pairing = None
    BY <2>1 DEF Fresh, Configs
  <2> QED
    BY <1>1, <1>2, <1>8, <2>2 DEF f, g
<1>9. CASE actor[a].op = "set"
  <2>1. g = f
    BY <1>9 DEF Updated
  <2> HIDE DEF g, f
  <2> QED
    BY <1>1, <1>2, <1>9, <2>1 DEF f, g
<1>10. CASE actor[a].op \in {"setEnabled", "setDisabled"}
  <2>1. g = [f EXCEPT !.enabled = TRUE] \/ g = [f EXCEPT !.enabled = FALSE]
    BY <1>10 DEF Updated
  <2> HIDE DEF g, f
  <2>2. /\ g \in Configs /\ g.credential = f.credential /\ g.pairing = f.pairing
    BY <1>1, <1>10, <2>1 DEF Configs
  <2> QED
    BY <1>1, <1>2, <1>10, <2>2 DEF f, g, HandOps
<1>11. CASE actor[a].op = "setCredential"
  <2>1. g = [f EXCEPT !.credential = actor[a].secret]
    BY <1>11 DEF Updated
  <2>2. actor[a].secret \in Creds \cup {None}
    BY <1>11 DEF IInv, Doing, Busy
  <2> HIDE DEF g, f
  <2>3. /\ g \in Configs /\ g.credential = actor[a].secret /\ g.pairing = f.pairing
        /\ Typed(a) = {actor[a].secret}
    BY <1>1, <1>11, <2>1, <2>2 DEF Configs, Typed
  <2> QED
    BY <1>1, <1>11, <2>3 DEF f, g, HandOps
<1>12. CASE actor[a].op = "setNew"
  <2>1. g = [f EXCEPT !.credential = a]
    BY <1>12 DEF Updated, Rotated
  <2> HIDE DEF g, f
  <2>2. /\ g \in Configs /\ g.credential = a /\ g.pairing = f.pairing
    BY <1>1, <1>2, <1>12, <2>1 DEF Configs
  <2> QED
    BY <1>1, <1>2, <1>12, <2>2 DEF f, g, HandOps
<1> QED
  BY <1>3, <1>4, <1>5, <1>6, <1>7, <1>8, <1>9, <1>10, <1>11, <1>12 DEF RequestOps, CommandOps, HandOps

\* The one step that changes the file.
LEMMA WriteFileStep ==
  ASSUME IInv, NEW a \in Actors, WriteFile(a)
  PROVE  IInv'
<1> DEFINE e == [actor[a] EXCEPT !.phase = "done", !.secret = None, !.config = Fresh]
           f == actor[a].config
           g == Updated(a)
<1>1. /\ Phase(a) = "read" /\ file' = g
      /\ revoked' = (revoked \cup ({file.credential, file.pairing} \ {None, g.credential, g.pairing}))
                    \ Typed(a)
      /\ granted' = IF actor[a].op = "pair" THEN granted \cup {<<actor[a].secret, a>>} ELSE granted
      /\ behind' = (behind \cup Looking) \ {a}
      /\ overlapped' = (overlapped \/ a \in behind)
      /\ byHand' = (actor[a].op \in HandOps \/ (byHand /\ actor[a].op \notin {"unpair", "disable"}))
      /\ running' = IF a \in Requests THEN None ELSE running
      /\ server' \in {"down", "up", "closing", "closed", "ended"}
      /\ expired' = expired
  BY DEF WriteFile, Return, IInv, TypeOK
<1>2. /\ actor' = [actor EXCEPT ![a] = e] /\ actor[a] \in ActorState
      /\ actor \in [Actors -> ActorState]
  BY DEF WriteFile, Done, IInv, TypeOK
<1>3. /\ e \in ActorState /\ e.phase = "done" /\ e.secret = None /\ e.config = Fresh
      /\ e.late = actor[a].late
  BY <1>2, ActorTypes DEF ActorState
<1>4. /\ f \in Configs /\ g \in Configs
      /\ g.credential \in {f.credential, None, a} \cup Typed(a)
      /\ g.pairing \in {f.pairing, None, a}
      /\ Typed(a) \subseteq {actor[a].secret} \cap {g.credential}
      /\ actor[a].op = "pair" => g.pairing = None
      /\ \/ actor[a].op = "enable" /\ g.enabled /\ g.credential = f.credential
         \/ actor[a].op = "pair"   /\ g.enabled = f.enabled /\ g.pairing = None
         \/ actor[a].op = "rotate" /\ g.enabled = f.enabled /\ g.pairing = f.pairing
         \/ actor[a].op \in {"unpair", "disable"} /\ g.credential = None /\ g.pairing = None
         \/ actor[a].op = "set" /\ g = f
         \/ actor[a].op \in HandOps
  BY <1>1, UpdatedTo
<1> HIDE DEF e, f, g
<1>5. /\ actor'[a] = e /\ Phase(a)' = "done"
      /\ \A b \in Actors \ {a} : actor'[b] = actor[b] /\ Phase(b)' = Phase(b)
  BY <1>2, <1>3 DEF Phase
<1>6. Fresh.credential = None /\ Fresh.pairing = None /\ None \notin Actors
  BY ActorAssumption DEF Fresh, Actors
<1>7. a \in Requests => running = a
  BY <1>1 DEF IInv, Doing
<1>8. ~Used(a)
  BY <1>1 DEF IInv, UsedIsDone
<1>9. ~overlapped' =>
        /\ ~overlapped /\ a \notin behind /\ f = file
        /\ Expects(actor[a].op, actor[a].secret, file)
  BY <1>1 DEF IInv, LooksHold, Relies, Phase, f
<1>10. TypeOK'
  <2>1. actor' \in [Actors -> ActorState]
    BY <1>2, <1>3
  <2>2. revoked' \in SUBSET (Creds \cup Codes)
    BY <1>1 DEF IInv, TypeOK, Configs
  <2>3. granted' \in SUBSET ((Creds \cup Codes) \X Actors)
    <3>1. actor[a].op = "pair" => actor[a].secret \in Codes
      BY <1>1 DEF IInv, Doing, Busy
    <3> QED
      BY <1>1, <3>1 DEF IInv, TypeOK
  <2>4. behind' \in SUBSET Actors
    BY <1>1 DEF IInv, TypeOK, Looking
  <2>5. overlapped' \in BOOLEAN /\ byHand' \in BOOLEAN
    BY <1>1, Zenon DEF IInv, TypeOK
  <2>6. running' \in Requests \cup {None}
    BY <1>1 DEF IInv, TypeOK
  <2> QED
    BY <1>1, <1>4, <2>1, <2>2, <2>3, <2>4, <2>5, <2>6 DEF IInv, TypeOK
<1>11. Doing'
  <2>1. \A r \in Requests : Phase(r)' \in Busy => actor'[r].op \in RequestOps
    BY <1>5 DEF Actors, IInv, Doing, Busy
  <2>2. \A r \in Requests : Phase(r)' \in {"authed", "checked", "read"} =>
                              actor'[r].op # "use" /\ running' = r
    BY <1>1, <1>5, <1>7 DEF Actors, IInv, Doing
  <2>3. \A k \in Commands : /\ Phase(k)' \in Busy => actor'[k].op \in CommandOps
                            /\ Phase(k)' # "authed"
    BY <1>5 DEF Actors, IInv, Doing, Busy
  <2>4. \A b \in Actors : Phase(b)' \in Busy =>
          /\ actor'[b].op = "pair" => actor'[b].secret \in Codes
          /\ actor'[b].op = "setCredential" => actor'[b].secret \in Creds \cup {None}
    BY <1>5 DEF IInv, Doing, Busy
  <2> QED
    BY <2>1, <2>2, <2>3, <2>4 DEF Doing
<1>12. UsedIsDone'
  <2>1. SUFFICES ASSUME NEW x \in Actors, Used(x)', x # a
                 PROVE  Phase(x)' = "done"
    BY <1>5 DEF UsedIsDone
  <2>2. x \in {g.credential, g.pairing} \cup revoked' => Used(x)
    <3>1. x \in {f.credential, f.pairing} => Used(x)
      BY DEF Used, f
    <3>2. x \in {file.credential, file.pairing} \cup revoked => Used(x)
      BY DEF Used
    <3>3. x \in Typed(a) => Used(x)
      BY <1>4 DEF Used
    <3>4. x # None
      BY <1>6
    <3> QED
      BY <1>1, <1>4, <2>1, <3>1, <3>2, <3>3, <3>4
  <2>3. \A b \in Actors :
          x \in {actor'[b].secret, actor'[b].config.credential, actor'[b].config.pairing} => Used(x)
    BY <1>3, <1>5, <1>6 DEF Used
  <2>4. \A h \in granted' : h[1] = x => Used(x)
    BY <1>1 DEF Used
  <2>5. Used(x)
    BY <1>1, <2>1, <2>2, <2>3, <2>4 DEF Used
  <2> QED
    BY <1>5, <2>1, <2>5 DEF IInv, UsedIsDone
<1>13. LooksHold'
  <2>1. SUFFICES ASSUME NEW b \in Actors, b \notin behind', b # a
                 PROVE  Relies(b, actor[b], g)
    BY <1>1, <1>3, <1>5 DEF LooksHold, Relies
  <2>2. /\ b # running
        /\ b \in Commands => Phase(b) \notin {"loaded", "checked", "read"}
    BY <1>1, <2>1 DEF Looking
  <2>3. b \in Requests => Phase(b) \notin {"checked", "read"}
    BY <2>2 DEF IInv, Doing
  <2> QED
    BY <2>2, <2>3 DEF Relies, Phase, Actors
<1>14. PairedOrPairing'
  <2>1. SUFFICES ASSUME ~overlapped', ~byHand'
                 PROVE  /\ g.credential = None \/ g.pairing = None
                        /\ g.enabled \/ (g.credential = None /\ g.pairing = None)
    BY <1>1 DEF PairedOrPairing
  <2>2. CASE actor[a].op \in {"unpair", "disable"}
    BY <1>4, <2>2 DEF HandOps
  <2>3. CASE actor[a].op \notin {"unpair", "disable"}
    <3>1. ~byHand /\ actor[a].op \notin HandOps
      BY <1>1, <2>1, <2>3
    <3>2. /\ file.credential = None \/ file.pairing = None
          /\ file.enabled \/ (file.credential = None /\ file.pairing = None)
          /\ f = file
      BY <1>9, <2>1, <3>1 DEF IInv, PairedOrPairing
    <3>3. /\ actor[a].op = "enable" => file.credential = None
          /\ actor[a].op = "rotate" => file.credential # None
          /\ actor[a].op = "pair" => file.pairing # None
      <4>1. actor[a].op = "pair" => actor[a].secret # None
        BY <1>1, ActorAssumption DEF IInv, Doing, Busy, Codes
      <4> QED
        BY <1>9, <2>1, <4>1 DEF Expects
    <3> QED
      BY <1>4, <2>3, <3>1, <3>2, <3>3
  <2> QED
    BY <2>2, <2>3
<1>15. SingleUse' /\ (~overlapped' => \A h \in granted' : h[1] # file'.pairing)
  <2>1. SUFFICES ASSUME ~overlapped'
                 PROVE  /\ \A h, i \in granted' : h[1] = i[1] => h = i
                        /\ \A h \in granted' : h[1] # g.pairing
    BY <1>1 DEF SingleUse
  <2>2. /\ \A h, i \in granted : h[1] = i[1] => h = i
        /\ \A h \in granted : h[1] # file.pairing
        /\ f = file
    BY <1>9, <2>1 DEF IInv, SingleUse, Shut
  <2>3. /\ \A h \in granted : h[1] # None /\ h[1] # a
        /\ actor[a].op = "pair" => actor[a].secret # None /\ actor[a].secret = file.pairing
    <3>1. \A h \in granted : h[1] # None
      BY ActorAssumption DEF IInv, TypeOK, Creds, Codes, Actors
    <3>2. actor[a].op = "pair" => actor[a].secret # None
      BY <1>1, ActorAssumption DEF IInv, Doing, Busy, Codes
    <3> QED
      BY <1>8, <1>9, <2>1, <3>1, <3>2 DEF Used, Expects
  <2> QED
    BY <1>1, <1>4, <2>2, <2>3
<1>16. ~overlapped' => RevokedIsGone'
  <2>1. SUFFICES ASSUME ~overlapped'
                 PROVE  {g.credential, g.pairing} \cap revoked' = {}
    BY <1>1 DEF RevokedIsGone
  <2>2. {file.credential, file.pairing} \cap revoked = {} /\ f = file
    BY <1>9, <2>1 DEF IInv, Shut, RevokedIsGone
  <2>3. None \notin revoked
    BY ActorAssumption DEF IInv, TypeOK, Creds, Codes, Actors
  <2>4. a \notin revoked
    BY <1>8 DEF Used
  <2> QED
    BY <1>1, <1>4, <2>2, <2>3, <2>4
<1>17. ~overlapped' => \A r \in Requests :
                         actor'[r].late => Phase(r)' = "loaded" /\ Hopeless(actor'[r])
  <2>1. SUFFICES ASSUME ~overlapped', NEW r \in Requests, actor'[r].late
                 PROVE  Phase(r)' = "loaded" /\ Hopeless(actor'[r])
    OBVIOUS
  <2>2. ~overlapped
    BY <1>9, <2>1
  <2>3. r # a
    BY <1>1, <1>3, <1>5, <2>1, <2>2 DEF IInv, Shut
  <2> QED
    BY <1>5, <2>1, <2>2, <2>3 DEF IInv, Shut, Actors
<1>18. Shut' /\ RevokedIsRefused'
  BY <1>15, <1>16, <1>17 DEF Shut, RevokedIsRefused, Hopeless, RevokedIsGone
<1> QED
  BY <1>10, <1>11, <1>12, <1>13, <1>14, <1>15, <1>18 DEF IInv
-----------------------------------------------------------------------------
\* The steps that touch neither the file nor an actor.
LEMMA QuietStep ==
  ASSUME IInv, Expire \/ Launch \/ CloseServer \/ UNCHANGED vars
  PROVE  IInv'
<1>1. /\ UNCHANGED <<file, actor, running, revoked, granted, behind, overlapped, byHand>>
      /\ server' \in {"down", "up", "closing", "closed", "ended"}
      /\ expired' \in SUBSET Codes
  <2>1. CASE Expire
    BY <2>1 DEF Expire, ghost, IInv, TypeOK, Configs
  <2>2. CASE Launch
    BY <2>2 DEF Launch, ghost, IInv, TypeOK
  <2>3. CASE CloseServer
    BY <2>3 DEF CloseServer, ghost, IInv, TypeOK
  <2>4. CASE UNCHANGED vars
    BY <2>4 DEF vars, IInv, TypeOK
  <2> QED
    BY <2>1, <2>2, <2>3, <2>4
<1>2. TypeOK'
  BY <1>1 DEF IInv, TypeOK
<1>3. (Doing /\ UsedIsDone /\ LooksHold)'
  <2>1. Doing'
    BY <1>1 DEF IInv, Doing, Phase
  <2>2. UsedIsDone'
    BY <1>1 DEF IInv, UsedIsDone, Used, Phase
  <2>3. LooksHold'
    BY <1>1 DEF IInv, LooksHold, Relies, Expects
  <2> QED
    BY <2>1, <2>2, <2>3
<1>4. (Shut /\ PairedOrPairing /\ SingleUse /\ RevokedIsRefused)'
  BY <1>1 DEF IInv, Shut, RevokedIsGone, Hopeless, PairedOrPairing, SingleUse, RevokedIsRefused, Phase
<1> QED
  BY <1>2, <1>3, <1>4 DEF IInv

\* A step of Terminate preserves the invariant: the agent's thread is between
\* requests, so those that are cut have not been authenticated.
LEMMA TerminateStep ==
  ASSUME IInv, Terminate
  PROVE  IInv'
<1> DEFINE e == [Begin EXCEPT !.phase = "refused"]
<1>1. /\ UNCHANGED <<file, running, expired, revoked, granted, behind, overlapped, byHand>>
      /\ server' = "ended"
      /\ actor' = [a \in Actors |-> IF a \in Requests /\ Phase(a) = "loaded" THEN e ELSE actor[a]]
  BY DEF Terminate, ghost
<1>2. /\ e \in ActorState /\ e.phase = "refused" /\ e.secret = None /\ e.late = FALSE
      /\ e.config.credential = None /\ e.config.pairing = None
  BY ActorTypes DEF Begin, Fresh
<1> HIDE DEF e
<1>3. \A a \in Actors : \/ actor'[a] = actor[a] /\ Phase(a)' = Phase(a)
                        \/ actor'[a] = e /\ Phase(a)' = "refused" /\ Phase(a) = "loaded"
  BY <1>1, <1>2 DEF Phase
<1>4. TypeOK'
  <2>1. actor' \in [Actors -> ActorState]
    BY <1>1, <1>2 DEF IInv, TypeOK
  <2> QED
    BY <1>1, <2>1 DEF IInv, TypeOK
<1>5. Doing'
  BY <1>1, <1>3 DEF IInv, Doing, Actors, Busy
<1>6. UsedIsDone'
  <2>1. SUFFICES ASSUME NEW x \in Actors, Used(x)'
                 PROVE  Phase(x)' = "done"
    BY DEF UsedIsDone
  <2>2. x # None
    BY ActorAssumption DEF Actors
  <2>3. Used(x)
    BY <1>1, <1>2, <1>3, <2>1, <2>2 DEF Used
  <2> QED
    BY <1>3, <2>3 DEF IInv, UsedIsDone
<1>7. LooksHold'
  BY <1>1, <1>2, <1>3 DEF IInv, LooksHold, Relies
<1>8. Shut'
  <2>1. \A r \in Requests :
          ~overlapped /\ actor'[r].late => Phase(r)' = "loaded" /\ Hopeless(actor'[r])
    BY <1>2, <1>3 DEF IInv, Shut, Actors
  <2> QED
    BY <1>1, <2>1 DEF IInv, Shut, RevokedIsGone, Hopeless
<1>9. RevokedIsRefused'
  BY <1>8 DEF Shut, RevokedIsRefused
<1>10. PairedOrPairing' /\ SingleUse'
  BY <1>1 DEF IInv, PairedOrPairing, SingleUse
<1> QED
  BY <1>4, <1>5, <1>6, <1>7, <1>8, <1>9, <1>10 DEF IInv

\* Every step preserves the invariant.
LEMMA NextIInv == IInv /\ [Next]_vars => IInv'
<1> SUFFICES ASSUME IInv, [Next]_vars
             PROVE  IInv'
  OBVIOUS
<1>1. ASSUME NEW r \in Requests, NEW s \in Known(Codes), Arrive(r, "pair", s)
      PROVE  IInv'
  BY <1>1, ArriveStep DEF Known, RequestOps
<1>2. ASSUME NEW r \in Requests, NEW o \in RequestOps \ {"pair"}, NEW s \in Known(Creds),
             Arrive(r, o, s)
      PROVE  IInv'
  BY <1>2, ArriveStep DEF Known
<1>3. ASSUME NEW r \in Requests, Refuse(r) \/ Authenticate(r) \/ Recheck(r)
      PROVE  IInv'
  BY <1>3, RefuseStep, AuthenticateStep, RecheckStep
<1>4. ASSUME NEW k \in Commands, NEW s \in Known(Codes), Start(k, "pair", s)
      PROVE  IInv'
  BY <1>4, StartStep DEF Known, CommandOps
<1>5. ASSUME NEW k \in Commands, NEW o \in CommandOps \ {"pair"}, Start(k, o, None)
      PROVE  IInv'
  BY <1>5, StartStep
<1>10. ASSUME NEW k \in Commands, NEW s \in Known(Creds), Start(k, "setCredential", s)
       PROVE  IInv'
  <2>1. s \in Known(Creds \cup Codes) /\ s \in Creds /\ "setCredential" \in CommandOps
    BY DEF Known, CommandOps, HandOps
  <2> QED
    BY <1>10, <2>1, StartStep
<1>6. ASSUME NEW k \in Commands, Check(k)
      PROVE  IInv'
  BY <1>6, CheckStep
<1>7. ASSUME NEW a \in Actors, ReadFile(a) \/ WriteFile(a) \/ WriteFails(a)
      PROVE  IInv'
  BY <1>7, ReadFileStep, WriteFileStep, WriteFailsStep
<1>8. CASE Terminate
  BY <1>8, TerminateStep
<1>9. CASE Expire \/ Launch \/ CloseServer \/ UNCHANGED vars
  BY <1>9, QuietStep
<1> QED
  BY <1>1, <1>2, <1>3, <1>4, <1>5, <1>6, <1>7, <1>8, <1>9, <1>10 DEF Next

\* In every reachable state the inductive invariant holds.
LEMMA Invariance == Spec => []IInv
BY InitIInv, NextIInv, PTL DEF Spec

\* The config, the server and every request and command are well typed.
THEOREM TypesHold == Spec => []TypeOK
<1>1. IInv => TypeOK
  BY DEF IInv
<1> QED
  BY Invariance, <1>1, PTL

\* Unless processes overlapped, or `config set` put a switch or a credential in
\* since the last unpairing or disabling, the config never holds a credential and
\* a pairing code together, and a disabled one holds neither (handlers.ts, api.ts,
\* configCmd.ts).
THEOREM CredentialOrCode == Spec => []PairedOrPairing
<1>1. IInv => PairedOrPairing
  BY DEF IInv
<1> QED
  BY Invariance, <1>1, PTL

\* Unless processes overlapped, a pairing code is exchanged for one credential at
\* most, however many requests present it at once (pairHandler).
THEOREM OneCredentialPerCode == Spec => []SingleUse
<1>1. IInv => SingleUse
  BY DEF IInv
<1> QED
  BY Invariance, <1>1, PTL

\* Unless processes overlapped, no request is served for a secret that was removed
\* before it came (authenticate()).
THEOREM RemovedSecretsRefused == Spec => []RevokedIsRefused
<1>1. IInv => RevokedIsRefused
  BY DEF IInv
<1> QED
  BY Invariance, <1>1, PTL
=============================================================================
