---------------------------- MODULE IdentityProofs ----------------------------
(***************************************************************************)
(* Proofs about the binding of identities, for any number of web requests, *)
(* users, identities and agents: a verified identity was vouched for, a    *)
(* revocation nothing overlapped holds, and the answer to a challenge is   *)
(* accepted while the settings stay as they were.                          *)
(*                                                                         *)
(* A request writes a mapping from copies it took earlier.  The invariant  *)
(* says of each request what it is about to write (RequestOk), and of a    *)
(* user whose revocation is settled that no request holds a copy of her    *)
(* mapping from before (Settled).                                          *)
(***************************************************************************)
EXTENDS IdentityBinding, TLAPS

Fields   == {"op", "arg", "at", "h", "before", "out", "got", "solo"}
Parts    == Options \cup {"old"}
Mappings == [status : {"unbound", "pending", "verified", "revoked"}, uid : Uids \cup {None},
             stored : BOOLEAN]

(* The places of requests about a user.                                      *)
Places(x) ==
    /\ x.at \in {"check", "reread", "pend", "register"} => x.op = "challenge"
    /\ x.at = "mark" => x.op = "callback"
    /\ x.at = "bind" => x.op = "bind"
    /\ x.at \in {"check", "reread", "pend", "register", "mark", "bind"} => x.arg.id \in Users

(* A request is about to write an identity that was vouched for.             *)
Claims(x, V) ==
    /\ x.at \in {"pend", "mark"} => x.got \in Mappings
    /\ x.at = "mark" => x.arg.key.uid \in Uids /\ <<x.arg.id, x.arg.key.uid>> \in V
    /\ x.at = "bind" => /\ x.arg.key \in Mappings
                        /\ x.arg.key.status = "verified" => <<x.arg.id, x.arg.key.uid>> \in V

Answered(x) ==
    /\ x.op = "callback"
    /\ x.arg.key.c.reg = x.before.settings
    /\ x.arg.key.c.agent = x.before.settings.node
    => x.arg.key.out \notin {"unsigned", "unknown_node"}

RequestOk(x, V) == Places(x) /\ Claims(x, V) /\ Answered(x)

Holds(x, u) == x.at \in {"reread", "pend", "mark"} /\ x.arg.id = u

Settled ==
    \A u \in Users : settled[u] => /\ meta[u].status = "revoked"
                                   /\ \A r \in Requests : ~Holds(req[r], u)

(* A request is a record, and a challenge carries the secret of the settings *)
(* it was registered with.                                                   *)
Shaped ==
    /\ req = [r \in Requests |-> req[r]]
    /\ \A r \in Requests : DOMAIN req[r] = Fields /\ req[r] = [k \in Fields |-> req[r][k]]
Secrets == \A c \in chal : c.user \in Users /\ c.secret = c.reg.cred /\ c.secret # None

Formed ==
    /\ DOMAIN site = Parts
    /\ Shaped
    /\ meta \in [Users -> Mappings]
    /\ settled \in [Users -> BOOLEAN]
    /\ Secrets

IInv ==
    /\ Formed
    /\ \A r \in Requests : RequestOk(req[r], vouched)
    /\ VerifiedByProof
    /\ Settled

-----------------------------------------------------------------------------
(* A record of a request, before and after a step that leaves all but its    *)
(* history alone, and one that ends its work.                                *)
Same(x, y) == /\ y.op = x.op /\ y.arg = x.arg /\ y.at = x.at
              /\ y.before = x.before /\ y.out = x.out /\ y.got = x.got
Finished(x, y) == y.op = x.op /\ y.arg = x.arg /\ y.before = x.before /\ y.at = "finish"

LEMMA SameOk ==
    ASSUME NEW x, NEW y, NEW V, NEW W, RequestOk(x, V), Same(x, y), V \subseteq W
    PROVE  RequestOk(y, W)
<1>1. Places(y)
  BY DEF RequestOk, Same, Places
<1>2. Claims(y, W)
  BY DEF RequestOk, Same, Claims
<1>3. Answered(y)
  BY DEF RequestOk, Same, Answered
<1> QED
  BY <1>1, <1>2, <1>3 DEF RequestOk

LEMMA FinishedOk ==
    ASSUME NEW x, NEW y, NEW V, RequestOk(x, V), Finished(x, y)
    PROVE  RequestOk(y, V) /\ \A u : ~Holds(y, u)
BY DEF RequestOk, Finished, Places, Claims, Answered, Holds

(* Migration leaves the settings as they are.                                *)
LEMMA MigrateSettings ==
    ASSUME DOMAIN site = Parts, NEW id
    PROVE  Now(Migrate(<<site>>, id)).settings = site.settings
<1> DEFINE h == <<site>>
<1>1. Now(h) = site /\ Len(h) = 1 /\ h \in Seq({site})
  BY DEF Now
<1>2. ASSUME NEW o \in {"nodes", "active"}, NEW v, NEW w, DOMAIN w = Parts
      PROVE  [w EXCEPT ![o] = v].settings = w.settings /\ DOMAIN [w EXCEPT ![o] = v] = Parts
  BY <1>2 DEF Parts, Options
<1>3. ASSUME NEW g, NEW S, g \in Seq(S), Len(g) > 0, NEW o \in {"nodes", "active"}, NEW v,
             DOMAIN Now(g) = Parts
      PROVE  /\ Now(Put(g, o, v)).settings = Now(g).settings
             /\ DOMAIN Now(Put(g, o, v)) = Parts
             /\ \E T : Put(g, o, v) \in Seq(T)
             /\ Len(Put(g, o, v)) > 0
  <2> DEFINE w == [Now(g) EXCEPT ![o] = v]
  <2>1. w.settings = Now(g).settings /\ DOMAIN w = Parts
    BY <1>2, <1>3
  <2>2. CASE Now(g)[o] = v
    BY <1>3, <2>2 DEF Put
  <2>3. CASE Now(g)[o] # v
    <3>1. Put(g, o, v) = Append(g, w)
      BY <2>3 DEF Put
    <3> HIDE DEF w
    <3>2. g \in Seq(S \cup {w}) /\ w \in S \cup {w}
      BY <1>3
    <3>3. Append(g, w) \in Seq(S \cup {w}) /\ Len(Append(g, w)) = Len(g) + 1
      BY <3>2
    <3>4. Append(g, w)[Len(g) + 1] = w /\ Len(g) \in Nat
      BY <3>2
    <3>5. Now(Append(g, w)) = w
      BY <3>3, <3>4 DEF Now
    <3> QED
      BY <2>1, <3>1, <3>3, <3>4, <3>5, <1>3
  <2> QED
    BY <2>2, <2>3
<1> HIDE DEF h
<1>4. CASE Migrate(h, id) = h
  BY <1>1, <1>4 DEF h
<1>5. CASE Migrate(h, id) # h
  <2>1. \E m, n : Migrate(h, id) = Put(Put(h, "nodes", m), "active", n)
    BY <1>5 DEF Migrate
  <2>2. PICK m, n : Migrate(h, id) = Put(Put(h, "nodes", m), "active", n)
    BY <2>1
  <2>3. /\ Now(Put(h, "nodes", m)).settings = site.settings
        /\ DOMAIN Now(Put(h, "nodes", m)) = Parts
        /\ \E T : Put(h, "nodes", m) \in Seq(T)
        /\ Len(Put(h, "nodes", m)) > 0
    BY <1>1, <1>3
  <2>4. Now(Migrate(h, id)).settings = Now(Put(h, "nodes", m)).settings
    BY <1>3, <2>2, <2>3
  <2> QED
    BY <2>3, <2>4 DEF h
<1> QED
  BY <1>4, <1>5 DEF h

-----------------------------------------------------------------------------
(* What a step is that starts a request, or carries one on.                  *)
LEMMA Begins ==
    ASSUME Shaped, NEW r \in Requests, NEW op, NEW arg, NEW at, NEW h, NEW got,
           BeginWith(r, op, arg, at, h, got)
    PROVE  /\ Shaped'
           /\ req'[r].op = op /\ req'[r].arg = arg /\ req'[r].at = at /\ req'[r].got = got
           /\ req'[r].before = Now(Migrate(<<site>>, LegacyId(r)))
           /\ \A q \in Requests \ {r} : Same(req[q], req'[q])
<1> DEFINE y == [op |-> op, arg |-> arg, at |-> at, h |-> h,
                 before |-> Now(Migrate(<<site>>, LegacyId(r))),
                 out |-> "none", got |-> got, solo |-> \A p \in Requests : ~Running(p)]
<1>1. req' = [q \in Requests |-> IF q = r THEN y ELSE [req[q] EXCEPT !.solo = @ /\ ~Running(q)]]
  BY DEF BeginWith
<1>2. DOMAIN y = Fields /\ y = [k \in Fields |-> y[k]]
  BY DEF Fields
<1>3. /\ y.op = op /\ y.arg = arg /\ y.at = at /\ y.got = got
      /\ y.before = Now(Migrate(<<site>>, LegacyId(r)))
  OBVIOUS
<1> HIDE DEF y
<1>4. \A x, b, z : DOMAIN x = Fields /\ x = [k \in Fields |-> x[k]] /\ z = [x EXCEPT !.solo = b] =>
        DOMAIN z = Fields /\ z = [k \in Fields |-> z[k]] /\ Same(x, z)
  BY DEF Fields, Same
<1>5. \A q \in Requests \ {r} : /\ DOMAIN req'[q] = Fields /\ req'[q] = [k \in Fields |-> req'[q][k]]
                                /\ Same(req[q], req'[q])
  <2> SUFFICES ASSUME NEW q \in Requests \ {r}
               PROVE  /\ DOMAIN req'[q] = Fields /\ req'[q] = [k \in Fields |-> req'[q][k]]
                      /\ Same(req[q], req'[q])
    OBVIOUS
  <2>1. req'[q] = [req[q] EXCEPT !.solo = @ /\ ~Running(q)]
    BY <1>1
  <2>2. DOMAIN req[q] = Fields /\ req[q] = [k \in Fields |-> req[q][k]]
    BY DEF Shaped
  <2>3. \E b : req'[q] = [req[q] EXCEPT !.solo = b]
    BY <2>1, Zenon
  <2>4. PICK b : req'[q] = [req[q] EXCEPT !.solo = b]
    BY <2>3
  <2> QED
    BY <1>4, <2>2, <2>4, Zenon
<1>6. req'[r] = y
  BY <1>1
<1>7. req' = [q \in Requests |-> req'[q]]
  BY <1>1
<1> QED
  BY <1>2, <1>3, <1>5, <1>6, <1>7 DEF Shaped

LEMMA GoesOn ==
    ASSUME Shaped, NEW r \in Requests, NEW y, req' = [req EXCEPT ![r] = y],
           DOMAIN y = Fields, y = [k \in Fields |-> y[k]]
    PROVE  Shaped' /\ req'[r] = y /\ \A q \in Requests \ {r} : req'[q] = req[q] /\ Same(req[q], req'[q])
<1>1. req = [q \in Requests |-> req[q]]
  BY DEF Shaped
<1>2. req'[r] = y /\ \A q \in Requests \ {r} : req'[q] = req[q]
  BY <1>1
<1>3. req' = [q \in Requests |-> req'[q]]
  BY <1>1
<1> QED
  BY <1>2, <1>3 DEF Shaped, Same

(* One request makes the step, and changes no mapping.                       *)
LEMMA OneRequest ==
    ASSUME IInv, NEW r \in Requests, DOMAIN site' = Parts, Shaped', Secrets',
           \A q \in Requests \ {r} : Same(req[q], req'[q]),
           RequestOk(req'[r], vouched'), vouched \subseteq vouched',
           UNCHANGED <<meta, settled>>,
           \A u \in Users : settled[u] => ~Holds(req'[r], u)
    PROVE  IInv'
<1>1. Formed'
  BY DEF IInv, Formed
<1>2. \A q \in Requests : RequestOk(req'[q], vouched')
  <2> SUFFICES ASSUME NEW q \in Requests, q # r PROVE RequestOk(req'[q], vouched')
    OBVIOUS
  <2>1. RequestOk(req[q], vouched) /\ Same(req[q], req'[q])
    BY DEF IInv
  <2> QED
    BY <2>1, SameOk
<1>3. VerifiedByProof'
  BY DEF IInv, VerifiedByProof
<1>4. Settled'
  <2>1. \A q \in Requests \ {r}, u \in Users : Holds(req'[q], u) => Holds(req[q], u)
    BY DEF Same, Holds
  <2> QED
    BY <2>1 DEF IInv, Settled
<1> QED
  BY <1>1, <1>2, <1>3, <1>4 DEF IInv

-----------------------------------------------------------------------------
(* At the start no request is under way and nobody is bound.                 *)
LEMMA InitIInv == Init => IInv
<1> SUFFICES ASSUME Init PROVE IInv
  OBVIOUS
<1>1. DOMAIN site = Parts
  BY SitesAssumption DEF Init, NodeInit, Parts, Options
<1>2. DOMAIN Idle = Fields /\ Idle = [k \in Fields |-> Idle[k]] /\ Idle.at = "idle" /\ Idle.op = "none"
  BY DEF Idle, Fields
<1>3. req = [r \in Requests |-> Idle]
  BY DEF Init, NodeInit
<1>4. Shaped
  BY <1>2, <1>3 DEF Shaped
<1>5. \A r \in Requests : RequestOk(req[r], vouched)
  BY <1>2, <1>3 DEF RequestOk, Places, Claims, Answered
<1>6. meta \in [Users -> Mappings] /\ \A u \in Users : meta[u].status # "verified"
  BY DEF Init, Unbound, Mappings
<1>7. settled \in [Users -> BOOLEAN] /\ \A u \in Users : ~settled[u]
  BY DEF Init
<1>8. Secrets
  <2> DEFINE J == {j \in DOMAIN site.nodes : site.nodes[j].cred # None /\ site.settings.cred # None}
  <2>1. chal = {} \/ \E u \in Users, i \in J : chal = {Challenge(u, site.nodes[i].endpoint, site.settings)}
    BY DEF Init
  <2> QED
    BY <2>1 DEF Secrets, Challenge
<1> QED
  BY <1>1, <1>4, <1>5, <1>6, <1>7, <1>8 DEF IInv, Formed, VerifiedByProof, Settled

(* The requests that administer nodes touch no mapping.                      *)
LEMMA NodeRequest ==
    ASSUME IInv, NEW r \in Requests, NodeStep(r), UNCHANGED idVars
    PROVE  IInv'
<1>1. Shaped /\ DOMAIN site = Parts /\ RequestOk(req[r], vouched) /\ DOMAIN req[r] = Fields
  BY DEF IInv, Formed, Shaped
<1>2. DOMAIN site' = Parts
  BY <1>1 DEF NodeStep, NodeAdd, NodeUpdate, NodeDelete, SwitchNode, SaveSettings, Pair, PairCall,
     Forward, ForwardCall, Status, FetchSnapshot, WriteOption
<1>3. /\ Shaped' /\ \A q \in Requests \ {r} : Same(req[q], req'[q])
      /\ \/ Same(req[r], req'[r]) \/ Finished(req[r], req'[r])
         \/ req'[r].op # "callback" /\ req'[r].at \in {"finish", "pair", "forward", "fetch"}
  <2>1. CASE \E op \in {"add", "update", "delete", "switch", "save", "pair", "forward", "status"},
                at \in {"finish", "pair", "forward", "fetch"} :
                \E arg, h, got : BeginWith(r, op, arg, at, h, got)
    BY <1>1, <2>1, Begins
  <2>2. CASE PairCall(r)
    <3>1. \E h, out, got : req' = [req EXCEPT ![r] = [@ EXCEPT !.h = h, !.at = "finish", !.out = out, !.got = got]]
      <4> DEFINE a == req[r].arg.agent
                 c == <<a, agent[a] + 1>>
      <4>1. \E h \in {PairGranted(req[r].h, r, a, c), PairFailed(req[r].h, r, req[r].arg.id)},
               out \in {"ok", "failed"}, got \in {c, None} :
              req' = [req EXCEPT ![r] = [@ EXCEPT !.h = Log(h, r), !.at = "finish", !.out = out, !.got = got]]
        BY <2>2 DEF PairCall
      <4> QED
        BY <4>1
    <3>2. PICK h, out, got : req' = [req EXCEPT ![r] = [@ EXCEPT !.h = h, !.at = "finish", !.out = out, !.got = got]]
      BY <3>1
    <3> DEFINE y == [req[r] EXCEPT !.h = h, !.at = "finish", !.out = out, !.got = got]
    <3>3. DOMAIN y = Fields /\ y = [k \in Fields |-> y[k]] /\ Finished(req[r], y)
      BY <1>1 DEF Fields, Finished
    <3>4. req' = [req EXCEPT ![r] = y]
      BY <1>1, <3>2 DEF Shaped
    <3> HIDE DEF y
    <3> QED
      BY <1>1, <3>3, <3>4, GoesOn
  <2>3. CASE ForwardCall(r)
    <3>1. \E h, out : req' = [req EXCEPT ![r].h = h, ![r].at = "finish", ![r].out = out]
      BY <2>3 DEF ForwardCall
    <3>2. PICK h, out : req' = [req EXCEPT ![r].h = h, ![r].at = "finish", ![r].out = out]
      BY <3>1
    <3> DEFINE y == [req[r] EXCEPT !.h = h, !.at = "finish", !.out = out]
    <3>3. DOMAIN y = Fields /\ y = [k \in Fields |-> y[k]] /\ Finished(req[r], y)
      BY <1>1 DEF Fields, Finished
    <3>4. req' = [req EXCEPT ![r] = y]
      BY <1>1, <3>2 DEF Shaped
    <3> HIDE DEF y
    <3> QED
      BY <1>1, <3>3, <3>4, GoesOn
  <2>4. CASE FetchSnapshot(r)
    <3>1. \E got : req' = [req EXCEPT ![r] = [@ EXCEPT !.at = "finish", !.got = got]]
      BY <2>4 DEF FetchSnapshot
    <3>2. PICK got : req' = [req EXCEPT ![r] = [@ EXCEPT !.at = "finish", !.got = got]]
      BY <3>1
    <3> DEFINE y == [req[r] EXCEPT !.at = "finish", !.got = got]
    <3>3. DOMAIN y = Fields /\ y = [k \in Fields |-> y[k]] /\ Finished(req[r], y)
      BY <1>1 DEF Fields, Finished
    <3>4. req' = [req EXCEPT ![r] = y]
      BY <1>1, <3>2 DEF Shaped
    <3> HIDE DEF y
    <3> QED
      BY <1>1, <3>3, <3>4, GoesOn
  <2>5. CASE WriteOption(r)
    <3> DEFINE y == [req[r] EXCEPT !.h = Tail(@)]
    <3>1. req' = [req EXCEPT ![r] = y]
      BY <1>1, <2>5 DEF WriteOption, Shaped
    <3>2. DOMAIN y = Fields /\ y = [k \in Fields |-> y[k]] /\ Same(req[r], y)
      BY <1>1 DEF Fields, Same
    <3> HIDE DEF y
    <3> QED
      BY <1>1, <3>1, <3>2, GoesOn
  <2> QED
    BY <2>1, <2>2, <2>3, <2>4, <2>5 DEF NodeStep, NodeAdd, NodeUpdate, NodeDelete, SwitchNode,
       SaveSettings, Pair, Forward, Status, Begin
<1>4. UNCHANGED <<meta, chal, vouched, settled>>
  BY DEF idVars
<1>5. RequestOk(req'[r], vouched') /\ \A u \in Users : settled[u] => ~Holds(req'[r], u)
  <2>1. CASE Same(req[r], req'[r])
    BY <1>1, <1>4, <2>1, SameOk DEF IInv, Settled, Holds, Same
  <2>2. CASE Finished(req[r], req'[r])
    BY <1>1, <1>4, <2>2, FinishedOk
  <2>3. CASE req'[r].op # "callback" /\ req'[r].at \in {"finish", "pair", "forward", "fetch"}
    BY <2>3 DEF RequestOk, Places, Claims, Answered, Holds
  <2> QED
    BY <1>3, <2>1, <2>2, <2>3
<1>6. Secrets'
  BY <1>4 DEF IInv, Formed, Secrets
<1> QED
  BY <1>2, <1>3, <1>4, <1>5, <1>6, OneRequest

-----------------------------------------------------------------------------
(* The challenge of a user: a copy of her mapping is taken when it is open,  *)
(* so not after a settled revocation.                                        *)
LEMMA ChallengeRequest ==
    ASSUME IInv, NEW r \in Requests,
           MeChallenge(r) \/ MeCheck(r) \/ MeReread(r) \/ MePend(r) \/ MeRegister(r)
    PROVE  IInv'
<1>1. /\ Shaped /\ DOMAIN site = Parts /\ RequestOk(req[r], vouched)
      /\ DOMAIN req[r] = Fields /\ req[r] = [k \in Fields |-> req[r][k]]
      /\ meta \in [Users -> Mappings] /\ settled \in [Users -> BOOLEAN] /\ Secrets
  BY DEF IInv, Formed, Shaped
<1>2. /\ UNCHANGED <<site, vouched, settled>> /\ DOMAIN site' = Parts
  BY <1>1 DEF MeChallenge, MeCheck, MeReread, MePend, MeRegister, idVars
<1>3. CASE MeChallenge(r)
  <2>0. PICK u \in Users : \E id, h : BeginWith(r, "challenge", UserArg(u, id), "check", h, None)
    BY <1>3 DEF MeChallenge, Begin
  <2>1. PICK id, h : BeginWith(r, "challenge", UserArg(u, id), "check", h, None)
    BY <2>0
  <2>2. /\ Shaped' /\ \A q \in Requests \ {r} : Same(req[q], req'[q])
        /\ req'[r].op = "challenge" /\ req'[r].arg = UserArg(u, id) /\ req'[r].at = "check"
    BY <1>1, <2>1, Begins
  <2>3. UserArg(u, id).id = u
    BY DEF UserArg, NoArg
  <2>4. RequestOk(req'[r], vouched') /\ \A v \in Users : ~Holds(req'[r], v)
    BY <2>2, <2>3 DEF RequestOk, Places, Claims, Answered, Holds
  <2>5. UNCHANGED <<meta, chal>>
    BY <1>3 DEF MeChallenge, idVars
  <2> QED
    BY <1>1, <1>2, <2>2, <2>4, <2>5, OneRequest DEF Secrets
<1>4. CASE MeCheck(r)
  <2> DEFINE u == req[r].arg.id
             y == IF meta[u].status \in Open THEN [req[r] EXCEPT !.at = "reread"]
                  ELSE [req[r] EXCEPT !.at = "finish", !.out = "resolved"]
  <2>1. req' = [req EXCEPT ![r] = y] /\ req[r].at = "check" /\ UNCHANGED <<meta, chal>>
    BY <1>4 DEF MeCheck, idVars
  <2>2. /\ DOMAIN y = Fields /\ y = [k \in Fields |-> y[k]]
        /\ y.op = req[r].op /\ y.arg = req[r].arg /\ y.before = req[r].before
        /\ y.at = "finish" \/ (y.at = "reread" /\ meta[u].status \in Open)
    BY <1>1 DEF Fields
  <2>3. u \in Users /\ req[r].op = "challenge"
    BY <1>1, <2>1 DEF RequestOk, Places
  <2> HIDE DEF y
  <2>4. RequestOk(y, vouched)
    BY <1>1, <2>2, <2>3 DEF RequestOk, Places, Claims, Answered
  <2>5. \A v \in Users : settled[v] => ~Holds(y, v)
    BY <2>2 DEF IInv, Settled, Holds, Open
  <2>6. Shaped' /\ req'[r] = y /\ \A q \in Requests \ {r} : Same(req[q], req'[q])
    BY <1>1, <2>1, <2>2, GoesOn
  <2> QED
    BY <1>1, <1>2, <2>1, <2>4, <2>5, <2>6, OneRequest DEF Secrets
<1>5. CASE MeReread(r)
  <2> DEFINE u == req[r].arg.id
             y == [req[r] EXCEPT !.at = "pend", !.got = meta[u]]
  <2>1. req' = [req EXCEPT ![r] = y] /\ req[r].at = "reread" /\ UNCHANGED <<meta, chal>>
    BY <1>1, <1>5 DEF MeReread, idVars, Shaped
  <2>2. /\ DOMAIN y = Fields /\ y = [k \in Fields |-> y[k]]
        /\ y.op = req[r].op /\ y.arg = req[r].arg /\ y.before = req[r].before
        /\ y.at = "pend" /\ y.got = meta[u]
    BY <1>1 DEF Fields
  <2>3. u \in Users /\ req[r].op = "challenge" /\ ~settled[u]
    BY <1>1, <2>1 DEF RequestOk, Places, IInv, Settled, Holds
  <2> HIDE DEF y
  <2>4. RequestOk(y, vouched)
    BY <1>1, <2>2, <2>3 DEF RequestOk, Places, Claims, Answered
  <2>5. \A v \in Users : settled[v] => ~Holds(y, v)
    BY <2>2, <2>3 DEF Holds
  <2>6. Shaped' /\ req'[r] = y /\ \A q \in Requests \ {r} : Same(req[q], req'[q])
    BY <1>1, <2>1, <2>2, GoesOn
  <2> QED
    BY <1>1, <1>2, <2>1, <2>4, <2>5, <2>6, OneRequest DEF Secrets
<1>6. CASE MePend(r)
  <2> DEFINE u == req[r].arg.id
             m == [req[r].got EXCEPT !.status = "pending", !.stored = TRUE]
  <2>1. \E h : req' = [req EXCEPT ![r].at = "register", ![r].h = h]
    BY <1>6 DEF MePend
  <2>2. PICK h : req' = [req EXCEPT ![r].at = "register", ![r].h = h]
    BY <2>1
  <2> DEFINE y == [req[r] EXCEPT !.at = "register", !.h = h]
  <2>3. req' = [req EXCEPT ![r] = y]
    BY <1>1, <2>2 DEF Shaped
  <2>4. req[r].at = "pend" /\ meta' = [meta EXCEPT ![u] = m] /\ UNCHANGED chal
    BY <1>6 DEF MePend
  <2>5. /\ DOMAIN y = Fields /\ y = [k \in Fields |-> y[k]]
        /\ y.op = req[r].op /\ y.arg = req[r].arg /\ y.before = req[r].before /\ y.at = "register"
    BY <1>1 DEF Fields
  <2>6. u \in Users /\ req[r].op = "challenge" /\ ~settled[u] /\ req[r].got \in Mappings
    BY <1>1, <2>4 DEF RequestOk, Places, Claims, IInv, Settled, Holds
  <2>7. m \in Mappings /\ m.status = "pending"
    BY <2>6 DEF Mappings
  <2> HIDE DEF y, m
  <2>8. RequestOk(y, vouched) /\ \A v \in Users : ~Holds(y, v)
    BY <1>1, <2>5, <2>6 DEF RequestOk, Places, Claims, Answered, Holds
  <2>9. Shaped' /\ req'[r] = y /\ \A q \in Requests \ {r} : req'[q] = req[q]
    BY <1>1, <2>3, <2>5, GoesOn
  <2>10. meta' \in [Users -> Mappings] /\ \A v \in Users : meta'[v] = IF v = u THEN m ELSE meta[v]
    BY <1>1, <2>4, <2>6, <2>7
  <2>11. Formed'
    BY <1>1, <1>2, <2>4, <2>9, <2>10 DEF Formed, Secrets
  <2>12. \A q \in Requests : RequestOk(req'[q], vouched')
    BY <1>2, <2>8, <2>9 DEF IInv
  <2>13. VerifiedByProof'
    BY <1>2, <2>7, <2>10 DEF IInv, VerifiedByProof
  <2>14. Settled'
    BY <1>2, <2>6, <2>8, <2>9, <2>10 DEF IInv, Settled
  <2> QED
    BY <2>11, <2>12, <2>13, <2>14 DEF IInv
<1>7. CASE MeRegister(r)
  <2>1. \E h, out : req' = [req EXCEPT ![r].h = h, ![r].at = "finish", ![r].out = out]
    BY <1>7 DEF MeRegister
  <2>2. PICK h, out : req' = [req EXCEPT ![r].h = h, ![r].at = "finish", ![r].out = out]
    BY <2>1
  <2> DEFINE y == [req[r] EXCEPT !.h = h, !.at = "finish", !.out = out]
  <2>3. req' = [req EXCEPT ![r] = y]
    BY <1>1, <2>2 DEF Shaped
  <2>4. DOMAIN y = Fields /\ y = [k \in Fields |-> y[k]] /\ Finished(req[r], y)
    BY <1>1 DEF Fields, Finished
  <2> HIDE DEF y
  <2>5. RequestOk(y, vouched) /\ \A v : ~Holds(y, v)
    BY <1>1, <2>4, FinishedOk
  <2>6. Shaped' /\ req'[r] = y /\ \A q \in Requests \ {r} : Same(req[q], req'[q])
    BY <1>1, <2>3, <2>4, GoesOn
  <2>7. req[r].arg.id \in Users /\ UNCHANGED meta
    BY <1>1, <1>7 DEF MeRegister, RequestOk, Places
  <2>8. \/ UNCHANGED chal
        \/ \E a, s : s.cred # None /\ chal' = chal \cup {Challenge(req[r].arg.id, a, s)}
    BY <1>7 DEF MeRegister
  <2>9. Secrets'
    BY <1>1, <2>7, <2>8 DEF Secrets, Challenge
  <2> QED
    BY <1>1, <1>2, <2>5, <2>6, <2>7, <2>9, OneRequest
<1> QED
  BY <1>3, <1>4, <1>5, <1>6, <1>7

-----------------------------------------------------------------------------
(* The answer to a challenge: the identity it brings is vouched for, and its *)
(* secret is the one of the settings of its registration.                    *)
LEMMA CallbackStep ==
    ASSUME IInv, NEW r \in Requests, Callback(r)
    PROVE  IInv'
<1>1. /\ Shaped /\ DOMAIN site = Parts /\ meta \in [Users -> Mappings] /\ Secrets
  BY DEF IInv, Formed
<1>2. PICK c \in chal, x \in Uids :
        LET out == Verdict(site.settings, c, x)
        IN  /\ BeginWith(r, "callback", UserArg(c.user, [c |-> c, uid |-> x, out |-> out]),
                         IF out = "verify" THEN "mark" ELSE "finish", <<site>>, meta[c.user])
            /\ chal' = chal \ {c}
            /\ vouched' = vouched \cup {<<c.user, x>>}
            /\ UNCHANGED <<site, agent, cache, edited, meta, settled>>
  BY DEF Callback
<1> DEFINE out == Verdict(site.settings, c, x)
           key == [c |-> c, uid |-> x, out |-> out]
           arg == UserArg(c.user, key)
           at  == IF out = "verify" THEN "mark" ELSE "finish"
<1>3. BeginWith(r, "callback", arg, at, <<site>>, meta[c.user])
  BY <1>2
<1>4. /\ c.user \in Users /\ c.secret = c.reg.cred /\ c.secret # None
  BY <1>1 DEF Secrets
<1>5. arg.id = c.user /\ arg.key = key /\ key.uid = x /\ key.c = c /\ key.out = out
  BY DEF UserArg, NoArg
<1>6. out = "verify" => meta[c.user].status \in Open
  BY DEF Verdict
<1>7. c.reg = site.settings /\ c.agent = site.settings.node => out \notin {"unsigned", "unknown_node"}
  BY <1>4 DEF Verdict
<1>8. at \in {"mark", "finish"} /\ (at = "mark" => out = "verify")
  OBVIOUS
<1> HIDE DEF out, key, arg, at
<1>9. /\ Shaped' /\ \A q \in Requests \ {r} : Same(req[q], req'[q])
      /\ req'[r].op = "callback" /\ req'[r].arg = arg /\ req'[r].at = at
      /\ req'[r].got = meta[c.user] /\ req'[r].before = Now(Migrate(<<site>>, LegacyId(r)))
  BY <1>1, <1>3, Begins
<1>10. req'[r].before.settings = site.settings
  BY <1>1, <1>9, MigrateSettings
<1>11. RequestOk(req'[r], vouched')
  <2>1. Places(req'[r])
    BY <1>4, <1>5, <1>8, <1>9 DEF Places
  <2>2. Claims(req'[r], vouched')
    BY <1>1, <1>2, <1>4, <1>5, <1>8, <1>9 DEF Claims
  <2>3. Answered(req'[r])
    BY <1>5, <1>7, <1>9, <1>10 DEF Answered
  <2> QED
    BY <2>1, <2>2, <2>3 DEF RequestOk
<1>12. \A u \in Users : settled[u] => ~Holds(req'[r], u)
  BY <1>5, <1>6, <1>8, <1>9 DEF IInv, Settled, Holds, Open
<1>13. Secrets' /\ vouched \subseteq vouched' /\ DOMAIN site' = Parts /\ UNCHANGED <<meta, settled>>
  BY <1>1, <1>2 DEF Secrets
<1> QED
  BY <1>9, <1>11, <1>12, <1>13, OneRequest

LEMMA MarkStep ==
    ASSUME IInv, NEW r \in Requests, MarkVerified(r)
    PROVE  IInv'
<1> DEFINE u == req[r].arg.id
           m == [req[r].got EXCEPT !.status = "verified", !.uid = req[r].arg.key.uid,
                               !.stored = TRUE]
<1>1. /\ Formed /\ Shaped /\ RequestOk(req[r], vouched) /\ meta \in [Users -> Mappings]
      /\ DOMAIN req[r] = Fields /\ req[r] = [k \in Fields |-> req[r][k]]
  BY DEF IInv, Formed, Shaped
<1>2. /\ req[r].at = "mark" /\ meta' = [meta EXCEPT ![u] = m]
      /\ UNCHANGED <<site, chal, vouched, settled>>
  BY DEF MarkVerified
<1>3. /\ u \in Users /\ ~settled[u] /\ req[r].got \in Mappings
      /\ req[r].arg.key.uid \in Uids /\ <<u, req[r].arg.key.uid>> \in vouched
  BY <1>1, <1>2 DEF RequestOk, Places, Claims, IInv, Settled, Holds
<1>4. m \in Mappings /\ m.uid = req[r].arg.key.uid
  BY <1>3 DEF Mappings
<1>5. \E h : req' = [req EXCEPT ![r].h = h, ![r].at = "finish", ![r].out = "ok"]
  BY DEF MarkVerified
<1>6. PICK h : req' = [req EXCEPT ![r].h = h, ![r].at = "finish", ![r].out = "ok"]
  BY <1>5
<1> DEFINE y == [req[r] EXCEPT !.h = h, !.at = "finish", !.out = "ok"]
<1>7. req' = [req EXCEPT ![r] = y]
  BY <1>1, <1>6
<1>8. DOMAIN y = Fields /\ y = [k \in Fields |-> y[k]] /\ Finished(req[r], y)
  BY <1>1 DEF Fields, Finished
<1> HIDE DEF y, m
<1>9. RequestOk(y, vouched) /\ \A v : ~Holds(y, v)
  BY <1>1, <1>8, FinishedOk
<1>10. Shaped' /\ req'[r] = y /\ \A q \in Requests \ {r} : req'[q] = req[q]
  BY <1>1, <1>7, <1>8, GoesOn
<1>11. meta' \in [Users -> Mappings] /\ \A v \in Users : meta'[v] = IF v = u THEN m ELSE meta[v]
  BY <1>1, <1>2, <1>3, <1>4
<1>12. Formed'
  BY <1>1, <1>2, <1>10, <1>11 DEF Formed, Secrets
<1>13. \A q \in Requests : RequestOk(req'[q], vouched')
  BY <1>2, <1>9, <1>10 DEF IInv
<1>14. VerifiedByProof'
  BY <1>2, <1>3, <1>4, <1>11 DEF IInv, VerifiedByProof
<1>15. Settled'
  BY <1>2, <1>3, <1>9, <1>10, <1>11 DEF IInv, Settled
<1> QED
  BY <1>12, <1>13, <1>14, <1>15 DEF IInv

-----------------------------------------------------------------------------
(* An administrator vouches for the identity of a verified status.           *)
LEMMA BindStatusStep ==
    ASSUME IInv, NEW r \in Requests, BindStatus(r)
    PROVE  IInv'
<1>1. /\ Shaped /\ DOMAIN site = Parts /\ meta \in [Users -> Mappings] /\ Secrets
  BY DEF IInv, Formed
<1>2. PICK u \in Users, s \in {"unbound", "pending", "verified", "revoked"}, x \in Uids :
        /\ BeginWith(r, "bind", UserArg(u, [meta[u] EXCEPT !.status = s, !.stored = TRUE,
                                                           !.uid = IF s = "verified" THEN x ELSE @]),
                     "bind", <<site>>, meta[u])
        /\ vouched' = IF s = "verified" THEN vouched \cup {<<u, x>>} ELSE vouched
        /\ UNCHANGED <<site, agent, cache, edited, meta, chal, settled>>
  BY DEF BindStatus
<1> DEFINE m == [meta[u] EXCEPT !.status = s, !.stored = TRUE, !.uid = IF s = "verified" THEN x ELSE @]
<1>3. m \in Mappings /\ m.status = s /\ (s = "verified" => m.uid = x)
  BY <1>1 DEF Mappings
<1>4. BeginWith(r, "bind", UserArg(u, m), "bind", <<site>>, meta[u])
  BY <1>2
<1>5. UserArg(u, m).id = u /\ UserArg(u, m).key = m
  BY DEF UserArg, NoArg
<1> HIDE DEF m
<1>6. /\ Shaped' /\ \A q \in Requests \ {r} : Same(req[q], req'[q])
      /\ req'[r].op = "bind" /\ req'[r].arg = UserArg(u, m) /\ req'[r].at = "bind"
  BY <1>1, <1>4, Begins
<1>7. RequestOk(req'[r], vouched')
  BY <1>2, <1>3, <1>5, <1>6 DEF RequestOk, Places, Claims, Answered
<1>8. \A v \in Users : ~Holds(req'[r], v)
  BY <1>6 DEF Holds
<1>9. Secrets' /\ vouched \subseteq vouched' /\ DOMAIN site' = Parts /\ UNCHANGED <<meta, settled>>
  BY <1>1, <1>2 DEF Secrets
<1> QED
  BY <1>6, <1>7, <1>8, <1>9, OneRequest

(* A revocation is settled when nobody else is at work for the user, so that *)
(* no request holds a copy of her mapping.                                   *)
LEMMA BindWriteStep ==
    ASSUME IInv, NEW r \in Requests, BindWrite(r)
    PROVE  IInv'
<1> DEFINE u == req[r].arg.id
           m == req[r].arg.key
<1>1. /\ Formed /\ Shaped /\ RequestOk(req[r], vouched) /\ meta \in [Users -> Mappings]
      /\ settled \in [Users -> BOOLEAN] /\ DOMAIN site = Parts /\ Secrets
      /\ DOMAIN req[r] = Fields /\ req[r] = [k \in Fields |-> req[r][k]]
  BY DEF IInv, Formed, Shaped
<1>2. req[r].at = "bind" /\ UNCHANGED <<site, chal, vouched>>
  BY DEF BindWrite
<1>3. u \in Users /\ m \in Mappings /\ (m.status = "verified" => <<u, m.uid>> \in vouched)
  BY <1>1, <1>2 DEF RequestOk, Places, Claims
<1>4. CASE m = req[r].got
  <2> DEFINE y == [req[r] EXCEPT !.at = "finish", !.out = "failed"]
  <2>1. req' = [req EXCEPT ![r] = y] /\ UNCHANGED <<meta, settled>>
    BY <1>1, <1>4 DEF BindWrite, Shaped
  <2>2. DOMAIN y = Fields /\ y = [k \in Fields |-> y[k]] /\ Finished(req[r], y)
    BY <1>1 DEF Fields, Finished
  <2> HIDE DEF y
  <2>3. RequestOk(y, vouched) /\ \A v : ~Holds(y, v)
    BY <1>1, <2>2, FinishedOk
  <2>4. Shaped' /\ req'[r] = y /\ \A q \in Requests \ {r} : Same(req[q], req'[q])
    BY <1>1, <2>1, <2>2, GoesOn
  <2> QED
    BY <1>1, <1>2, <2>1, <2>3, <2>4, OneRequest DEF Secrets
<1>5. CASE m # req[r].got
  <2>0. \E h : req' = [req EXCEPT ![r].h = h, ![r].at = "finish", ![r].out = "ok"]
    BY <1>5 DEF BindWrite
  <2> PICK h : req' = [req EXCEPT ![r].h = h, ![r].at = "finish", ![r].out = "ok"]
    BY <2>0
  <2> DEFINE y == [req[r] EXCEPT !.h = h, !.at = "finish", !.out = "ok"]
             alone == \A q \in Requests \ {r} : ~OfUser(q, u)
  <2>1. /\ req' = [req EXCEPT ![r] = y] /\ meta' = [meta EXCEPT ![u] = m]
        /\ settled' = [settled EXCEPT ![u] = m.status = "revoked" /\ alone]
    <3>1. req' = [req EXCEPT ![r] = y]
      BY <1>1 DEF Shaped
    <3>2. meta' = [meta EXCEPT ![u] = m]
      BY <1>5 DEF BindWrite
    <3>3. settled' = [settled EXCEPT ![u] = m.status = "revoked" /\ alone]
      BY <1>5, Zenon DEF BindWrite
    <3> QED
      BY <3>1, <3>2, <3>3
  <2>2. DOMAIN y = Fields /\ y = [k \in Fields |-> y[k]] /\ Finished(req[r], y)
    BY <1>1 DEF Fields, Finished
  <2> HIDE DEF y
  <2>3. RequestOk(y, vouched) /\ \A v : ~Holds(y, v)
    BY <1>1, <2>2, FinishedOk
  <2>4. Shaped' /\ req'[r] = y /\ \A q \in Requests \ {r} : req'[q] = req[q]
    BY <1>1, <2>1, <2>2, GoesOn
  <2>5. meta' \in [Users -> Mappings] /\ \A v \in Users : meta'[v] = IF v = u THEN m ELSE meta[v]
    BY <1>1, <1>3, <2>1
  <2>6. alone => \A q \in Requests \ {r} : ~Holds(req[q], u)
    <3> SUFFICES ASSUME NEW q \in Requests \ {r}, Holds(req[q], u) PROVE OfUser(q, u)
      OBVIOUS
    <3>1. req[q].op \in {"challenge", "callback"}
      BY DEF IInv, RequestOk, Places, Holds
    <3>2. req[q].at # "finish"
      BY DEF Holds
    <3> QED
      BY <3>1, <3>2 DEF OfUser, Running, Started, Done, Holds
  <2> HIDE DEF alone
  <2>7. settled' \in [Users -> BOOLEAN] /\ \A v \in Users \ {u} : settled'[v] = settled[v]
    BY <1>1, <1>3, <2>1, Zenon
  <2>8. settled'[u] => m.status = "revoked" /\ alone
    BY <1>1, <1>3, <2>1
  <2>9. Formed'
    BY <1>1, <1>2, <2>4, <2>5, <2>7 DEF Formed, Secrets
  <2>10. \A q \in Requests : RequestOk(req'[q], vouched')
    BY <1>2, <2>3, <2>4 DEF IInv
  <2>11. VerifiedByProof'
    BY <1>2, <1>3, <2>5 DEF IInv, VerifiedByProof
  <2>12. Settled'
    <3> SUFFICES ASSUME NEW v \in Users, settled'[v]
                 PROVE  meta'[v].status = "revoked" /\ \A q \in Requests : ~Holds(req'[q], v)
      BY DEF Settled
    <3>1. CASE v = u
      <4>1. settled'[u]
        BY <3>1, Zenon
      <4>2. m.status = "revoked" /\ alone
        BY <4>1, <2>8, Zenon
      <4>3. \A q \in Requests : ~Holds(req'[q], u)
        BY <4>2, <2>3, <2>4, <2>6
      <4>4. meta'[u] = m
        BY <1>3, <2>5
      <4> QED
        BY <3>1, <4>2, <4>3, <4>4
    <3>2. CASE v # u
      BY <3>2, <2>3, <2>4, <2>5, <2>7 DEF IInv, Settled
    <3> QED
      BY <3>1, <3>2
  <2> QED
    BY <2>9, <2>10, <2>11, <2>12 DEF IInv
<1> QED
  BY <1>4, <1>5

-----------------------------------------------------------------------------
(* Every step keeps the invariant.                                           *)
LEMMA NextIInv == IInv /\ [Next]_vars => IInv'
<1> SUFFICES ASSUME IInv, [Next]_vars PROVE IInv'
  OBVIOUS
<1>1. CASE UNCHANGED vars
  <2>1. UNCHANGED <<site, req, meta, chal, vouched, settled>>
    BY <1>1 DEF vars, nodeVars, idVars
  <2> QED
    BY <2>1 DEF IInv, Formed, Shaped, Secrets, VerifiedByProof, Settled
<1>2. CASE \E r \in Requests : IdStep(r)
  BY <1>2, ChallengeRequest, CallbackStep, MarkStep, BindStatusStep, BindWriteStep DEF IdStep
<1>3. CASE \E r \in Requests : NodeStep(r) /\ UNCHANGED idVars
  BY <1>3, NodeRequest
<1> QED
  BY <1>1, <1>2, <1>3 DEF Next

(* In every reachable state the inductive invariant holds.                    *)
LEMMA Invariance == Spec => []IInv
BY InitIInv, NextIInv, PTL DEF Spec

\* However many web requests overlap, each writing whole records from copies it
\* took earlier, a verified identity was vouched for (Mapping.php).
THEOREM VerifiedWasVouched == Spec => []VerifiedByProof
<1>1. IInv => VerifiedByProof
  BY DEF IInv
<1> QED
  BY Invariance, <1>1, PTL

\* A revocation nothing overlapped is never undone unless an administrator does it.
THEOREM RevocationsHold == Spec => []RevokedForGood
<1>1. IInv => RevokedForGood
  BY DEF IInv, Settled, RevokedForGood
<1> QED
  BY Invariance, <1>1, PTL

\* The signed answer to a challenge is accepted while the settings are those of
\* its registration (Callback.php).
THEOREM AnswersAccepted == Spec => []AnswerAccepted
<1>1. IInv => AnswerAccepted
  BY DEF IInv, RequestOk, Answered, AnswerAccepted
<1> QED
  BY Invariance, <1>1, PTL
=============================================================================
