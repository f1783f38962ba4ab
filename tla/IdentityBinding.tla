--------------------------- MODULE IdentityBinding ---------------------------
(***************************************************************************)
(* The binding of a WordPress user to a TeamSpeak identity, beside the     *)
(* administration of the nodes (AdminController.php, Mapping.php,          *)
(* Challenge.php, Callback.php, Actions.php).                              *)
(*                                                                         *)
(* A user starts a challenge, which WordPress registers with an agent      *)
(* together with the secret the agent is to sign its answer with; the      *)
(* agent finds the code in TeamSpeak and calls back; an administrator may  *)
(* set the status of any user at any time.  Every one of these is a web    *)
(* request of WordPressNodes.  The mapping is user meta: read into the     *)
(* request's own copy and written back as a whole.                         *)
(***************************************************************************)
EXTENDS WordPressNodes

CONSTANTS
    Users,      \* WordPress users
    Uids        \* TeamSpeak identities

ASSUME UidAssumption == None \notin Uids

VARIABLES
    meta,       \* the mapping of each user: [status, uid], and whether it is stored
    chal,       \* external: the challenges open at the agents
    vouched,    \* history: <<user, uid>> an agent or an administrator vouched for
    settled     \* history: users revoked by a request that nothing overlapped

idVars == <<meta, chal, vouched, settled>>
vars == <<nodeVars, idVars>>

Unbound == [status |-> "unbound", uid |-> None, stored |-> FALSE]
Open    == {"unbound", "pending"}

(* A challenge as an agent holds it; reg is history, the settings at its     *)
(* registration.                                                             *)
Challenge(u, a, s) == [user |-> u, agent |-> a, secret |-> s.cred, reg |-> s]

OfUser(r, u) == Running(r) /\ req[r].op \in {"challenge", "callback", "bind"} /\ req[r].arg.id = u

UserArg(u, key) == [NoArg EXCEPT !.id = u, !.key = key]

-----------------------------------------------------------------------------
(* identity_me_challenge(): the mapping is checked, the challenge stored     *)
(* (which drops the cached meta), the mapping read again and written.        *)

MeChallenge(r) ==
    LET g == Migrate(<<site>>, LegacyId(r))
    IN  \E u \in Users, id \in Ids(Now(g)) \cup {None} :
            /\ Begin(r, "challenge", UserArg(u, id), "check", IF id = None THEN <<site>> ELSE g)
            /\ UNCHANGED <<site, agent, cache, edited, idVars>>

MeCheck(r) ==
    /\ req[r].at = "check" /\ Written0(r)
    /\ req' = [req EXCEPT ![r] = IF meta[req[r].arg.id].status \in Open
                                 THEN [@ EXCEPT !.at = "reread"]
                                 ELSE [@ EXCEPT !.at = "finish", !.out = "resolved"]]
    /\ UNCHANGED <<site, agent, cache, edited, idVars>>

MeReread(r) ==
    /\ req[r].at = "reread"
    /\ req' = [req EXCEPT ![r].at = "pend", ![r].got = meta[req[r].arg.id]]
    /\ UNCHANGED <<site, agent, cache, edited, idVars>>

MePend(r) ==
    /\ req[r].at = "pend"
    /\ meta' = [meta EXCEPT ![req[r].arg.id] = [req[r].got EXCEPT !.status = "pending", !.stored = TRUE]]
    /\ req' = [req EXCEPT ![r].at = "register", ![r].h = Migrate(@, LegacyId(r))]
    /\ UNCHANGED <<site, agent, cache, edited, chal, vouched, settled>>

(* The agent takes the challenge or not, and its answer may be lost.  The    *)
(* secret is the credential of the settings, whatever node is asked.         *)
MeRegister(r) ==
    /\ req[r].at = "register" /\ Written0(r)
    /\ LET v == Now(req[r].h)
           n == Selected(v, req[r].arg.key)
           Answer(out) == req' = [req EXCEPT ![r].h = Log(@, r), ![r].at = "finish", ![r].out = out]
       IN  \/ /\ Served(n) /\ v.settings.cred # None
              /\ chal' = chal \cup {Challenge(req[r].arg.id, n.endpoint, v.settings)}
              /\ Answer("ok") \/ Answer("failed")
           \/ Answer("failed") /\ UNCHANGED chal
    /\ UNCHANGED <<site, agent, cache, edited, meta, vouched, settled>>

-----------------------------------------------------------------------------
(* identity_callback(): signature, node and status are checked on the        *)
(* request's copies, and the mapping is written from the same copy.          *)

(* Mutants: any status may be verified; the node is compared with the active *)
(* one.                                                                      *)
VerdictAnyStatus(s, c, x) ==
    IF c.secret # s.cred \/ s.cred = None THEN "unsigned"
    ELSE IF s.node # None /\ s.node # c.agent THEN "unknown_node" ELSE "verify"
VerdictActive(s, c, x) ==
    IF c.secret # s.cred \/ s.cred = None THEN "unsigned"
    ELSE IF site.active # c.agent THEN "unknown_node" ELSE "verify"

(* The signature is checked with the credential of the settings, and the     *)
(* node with the one they name, if any.                                      *)
Verdict(s, c, x) ==
    IF c.secret # s.cred \/ s.cred = None THEN "unsigned"
    ELSE IF s.node # None /\ s.node # c.agent THEN "unknown_node"
    ELSE IF meta[c.user].status = "verified" /\ meta[c.user].uid = x THEN "idempotent"
    ELSE IF meta[c.user].status \notin Open THEN "resolved" ELSE "verify"

Callback(r) ==
    \E c \in chal, x \in Uids :
        LET out == Verdict(site.settings, c, x)
        IN  /\ BeginWith(r, "callback", UserArg(c.user, [c |-> c, uid |-> x, out |-> out]),
                         IF out = "verify" THEN "mark" ELSE "finish", <<site>>, meta[c.user])
            /\ chal' = chal \ {c}
            /\ vouched' = vouched \cup {<<c.user, x>>}
            /\ UNCHANGED <<site, agent, cache, edited, meta, settled>>

(* Mutant: the stored mapping wins over the new identity.                    *)
MarkVerifiedOld(r) ==
    /\ req[r].at = "mark"
    /\ meta' = [meta EXCEPT ![req[r].arg.id] = [req[r].got EXCEPT !.status = "verified", !.stored = TRUE]]
    /\ req' = [req EXCEPT ![r].h = Log(@, r), ![r].at = "finish", ![r].out = "ok"]
    /\ UNCHANGED <<site, agent, cache, edited, chal, vouched, settled>>

(* Mapping::mark_verified().                                                 *)
MarkVerified(r) ==
    /\ req[r].at = "mark"
    /\ meta' = [meta EXCEPT ![req[r].arg.id] =
                  [req[r].got EXCEPT !.status = "verified", !.uid = req[r].arg.key.uid,
                                     !.stored = TRUE]]
    /\ req' = [req EXCEPT ![r].h = Log(@, r), ![r].at = "finish", ![r].out = "ok"]
    /\ UNCHANGED <<site, agent, cache, edited, chal, vouched, settled>>

-----------------------------------------------------------------------------
(* identity_status(): an administrator sets a status; only "verified" brings *)
(* an identity, every other status keeps the one that is stored.             *)

BindStatus(r) ==
    \E u \in Users, s \in {"unbound", "pending", "verified", "revoked"}, x \in Uids :
        /\ BeginWith(r, "bind", UserArg(u, [meta[u] EXCEPT !.status = s, !.stored = TRUE,
                                                           !.uid = IF s = "verified" THEN x ELSE @]),
                     "bind", <<site>>, meta[u])
        /\ vouched' = IF s = "verified" THEN vouched \cup {<<u, x>>} ELSE vouched
        /\ UNCHANGED <<site, agent, cache, edited, meta, chal, settled>>

(* update_user_meta() writes nothing, and the request fails, when the copy   *)
(* holds the value already.                                                  *)
BindWrite(r) ==
    LET u == req[r].arg.id
        m == req[r].arg.key
    IN  /\ req[r].at = "bind"
        /\ IF m = req[r].got
           THEN /\ req' = [req EXCEPT ![r].at = "finish", ![r].out = "failed"]
                /\ UNCHANGED <<meta, settled>>
           ELSE /\ req' = [req EXCEPT ![r].h = Log(@, r), ![r].at = "finish", ![r].out = "ok"]
                /\ meta' = [meta EXCEPT ![u] = m]
                /\ settled' = [settled EXCEPT ![u] = m.status = "revoked"
                                                     /\ \A q \in Requests \ {r} : ~OfUser(q, u)]
        /\ UNCHANGED <<site, agent, cache, edited, chal, vouched>>

-----------------------------------------------------------------------------
(* A start with no challenge, or with one some agent of the list took before.*)
Init ==
    /\ NodeInit
    /\ chal \in {{}} \cup {{Challenge(u, site.nodes[i].endpoint, site.settings)} :
                             u \in Users, i \in {j \in DOMAIN site.nodes :
                                                   site.nodes[j].cred # None /\ site.settings.cred # None}}
    /\ meta = [u \in Users |-> IF \E c \in chal : c.user = u
                               THEN [Unbound EXCEPT !.status = "pending", !.stored = TRUE] ELSE Unbound]
    /\ vouched = {}
    /\ settled = [u \in Users |-> FALSE]

IdStep(r) ==
    \/ MeChallenge(r) \/ MeCheck(r) \/ MeReread(r) \/ MePend(r) \/ MeRegister(r)
    \/ Callback(r) \/ MarkVerified(r) \/ BindStatus(r) \/ BindWrite(r)

Next == \E r \in Requests : IdStep(r) \/ (NodeStep(r) /\ UNCHANGED idVars)

Spec == Init /\ [][Next]_vars

-----------------------------------------------------------------------------
(* The types of all variables: every request is idle or at a place its       *)
(* operation has, and every copy holds nodes with ids of their own.          *)
TypeOK ==
    /\ \A v \in Copies :
           /\ v.active \in NodeIds \cup {None}
           /\ v.nodes \in Seq(Entries) /\ Unique(v.nodes)
           /\ Len(v.audit) <= AuditMax
    /\ agent \in [Agents -> 1..MaxGen]
    /\ DOMAIN cache \subseteq Projections \X (NodeIds \cup {None})
    /\ \A r \in Requests : Started(r) <=> Len(req[r].h) > 0
    /\ meta \in [Users -> [status : Open \cup {"verified", "revoked"}, uid : Uids \cup {None},
                          stored : BOOLEAN]]
    /\ \A c \in chal : c.user \in Users /\ c.agent \in Agents

(* A user is bound to an identity only if an agent saw that identity show    *)
(* the user's code, or an administrator entered it: no interleaving of       *)
(* whole-record writes from stale copies mixes two identities.               *)
VerifiedByProof ==
    \A u \in Users : meta[u].status = "verified" => <<u, meta[u].uid>> \in vouched

(* A revocation holds: if no other request about the user was under way when *)
(* it was written, no challenge and no late callback changes it any more.    *)
(* (A request that read the mapping before may still overwrite it.)          *)
RevokedForGood == \A u \in Users : settled[u] => meta[u].status = "revoked"

(* The answer to a challenge that was registered with the paired agent is    *)
(* not refused for its signature or its node while the settings stay as they *)
(* were: all requests between agree on the secret.                           *)
AnswerAccepted ==
    \A r \in Requests :
        /\ req[r].op = "callback"
        /\ req[r].arg.key.c.reg = req[r].before.settings
        /\ req[r].arg.key.c.agent = req[r].before.settings.node
        => req[r].arg.key.out \notin {"unsigned", "unknown_node"}

(* Requests that write an entry to the audit log.                            *)
Audited(r) == Done(r) /\ \/ req[r].op \in {"pair", "forward"}
                         \/ req[r].op = "challenge" /\ req[r].out # "resolved"
                         \/ req[r].op \in {"callback", "bind"} /\ req[r].out = "ok"

(* As long as no two requests overlap the log holds the newest entries, in   *)
(* order and none twice: a lost entry is always the work of an overlap.      *)
AuditIsRecent ==
    (\A r \in Requests : req[r].solo) =>
        LET log == site.audit
        IN  /\ \A i \in DOMAIN log : log[i] \in Requests /\ Audited(log[i])
            /\ \A i, j \in DOMAIN log : i < j => log[i] < log[j]
            /\ \A r \in Requests : Audited(r) =>
                   \/ \E i \in DOMAIN log : log[i] = r
                   \/ Len(log) = AuditMax /\ \A i \in DOMAIN log : r < log[i]
=============================================================================
