--------------------------- MODULE WordPressNodes ---------------------------
(***************************************************************************)
(* Node administration in the WordPress plugin: adding, editing, deleting, *)
(* switching and pairing nodes, saving the settings, forwarding a request  *)
(* to an agent and the cached status snapshots (Actions.php, Pairing.php,  *)
(* Client.php, Settings.php, StatusService.php).                           *)
(*                                                                         *)
(* Every web request is a PHP process of its own.  They run side by side,  *)
(* share the database and lock nothing: a request works on the copy of the *)
(* options it read at its start (NodeRegistry.tla) while others write.     *)
(* The agents are external; of them the model keeps what WordPress can     *)
(* observe, the credential that is in force.                               *)
(***************************************************************************)
EXTENDS NodeRegistry

CONSTANTS
    Agents,         \* the agents; an agent is its endpoint and its node id
    MaxRequests,    \* bound: web requests of a run
    MaxGen,         \* bound: credentials an agent issues
    Projections,    \* what is cached for a node: "status" and "channels"
    Sites           \* the options the plugin may start from

ASSUME BoundAssumption == MaxRequests \in Nat \ {0} /\ MaxGen \in Nat \ {0}
ASSUME AgentAssumption == None \notin Agents /\ \A a \in Agents : a \notin Nat
ASSUME ProjectionAssumption == Projections \subseteq {"status", "channels"}
VARIABLES
    site,       \* the options in the database
    req,        \* the web requests
    agent,      \* external: the number of the credential in force at each agent
    cache,      \* the transients with the snapshots
    edited      \* history: an administrator left a credential beside an endpoint it is not of

nodeVars == <<site, req, agent, cache, edited>>

Requests == 1..MaxRequests

(* generate_node_id(): every request has one id for a node it adds and one   *)
(* for a node migrate_legacy() makes.                                        *)
NewId(r)    == r
LegacyId(r) == MaxRequests + r
NewIds      == 1..(2 * MaxRequests)
NodeIds     == Agents \cup NewIds \cup UNION {IdsOf(s.nodes) \cup IdsOf(s.old.nodes) : s \in Sites}

Credential(a) == <<a, agent[a]>>
Credentials   == {None} \cup Agents \X Nat

(* What an administrator enters: nothing, or any credential that was issued. *)
Typed == {None} \cup UNION {{<<a, n>> : n \in 1..agent[a]} : a \in Agents}

Entries    == [id : NodeIds, endpoint : Agents, cred : Credentials]
SettingSet == [url : Agents \cup {None}, cred : Credentials, node : Agents \cup {None}]

(* Every credential of a copy belongs to the endpoint beside it.             *)
NodeOwned(n)     == n.cred # None => n.cred[1] = n.endpoint
SettingsOwned(s) == s.cred # None => s.cred[1] = s.url
Owned(v) == /\ \A i \in DOMAIN v.nodes : NodeOwned(v.nodes[i])
            /\ \A i \in DOMAIN v.old.nodes : NodeOwned(v.old.nodes[i])
            /\ SettingsOwned(v.settings)

(* The ids of a list are different.                                          *)
Unique(nodes) == \A i, j \in DOMAIN nodes : nodes[i].id = nodes[j].id => i = j

(* The options as the plugin left them before the run: ids that are made     *)
(* later are new, and no credential was carried over to another endpoint.    *)
ASSUME SitesAssumption ==
    \A s \in Sites :
        /\ s \in [nodes : Seq(Entries), active : NodeIds \cup {None},
                  settings : SettingSet, audit : {<<>>},
                  old : [nodes : Seq(Entries), active : NodeIds \cup {None}]]
        /\ Unique(s.nodes) /\ Unique(s.old.nodes) /\ Owned(s)
        /\ (IdsOf(s.nodes) \cup IdsOf(s.old.nodes) \cup {s.active, s.old.active}) \cap NewIds = {}
ASSUME NoneAssumption == None \notin NodeIds \cup Agents \X Nat

NoArg == [id |-> None, agent |-> None, key |-> None]

(* A request before it starts.  h is its history, at the place it has        *)
(* reached; got the credential or the snapshot it ends with; before and solo *)
(* are history: the registry it found, and that no other request ran beside. *)
Idle == [op |-> "none", arg |-> NoArg, at |-> "idle", h |-> <<>>, before |-> None,
         out |-> "none", got |-> None, solo |-> TRUE]

Started(r) == req[r].op # "none"
Done(r)    == req[r].at = "finish" /\ Len(req[r].h) = 1
Running(r) == Started(r) /\ ~Done(r)

(* A request starts with history h and goes on at place at when the writes   *)
(* of h are done.  before is what the registry held, migrated.               *)
BeginWith(r, op, arg, at, h, got) ==
    /\ ~Started(r) /\ \A q \in 1..(r - 1) : Started(q)
    /\ req' = [q \in Requests |->
                 IF q = r THEN [op |-> op, arg |-> arg, at |-> at, h |-> h,
                                before |-> Now(Migrate(<<site>>, LegacyId(r))),
                                out |-> "none", got |-> got, solo |-> \A p \in Requests : ~Running(p)]
                 ELSE [req[q] EXCEPT !.solo = @ /\ ~Running(q)]]

Begin(r, op, arg, at, h) == BeginWith(r, op, arg, at, h, None)

(* update_option() of the next option of the history.                        *)
WriteOption(r) ==
    /\ Started(r) /\ Len(req[r].h) > 1
    /\ LET o == Written(req[r].h[1], req[r].h[2])
       IN  site' = [site EXCEPT ![o] = req[r].h[2][o]]
    /\ req' = [req EXCEPT ![r].h = Tail(@)]
    /\ UNCHANGED <<agent, cache, edited>>

Written0(r) == Started(r) /\ Len(req[r].h) = 1

-----------------------------------------------------------------------------
(* Administration of the list and the settings.                              *)

NodeAdd(r) ==
    \E a \in Agents :
        /\ Begin(r, "add", [NoArg EXCEPT !.id = NewId(r), !.agent = a], "finish",
                 Upsert(<<site>>, LegacyId(r), Node(NewId(r), a, None)))
        /\ UNCHANGED <<site, agent, cache, edited>>

(* A blank credential keeps the one of the entry, whatever the new endpoint. *)
NodeUpdate(r) ==
    LET g == Migrate(<<site>>, LegacyId(r))
    IN  \E id \in Ids(Now(g)), a \in Agents, c \in Typed :
            LET n == Node(id, a, IF c = None THEN Get(Now(g), id).cred ELSE c)
            IN  /\ Begin(r, "update", [NoArg EXCEPT !.id = id, !.agent = a], "finish",
                         Upsert(g, LegacyId(r), n))
                /\ edited' = (edited \/ ~NodeOwned(n))
                /\ UNCHANGED <<site, agent, cache>>

NodeDelete(r) ==
    \E id \in Ids(Now(Migrate(<<site>>, LegacyId(r)))) :
        /\ Begin(r, "delete", [NoArg EXCEPT !.id = id], "finish",
                 Remove(<<site>>, LegacyId(r), id))
        /\ UNCHANGED <<site, agent, cache, edited>>

(* A node of the list, or none.                                              *)
SwitchNode(r) ==
    \E id \in Ids(Now(Migrate(<<site>>, LegacyId(r)))) \cup {None} :
        /\ Begin(r, "switch", [NoArg EXCEPT !.id = id], "finish",
                 SetActive(<<site>>, LegacyId(r), id))
        /\ UNCHANGED <<site, agent, cache, edited>>

(* Settings::sanitize(): three fields that need not belong together; a blank *)
(* credential keeps the one of the copy.                                     *)
SaveSettings(r) ==
    \E url, node \in Agents \cup {None}, c \in Typed :
        LET s == Settings(url, IF c = None THEN site.settings.cred ELSE c, node)
        IN  /\ Begin(r, "save", [NoArg EXCEPT !.agent = url], "finish", SetMany(<<site>>, s))
            /\ edited' = (edited \/ ~SettingsOwned(s))
            /\ UNCHANGED <<site, agent, cache>>

-----------------------------------------------------------------------------
(* Pairing::pair(): a provisional node is stored and made active, the agent  *)
(* is asked with the code, and the node is finished or taken back.           *)

Pair(r) ==
    \E a \in Agents :
        /\ Begin(r, "pair", [NoArg EXCEPT !.id = ActiveId(site), !.agent = a], "pair",
                 SetActive(Upsert(<<site>>, LegacyId(r), Node(NewId(r), a, None)),
                           LegacyId(r), NewId(r)))
        /\ UNCHANGED <<site, agent, cache, edited>>

(* Mutants: the provisional node is left behind; the previous node is not    *)
(* made active again.                                                        *)
PairLeavesNode(h, r, a, c) ==
    SetMany(SetActive(Upsert(h, LegacyId(r), Node(a, a, c)), LegacyId(r), a), Settings(a, c, a))
PairKeepsActive(h, r, previous) == Remove(h, LegacyId(r), NewId(r))

(* The node under the agent's own id, and the settings of the paired agent.  *)
PairGranted(h, r, a, c) ==
    SetMany(SetActive(Upsert(Remove(h, LegacyId(r), NewId(r)), LegacyId(r), Node(a, a, c)),
                      LegacyId(r), a),
            Settings(a, c, a))

PairFailed(h, r, previous) == SetActive(Remove(h, LegacyId(r), NewId(r)), LegacyId(r), previous)

(* The code is good and the agent issues a credential, or its answer is lost *)
(* after that; or the code is refused, or the agent not reached.             *)
PairCall(r) ==
    /\ req[r].at = "pair" /\ Written0(r)
    /\ LET a == req[r].arg.agent
           c == <<a, agent[a] + 1>>
           failed == PairFailed(req[r].h, r, req[r].arg.id)
           Answer(h, out, got) ==
               req' = [req EXCEPT ![r] = [@ EXCEPT !.h = Log(h, r), !.at = "finish",
                                                   !.out = out, !.got = got]]
       IN  \/ /\ agent[a] < MaxGen
              /\ agent' = [agent EXCEPT ![a] = @ + 1]
              /\ \/ Answer(PairGranted(req[r].h, r, a, c), "ok", c)
                 \/ Answer(failed, "failed", None)
           \/ /\ Answer(failed, "failed", None)
              /\ UNCHANGED agent
    /\ UNCHANGED <<site, cache, edited>>

-----------------------------------------------------------------------------
(* Requests that are forwarded to an agent, of a chosen node or the active   *)
(* one: kick, poke, move, the channel and maintenance operations, node_test. *)

(* Client::node() of a request: the entry a copy holds for the chosen id.    *)
Selected(v, id) == IF id = None THEN ActiveNode(v) ELSE Get(v, id)

(* An agent answers a request that is signed with its credential in force.   *)
Served(n) == n.endpoint # None /\ n.cred # None /\ n.cred = Credential(n.endpoint)

Forward(r) ==
    LET g == Migrate(<<site>>, LegacyId(r))
    IN  \E id \in Ids(Now(g)) \cup {None} :
            /\ Begin(r, "forward", [NoArg EXCEPT !.id = id], "forward", g)
            /\ UNCHANGED <<site, agent, cache, edited>>

ForwardCall(r) ==
    /\ req[r].at = "forward" /\ Written0(r)
    /\ \E out \in {"failed"} \cup (IF Served(Selected(Now(req[r].h), req[r].arg.id))
                                   THEN {"ok"} ELSE {}) :
           req' = [req EXCEPT ![r].h = Log(@, r), ![r].at = "finish", ![r].out = out]
    /\ UNCHANGED <<site, agent, cache, edited>>

-----------------------------------------------------------------------------
(* StatusService: a snapshot is kept under the id of the node, or under the  *)
(* active id, which may be '' or name no entry.  A snapshot that is found is *)
(* shown unless it has expired or a fresh one is forced.                     *)

Status(r) ==
    LET g == Migrate(<<site>>, LegacyId(r))
    IN  \E what \in Projections, id \in Ids(Now(g)) \cup {None}, hit \in BOOLEAN :
            LET key == <<what, IF id = None THEN ActiveId(site) ELSE id>>
                arg == [id |-> id, agent |-> None, key |-> key]
            IN  /\ hit => key \in DOMAIN cache
                /\ IF hit THEN BeginWith(r, "status", arg, "finish", <<site>>, cache[key])
                   ELSE Begin(r, "status", arg, "fetch", g)
                /\ UNCHANGED <<site, agent, cache, edited>>

(* The answer is projected and kept; a failed status is kept as an error, a  *)
(* failed channel list is not.                                               *)
FetchSnapshot(r) ==
    /\ req[r].at = "fetch" /\ Written0(r)
    /\ LET n   == Selected(Now(req[r].h), req[r].arg.id)
           key == req[r].arg.key
       IN  \E ok \in {FALSE} \cup (IF Served(n) THEN {TRUE} ELSE {}) :
               LET snapshot == [src |-> n.id, ok |-> ok]
               IN  /\ req' = [req EXCEPT ![r] = [@ EXCEPT !.at = "finish", !.got = snapshot]]
                   /\ cache' = IF ok \/ key[1] = "status"
                               THEN [k \in DOMAIN cache \cup {key} |->
                                       IF k = key THEN snapshot ELSE cache[k]]
                               ELSE cache
    /\ UNCHANGED <<site, agent, edited>>

-----------------------------------------------------------------------------
NodeInit ==
    /\ site \in Sites
    /\ req = [r \in Requests |-> Idle]
    /\ agent = [a \in Agents |-> 1]
    /\ cache = <<>>
    /\ edited = FALSE

NodeStep(r) ==
    \/ NodeAdd(r) \/ NodeUpdate(r) \/ NodeDelete(r) \/ SwitchNode(r) \/ SaveSettings(r)
    \/ Pair(r) \/ PairCall(r) \/ Forward(r) \/ ForwardCall(r)
    \/ Status(r) \/ FetchSnapshot(r) \/ WriteOption(r)

NodeNext == \E r \in Requests : NodeStep(r)

-----------------------------------------------------------------------------
(* The request that ran last, and alone: the options are as it left them.    *)
LastAlone(r) == Done(r) /\ req[r].solo /\ \A q \in Requests : q > r => ~Started(q)

(* A pairing that fails leaves the list, the node that acts as the active    *)
(* one and the settings as it found them, whatever it stored on its way and  *)
(* wherever the answer was lost (PairingTest.php:19).                        *)
FailedPairRestores ==
    \A r \in Requests : LastAlone(r) /\ req[r].op = "pair" /\ req[r].out = "failed" =>
        /\ All(site) = All(req[r].before)
        /\ ActiveNode(site) = ActiveNode(req[r].before)
        /\ site.settings = req[r].before.settings

(* A pairing that succeeds leaves one entry for the agent with the           *)
(* credential it issued, active and named by the settings, and nothing of    *)
(* the provisional node.                                                     *)
PairedAgrees ==
    \A r \in Requests : LastAlone(r) /\ req[r].op = "pair" /\ req[r].out = "ok" =>
        LET a == req[r].arg.agent
        IN  /\ NewId(r) \notin Ids(site)
            /\ a \in Ids(site) /\ Get(site, a) = Node(a, a, req[r].got)
            /\ ActiveNode(site).id = a
            /\ site.settings = Settings(a, req[r].got, a)

Copies == {site} \cup UNION {{req[r].h[i] : i \in DOMAIN req[r].h} : r \in Requests}

(* Every credential, in the list, in the settings and in the copies of all   *)
(* requests, belongs to the endpoint beside it, however the requests overlap *)
(* - until an administrator enters one beside another endpoint, or moves an  *)
(* entry and leaves its credential blank.                                    *)
CredentialsOwned == ~edited => \A v \in Copies : Owned(v)

(* A deleted node comes back only by pairing its agent again, because the    *)
(* settings name it, when the next read of an empty list makes it anew, or   *)
(* because the last node of the list was deleted and the option of the       *)
(* former name, which is read from then on, still holds it                   *)
(* (NodeRegistry.php:30).                                                    *)
DeletedUnlessNamed ==
    \A r \in Requests :
        /\ Done(r) /\ req[r].op = "delete" /\ req[r].arg.id \in Ids(site)
        /\ \A q \in Requests : q >= r => req[q].solo
        => \E q \in Requests : /\ q >= r /\ Started(q)
                               /\ \/ req[q].op = "pair" /\ req[q].arg.agent = req[r].arg.id
                                  \/ Now(req[q].h).settings.node = req[r].arg.id
                                  \/ /\ req[q].op = "delete" /\ Now(req[q].h).nodes = <<>>
                                     /\ req[r].arg.id \in IdsOf(site.old.nodes)

(* What StatusServiceTest.php:90 says of switching nodes, of every change of *)
(* the active node: a snapshot that is shown for the active node was fetched *)
(* from it, not from the node that was active before, although no two        *)
(* requests overlap.                                                         *)
SnapshotOfItsNode ==
    \A r \in Requests : req[r].op = "status" /\ Done(r) /\ (\A q \in Requests : req[q].solo) =>
        req[r].got.src = (IF req[r].arg.id = None THEN ActiveNode(req[r].before).id ELSE req[r].arg.id)
=============================================================================
