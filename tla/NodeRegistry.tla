---------------------------- MODULE NodeRegistry ----------------------------
(***************************************************************************)
(* The options of the WordPress plugin and the operations on its list of   *)
(* nodes (NodeRegistry.php, Repository.php, AuditLog.php).                 *)
(*                                                                         *)
(* A PHP request reads every option once, at its start, and then works on  *)
(* that copy; update_option() writes one option at a time to the database  *)
(* and to the copy, and writes nothing when the copy holds the value       *)
(* already.  An operation therefore extends a HISTORY: the sequence of     *)
(* copies a request goes through, in which neighbours differ by one        *)
(* option, the one that is written between them.                           *)
(*                                                                         *)
(* Two of the options have a fallback of the plugin's former name, which   *)
(* is read while they are empty and which nobody ever writes.              *)
(***************************************************************************)
EXTENDS Naturals, Sequences

CONSTANTS
    None,       \* the empty string: no id, no endpoint, no credential
    AuditMax    \* AuditLog::MAX_ENTRIES

ASSUME AuditMaxAssumption == AuditMax \in Nat \ {0}

(* One entry of the list, and the three settings that name a node.          *)
Node(id, endpoint, cred) == [id |-> id, endpoint |-> endpoint, cred |-> cred]
Settings(url, cred, node) == [url |-> url, cred |-> cred, node |-> node]

Options == {"nodes", "active", "settings", "audit"}

(* NodeRegistry::all() and active_id(): while an option is empty, the one of *)
(* the former name, old.                                                     *)
All(v)      == IF v.nodes = <<>> THEN v.old.nodes ELSE v.nodes
ActiveId(v) == IF v.active = None THEN v.old.active ELSE v.active

IdsOf(nodes) == {nodes[i].id : i \in DOMAIN nodes}
Ids(v)       == IdsOf(All(v))
Get(v, id)   == All(v)[CHOOSE i \in DOMAIN All(v) : All(v)[i].id = id]

(* The copy of the options at the end of a history, and update_option().     *)
Now(h) == h[Len(h)]
Put(h, option, value) ==
    IF Now(h)[option] = value THEN h
                              ELSE Append(h, [Now(h) EXCEPT ![option] = value])

(* NodeRegistry::migrate_legacy(): an empty list is filled from the settings; *)
(* madeId is the id it generates when the settings name none.                *)
Migrate(h, madeId) ==
    LET v  == Now(h)
        s  == v.settings
        id == IF s.node = None THEN madeId ELSE s.node
    IN  IF v.nodes # <<>> \/ s.url = None THEN h
        ELSE Put(Put(h, "nodes", <<Node(id, s.url, s.cred)>>), "active", id)

(* Mutants: every entry is appended; a replaced entry keeps its endpoint.    *)
UpsertAppends(h, madeId, n) ==
    Put(Migrate(h, madeId), "nodes", Append(All(Now(Migrate(h, madeId))), n))
UpsertKeepsEndpoint(h, madeId, n) ==
    LET all == All(Now(Migrate(h, madeId)))
    IN  Put(Migrate(h, madeId), "nodes",
            IF n.id \in IdsOf(all)
            THEN [i \in DOMAIN all |-> IF all[i].id = n.id
                                       THEN [n EXCEPT !.endpoint = all[i].endpoint] ELSE all[i]]
            ELSE Append(all, n))

(* NodeRegistry::upsert(): replaces the entry in its place or appends it.    *)
Upsert(h, madeId, n) ==
    LET g   == Migrate(h, madeId)
        all == All(Now(g))
    IN  Put(g, "nodes",
            IF n.id \in IdsOf(all)
            THEN [i \in DOMAIN all |-> IF all[i].id = n.id THEN n ELSE all[i]]
            ELSE Append(all, n))

(* NodeRegistry::set_active(): an unknown id is refused, '' is not.          *)
SetActive(h, madeId, id) ==
    IF id = None THEN Put(h, "active", None)
    ELSE LET g == Migrate(h, madeId)
         IN  IF id \in Ids(Now(g)) THEN Put(g, "active", id) ELSE g

(* The list without the entries of an id (the unset() of remove()).          *)
Without(nodes, id) ==
    LET kept[i \in 0..Len(nodes)] ==
            IF i = 0 THEN <<>>
            ELSE IF nodes[i].id = id THEN kept[i - 1] ELSE Append(kept[i - 1], nodes[i])
    IN  kept[Len(nodes)]

(* Mutant: an active node is only handed over.                               *)
RemoveHandsOver(h, madeId, id) ==
    LET g    == Migrate(h, madeId)
        rest == Without(All(Now(g)), id)
    IN  IF id \notin Ids(Now(g)) THEN g
        ELSE IF ActiveId(Now(g)) # id THEN Put(g, "nodes", rest)
        ELSE SetActive(g, madeId, IF rest = <<>> THEN None ELSE rest[1].id)

(* NodeRegistry::remove(): a removed active node hands over to the first.    *)
Remove(h, madeId, id) ==
    LET g    == Migrate(h, madeId)
        rest == Without(All(Now(g)), id)
        f    == Put(g, "nodes", rest)
    IN  IF id \notin Ids(Now(g)) THEN g
        ELSE IF ActiveId(Now(f)) # id THEN f
        ELSE SetActive(f, madeId, IF rest = <<>> THEN None ELSE rest[1].id)

(* NodeRegistry::active() on a migrated copy: the active entry, else the     *)
(* first, else defaults().                                                   *)
ActiveNode(v) ==
    CASE ActiveId(v) \in Ids(v) -> Get(v, ActiveId(v))
      [] ActiveId(v) \notin Ids(v) /\ All(v) # <<>> -> All(v)[1]
      [] OTHER -> Node(None, None, None)

(* Repository::set_many() of the three settings, and AuditLog::append()      *)
(* (mutant: a full log takes no entry).                                      *)
SetMany(h, s) == Put(h, "settings", s)
LogKeepsOldest(h, entry) ==
    Put(h, "audit", IF Len(Now(h).audit) < AuditMax THEN Append(Now(h).audit, entry) ELSE Now(h).audit)
Log(h, entry) ==
    LET all == Append(Now(h).audit, entry)
    IN  Put(h, "audit", SubSeq(all, (IF Len(all) > AuditMax THEN Len(all) - AuditMax ELSE 0) + 1,
                                    Len(all)))

(* The option two neighbours of a history differ in.                         *)
Written(v, w) == CHOOSE o \in Options : v[o] # w[o]
=============================================================================
