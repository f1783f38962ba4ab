------------------------------ MODULE AgentApi ------------------------------
(***************************************************************************)
(* The credentials of a node: the config file that the agent process and   *)
(* the processes of the command line share without a lock, the request     *)
(* pipeline of apps/ts3-manager/src/agent/server.ts and the handlers of    *)
(* agent/handlers.ts and cli/commands/api.ts that change the file.         *)
(*                                                                         *)
(* A request loads the config when it arrives (handleRequest), awaits its  *)
(* body, and is then authenticated and handled without a pause, but for    *)
(* the steps of other processes.  A command loads the config when its      *)
(* process starts, and checks that copy.  Both update the file by reading  *)
(* it, changing it and renaming a new file into place.                     *)
(*                                                                         *)
(* `config set agent.enabled` and `config set agent.credential` are         *)
(* commands as well: they write what the administrator types.               *)
(*                                                                         *)
(* An actor is one request or one command; the secret it brings up, a      *)
(* credential or a pairing code, bears its name.  Rate limits, nonces,     *)
(* signatures, capabilities and malformed bodies may refuse any request    *)
(* (Refuse); the first two are the subject of Admission.                   *)
(***************************************************************************)
EXTENDS Naturals, FiniteSets

CONSTANTS
  Requests,    \* HTTP requests to the agent
  Commands,    \* processes of the command line that change the config
  FirstCred,   \* a credential the node may start with
  FirstCode,   \* a pairing code the node may start with
  None         \* '' as a credential, undefined as a pairing

ASSUME ActorAssumption ==
  /\ Requests \cap Commands = {}
  /\ {FirstCred, FirstCode, None} \cap (Requests \cup Commands) = {}
  /\ FirstCred # FirstCode /\ FirstCred # None /\ FirstCode # None

VARIABLES
  file,        \* the config file: enabled, credential, pairing
  server,      \* the agent process: "down", "up", "closing" (a disable request was
               \* answered), "closed", "ended"
  actor,       \* actor[a]: how far a is, what it does, the code or credential it
               \* presents, and the config it loaded last
  running,     \* the request the agent's thread runs, None between requests
  expired,     \* pairing codes older than 15 minutes
  revoked,     \* history: secrets an update removed from the file, but those set again by hand
  granted,     \* history: <<code, a>>: a was given a credential for code
  behind,      \* history: processes the file changed under, between their first
               \* look at it and their update
  overlapped,  \* history: such a process updated the file
  byHand       \* history: enabled or the credential were set by hand, and no unpairing
               \* or disabling has followed

Actors == Requests \cup Commands
Creds  == Actors \cup {FirstCred}
Codes  == Commands \cup {FirstCode}

RequestOps == {"use", "pair", "rotate", "unpair", "disable"}
\* `config set agent.enabled true`, `... false`, `config set agent.credential` to
\* a known credential or '' and to a new one.
HandOps    == {"setEnabled", "setDisabled", "setCredential", "setNew"}

\* "set" is a command that changes none of the three fields, as `config set` of
\* another key does.
CommandOps == {"enable", "pair", "rotate", "unpair", "disable", "set"} \cup HandOps
Phases     == {"idle", "loaded", "authed", "checked", "read", "done", "refused"}
Configs    == [enabled : BOOLEAN, credential : Creds \cup {None}, pairing : Codes \cup {None}]
ActorState == [phase : Phases, op : RequestOps \cup CommandOps \cup {"none"},
               secret : Creds \cup Codes \cup {None}, config : Configs, late : BOOLEAN]

Fresh == [enabled |-> FALSE, credential |-> None, pairing |-> None]
Begin == [phase |-> "idle", op |-> "none", secret |-> None, config |-> Fresh, late |-> FALSE]

ghost == <<revoked, granted, behind, overlapped, byHand>>
vars  == <<file, server, actor, running, expired, revoked, granted, behind, overlapped, byHand>>

Init ==
  /\ file \in {Fresh,
               [Fresh EXCEPT !.enabled = TRUE, !.pairing = FirstCode],
               [Fresh EXCEPT !.enabled = TRUE, !.credential = FirstCred]}
  /\ server = "down"
  /\ actor = [a \in Actors |-> Begin]
  /\ running = None /\ expired = {}
  /\ revoked = {} /\ granted = {} /\ behind = {}
  /\ overlapped = FALSE /\ byHand = FALSE

-----------------------------------------------------------------------------
\* pairingMatches()
Matches(config, code) == code # None /\ config.pairing = code /\ code \notin expired

\* The secrets of kind S a client or an administrator may have learnt so far.
Known(S) == (revoked \cup {file.credential, file.pairing}) \cap S

Phase(a)    == actor[a].phase
Move(a, p)  == actor' = [actor EXCEPT ![a].phase = p]
Done(a)     == actor' = [actor EXCEPT ![a] = [@ EXCEPT !.phase = "done", !.secret = None, !.config = Fresh]]
Refused(a)  == actor' = [actor EXCEPT ![a] = [Begin EXCEPT !.phase = "refused"]]

\* Actor a begins with the config config.
Loaded(o, s, config) ==
  [phase |-> "loaded", op |-> o, secret |-> s, config |-> config, late |-> s \in revoked]

\* A handleRequest() that keeps the config an earlier request loaded.
ArriveCached(r, o, s) ==
  /\ server \in {"up", "closing"} /\ running = None
  /\ Phase(r) = "idle"
  /\ LET earlier == {b \in Requests : Phase(b) = "loaded"} IN
     actor' = [actor EXCEPT ![r] =
                 Loaded(o, s, IF earlier = {} THEN file ELSE actor[CHOOSE b \in earlier : TRUE].config)]
  /\ UNCHANGED <<file, server, running, expired, ghost>>

\* handleRequest() up to `await readBody`.
Arrive(r, o, s) ==
  /\ server \in {"up", "closing"} /\ running = None
  /\ Phase(r) = "idle"
  /\ actor' = [actor EXCEPT ![r] = Loaded(o, s, file)]
  /\ UNCHANGED <<file, server, running, expired, ghost>>

\* A request is refused after its body came, or its client went away.
Refuse(r) ==
  /\ running = None
  /\ Phase(r) = "loaded"
  /\ Refused(r)
  /\ UNCHANGED <<file, server, running, expired, ghost>>

\* authenticate() with the config that was loaded on arrival, and the handlers
\* that leave the config alone.
Authenticate(r) ==
  /\ running = None
  /\ Phase(r) = "loaded"
  /\ LET self == actor[r] IN
     /\ \/ self.op = "pair" /\ Matches(self.config, self.secret)
        \/ self.op # "pair" /\ self.config.credential = self.secret
     /\ IF self.op = "use" THEN Done(r) /\ UNCHANGED running
                           ELSE Move(r, "authed") /\ running' = r
  /\ UNCHANGED <<file, server, expired, ghost>>

\* A pairHandler() that relies on authenticate().
HandlerAcceptsPair(r) == actor[r].op = "rotate" => file.credential # None

\* A rotateSecretHandler() that relies on authenticate().
HandlerAcceptsRotate(r) == actor[r].op = "pair" => Matches(file, actor[r].secret)

\* What pairHandler() and rotateSecretHandler() check in a config they load
\* anew; the other handlers check nothing.
HandlerAccepts(r) ==
  /\ actor[r].op = "pair"   => Matches(file, actor[r].secret)
  /\ actor[r].op = "rotate" => file.credential # None

Recheck(r) ==
  /\ Phase(r) = "authed"
  /\ IF HandlerAccepts(r) THEN Move(r, "checked") /\ UNCHANGED running
                          ELSE Refused(r) /\ running' = None
  /\ behind' = behind \ {r}
  /\ UNCHANGED <<file, server, expired, revoked, granted, overlapped, byHand>>

-----------------------------------------------------------------------------
\* A command's process starts: createCliContext() loads the config.
Start(k, o, s) ==
  /\ Phase(k) = "idle"
  /\ actor' = [actor EXCEPT ![k] = Loaded(o, s, file)]
  /\ UNCHANGED <<file, server, running, expired, ghost>>

\* What the commands check in the config of the start: apiEnable(), apiPair(),
\* apiRotateSecret(); the others check nothing.
CommandAccepts(k) ==
  LET self == actor[k] IN
  /\ self.op = "enable" => self.config.credential = None
  /\ self.op = "pair"   => Matches(self.config, self.secret)
  /\ self.op = "rotate" => self.config.credential # None

Check(k) ==
  /\ k \in Commands /\ Phase(k) = "loaded"
  /\ IF CommandAccepts(k) THEN Move(k, "checked") ELSE Refused(k)
  /\ UNCHANGED <<file, server, running, expired, ghost>>

-----------------------------------------------------------------------------
\* updateConfig() reads the file ...
ReadFile(a) ==
  /\ Phase(a) = "checked"
  /\ actor' = [actor EXCEPT ![a].phase = "read", ![a].config = file]
  /\ UNCHANGED <<file, server, running, expired, ghost>>

\* ... applies the updater of the operation, of which those of the handlers and
\* of the commands are the same; `config set` puts the typed value in ...
Enabled(config, a) == [config EXCEPT !.enabled = TRUE, !.pairing = a]

\* A pairHandler() that stores the code as the credential.
PairedWithCode(config, a) == [config EXCEPT !.credential = config.pairing, !.pairing = None]

Paired(config, a)  == [config EXCEPT !.credential = a, !.pairing = None]
Rotated(config, a) == [config EXCEPT !.credential = a]
Unpaired(config)   == [config EXCEPT !.credential = None, !.pairing = None]

Updated(a) ==
  LET config == actor[a].config IN
  CASE actor[a].op = "enable"             -> Enabled(config, a)
    [] actor[a].op = "pair"               -> Paired(config, a)
    [] actor[a].op \in {"rotate", "setNew"} -> Rotated(config, a)
    [] actor[a].op = "unpair"             -> Unpaired(config)
    [] actor[a].op = "disable"            -> Fresh
    [] actor[a].op = "set"                -> config
    [] actor[a].op = "setEnabled"         -> [config EXCEPT !.enabled = TRUE]
    [] actor[a].op = "setDisabled"        -> [config EXCEPT !.enabled = FALSE]
    [] actor[a].op = "setCredential"      -> [config EXCEPT !.credential = actor[a].secret]

\* The agent's thread is free again after request a; commands have their own.
Return(a) == running' = IF a \in Requests THEN None ELSE running

\* The processes between their first look at the file and their update.
Looking == {a \in Actors : a = running \/ (a \in Commands /\ Phase(a) \in {"loaded", "checked", "read"})}

\* The credential an administrator types.
Typed(a) == IF actor[a].op = "setCredential" THEN {actor[a].secret} ELSE {}

\* ... and renames the new file into place.  The answer to a disable request
\* makes the agent stop listening soon.
WriteFile(a) ==
  /\ Phase(a) = "read"
  /\ file' = Updated(a)
  /\ revoked' = (revoked \cup ({file.credential, file.pairing}
                               \ {None, file'.credential, file'.pairing})) \ Typed(a)
  /\ granted' = IF actor[a].op = "pair" THEN granted \cup {<<actor[a].secret, a>>} ELSE granted
  /\ behind' = (behind \cup Looking) \ {a}
  /\ overlapped' = (overlapped \/ a \in behind)
  /\ byHand' = (actor[a].op \in HandOps \/ (byHand /\ actor[a].op \notin {"unpair", "disable"}))
  /\ Done(a) /\ Return(a)
  /\ server' = IF a \in Requests /\ actor[a].op = "disable" /\ server = "up"
               THEN "closing" ELSE server
  /\ UNCHANGED expired

\* The write throws: the file stays as it was.
WriteFails(a) ==
  /\ Phase(a) = "read"
  /\ Refused(a) /\ Return(a)
  /\ UNCHANGED <<file, server, expired, ghost>>

-----------------------------------------------------------------------------
\* Fifteen minutes pass after a code was made.
Expire ==
  /\ file.pairing \notin expired \cup {None}
  /\ expired' = expired \cup {file.pairing}
  /\ UNCHANGED <<file, server, actor, running, ghost>>

\* `ts3-manager agent` runs only when the API is enabled.
Launch ==
  /\ server = "down" /\ file.enabled
  /\ server' = "up"
  /\ UNCHANGED <<file, actor, running, expired, ghost>>

\* The timer of onDisable: server.close().  Requests being received go on.
CloseServer ==
  /\ server = "closing" /\ running = None
  /\ server' = "closed"
  /\ UNCHANGED <<file, actor, running, expired, ghost>>

\* SIGINT or SIGTERM: the connections of the requests being received are cut.
Terminate ==
  /\ server \in {"up", "closing", "closed"} /\ running = None
  /\ server' = "ended"
  /\ actor' = [a \in Actors |-> IF a \in Requests /\ Phase(a) = "loaded"
                                THEN [Begin EXCEPT !.phase = "refused"] ELSE actor[a]]
  /\ UNCHANGED <<file, running, expired, ghost>>

Next ==
  \/ \E r \in Requests, s \in Known(Codes) : Arrive(r, "pair", s)
  \/ \E r \in Requests, o \in RequestOps \ {"pair"}, s \in Known(Creds) : Arrive(r, o, s)
  \/ \E r \in Requests : Refuse(r) \/ Authenticate(r) \/ Recheck(r)
  \/ \E k \in Commands, s \in Known(Codes) : Start(k, "pair", s)
  \/ \E k \in Commands, s \in Known(Creds) : Start(k, "setCredential", s)
  \/ \E k \in Commands, o \in CommandOps \ {"pair"} : Start(k, o, None)
  \/ \E k \in Commands : Check(k)
  \/ \E a \in Actors : ReadFile(a) \/ WriteFile(a) \/ WriteFails(a)
  \/ Expire \/ Launch \/ CloseServer \/ Terminate

Spec == Init /\ [][Next]_vars

-----------------------------------------------------------------------------
TypeOK ==
  /\ file \in Configs
  /\ server \in {"down", "up", "closing", "closed", "ended"}
  /\ actor \in [Actors -> ActorState]
  /\ running \in Requests \cup {None}
  /\ expired \in SUBSET Codes
  /\ revoked \in SUBSET (Creds \cup Codes)
  /\ granted \in SUBSET ((Creds \cup Codes) \X Actors)
  /\ behind \in SUBSET Actors /\ overlapped \in BOOLEAN /\ byHand \in BOOLEAN

\* The config never holds a credential and a pairing code together, and a
\* disabled one holds neither, although requests are authenticated with a
\* config loaded before their body came; unless processes overlapped, or the
\* two fields were set by hand.  Unpairing and disabling put that right: from
\* then on it holds again, whatever requests and commands come next.
PairedOrPairing ==
  ~overlapped /\ ~byHand =>
    /\ file.credential = None \/ file.pairing = None
    /\ file.enabled \/ (file.credential = None /\ file.pairing = None)

\* "single use": one credential at most is given for a pairing code, however
\* many requests present it at once; unless processes overlapped.
SingleUse ==
  ~overlapped => \A g, h \in granted : g[1] = h[1] => g = h

\* No request is served for a secret that was revoked or used up before the
\* request came; unless processes overlapped.
RevokedIsRefused ==
  ~overlapped => \A r \in Requests : actor[r].late => Phase(r) = "loaded"

\* "Agent unpaired; long-term credential revoked." (api.ts): a secret that an
\* update removed from the file is not in it again, unless it is set by hand.
RevokedIsGone == {file.credential, file.pairing} \cap revoked = {}

\* "rotate-secret invalidates the previous credential": no request is served
\* for a credential the config does not hold any more.
ServedByCurrent ==
  [][\A r \in Requests :
       actor[r].op # "pair" /\ Phase(r) = "loaded" /\ Phase(r)' \in {"done", "authed"}
         => actor[r].secret = file.credential]_vars
=============================================================================
