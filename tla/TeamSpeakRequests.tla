-------------------------- MODULE TeamSpeakRequests --------------------------
(***************************************************************************)
(* A TeamSpeak operation from the request to its answer: the capability of *)
(* the route, the validation of the body, the command line, and what is    *)
(* read in the response (agent/handlers.ts, domain/schemas.ts,             *)
(* ts3/serverQuery.ts).  The request is authentic (AgentApi, Admission),   *)
(* and the connection delivers (ServerQueryConnection).                    *)
(***************************************************************************)
EXTENDS QueryText, FiniteSets

CONSTANTS
    Requests,   \* requests: an operation and its body
    Granted,    \* the capabilities of the config, named as their operations
    Digits,     \* the text of each number that is used
    Asked,      \* bound: the operations whose response is looked at
    Names,      \* the keys of what the server reports
    Reports,    \* what it may report: sequences of records, which are
                \* sequences of <<key, value>>
    LineEnds    \* how a line of the server ends

VARIABLES
    request,    \* the request
    line,       \* the line that is sent
    reply,      \* external: what the server reports, and how
    result      \* the answer: its status and the entries it was made from

vars == <<request, line, reply, result>>

Routes == {"status", "clients", "channels", "channelCreate", "channelEdit", "channelDelete",
           "channelMove", "kickClient", "banClient", "moveClient", "pokeClient"}

(* A field of a body holds nothing (undefined or null) or a JSON value.      *)
Fields == {"clientId", "channelId", "parentId", "order", "timeSeconds", "name", "topic",
           "description", "reason", "message", "kickFrom", "force"}

IsValue(v) ==
    \/ v.type = "string" /\ v.value \in Seq(Chars)
    \/ v.type = "integer" /\ v.value \in DOMAIN Digits
    \/ v.type = "boolean" /\ v.value \in BOOLEAN
    \/ v.type = "other"

(* The identity worker alone asks for the details of a client, with the id   *)
(* of a report.                                                              *)
ASSUME RequestsAssumption ==
    \A r \in Requests :
        /\ r.op \in Routes \cup {"clientDetails"}
        /\ r.body # None => \A f \in Fields : r.body[f] # None => IsValue(r.body[f])
        /\ r.op = "clientDetails" => r.body # None /\ r.body["clientId"] # None
                                     /\ r.body["clientId"].type = "integer"

ASSUME CharsAssumption == {"0", "1", "o", "k", Space} \subseteq Chars
ASSUME DigitsAssumption ==
    /\ {0, 4, 5} \subseteq DOMAIN Digits
    /\ \A n \in DOMAIN Digits : Digits[n] \in Seq(Chars)

(* A name has no character that separates, and begins no notification and no *)
(* error line; the records have keys, each of them once; a line ends with a  *)
(* newline and other blanks around it.                                       *)
ASSUME NamesAssumption ==
    /\ Events # {} /\ {"id", "msg"} \subseteq Names
    /\ (Names \cup Events) \cap (Special \cup Wide \cup {"=", "error"}) = {}
    /\ Names \cap Events = {}
ASSUME ReportsAssumption ==
    \A recs \in Reports :
        /\ recs \in Seq(Seq(Names \X Seq(Chars)))
        /\ \A k \in DOMAIN recs :
               /\ recs[k] # <<>>
               /\ \A i, j \in DOMAIN recs[k] : recs[k][i][1] = recs[k][j][1] => i = j
ASSUME LineEndsAssumption ==
    \A end \in LineEnds : end \in Seq(Blanks) /\ \E i \in DOMAIN end : end[i] = Newline

-----------------------------------------------------------------------------
(* The validators of the bodies.                                             *)

IsText(v, lengths)   == v # None /\ v.type = "string" /\ Len(v.value) \in lengths
IsInteger(v, range)  == v # None /\ v.type = "integer" /\ v.value \in range
IsBoolean(v)         == v # None /\ v.type = "boolean"
IsOneOf(v, names)    == v # None /\ v.type = "string" /\ v.value \in names

Ids      == Nat \ {0}
Orders   == 0..100000
OneYear  == 0..31536000

Valid(r) ==
    LET b == r.body IN
    \/ r.op \in {"status", "clients", "channels"}
    \/ b # None /\
       CASE r.op = "channelCreate" -> /\ IsText(b["name"], 1..100)
                                      /\ b["parentId"] = None \/ IsInteger(b["parentId"], Nat)
                                      /\ b["order"] = None \/ IsInteger(b["order"], Orders)
         [] r.op = "channelEdit"   -> /\ IsInteger(b["channelId"], Ids)
                                      /\ b["name"] = None \/ IsText(b["name"], 1..100)
                                      /\ b["topic"] = None \/ IsText(b["topic"], 0..255)
                                      /\ b["description"] = None \/ IsText(b["description"], 0..8192)
         [] r.op = "channelDelete" -> /\ IsInteger(b["channelId"], Ids)
                                      /\ b["force"] = None \/ IsBoolean(b["force"])
         [] r.op = "channelMove"   -> /\ IsInteger(b["channelId"], Ids)
                                      /\ b["parentId"] = None \/ IsInteger(b["parentId"], Nat)
                                      /\ b["order"] = None \/ IsInteger(b["order"], Orders)
         [] r.op = "kickClient"    -> /\ IsInteger(b["clientId"], Ids)
                                      /\ b["reason"] = None \/ IsText(b["reason"], 0..512)
                                      /\ b["kickFrom"] = None \/ IsOneOf(b["kickFrom"], {<<"channel">>, <<"server">>})
         [] r.op = "banClient"     -> /\ IsInteger(b["clientId"], Ids)
                                      /\ b["reason"] = None \/ IsText(b["reason"], 0..512)
                                      /\ b["timeSeconds"] = None \/ IsInteger(b["timeSeconds"], OneYear)
         [] r.op = "moveClient"    -> IsInteger(b["clientId"], Ids) /\ IsInteger(b["channelId"], Nat)
         [] r.op = "pokeClient"    -> IsInteger(b["clientId"], Ids) /\ IsText(b["message"], 1..512)
         [] r.op = "clientDetails" -> TRUE

-----------------------------------------------------------------------------
(* The operations of ServerQueryTeamSpeakClient: the name of the command and *)
(* its parameters, of which those not given are left out or have a default.  *)

Text(v) == CASE v.type = "string"  -> v.value
             [] v.type = "integer" -> Digits[v.value]
             [] v.type = "boolean" -> IF v.value THEN <<"1">> ELSE <<"0">>

Or(v, default) == IF v = None THEN default ELSE Text(v)
Given(key, v)  == IF v = None THEN <<>> ELSE <<<<key, Text(v)>>>>

Command(r) ==
    LET b == r.body IN
    CASE r.op = "status"        -> <<"serverinfo", <<>>>>
      [] r.op = "clients"       -> <<"clientlist", <<>>>>
      [] r.op = "clientDetails" -> <<"clientinfo", <<<<"clid", Text(b["clientId"])>>>>>>
      [] r.op = "channels"      -> <<"channellist", <<>>>>
      [] r.op = "channelCreate" -> <<"channelcreate", <<<<"channel_name", Text(b["name"])>>,
                                      <<"cpid", Or(b["parentId"], Digits[0])>>,
                                      <<"channel_order", Or(b["order"], Digits[0])>>>>>>
      [] r.op = "channelEdit"   -> <<"channeledit", <<<<"cid", Text(b["channelId"])>>>>
                                      \o Given("channel_name", b["name"])
                                      \o Given("channel_topic", b["topic"])
                                      \o Given("channel_description", b["description"])>>
      [] r.op = "channelDelete" -> <<"channeldelete", <<<<"cid", Text(b["channelId"])>>,
                                      <<"force", Or(b["force"], <<"0">>)>>>>>>
      [] r.op = "channelMove"   -> <<"channelmove", <<<<"cid", Text(b["channelId"])>>,
                                      <<"cpid", Or(b["parentId"], Digits[0])>>,
                                      <<"order", Or(b["order"], Digits[0])>>>>>>
      [] r.op = "kickClient"    -> <<"clientkick", <<<<"clid", Text(b["clientId"])>>,
                                      <<"reasonid", IF Or(b["kickFrom"], <<"channel">>) = <<"server">>
                                                    THEN Digits[5] ELSE Digits[4]>>,
                                      <<"reasonmsg", Or(b["reason"], <<>>)>>>>>>
      [] r.op = "banClient"     -> <<"banclient", <<<<"clid", Text(b["clientId"])>>,
                                      <<"banreason", Or(b["reason"], <<>>)>>,
                                      <<"time", Or(b["timeSeconds"], Digits[0])>>>>>>
      [] r.op = "moveClient"    -> <<"clientmove", <<<<"clid", Text(b["clientId"])>>,
                                      <<"cid", Text(b["channelId"])>>>>>>
      [] r.op = "pokeClient"    -> <<"clientpoke", <<<<"clid", Text(b["clientId"])>>,
                                      <<"msg", Text(b["message"])>>>>>>

-----------------------------------------------------------------------------
(* External: the server.  It reports records in one line or in a line each,  *)
(* may put a notification between them, cuts the response off, or refuses    *)
(* the command; of a key with no value it may write the key alone.           *)

Pair(p, bare) == IF bare /\ p[2] = <<>> THEN <<p[1]>> ELSE Param(p)
Entry(record, bare) == Join([i \in DOMAIN record |-> Pair(record[i], bare)], <<Space>>)

ErrorLine(id) == <<"error", Space>> \o Entry(<<<<"id", <<id>>>>, <<"msg", <<"o", Space, "k">>>>>>, FALSE)
Notification == <<CHOOSE e \in Events : TRUE, Space, "clid", "=", "9">>

RawReply(r) ==
    LET entries == [k \in DOMAIN r.records |-> Entry(r.records[k], r.bare)]
        lines == (IF r.split \/ entries = <<>> THEN entries ELSE <<Join(entries, <<"|">>)>>)
                 \o [i \in 1..r.notified |-> Notification]
                 \o (IF r.cut THEN <<>> ELSE <<ErrorLine(r.id)>>)
    IN  Join(lines, r.end) \o r.end

Init ==
    /\ request \in Requests
    /\ line = <<>> /\ reply = None /\ result = None

(* handleRequest() after authenticate(): a request without the capability of *)
(* its route, or with a body that is not valid, is answered at once. The     *)
(* requireFeature() of each handler passes, as supports() names them all.    *)
Refuse ==
    /\ line = <<>> /\ result = None
    /\ request.op \in Routes
    /\ \/ request.op \notin Granted /\ result' = [status |-> 403, entries |-> <<>>]
       \/ request.op \in Granted /\ ~Valid(request) /\ result' = [status |-> 400, entries |-> <<>>]
    /\ UNCHANGED <<request, line, reply>>

(* The handler of the route, or the identity worker, calls the client.       *)
Send ==
    /\ line = <<>> /\ result = None
    /\ request.op \in Routes => request.op \in Granted /\ Valid(request)
    /\ line' = BuildCommand(Command(request)[1], Command(request)[2])
    /\ UNCHANGED <<request, reply, result>>

Reply ==
    /\ line # <<>> /\ reply = None
    /\ request.op \in Asked
    /\ \E recs \in Reports, split, bare, cut \in BOOLEAN, n \in 0..1, id \in {"0", "1"}, end \in LineEnds :
           /\ cut => id = "0"
           /\ reply' = [records |-> recs, split |-> split, bare |-> bare, cut |-> cut,
                        notified |-> n, id |-> id, end |-> end]
    /\ UNCHANGED <<request, line, result>>

(* assertOk(): an id that is not '0' fails the call.                         *)
Resolve ==
    /\ reply # None /\ result = None
    /\ LET response == ParseResponse(RawReply(reply))
       IN  result' = IF response.over /\ response.id = <<"0">>
                     THEN [status |-> 200, entries |-> response.entries]
                     ELSE [status |-> 500, entries |-> <<>>]
    /\ UNCHANGED <<request, line, reply>>

Next == Refuse \/ Send \/ Reply \/ Resolve

Spec == Init /\ [][Next]_vars

-----------------------------------------------------------------------------
(* Whatever a text holds, the line that is sent is one command with the      *)
(* parameters of its operation and no others, and each of them is read back  *)
(* as the text it was.                                                       *)
CommandIsOneLine ==
    line # <<>> =>
        LET params == Command(request)[2]
            read   == ParseKeyValue(SubSeq(line, 3, Len(line) - 1))
        IN  /\ {i \in DOMAIN line : line[i] \in Blanks \ {Space}} = {Len(line)}
            /\ line[Len(line)] = Newline
            /\ Cardinality({i \in DOMAIN line : line[i] = Space}) = Len(params)
            /\ \A i \in DOMAIN line : line[i] # "|"
            /\ DOMAIN read = {<<params[i][1]>> : i \in DOMAIN params}
            /\ \A i \in DOMAIN params : read[<<params[i][1]>>] = params[i][2]

(* A key without a value and without '=' is not the last of its record.      *)
Swallows(r) ==
    r.bare /\ \E k \in DOMAIN r.records : \E i \in 1..(Len(r.records[k]) - 1) : r.records[k][i][2] = <<>>

(* A line ends in a blank that belongs to a value.                           *)
EndsBlank(v) == v # <<>> /\ v[Len(v)] \in Wide
Trims(r) ==
    \E k \in DOMAIN r.records : /\ r.split \/ k = Len(r.records)
                                /\ EndsBlank(r.records[k][Len(r.records[k])][2])

(* A call that resolves has read the records the server wrote, one by one    *)
(* and with their values, whatever separates them and however its lines end; *)
(* it fails exactly if the server refused or the response was cut off.       *)
(* (A key that is written alone joins the key after it, and a line loses the *)
(* blanks at its end: see the README.)                                       *)
RecordsReadBack ==
    reply # None /\ result # None =>
        /\ (result.status = 200) = (reply.id = "0" /\ ~reply.cut)
        /\ result.status = 200 /\ ~Swallows(reply) /\ ~Trims(reply) =>
               result.entries = [k \in DOMAIN reply.records |->
                   LET record == reply.records[k]
                   IN  [key \in {<<record[i][1]>> : i \in DOMAIN record} |->
                          record[CHOOSE i \in DOMAIN record : <<record[i][1]>> = key][2]]]

(* What is left of a value without some of the blanks at its end.            *)
LeftOf(read, v) ==
    \E n \in 0..Len(v) : read = SubSeq(v, 1, n) /\ \A i \in (n + 1)..Len(v) : v[i] \in Wide

(* Even then no value passes from one key or record to another and none is   *)
(* made up: a value that is read for a key that was written is its own.      *)
ValuesKeepTheirKey ==
    reply # None /\ result # None /\ result.status = 200 =>
        /\ Len(result.entries) = Len(reply.records)
        /\ \A k \in DOMAIN result.entries : \A i \in DOMAIN reply.records[k] :
               LET key == <<reply.records[k][i][1]>>
               IN  key \in DOMAIN result.entries[k] => LeftOf(result.entries[k][key], reply.records[k][i][2])
=============================================================================
