----------------------------- MODULE MCQueryText -----------------------------
(* Bodies with all texts of up to three characters that matter to the        *)
(* parser, and some longer ones, and with fields that are missing, out of    *)
(* range or of another type; reports of up to two records of up to two keys. *)
EXTENDS TeamSpeakRequests, TLC

Some == {"\\", " ", "|", "=", "n", "s", "\n", "\r", "/"}
MCChars == Some \cup {"0", "1", "4", "5", "BEL", "BS", "VT", "\f", "\t", "NBSP", "o", "k", "server", "channel"}
Long == UNION {[1..n -> Some] : n \in 0..3}
         \cup {<<"\\", "\\", "s">>, <<" ", "\\", " ">>, <<"=", "|", "=">>, <<"BEL", "BS", "VT", "\f", "\t">>}

(* A text of n characters; the longest that are sent have 100.               *)
OfLength(n) == [i \in 1..n |-> "s"]

MCDigits == 0 :> <<"0">> @@ 1 :> <<"1">> @@ 4 :> <<"4">> @@ 5 :> <<"5">> @@ 100001 :> <<"5">>

String(s) == [type |-> "string", value |-> s]
Number(n) == [type |-> "integer", value |-> n]
Flag(b)   == [type |-> "boolean", value |-> b]
Other     == [type |-> "other", value |-> None]

(* A body with the fields of given, and a request of it.                     *)
Body(given) == [f \in Fields |-> IF f \in DOMAIN given THEN given[f] ELSE None]
Requested(op, given) == [op |-> op, body |-> Body(given)]

Texts(lengths) == {String(s) : s \in Long \cup {OfLength(n) : n \in lengths}}
Few   == {None, Other} \cup {String(s) : s \in {<<>>, <<" ">>, <<"\\">>, <<"=", "|", "=">>, <<"\\", "\\", "s">>}}
OneId == {Number(1), Number(0), Other}
Maybe == {None, Number(1), Number(100001)}

MCRequests ==
    {[op |-> op, body |-> None] : op \in {"status", "clients", "channels", "pokeClient"}}
    \cup {Requested("clientDetails", "clientId" :> Number(1))}
    \cup {Requested("channelCreate", "name" :> t @@ "parentId" :> p @@ "order" :> o) : t \in Few, p, o \in Maybe}
    \cup {Requested("channelCreate", "name" :> t) : t \in Texts({100, 101})}
    \cup {Requested("channelEdit", "channelId" :> i @@ "name" :> n @@ "topic" :> t @@ "description" :> d) :
             i \in OneId, n, t, d \in Few}
    \cup {Requested("channelEdit", "channelId" :> Number(1) @@ "topic" :> t) : t \in Texts({100, 256})}
    \cup {Requested("channelDelete", "channelId" :> i @@ "force" :> f) :
             i \in OneId, f \in {None, Flag(TRUE), Flag(FALSE), Number(1)}}
    \cup {Requested("channelMove", "channelId" :> i @@ "parentId" :> p @@ "order" :> o) :
             i \in OneId, p, o \in Maybe}
    \cup {Requested("kickClient", "clientId" :> i @@ "kickFrom" :> k @@ "reason" :> t) :
             i \in OneId, k \in {None, String(<<"channel">>), String(<<"server">>), String(<<"s">>)}, t \in Few}
    \cup {Requested("banClient", "clientId" :> i @@ "timeSeconds" :> s @@ "reason" :> t) :
             i \in OneId, s \in Maybe, t \in Few}
    \cup {Requested("moveClient", "clientId" :> i @@ "channelId" :> c) : i, c \in OneId}
    \cup {Requested("pokeClient", "clientId" :> Number(1) @@ "message" :> t) : t \in Texts({100, 513})}

Short == {<<>>, <<"\\">>, <<" ", "|">>, <<"\n", "=">>, <<"s">>, <<"s", "NBSP">>}
Pairs == {<<<<"client_away_message", v>>, <<"client_description", w>>>> : v, w \in Short}
Small == {<<<<"cid", v>>>> : v \in Short}
         \cup {<<<<"cid", v>>, <<"name", w>>>> : v \in {<<>>, <<"s">>}, w \in {<<>>, <<"|">>}}
MCNames == {"cid", "name", "client_away_message", "client_description", "id", "msg"}
MCReports == {<<>>} \cup {<<a>> : a \in Pairs} \cup {<<a, b>> : a, b \in Small}

MCEvents == {"notifyclientleftview"}
MCLineEnds == {<<"\n">>, <<"\r", "\n">>, <<"\n", "\r">>}
=============================================================================
