------------------------------- MODULE MCInputs -------------------------------
(***************************************************************************)
(* Every reader of outside text on every input of a bounded set, one input *)
(* a behaviour, and the two servers.                                       *)
(***************************************************************************)
EXTENDS Servers, ShareRTCUrl, SignalMessage

CONSTANTS Urls, Ports, WsUrls, Messages, Roots      \* the inputs, of each kind

(* What a content's fields of type int hold is the text of an int          *)
HoldsInts(kind, content) ==
  LET fields == createContentByKind[kind]
  IN  \A f \in DOMAIN fields : fields[f] = "asInt" => content[f] \in IntTexts

(* A text is a sequence of words; a message has a kind, and the content of *)
(* that kind; a line of the file has a name and a key, or no separator.    *)
ASSUME InputAssumption ==
  /\ Urls \subseteq Seq(STRING) /\ Ports \subseteq Seq(STRING) /\ WsUrls \subseteq Seq(STRING)
  /\ \A msg \in Messages :
       /\ msg \in [kind : MessageType, reach : ReachType, sender : STRING, peerID : STRING,
                  content : {msg.content}]
       /\ msg.content \in [DOMAIN createContentByKind[msg.kind] -> STRING]
       /\ HoldsInts(msg.kind, msg.content)
  /\ AuthFiles \subseteq Seq([sep : BOOLEAN, name : STRING, key : STRING])

VARIABLES
  part,      \* "servers", or "readers"
  input,     \* what is read: its kind and its text or value
  output     \* what the reader of that kind makes of it
mcVars == <<vars, part, input, output>>

Texts(Words, n) == UNION {[1 .. k -> Words] : k \in 0 .. n}

(* Urls of ShareRTCUrl: a scheme, an authority and a path of every form,   *)
(* with blanks around and within                                           *)
MCUrls ==
  {blank \o scheme \o host \o port \o path \o query \o blank :
     blank \in {<<>>, <<" ">>},
     scheme \in {<<"https", ":", "/", "/">>, <<"HTTPS", ":", "/", "/">>, <<"http", ":", "/", "/">>,
                 <<"https", ":", "/">>},
     host \in {<<>>, <<"h">>, <<"H", ".", "h">>, <<"[", ":", ":", "1", "]">>, <<"[", "h">>,
               <<"[", "[", "h", "]">>, <<"[", "h", "]", "h">>, <<":", "h">>},
     port \in {<<>>, <<":">>, <<":", "1">>, <<":", "0">>, <<":", "8", "0">>, <<":", "h">>},
     path \in {<<>>, <<"/">>, <<"/", "p">>, <<"/", "/", "p", "/", "q", "/">>, <<"/", "p", " ", "/">>},
     query \in {<<>>, <<"?">>, <<"?", "k">>, <<"?", "k", "=", "1">>, <<"?", "k", "=", "1", "&", "k", "=", "2">>,
                <<"?", "=", "1", "&", "&", "b", "=", "=">>, <<"?", "k", "=", " ", "&", "b">>}}

MCPorts == {zeros \o s : zeros \in {<<>>, <<"0">>}, s \in Texts({"0", "3", "5", "6", "x"}, 5)}

MCWsUrls ==
  {scheme \o rest : scheme \in {<<"ws", ":", "/", "/">>, <<"wss", ":", "/", "/">>, <<"https", ":", "/", "/">>},
                    rest \in Texts({"h", ":", "/", "8", "-", " "}, 5)}

(* Messages as messageToJson writes them, and the same with one member     *)
(* that is missing, or of another type or text                             *)
MCIntTexts == {"0", "1"}
FieldTexts(as) == IF as = "asInt" THEN MCIntTexts ELSE {"", "1"}
Contents(kind) ==
  LET fields == createContentByKind[kind]
  IN  {c \in [DOMAIN fields -> {"", "0", "1"}] : \A f \in DOMAIN fields : c[f] \in FieldTexts(fields[f])}
MCMessages ==
  UNION {[kind : {k}, reach : ReachType, sender : {"", "1"}, peerID : {"", "1"}, content : Contents(k)] :
           k \in MessageType}
Marshalled(msg) == messageToJson([msg EXCEPT !.content = marshalContent(msg.kind, msg.content)])

Without(jv, m) == Object([n \in DOMAIN jv.members \ {m} |-> jv.members[n]])
With(jv, m, v) == Object([n \in DOMAIN jv.members |-> IF n = m THEN v ELSE jv.members[n]])
Values == {Null, Number("1"), Number("4294967296"), Str("x"), Object(<<>>)}
Altered(jv) ==
  {Without(jv, m) : m \in DOMAIN jv.members}
    \cup {With(jv, m, v) : m \in DOMAIN jv.members, v \in Values}
MCRoots ==
  LET written == {Marshalled(msg) : msg \in {g \in MCMessages : g.reach = "Self"}}
  IN  {Garbage, Null, Number("1"), Str("x"), messageToJson(IdentifySelfMessage)}
        \cup UNION {Altered(root) : root \in written}
        \cup UNION {{With(root, "content", c) : c \in Altered(root.members.content)} : root \in written}

Read(i) ==
  CASE i.kind = "url" -> parse(i.text, 443)
    [] i.kind = "port" -> parse_port(i.text)
    [] i.kind = "ws" -> ParseUrl(i.text)
    [] i.kind = "message" -> jsonToMessage(Marshalled(i.text))
    [] i.kind = "root" -> {HandledByBase(i.text), HandledByClient(i.text)}

Inputs ==
  [kind : {"url"}, text : Urls] \cup [kind : {"port"}, text : Ports] \cup [kind : {"ws"}, text : WsUrls]
    \cup [kind : {"message"}, text : Messages] \cup [kind : {"root"}, text : Roots]
Nothing == [kind |-> "none"]

MCInit ==
  /\ part \in {"servers", "readers"}
  /\ input = Nothing /\ output = Nothing
  /\ Init /\ (part = "readers" => program = "stunserver" /\ argv = <<>> /\ auth_file.lines = <<>> /\ auth_file.open)

ReadInput ==
  /\ part = "readers" /\ input = Nothing
  /\ input' \in Inputs
  /\ output' = Read(input')
  /\ UNCHANGED <<vars, part>>

Serve == part = "servers" /\ Next /\ UNCHANGED <<part, input, output>>

MCNext == ReadInput \/ Serve
MCSpec == MCInit /\ [][MCNext]_mcVars

(* Two users, and lines with a key, without one, and without '='           *)
AuthLines == {Line("a", "k1"), Line("a", "k2"), Line("a", ""), Line("b", "k1"), NoSeparator}
MCAuthFiles == UNION {[1 .. n -> AuthLines] : n \in 0 .. 3}

-----------------------------------------------------------------------------
Kind(k) == input.kind = k

(* A url that was accepted, written by to_url, is accepted again as the    *)
(* same url, with whatever brackets, slashes, blanks and repeated keys it  *)
(* was given: but for a host that keeps a bracket, and a value that ends   *)
(* with a blank, which the second parse trims.                             *)
UrlRoundTrip ==
  Kind("url") /\ output.ok =>
    LET again == to_url(output.value)
    IN  \/ parse(again, 443) = output
        \/ output.value.host[1] = "[" \/ again[Len(again)] = " "

(* The overflow guard of parse_port accepts exactly the digits of a number *)
(* of 1 to 65535, with leading zeros, and reads that number.               *)
PortExact ==
  Kind("port") =>
    LET s == input.text
        numeral == s # <<>> /\ \A i \in DOMAIN s : s[i] \in DOMAIN Digits
    IN  /\ output.ok <=> numeral /\ Decimal(s) \in 1 .. MaxPort
        /\ output.ok => output.value = Decimal(s)

(* ParseUrl cuts a WebSocket url at the marks that divide it: a ':' of the *)
(* path is no port, and host, port and path together are the whole url.    *)
WsSplitsUrl ==
  Kind("ws") /\ output.ok =>
    LET v == output.value
        front == <<IF v.use_tls THEN "wss" ELSE "ws", ":", "/", "/">> \o v.host
        rest == SubSeq(input.text, Len(front) + 1, Len(input.text))
        slash == IF find(rest, "/") = npos THEN Len(rest) + 1 ELSE find(rest, "/")
    IN  /\ IsPrefix(front, input.text) /\ {v.host[i] : i \in DOMAIN v.host} \cap {":", "/"} = {}
        /\ v.path = IF slash > Len(rest) THEN <<"/">> ELSE SubSeq(rest, slash, Len(rest))
        /\ v.port = IF slash > 1 THEN atoi(SubSeq(rest, 2, slash - 1)) ELSE IF v.use_tls THEN 443 ELSE 80

(* A user of the TURN server is given the key of the first line of the     *)
(* file that has one for it, and only such a user, whatever else the file  *)
(* holds and although one that cannot be opened stops nothing.             *)
FirstKeyWins ==
  LET Gives(u, i) == auth_file.lines[i].sep /\ auth_file.lines[i].name = u /\ auth_file.lines[i].key # ""
      lines == IF auth_file.open THEN DOMAIN auth_file.lines ELSE {}
  IN  /\ \A found \in served.found :
           \E i \in lines : /\ Gives(found[1], i) /\ auth_file.lines[i].key = found[2]
                            /\ \A j \in lines : j < i => ~Gives(found[1], j)
      /\ \A u \in served.refused : \A i \in lines : ~Gives(u, i)

(* A message that messageToJson writes around a marshalled content is read *)
(* back with the kind, the reach, the peers and the content it had.        *)
MessageRoundTrip ==
  Kind("message") =>
    LET msg == input.text
    IN  /\ output.outcome = "done"
        /\ [output.value EXCEPT !.content = msg.content] = msg
        /\ unmarshalContent(msg.kind, output.value.content) = Done(msg.content)

(* What was written is read back as it was: urls of both kinds, messages.  *)
RoundTrips == UrlRoundTrip /\ WsSplitsUrl /\ MessageRoundTrip

(* Neither copy of HandleMessage throws on a message whose members are     *)
(* such as toJson writes them, of their type and within its range: not on  *)
(* one that is missing, nor on a kind or reach without a meaning. (One of  *)
(* another type, or a number that is no int, throws in the base, and past  *)
(* the reach of its catch in the client.)                                  *)
AsWritten(root) ==
  LET content == Member(root, "content")
      Typed(m, type) == m \in DOMAIN root.members => root.members[m].type = type
      Readable(jv, as) == jv = ToScalar(jv.text, as) /\ (as = "asInt" => jv.text \in IntTexts)
  IN  \/ root = Garbage
      \/ /\ root.type = "object"
         /\ \A m \in {"kind", "reach", "sender", "peerID"} : Typed(m, "string")
         /\ Typed("content", "object")
         /\ \A k \in MessageType : \A f \in DOMAIN createContentByKind[k] :
              f \in DOMAIN content.members => Readable(content.members[f], createContentByKind[k][f])
ThrowsOnlyOnTypes ==
  Kind("root") /\ AsWritten(input.text) => \A r \in output : r.outcome # "thrown"
=============================================================================
