------------------------------- MODULE ShareRTCUrl -------------------------------
(***************************************************************************)
(* ShareRTCUrl (peerconnection/src/sharertc_url_parser.{h,cc}), and the    *)
(* ParseUrl of WebSocketClient. A text is a sequence of words, digits and  *)
(* marks. An error is its kind: the wording is left out.                   *)
(***************************************************************************)
EXTENDS Integers, Sequences, SequencesExt, FiniteSetsExt

npos == 0
find(s, c) == LET hits == {i \in DOMAIN s : s[i] = c} IN IF hits = {} THEN npos ELSE Min(hits)
rfind(s, c) == LET hits == {i \in DOMAIN s : s[i] = c} IN IF hits = {} THEN npos ELSE Max(hits)
Before(s, i) == SubSeq(s, 1, i - 1)
After(s, i) == SubSeq(s, i + 1, Len(s))

(* Without what is in C at either end                                      *)
Strip(s, C) ==
  LET kept == {i \in DOMAIN s : s[i] \notin C}
  IN  IF kept = {} THEN <<>> ELSE SubSeq(s, Min(kept), Max(kept))

trim(s) == Strip(s, {" "})
to_lower(s) ==
  [i \in DOMAIN s |-> CASE s[i] = "HTTPS" -> "https" [] s[i] = "H" -> "h" [] OTHER -> s[i]]

Ok(value) == [ok |-> TRUE, value |-> value]
Error(kind) == [ok |-> FALSE, value |-> kind]

Numerals == <<"0", "1", "2", "3", "4", "5", "6", "7", "8", "9">>
Digits == [c \in {Numerals[d + 1] : d \in 0 .. 9} |-> CHOOSE d \in 0 .. 9 : Numerals[d + 1] = c]

Powers == <<1, 10, 100, 1000, 10000>>      \* of the five digits a port has at most
to_string(n) ==
  LET len == Max({k \in DOMAIN Powers : k = 1 \/ n >= Powers[k]})
  IN  [i \in 1 .. len |-> Numerals[((n \div Powers[len + 1 - i]) % 10) + 1]]

MaxPort == 65535     \* of an unsigned 16-bit number, the one bound of every port

(* Mutant: the guard leaves the next digit out of account                  *)
PortDigitLate(r, c) ==
  IF ~r.ok THEN r
  ELSE IF c \notin DOMAIN Digits THEN Error("invalid port")
  ELSE IF r.value > MaxPort \div 10 THEN Error("port out of range")
  ELSE Ok(r.value * 10 + Digits[c])

(* parse_port: no step of the value may pass MaxPort                       *)
PortDigit(r, c) ==
  IF ~r.ok THEN r
  ELSE IF c \notin DOMAIN Digits THEN Error("invalid port")
  ELSE IF r.value > (MaxPort - Digits[c]) \div 10 THEN Error("port out of range")
  ELSE Ok(r.value * 10 + Digits[c])

parse_port(s) ==
  LET read[i \in 0 .. Len(s)] == IF i = 0 THEN Ok(0) ELSE PortDigit(read[i - 1], s[i])
      r == read[Len(s)]
  IN  IF s = <<>> \/ (r.ok /\ r.value = 0) THEN Error("invalid port") ELSE r

(* parse_query: segments between ampersands; the last of a key counts      *)
parse_query(qs) ==
  LET ends == {0, Len(qs) + 1} \cup {i \in DOMAIN qs : qs[i] = "&"}
      segments == {g \in ends \X ends : g[1] < g[2] /\ \A k \in ends : k <= g[1] \/ k >= g[2]}
      Seg(g) == SubSeq(qs, g[1] + 1, g[2] - 1)
      Key(g) == IF find(Seg(g), "=") = npos THEN Seg(g) ELSE Before(Seg(g), find(Seg(g), "="))
      Value(g) == IF find(Seg(g), "=") = npos THEN <<>> ELSE After(Seg(g), find(Seg(g), "="))
  IN  [k \in {Key(g) : g \in segments} \ {<<>>} |->
         Value(CHOOSE g \in segments : Key(g) = k /\ \A h \in segments : Key(h) = k => h[1] <= g[1])]

(* Mutant: the first colon divides host and port                           *)
AuthorityFirstColon(s) ==
  LET colon == find(s, ":")
      close == find(s, "]")
  IN  IF s # <<>> /\ s[1] = "[" /\ close # npos
      THEN Ok([host |-> SubSeq(s, 2, close - 1), has_port |-> close < Len(s), port |-> After(s, close + 1)])
      ELSE Ok([host |-> IF colon = npos THEN s ELSE Before(s, colon), has_port |-> colon # npos,
               port |-> IF colon = npos THEN <<>> ELSE After(s, colon)])

(* The authority: a host, in brackets or not, and the text of its port     *)
Authority(s) ==
  LET close == find(s, "]")
      colon == rfind(s, ":")
  IN  IF s # <<>> /\ s[1] = "["
      THEN IF close = npos THEN Error("IPv6 address missing ']'")
           ELSE IF close < Len(s) /\ s[close + 1] # ":" THEN Error("invalid authority")
           ELSE Ok([host |-> SubSeq(s, 2, close - 1), has_port |-> close < Len(s),
                    port |-> After(s, close + 1)])
      ELSE Ok([host |-> IF colon = npos THEN s ELSE Before(s, colon), has_port |-> colon # npos,
               port |-> IF colon = npos THEN <<>> ELSE After(s, colon)])

ShareRTCUrl(scheme, host, port, peerid, query) ==
  [scheme |-> to_lower(scheme), host |-> to_lower(host), port |-> port, peerid |-> peerid,
   query |-> query]

parse(url, default_port) ==
  LET s == trim(url)
      seps == {i \in 1 .. Len(s) - 2 : SubSeq(s, i, i + 2) = <<":", "/", "/">>}
      scheme == to_lower(Before(s, Min(seps)))
      rest == After(s, Min(seps) + 2)
      slash == find(rest, "/")
      authority == Authority(IF slash = npos THEN rest ELSE Before(rest, slash))
      path == IF slash = npos THEN <<>> ELSE After(rest, slash)
      port == IF authority.value.has_port THEN parse_port(authority.value.port) ELSE Ok(default_port)
      qmark == find(path, "?")
      peerid == Strip(IF qmark = npos THEN path ELSE Before(path, qmark), {"/"})
      query == IF qmark = npos THEN <<>> ELSE After(path, qmark)
  IN  IF s = <<>> THEN Error("empty")
      ELSE IF default_port \notin 1 .. MaxPort THEN Error("invalid default port")
      ELSE IF seps = {} THEN Error("missing '://'")
      ELSE IF scheme # <<"https">> THEN Error("unsupported scheme")
      ELSE IF ~authority.ok THEN authority
      ELSE IF authority.value.host = <<>> THEN Error("host must not be empty")
      ELSE IF ~port.ok THEN port
      ELSE IF peerid = <<>> THEN Error("missing peerid")
      ELSE Ok(ShareRTCUrl(scheme, authority.value.host, port.value, peerid, parse_query(query)))

to_url(u) ==
  LET keys == SetToSeq(DOMAIN u.query)
      Pair(i) == (IF i = 1 THEN <<"?">> ELSE <<"&">>) \o keys[i] \o <<"=">> \o u.query[keys[i]]
  IN  u.scheme \o <<":", "/", "/">> \o u.host \o <<":">> \o to_string(u.port) \o <<"/">> \o u.peerid
        \o FlattenSeq([i \in DOMAIN keys |-> Pair(i)])

-----------------------------------------------------------------------------
(* WebSocketClient::Impl::ParseUrl; atoi reads the digits in front, behind *)
(* blanks and a sign                                                       *)
Decimal(s) ==
  LET value[i \in 0 .. Len(s)] == IF i = 0 THEN 0 ELSE value[i - 1] * 10 + Digits[s[i]]
  IN  value[Len(s)]

atoi(s) ==
  LET t == trim(s)
      signed == t # <<>> /\ t[1] \in {"+", "-"}
      d == IF signed THEN Tail(t) ELSE t
      value == Decimal(SubSeq(d, 1, Max({k \in 0 .. Len(d) : \A i \in 1 .. k : d[i] \in DOMAIN Digits})))
  IN  IF signed /\ t[1] = "-" THEN 0 - value ELSE value

ParseUrl(url) ==
  LET tls == url # <<>> /\ url[1] = "wss"
      rest == SubSeq(url, 5, Len(url))
      path_pos == IF find(rest, "/") = npos THEN Len(rest) + 1 ELSE find(rest, "/")
      port_pos == find(rest, ":")
      has_port == port_pos # npos /\ port_pos < path_pos
      host == Before(rest, IF has_port THEN port_pos ELSE path_pos)
  IN  IF SubSeq(url, 1, 4) \notin {<<p, ":", "/", "/">> : p \in {"ws", "wss"}} \/ host = <<>>
      THEN Error("refused")
      ELSE Ok([use_tls |-> tls, host |-> host,
               port |-> IF has_port THEN atoi(SubSeq(rest, port_pos + 1, path_pos - 1))
                        ELSE IF tls THEN 443 ELSE 80,
               path |-> IF path_pos > Len(rest) THEN <<"/">> ELSE SubSeq(rest, path_pos, Len(rest))])
=============================================================================
