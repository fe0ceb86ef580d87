----------------------------- MODULE MCInputs_proofs -----------------------------
(***************************************************************************)
(* What the readers of outside text and the two servers do with any input  *)
(* that InputAssumption admits: a key file, a port or a WebSocket url of   *)
(* any length, a message with any texts, a JSON value of any shape.        *)
(***************************************************************************)
EXTENDS MCInputs, Induction, FiniteSetTheorems, SequenceTheorems

-----------------------------------------------------------------------------
(* ReadAuthFile. What the first n lines gave it, for every n.              *)
Lines == [sep : BOOLEAN, name : STRING, key : STRING]

KeysUpTo(lines) ==
  CHOOSE f : f = [i \in 0 .. Len(lines) |-> IF i = 0 THEN <<>> ELSE AddLine(f[i - 1], lines[i])]

KeyMaps == UNION {[N -> STRING] : N \in SUBSET STRING}

LEMMA AddLineTyped == ASSUME NEW keys0 \in KeyMaps, NEW line \in Lines PROVE AddLine(keys0, line) \in KeyMaps
<1>1. PICK N \in SUBSET STRING : keys0 \in [N -> STRING]
  BY DEF KeyMaps
<1>2. line.name \in STRING /\ line.key \in STRING
  BY DEF Lines
<1>3. CASE AddLine(keys0, line) = keys0
  BY <1>3
<1>4. CASE AddLine(keys0, line) # keys0
  <2>1. AddLine(keys0, line) = [n \in N \cup {line.name} |-> IF n = line.name THEN line.key ELSE keys0[n]]
    BY <1>1, <1>4 DEF AddLine
  <2>2. AddLine(keys0, line) \in [N \cup {line.name} -> STRING]
    BY <1>1, <1>2, <2>1
  <2>3. N \cup {line.name} \in SUBSET STRING
    BY <1>2
  <2> QED BY <2>2, <2>3 DEF KeyMaps
<1> QED BY <1>3, <1>4

LEMMA KeysDefined ==
  ASSUME NEW lines \in Seq(Lines)
  PROVE  /\ ReadAuthFile(lines) = KeysUpTo(lines)[Len(lines)]
         /\ KeysUpTo(lines)[0] = <<>>
         /\ \A n \in 1 .. Len(lines) : KeysUpTo(lines)[n] = AddLine(KeysUpTo(lines)[n - 1], lines[n])
         /\ \A n \in 0 .. Len(lines) : KeysUpTo(lines)[n] \in KeyMaps
<1> DEFINE Step == [n \in 1 .. Len(lines) |-> [k \in KeyMaps |-> AddLine(k, lines[n])]]
<1>1. Len(lines) \in Nat /\ \A n \in 1 .. Len(lines) : lines[n] \in Lines
  OBVIOUS
<1>2. <<>> \in KeyMaps
  <2>1. <<>> \in [{} -> STRING] /\ {} \in SUBSET STRING
    OBVIOUS
  <2> QED BY <2>1 DEF KeyMaps
<1>3. Step \in [1 .. Len(lines) -> [KeyMaps -> KeyMaps]]
  BY <1>1, AddLineTyped
<1>4. PICK f : Defines(f, KeyMaps, Len(lines), <<>>, Step)
  <2> HIDE DEF Step
  <2> QED BY <1>1, <1>2, <1>3, Recursion
<1>5. \A n \in 0 .. Len(lines) : f[n] = IF n = 0 THEN <<>> ELSE AddLine(f[n - 1], lines[n])
  <2> TAKE n \in 0 .. Len(lines)
  <2>1. CASE n = 0
    BY <1>4, <2>1 DEF Defines
  <2>2. CASE n # 0
    <3>1. n \in 1 .. Len(lines) /\ n - 1 \in 0 .. Len(lines)
      BY <1>1, <2>2
    <3>2. f[n - 1] \in KeyMaps /\ f[n] = Step[n][f[n - 1]]
      BY <1>4, <3>1 DEF Defines
    <3> QED BY <2>2, <3>1, <3>2
  <2> QED BY <2>1, <2>2
<1>6. f = [n \in 0 .. Len(lines) |-> IF n = 0 THEN <<>> ELSE AddLine(f[n - 1], lines[n])]
  <2> HIDE DEF Step
  <2> QED BY <1>4, <1>5 DEF Defines
<1>7. KeysUpTo(lines) = [n \in 0 .. Len(lines) |->
                          IF n = 0 THEN <<>> ELSE AddLine(KeysUpTo(lines)[n - 1], lines[n])]
  BY <1>6, Zenon DEF KeysUpTo
<1>8. ReadAuthFile(lines) = KeysUpTo(lines)[Len(lines)]
  BY Zenon DEF ReadAuthFile, KeysUpTo
<1> DEFINE u == KeysUpTo(lines)
<1> HIDE DEF u, Step
<1>9. u[0] = <<>> /\ \A n \in 1 .. Len(lines) : u[n] = AddLine(u[n - 1], lines[n])
  <2>1. u = [n \in 0 .. Len(lines) |-> IF n = 0 THEN <<>> ELSE AddLine(u[n - 1], lines[n])]
    BY <1>7 DEF u
  <2>2. u[0] = <<>>
    BY <1>1, <2>1
  <2>3. ASSUME NEW n \in 1 .. Len(lines) PROVE u[n] = AddLine(u[n - 1], lines[n])
    <3>1. n \in 0 .. Len(lines) /\ n # 0
      BY <1>1
    <3> QED BY <2>1, <3>1
  <2> QED BY <2>2, <2>3
<1>10. \A n \in 0 .. Len(lines) : u[n] \in KeyMaps
  <2> DEFINE T == {n \in 0 .. Len(lines) : u[n] \in KeyMaps}
  <2>1. 0 \in T
    BY <1>1, <1>2, <1>9
  <2>2. ASSUME NEW n \in 0 .. (Len(lines) - 1), n \in T PROVE n + 1 \in T
    <3>1. n + 1 \in 1 .. Len(lines) /\ n + 1 \in 0 .. Len(lines) /\ (n + 1) - 1 = n
      BY <1>1
    <3>2. u[n + 1] = AddLine(u[n], lines[n + 1]) /\ lines[n + 1] \in Lines
      BY <1>1, <1>9, <3>1
    <3> QED BY <2>2, <3>1, <3>2, AddLineTyped
  <2> HIDE DEF T
  <2>3. \A n \in 0 .. Len(lines) : n \in T
    BY <1>1, <2>1, <2>2, BoundedInduction
  <2> QED BY <2>3 DEF T
<1> QED BY <1>8, <1>9, <1>10 DEF u

(* A line gives a user a key when it has one for that name.                *)
GivesKey(lines, u, i) == lines[i].sep /\ lines[i].name = u /\ lines[i].key # ""

(* After n lines each user has the key of the first line that gives one.   *)
FirstKeys(lines, keys0, n) ==
  /\ \A u \in DOMAIN keys0 :
       \E i \in 1 .. n : /\ GivesKey(lines, u, i) /\ lines[i].key = keys0[u]
                         /\ \A j \in 1 .. i - 1 : ~GivesKey(lines, u, j)
  /\ \A i \in 1 .. n : \A u : GivesKey(lines, u, i) => u \in DOMAIN keys0

LEMMA FirstKeysNext ==
  ASSUME NEW lines \in Seq(Lines), NEW n \in Nat, n + 1 \in DOMAIN lines,
         NEW keys0 \in KeyMaps, FirstKeys(lines, keys0, n)
  PROVE  FirstKeys(lines, AddLine(keys0, lines[n + 1]), n + 1)
<1> DEFINE l == lines[n + 1]
           new == AddLine(keys0, l)
<1>1. l \in Lines
  OBVIOUS
<1>2. 1 .. n + 1 = (1 .. n) \cup {n + 1}
  OBVIOUS
<1>3. CASE ~l.sep \/ l.key = ""
  <2>1. new = keys0
    BY <1>3 DEF AddLine
  <2>2. \A u : ~GivesKey(lines, u, n + 1)
    BY <1>3 DEF GivesKey
  <2> HIDE DEF new, l
  <2> QED BY <1>2, <2>1, <2>2 DEF FirstKeys, new, l
<1>4. CASE l.sep /\ l.key # "" /\ l.name \in DOMAIN keys0
  <2>1. new = keys0
    BY <1>4 DEF AddLine
  <2>2. \A u : GivesKey(lines, u, n + 1) => u \in DOMAIN keys0
    BY <1>4 DEF GivesKey
  <2> QED BY <1>2, <2>1, <2>2 DEF FirstKeys
<1>5. CASE l.sep /\ l.key # "" /\ l.name \notin DOMAIN keys0
  <2>1. new = [m \in DOMAIN keys0 \cup {l.name} |-> IF m = l.name THEN l.key ELSE keys0[m]]
    BY <1>5 DEF AddLine
  <2>2. \A u : GivesKey(lines, u, n + 1) <=> u = l.name
    BY <1>5 DEF GivesKey
  <2>3. \A j \in 1 .. n : ~GivesKey(lines, l.name, j)
    BY <1>5 DEF FirstKeys
  <2>4. /\ DOMAIN new = DOMAIN keys0 \cup {l.name} /\ new[l.name] = l.key
        /\ \A u \in DOMAIN keys0 : new[u] = keys0[u]
    BY <1>5, <2>1
  <2> HIDE DEF new
  <2>5. ASSUME NEW u \in DOMAIN new
        PROVE  \E i \in 1 .. n + 1 : /\ GivesKey(lines, u, i) /\ lines[i].key = new[u]
                                     /\ \A j \in 1 .. i - 1 : ~GivesKey(lines, u, j)
    <3>1. CASE u = l.name
      <4>1. GivesKey(lines, u, n + 1) /\ lines[n + 1].key = new[u] /\ n + 1 \in 1 .. n + 1
        BY <2>2, <2>4, <3>1
      <4>2. \A j \in 1 .. (n + 1) - 1 : ~GivesKey(lines, u, j)
        BY <2>3, <3>1
      <4> QED BY <4>1, <4>2
    <3>2. CASE u # l.name
      <4>1. u \in DOMAIN keys0 /\ new[u] = keys0[u]
        BY <2>4, <3>2
      <4>2. PICK i \in 1 .. n : /\ GivesKey(lines, u, i) /\ lines[i].key = keys0[u]
                                /\ \A j \in 1 .. i - 1 : ~GivesKey(lines, u, j)
        BY <4>1 DEF FirstKeys
      <4> QED BY <1>2, <4>1, <4>2
    <3> QED BY <3>1, <3>2
  <2>6. ASSUME NEW i \in 1 .. n + 1, NEW u, GivesKey(lines, u, i) PROVE u \in DOMAIN new
    <3>1. CASE i = n + 1
      BY <2>2, <2>4, <2>6, <3>1
    <3>2. CASE i \in 1 .. n
      BY <2>4, <2>6, <3>2 DEF FirstKeys
    <3> QED BY <1>2, <3>1, <3>2
  <2> QED BY <2>5, <2>6 DEF FirstKeys, new
<1> QED BY <1>3, <1>4, <1>5

(* ReadAuthFile gives every user the key of the first line that has one,   *)
(* for files of any length.                                                *)
THEOREM FirstLineGivesKey ==
  ASSUME NEW lines \in Seq(Lines) PROVE FirstKeys(lines, ReadAuthFile(lines), Len(lines))
<1> DEFINE u == KeysUpTo(lines)
           T == {n \in 0 .. Len(lines) : FirstKeys(lines, u[n], n)}
<1>1. /\ ReadAuthFile(lines) = u[Len(lines)] /\ u[0] = <<>>
      /\ \A n \in 1 .. Len(lines) : u[n] = AddLine(u[n - 1], lines[n])
      /\ \A n \in 0 .. Len(lines) : u[n] \in KeyMaps
  BY KeysDefined
<1>2. Len(lines) \in Nat /\ DOMAIN lines = 1 .. Len(lines)
  OBVIOUS
<1> HIDE DEF u
<1>3. 0 \in T
  <2>1. DOMAIN u[0] = {} /\ 1 .. 0 = {}
    BY <1>1
  <2> QED BY <1>2, <2>1 DEF FirstKeys
<1>4. ASSUME NEW n \in 0 .. (Len(lines) - 1), n \in T PROVE n + 1 \in T
  <2>1. /\ n + 1 \in 1 .. Len(lines) /\ n + 1 \in 0 .. Len(lines) /\ (n + 1) - 1 = n
        /\ n \in 0 .. Len(lines) /\ n \in Nat
    BY <1>2
  <2>2. u[n + 1] = AddLine(u[n], lines[n + 1]) /\ u[n] \in KeyMaps
    BY <1>1, <2>1
  <2> QED BY <1>2, <1>4, <2>1, <2>2, FirstKeysNext
<1> HIDE DEF T
<1>5. \A n \in 0 .. Len(lines) : n \in T
  BY <1>2, <1>3, <1>4, BoundedInduction
<1>6. Len(lines) \in T
  BY <1>2, <1>5
<1> QED BY <1>1, <1>6 DEF T

-----------------------------------------------------------------------------
(* The servers. Once main of the TURN server runs it has the keys of its   *)
(* file, and what it answered is what the file says.                       *)
ServersInv ==
  /\ auth_file.lines \in Seq(Lines) /\ (~auth_file.open => auth_file.lines = <<>>)
  /\ at = "run" /\ program = "turnserver" => keys = ReadAuthFile(auth_file.lines)
  /\ FirstKeyWins

LEMMA ServersInit == ASSUME Init PROVE ServersInv
<1>1. auth_file.lines \in Seq(Lines) /\ (~auth_file.open => auth_file.lines = <<>>)
  <2>1. CASE auth_file \in {[open |-> TRUE, lines |-> f] : f \in AuthFiles}
    <3>1. PICK f \in AuthFiles : auth_file = [open |-> TRUE, lines |-> f]
      BY <2>1
    <3>2. f \in Seq(Lines)
      BY InputAssumption DEF Lines
    <3> QED BY <3>1, <3>2
  <2>2. CASE auth_file = [open |-> FALSE, lines |-> <<>>]
    BY <2>2
  <2> QED BY <2>1, <2>2 DEF Init
<1>2. at = "main" /\ served = NoUsers
  BY DEF Init
<1>3. FirstKeyWins
  BY <1>2 DEF FirstKeyWins, NoUsers
<1> QED BY <1>1, <1>2, <1>3 DEF ServersInv

LEMMA GetKeyStep == ASSUME ServersInv, NEW user, GetKey(user) PROVE FirstKeyWins'
<1> DEFINE lines == auth_file.lines
           Gives(u, i) == lines[i].sep /\ lines[i].name = u /\ lines[i].key # ""
           used == IF auth_file.open THEN DOMAIN lines ELSE {}
           Right(found) == \E i \in used : /\ Gives(found[1], i) /\ lines[i].key = found[2]
                                           /\ \A j \in used : j < i => ~Gives(found[1], j)
           Wrong(u) == \A i \in used : ~Gives(u, i)
<1>1. FirstKeyWins <=> (\A found \in served.found : Right(found)) /\ \A u \in served.refused : Wrong(u)
  BY DEF FirstKeyWins
<1>2. UNCHANGED auth_file /\ keys = ReadAuthFile(lines) /\ lines \in Seq(Lines)
      /\ (~auth_file.open => lines = <<>>)
  BY DEF GetKey, ServersInv
<1>3. FirstKeys(lines, keys, Len(lines))
  BY <1>2, FirstLineGivesKey
<1>4. used = 1 .. Len(lines) /\ Len(lines) \in Nat
  BY <1>2
<1>5. ASSUME user \in DOMAIN keys PROVE Right(<<user, keys[user]>>)
  <2>1. PICK i \in 1 .. Len(lines) : /\ GivesKey(lines, user, i) /\ lines[i].key = keys[user]
                                     /\ \A j \in 1 .. i - 1 : ~GivesKey(lines, user, j)
    BY <1>3, <1>5 DEF FirstKeys
  <2>2. \A j \in used : j < i => j \in 1 .. i - 1
    BY <1>4
  <2> QED BY <1>4, <2>1, <2>2 DEF GivesKey
<1>6. ASSUME user \notin DOMAIN keys PROVE Wrong(user)
  BY <1>3, <1>4, <1>6 DEF FirstKeys, GivesKey
<1> HIDE DEF Right, Wrong
<1>7. (\A found \in served.found : Right(found)) /\ \A u \in served.refused : Wrong(u)
  BY <1>1 DEF ServersInv
<1>8. (\A found \in served'.found : Right(found)) /\ \A u \in served'.refused : Wrong(u)
  BY <1>5, <1>6, <1>7 DEF GetKey
<1> QED BY <1>2, <1>8 DEF FirstKeyWins, Right, Wrong

LEMMA ServersStep == ASSUME ServersInv, Next PROVE ServersInv'
<1>1. CASE ParseArguments \/ CreateSocket
  <2>1. UNCHANGED <<auth_file, served, program>> /\ (at' = "run" => program # "turnserver")
    BY <1>1 DEF ParseArguments, CreateSocket
  <2> QED BY <2>1 DEF ServersInv, FirstKeyWins
<1>2. CASE ReadKeys
  <2>1. UNCHANGED <<auth_file, served>> /\ at' = "run" /\ keys' = ReadAuthFile(auth_file.lines)
    BY <1>2 DEF ReadKeys
  <2> QED BY <2>1 DEF ServersInv, FirstKeyWins
<1>3. ASSUME NEW user, GetKey(user) PROVE ServersInv'
  <2>1. UNCHANGED <<at, program, auth_file, keys>>
    BY <1>3 DEF GetKey
  <2> QED BY <1>3, <2>1, GetKeyStep DEF ServersInv
<1> QED BY <1>1, <1>2, <1>3 DEF Next

LEMMA ServersInvAlways == MCSpec => []ServersInv
<1>1. MCInit => ServersInv
  BY ServersInit DEF MCInit
<1>2. ServersInv /\ [MCNext]_mcVars => ServersInv'
  <2> SUFFICES ASSUME ServersInv, [MCNext]_mcVars PROVE ServersInv'
    OBVIOUS
  <2>1. CASE Next
    BY <2>1, ServersStep
  <2>2. CASE UNCHANGED vars
    BY <2>2 DEF ServersInv, FirstKeyWins, vars
  <2> QED BY <2>1, <2>2 DEF MCNext, ReadInput, Serve, mcVars
<1> QED BY <1>1, <1>2, PTL DEF MCSpec

(* The TURN server gives a user the key of the first line with one, for    *)
(* any files and any users.                                                *)
THEOREM FirstKeyAlwaysWins == MCSpec => []FirstKeyWins
<1>1. ServersInv => FirstKeyWins
  BY DEF ServersInv
<1> QED BY <1>1, ServersInvAlways, PTL

-----------------------------------------------------------------------------
(* Texts. The marks and digits are strings, too, but the provers do not    *)
(* know that of a literal.                                                 *)
Marks == {"https", "h", ":", "/", "?", "&", "=", " "} \cup {Numerals[d + 1] : d \in 0 .. 9}
Words == STRING \cup Marks

LEMMA InputsAreTexts == Seq(STRING) \subseteq Seq(Words)
<1>1. STRING \subseteq Words
  BY DEF Words
<1> QED BY <1>1, SeqMonotonic

-----------------------------------------------------------------------------
(* The one number of parse_port, for the provers: an interval whose bounds *)
(* are numerals is a list of its members to them.                          *)
LEMMA MaxPortIs == MaxPort = 65535
BY SMT DEF MaxPort

(* parse_port. What a step of the reading may return, and what it does.    *)
PortErrors == {"invalid port", "port out of range"}
PortResults == [ok : {TRUE}, value : 0 .. MaxPort] \cup [ok : {FALSE}, value : PortErrors]

LEMMA DigitsTyped == \A c \in DOMAIN Digits : Digits[c] \in 0 .. 9
<1> SUFFICES ASSUME NEW c \in DOMAIN Digits PROVE Digits[c] \in 0 .. 9
  OBVIOUS
<1>1. c \in {Numerals[d + 1] : d \in 0 .. 9} /\ Digits[c] = CHOOSE d \in 0 .. 9 : Numerals[d + 1] = c
  BY Zenon DEF Digits
<1>2. \E d \in 0 .. 9 : Numerals[d + 1] = c
  BY <1>1, Zenon
<1> QED BY <1>1, <1>2, Zenon

LEMMA OkResult ==
  /\ \A v : Ok(v).ok = TRUE /\ Ok(v).value = v
  /\ \A v \in 0 .. MaxPort : Ok(v) \in PortResults
<1>1. \A v : Ok(v).ok = TRUE /\ Ok(v).value = v
  BY SMT DEF Ok
<1>2. \A v \in 0 .. MaxPort : Ok(v) \in [ok : {TRUE}, value : 0 .. MaxPort]
  BY SMT DEF Ok
<1> QED BY <1>1, <1>2, Zenon DEF PortResults

LEMMA ErrorResult ==
  \A kind \in PortErrors : Error(kind).ok = FALSE /\ Error(kind) \in PortResults
<1>1. \A kind : Error(kind).ok = FALSE
  BY SMT DEF Error
<1>2. \A kind \in PortErrors : Error(kind) \in [ok : {FALSE}, value : PortErrors]
  BY SMT DEF Error
<1> QED BY <1>1, <1>2, Zenon DEF PortResults

LEMMA Results ==
  ASSUME NEW r \in PortResults
  PROVE  (r.ok = TRUE /\ r.value \in 0 .. MaxPort /\ r = Ok(r.value)) \/ r.ok = FALSE
<1>1. CASE r \in [ok : {TRUE}, value : 0 .. MaxPort]
  BY <1>1, SMT DEF Ok
<1>2. CASE r \in [ok : {FALSE}, value : PortErrors]
  <2>1. r.ok \in {FALSE}
    BY <1>2
  <2> QED BY <2>1, Zenon
<1> QED BY <1>1, <1>2, Zenon DEF PortResults

(* The guard of the code and the bound it stands for.                      *)
LEMMA Guard ==
  ASSUME NEW v \in 0 .. MaxPort, NEW d \in 0 .. 9
  PROVE  v > (MaxPort - d) \div 10 <=> v * 10 + d > MaxPort
BY MaxPortIs, SMTT(30)

(* One step, without its numbers.                                          *)
LEMMA PortDigitCases ==
  ASSUME NEW r, NEW c
  PROVE  /\ r.ok = FALSE => PortDigit(r, c) = r
         /\ r.ok = TRUE /\ c \notin DOMAIN Digits => PortDigit(r, c) = Error("invalid port")
         /\ r.ok = TRUE /\ c \in DOMAIN Digits =>
              PortDigit(r, c) = IF r.value > (MaxPort - Digits[c]) \div 10 THEN Error("port out of range")
                                ELSE Ok(r.value * 10 + Digits[c])
<1> DEFINE P == PortDigit(r, c)
           limit == (MaxPort - Digits[c]) \div 10
<1>1. P = IF ~r.ok THEN r
          ELSE IF c \notin DOMAIN Digits THEN Error("invalid port")
          ELSE IF r.value > limit THEN Error("port out of range")
          ELSE Ok(r.value * 10 + Digits[c])
  BY Zenon DEF PortDigit
<1> HIDE DEF P, limit
<1>3. CASE r.ok = FALSE
  BY <1>1, <1>3, Zenon DEF P
<1>4. CASE r.ok = TRUE
  <2>1. ~~r.ok
    BY <1>4, Zenon
  <2> QED BY <1>1, <1>4, <2>1, Zenon DEF P, limit
<1> QED BY <1>3, <1>4, Zenon

LEMMA Bounds ==
  /\ 0 \in 0 .. MaxPort
  /\ \A n \in 0 .. MaxPort : n \in Nat
  /\ \A n \in Nat : \/ n > MaxPort /\ ~(n <= MaxPort)
                    \/ n <= MaxPort /\ n \in 0 .. MaxPort /\ ~(n > MaxPort)
<1>1. MaxPort \in Nat
  BY MaxPortIs, SMTT(30)
<1> QED BY <1>1, SMTT(30)

LEMMA NextValue == ASSUME NEW v \in Nat, NEW d \in 0 .. 9 PROVE v * 10 + d \in Nat
BY SMT

(* One step: the guard stops exactly what would pass 65535.                *)
LEMMA PortDigitExact ==
  ASSUME NEW r \in PortResults, NEW c
  PROVE  /\ PortDigit(r, c) \in PortResults
         /\ PortDigit(r, c).ok = TRUE => r.ok = TRUE /\ c \in DOMAIN Digits
         /\ r.ok = TRUE /\ c \in DOMAIN Digits =>
              IF r.value * 10 + Digits[c] <= MaxPort THEN PortDigit(r, c) = Ok(r.value * 10 + Digits[c])
              ELSE PortDigit(r, c).ok = FALSE
<1>0. (r.ok = TRUE /\ r.value \in 0 .. MaxPort /\ r = Ok(r.value)) \/ r.ok = FALSE
  BY Results, Zenon
<1>1. CASE r.ok = FALSE
  <2>1. PortDigit(r, c) = r
    BY <1>1, PortDigitCases, Zenon
  <2> QED BY <1>1, <2>1, Zenon
<1>2. CASE r.ok = TRUE /\ c \notin DOMAIN Digits
  <2>1. PortDigit(r, c) = Error("invalid port")
    BY <1>2, PortDigitCases, Zenon
  <2>2. "invalid port" \in PortErrors
    BY DEF PortErrors
  <2>3. PortDigit(r, c).ok = FALSE /\ PortDigit(r, c) \in PortResults
    BY <2>1, <2>2, ErrorResult, Zenon
  <2> QED BY <1>2, <2>3, Zenon
<1>3. CASE r.ok = TRUE /\ c \in DOMAIN Digits
  <2> DEFINE next == r.value * 10 + Digits[c]
  <2>1. Digits[c] \in 0 .. 9 /\ r.value \in 0 .. MaxPort
    BY <1>0, <1>3, DigitsTyped, Zenon
  <2>2. PortDigit(r, c) = IF next > MaxPort THEN Error("port out of range") ELSE Ok(next)
    BY <1>3, <2>1, Guard, PortDigitCases, Zenon
  <2>3. next \in Nat
    <3>1. r.value \in Nat
      BY <2>1, Bounds, Zenon
    <3> QED BY <2>1, <3>1, NextValue, Zenon
  <2>4. "port out of range" \in PortErrors
    BY DEF PortErrors
  <2>5. /\ PortDigit(r, c) \in PortResults
        /\ IF next <= MaxPort THEN PortDigit(r, c) = Ok(next) ELSE PortDigit(r, c).ok = FALSE
    <3> HIDE DEF next
    <3>1. CASE next > MaxPort
      <4>1. PortDigit(r, c) = Error("port out of range") /\ ~(next <= MaxPort)
        BY <2>2, <2>3, <3>1, Bounds, Zenon
      <4> QED BY <2>4, <4>1, ErrorResult, Zenon
    <3>2. CASE next <= MaxPort
      <4>1. PortDigit(r, c) = Ok(next) /\ next \in 0 .. MaxPort
        BY <2>2, <2>3, <3>2, Bounds, Zenon
      <4> QED BY <3>2, <4>1, OkResult, Zenon
    <3> QED BY <2>3, <3>1, <3>2, Bounds, Zenon
  <2> QED BY <1>3, <2>5, Zenon
<1> QED BY <1>0, <1>1, <1>2, <1>3, Zenon

LEMMA PortDigitTyped == ASSUME NEW r \in PortResults, NEW c PROVE PortDigit(r, c) \in PortResults
BY PortDigitExact, Zenon

ReadUpTo(s) == CHOOSE f : f = [i \in 0 .. Len(s) |-> IF i = 0 THEN Ok(0) ELSE PortDigit(f[i - 1], s[i])]

LEMMA ReadDefined ==
  ASSUME NEW s \in Seq(Words)
  PROVE  /\ ReadUpTo(s)[0] = Ok(0)
         /\ \A n \in 1 .. Len(s) : ReadUpTo(s)[n] = PortDigit(ReadUpTo(s)[n - 1], s[n])
         /\ \A n \in 0 .. Len(s) : ReadUpTo(s)[n] \in PortResults
<1> DEFINE Step == [n \in 1 .. Len(s) |-> [r \in PortResults |-> PortDigit(r, s[n])]]
<1>1. Len(s) \in Nat
  OBVIOUS
<1>2. Ok(0) \in PortResults
  BY OkResult, Bounds, Zenon
<1>3. Step \in [1 .. Len(s) -> [PortResults -> PortResults]]
  BY <1>1, PortDigitTyped
<1>4. PICK f : Defines(f, PortResults, Len(s), Ok(0), Step)
  <2> HIDE DEF Step
  <2> QED BY <1>1, <1>2, <1>3, Recursion
<1>5. \A n \in 0 .. Len(s) : f[n] = IF n = 0 THEN Ok(0) ELSE PortDigit(f[n - 1], s[n])
  <2> TAKE n \in 0 .. Len(s)
  <2>1. CASE n = 0
    BY <1>4, <2>1 DEF Defines
  <2>2. CASE n # 0
    <3>1. n \in 1 .. Len(s) /\ n - 1 \in 0 .. Len(s)
      BY <1>1, <2>2
    <3>2. f[n - 1] \in PortResults /\ f[n] = Step[n][f[n - 1]]
      BY <1>4, <3>1 DEF Defines
    <3> QED BY <2>2, <3>1, <3>2
  <2> QED BY <2>1, <2>2
<1>6. f = [n \in 0 .. Len(s) |-> IF n = 0 THEN Ok(0) ELSE PortDigit(f[n - 1], s[n])]
  <2> HIDE DEF Step
  <2> QED BY <1>4, <1>5 DEF Defines
<1>7. ReadUpTo(s) = [n \in 0 .. Len(s) |->
                       IF n = 0 THEN Ok(0) ELSE PortDigit(ReadUpTo(s)[n - 1], s[n])]
  BY <1>6, Zenon DEF ReadUpTo
<1> DEFINE u == ReadUpTo(s)
<1> HIDE DEF u, Step
<1>8. u[0] = Ok(0) /\ \A n \in 1 .. Len(s) : u[n] = PortDigit(u[n - 1], s[n])
  <2>1. u = [n \in 0 .. Len(s) |-> IF n = 0 THEN Ok(0) ELSE PortDigit(u[n - 1], s[n])]
    BY <1>7 DEF u
  <2>2. u[0] = Ok(0)
    BY <1>1, <2>1
  <2>3. ASSUME NEW n \in 1 .. Len(s) PROVE u[n] = PortDigit(u[n - 1], s[n])
    <3>1. n \in 0 .. Len(s) /\ n # 0
      BY <1>1
    <3> QED BY <2>1, <3>1
  <2> QED BY <2>2, <2>3
<1>9. \A n \in 0 .. Len(s) : u[n] \in PortResults
  <2> DEFINE T == {n \in 0 .. Len(s) : u[n] \in PortResults}
  <2>1. 0 \in T
    BY <1>1, <1>2, <1>8
  <2>2. ASSUME NEW n \in 0 .. (Len(s) - 1), n \in T PROVE n + 1 \in T
    <3>1. n + 1 \in 1 .. Len(s) /\ n + 1 \in 0 .. Len(s) /\ (n + 1) - 1 = n
      BY <1>1
    <3>2. u[n + 1] = PortDigit(u[n], s[n + 1])
      BY <1>8, <3>1
    <3> QED BY <2>2, <3>1, <3>2, PortDigitTyped
  <2> HIDE DEF T
  <2>3. \A n \in 0 .. Len(s) : n \in T
    BY <1>1, <2>1, <2>2, BoundedInduction
  <2> QED BY <2>3 DEF T
<1> QED BY <1>8, <1>9 DEF u

Numeral(s) == \A i \in 1 .. Len(s) : s[i] \in DOMAIN Digits
ValueUpTo(s) == CHOOSE f : f = [i \in 0 .. Len(s) |-> IF i = 0 THEN 0 ELSE f[i - 1] * 10 + Digits[s[i]]]

LEMMA ValueDefined ==
  ASSUME NEW s \in Seq(Words), Numeral(s)
  PROVE  /\ ValueUpTo(s)[0] = 0
         /\ \A n \in 1 .. Len(s) : ValueUpTo(s)[n] = ValueUpTo(s)[n - 1] * 10 + Digits[s[n]]
         /\ \A n \in 0 .. Len(s) : ValueUpTo(s)[n] \in Nat
<1> DEFINE Step == [n \in 1 .. Len(s) |-> [v \in Nat |-> v * 10 + Digits[s[n]]]]
<1>1. Len(s) \in Nat
  OBVIOUS
<1>2. \A n \in 1 .. Len(s) : Digits[s[n]] \in 0 .. 9
  BY DigitsTyped DEF Numeral
<1>3. Step \in [1 .. Len(s) -> [Nat -> Nat]]
  <2>1. ASSUME NEW n \in 1 .. Len(s), NEW v \in Nat PROVE v * 10 + Digits[s[n]] \in Nat
    BY <1>2, NextValue, Zenon
  <2> QED BY <2>1
<1>4. PICK f : Defines(f, Nat, Len(s), 0, Step)
  <2> HIDE DEF Step
  <2> QED BY <1>1, <1>3, Recursion
<1>5. \A n \in 0 .. Len(s) : f[n] = IF n = 0 THEN 0 ELSE f[n - 1] * 10 + Digits[s[n]]
  <2> TAKE n \in 0 .. Len(s)
  <2>1. CASE n = 0
    BY <1>4, <2>1 DEF Defines
  <2>2. CASE n # 0
    <3>1. n \in 1 .. Len(s) /\ n - 1 \in 0 .. Len(s)
      BY <1>1, <2>2
    <3>2. f[n - 1] \in Nat /\ f[n] = Step[n][f[n - 1]]
      BY <1>4, <3>1 DEF Defines
    <3> QED BY <2>2, <3>1, <3>2
  <2> QED BY <2>1, <2>2
<1>6. f = [n \in 0 .. Len(s) |-> IF n = 0 THEN 0 ELSE f[n - 1] * 10 + Digits[s[n]]]
  <2> HIDE DEF Step
  <2> QED BY <1>4, <1>5 DEF Defines
<1>7. ValueUpTo(s) = [n \in 0 .. Len(s) |->
                       IF n = 0 THEN 0 ELSE ValueUpTo(s)[n - 1] * 10 + Digits[s[n]]]
  BY <1>6, Zenon DEF ValueUpTo
<1> DEFINE w == ValueUpTo(s)
<1> HIDE DEF w, Step
<1>8. w[0] = 0 /\ \A n \in 1 .. Len(s) : w[n] = w[n - 1] * 10 + Digits[s[n]]
  <2>1. w = [n \in 0 .. Len(s) |-> IF n = 0 THEN 0 ELSE w[n - 1] * 10 + Digits[s[n]]]
    BY <1>7 DEF w
  <2>2. w[0] = 0
    BY <1>1, <2>1
  <2>3. ASSUME NEW n \in 1 .. Len(s) PROVE w[n] = w[n - 1] * 10 + Digits[s[n]]
    <3>1. n \in 0 .. Len(s) /\ n # 0
      BY <1>1
    <3> QED BY <2>1, <3>1
  <2> QED BY <2>2, <2>3
<1>9. \A n \in 0 .. Len(s) : w[n] \in Nat
  <2> DEFINE T == {n \in 0 .. Len(s) : w[n] \in Nat}
  <2>1. 0 \in T
    BY <1>1, <1>8
  <2>2. ASSUME NEW n \in 0 .. (Len(s) - 1), n \in T PROVE n + 1 \in T
    <3>1. n + 1 \in 1 .. Len(s) /\ n + 1 \in 0 .. Len(s) /\ (n + 1) - 1 = n
      BY <1>1
    <3>2. w[n + 1] = w[n] * 10 + Digits[s[n + 1]] /\ Digits[s[n + 1]] \in 0 .. 9 /\ w[n] \in Nat
      BY <1>2, <1>8, <2>2, <3>1
    <3>3. w[n + 1] \in Nat
      BY <3>2, NextValue, Zenon
    <3> QED BY <3>1, <3>3
  <2> HIDE DEF T
  <2>3. \A n \in 0 .. Len(s) : n \in T
    BY <1>1, <2>1, <2>2, BoundedInduction
  <2> QED BY <2>3 DEF T
<1> QED BY <1>8, <1>9 DEF w

(* A word that is no digit stops the reading for good.                     *)
LEMMA OnlyNumerals ==
  ASSUME NEW s \in Seq(Words), ReadUpTo(s)[Len(s)].ok = TRUE PROVE Numeral(s)
<1> DEFINE u == ReadUpTo(s)
           T == {n \in 0 .. Len(s) : u[n].ok = TRUE => \A i \in 1 .. n : s[i] \in DOMAIN Digits}
<1>1. /\ \A n \in 1 .. Len(s) : u[n] = PortDigit(u[n - 1], s[n])
      /\ \A n \in 0 .. Len(s) : u[n] \in PortResults
  BY ReadDefined, Zenon
<1>2. Len(s) \in Nat
  OBVIOUS
<1> HIDE DEF u
<1>3. 0 \in T
  BY <1>2
<1>4. ASSUME NEW n \in 0 .. (Len(s) - 1), n \in T PROVE n + 1 \in T
  <2>1. n + 1 \in 1 .. Len(s) /\ n + 1 \in 0 .. Len(s) /\ (n + 1) - 1 = n /\ n \in 0 .. Len(s)
    BY <1>2
  <2>2. u[n + 1] = PortDigit(u[n], s[n + 1]) /\ u[n] \in PortResults
    BY <1>1, <2>1
  <2>3. u[n + 1].ok = TRUE => u[n].ok = TRUE /\ s[n + 1] \in DOMAIN Digits
    BY <2>2, PortDigitExact, Zenon
  <2>4. \A i \in 1 .. n + 1 : i \in 1 .. n \/ i = n + 1
    BY <2>1
  <2> QED BY <1>4, <2>1, <2>3, <2>4
<1> HIDE DEF T
<1>5. Len(s) \in T
  <2>1. \A n \in 0 .. Len(s) : n \in T
    BY <1>2, <1>3, <1>4, BoundedInduction
  <2> QED BY <1>2, <2>1
<1> QED BY <1>5, Zenon DEF T, Numeral, u

(* What the digits of a numeral write, if it fits.                         *)
Exact(r, value) == IF value <= MaxPort THEN r = Ok(value) ELSE r.ok = FALSE

LEMMA ExactNext ==
  ASSUME NEW r \in PortResults, NEW v \in Nat, NEW c \in DOMAIN Digits, Exact(r, v)
  PROVE  Exact(PortDigit(r, c), v * 10 + Digits[c])
<1>1. Digits[c] \in 0 .. 9
  BY DigitsTyped
<1>2. CASE v <= MaxPort
  <2>1. r = Ok(v)
    BY <1>2, Zenon DEF Exact
  <2>2. r.ok = TRUE /\ r.value = v
    BY <2>1, OkResult, Zenon
  <2> QED BY <2>2, PortDigitExact, Zenon DEF Exact
<1>3. CASE ~(v <= MaxPort)
  <2>1. r.ok = FALSE
    BY <1>3, Zenon DEF Exact
  <2>2. ~(v * 10 + Digits[c] <= MaxPort)
    <3> DEFINE d == Digits[c]
    <3>1. d \in 0 .. 9
      BY <1>1
    <3> HIDE DEF d
    <3>2. ~(v * 10 + d <= MaxPort)
      BY <1>3, <3>1, MaxPortIs, SMTT(30)
    <3> QED BY <3>2, Zenon DEF d
  <2>3. PortDigit(r, c).ok = FALSE
    BY <2>1, PortDigitCases, Zenon
  <2> QED BY <2>2, <2>3, Zenon DEF Exact
<1> QED BY <1>2, <1>3, Zenon

LEMMA NumeralRead ==
  ASSUME NEW s \in Seq(Words), Numeral(s)
  PROVE  Exact(ReadUpTo(s)[Len(s)], ValueUpTo(s)[Len(s)])
<1> DEFINE u == ReadUpTo(s)
           w == ValueUpTo(s)
           T == {n \in 0 .. Len(s) : Exact(u[n], w[n])}
<1>1. /\ u[0] = Ok(0)
      /\ \A n \in 1 .. Len(s) : u[n] = PortDigit(u[n - 1], s[n])
      /\ \A n \in 0 .. Len(s) : u[n] \in PortResults
  BY ReadDefined, Zenon
<1>2. /\ w[0] = 0
      /\ \A n \in 1 .. Len(s) : w[n] = w[n - 1] * 10 + Digits[s[n]]
      /\ \A n \in 0 .. Len(s) : w[n] \in Nat
  BY ValueDefined, Zenon
<1>3. Len(s) \in Nat
  OBVIOUS
<1> HIDE DEF u, w
<1>4. 0 \in T
  <2>1. 0 <= MaxPort /\ 0 \in 0 .. Len(s)
    BY <1>3, MaxPortIs, SMTT(30)
  <2> QED BY <1>1, <1>2, <2>1, Zenon DEF Exact
<1>5. ASSUME NEW n \in 0 .. (Len(s) - 1), n \in T PROVE n + 1 \in T
  <2>1. n + 1 \in 1 .. Len(s) /\ n + 1 \in 0 .. Len(s) /\ (n + 1) - 1 = n /\ n \in 0 .. Len(s)
    BY <1>3
  <2>2. u[n + 1] = PortDigit(u[n], s[n + 1]) /\ u[n] \in PortResults
    BY <1>1, <2>1
  <2>3. w[n + 1] = w[n] * 10 + Digits[s[n + 1]] /\ w[n] \in Nat
    BY <1>2, <2>1
  <2>4. s[n + 1] \in DOMAIN Digits
    BY <2>1 DEF Numeral
  <2>5. Exact(PortDigit(u[n], s[n + 1]), w[n] * 10 + Digits[s[n + 1]])
    BY <1>5, <2>2, <2>3, <2>4, ExactNext, Zenon
  <2> QED BY <2>1, <2>2, <2>3, <2>5, Zenon
<1> HIDE DEF T
<1>6. Len(s) \in T
  <2>1. \A n \in 0 .. Len(s) : n \in T
    BY <1>3, <1>4, <1>5, BoundedInduction
  <2> QED BY <1>3, <2>1
<1> QED BY <1>6, Zenon DEF T, u, w

(* What parse_port makes of a text: the number its digits write             *)
PortRead(s, result) ==
  LET numeral == s # <<>> /\ Numeral(s)
  IN  /\ result.ok = TRUE <=> numeral /\ Decimal(s) \in 1 .. MaxPort
      /\ result.ok = TRUE => result.value = Decimal(s)
      /\ result.ok \in BOOLEAN

(* parse_port accepts the digits of a number of 1 to 65535, with any number *)
(* of leading zeros, reads that number, and accepts nothing else.          *)
THEOREM parse_portExact == ASSUME NEW s \in Seq(Words) PROVE PortRead(s, parse_port(s))
<1> DEFINE r == ReadUpTo(s)[Len(s)]
           p == parse_port(s)
<1>1. p = IF s = <<>> \/ (r.ok /\ r.value = 0) THEN Error("invalid port") ELSE r
  BY Zenon DEF parse_port, ReadUpTo
<1>2. Decimal(s) = ValueUpTo(s)[Len(s)]
  BY Zenon DEF Decimal, ValueUpTo
<1>3. r \in PortResults
  <2>1. Len(s) \in 0 .. Len(s)
    OBVIOUS
  <2> QED BY <2>1, ReadDefined, Zenon
<1>4. r.ok = TRUE => Numeral(s)
  BY OnlyNumerals, Zenon
<1>5. Numeral(s) => Exact(r, Decimal(s)) /\ Decimal(s) \in Nat
  <2>1. Len(s) \in 0 .. Len(s)
    OBVIOUS
  <2> QED BY <1>2, <2>1, NumeralRead, ValueDefined, Zenon
<1>6. Error("invalid port").ok = FALSE
  <2>1. "invalid port" \in PortErrors
    BY DEF PortErrors
  <2> QED BY <2>1, ErrorResult, Zenon
<1>7. r.ok = TRUE \/ r.ok = FALSE
  BY <1>3, Results, Zenon
<1>8. \A n \in Nat : n \in 1 .. MaxPort <=> n # 0 /\ n <= MaxPort
  BY MaxPortIs, SMTT(30)
<1> HIDE DEF r, p
<1>9. CASE r.ok = FALSE
  <2>1. p.ok = FALSE
    BY <1>1, <1>6, <1>9, Zenon
  <2>2. Numeral(s) => ~(Decimal(s) <= MaxPort)
    <3> SUFFICES ASSUME Numeral(s), Decimal(s) <= MaxPort PROVE FALSE
      BY Zenon
    <3>1. r = Ok(Decimal(s))
      BY <1>5, Zenon DEF Exact
    <3> QED BY <1>9, <3>1, OkResult, Zenon
  <2> QED BY <1>5, <1>8, <2>1, <2>2, Zenon DEF PortRead, p
<1>10. CASE r.ok = TRUE
  <2>1. Numeral(s) /\ Decimal(s) \in Nat
    BY <1>4, <1>5, <1>10, Zenon
  <2>2. Decimal(s) <= MaxPort /\ r = Ok(Decimal(s))
    BY <1>5, <1>10, <2>1, Zenon DEF Exact
  <2>3. r.value = Decimal(s)
    BY <2>2, OkResult, Zenon
  <2>4. CASE s = <<>> \/ Decimal(s) = 0
    <3>1. p.ok = FALSE
      BY <1>1, <1>6, <1>10, <2>3, <2>4, Zenon
    <3> QED BY <1>8, <2>1, <2>4, <3>1, Zenon DEF PortRead, p
  <2>5. CASE s # <<>> /\ Decimal(s) # 0
    <3>1. p = r
      BY <1>1, <2>3, <2>5, Zenon
    <3> QED BY <1>8, <1>10, <2>1, <2>2, <2>3, <2>5, <3>1, Zenon DEF PortRead, p
  <2> QED BY <2>4, <2>5, Zenon
<1> QED BY <1>7, <1>9, <1>10, Zenon

-----------------------------------------------------------------------------
(* WebSocket urls. find gives the first place of a mark.                   *)
FirstOf(s, c, n) == n \in 1 .. Len(s) /\ s[n] = c /\ \A i \in 1 .. n - 1 : s[i] # c

LEMMA FindsFirst ==
  ASSUME NEW s \in Seq(Words), NEW c, NEW n \in 1 .. Len(s), s[n] = c
  PROVE  FirstOf(s, c, find(s, c))
<1> DEFINE hits == {i \in DOMAIN s : s[i] = c}
           T == {k \in 0 .. Len(s) : (\A i \in 1 .. k : s[i] # c) \/ \E k0 \in 1 .. k : FirstOf(s, c, k0)}
<1>1. Len(s) \in Nat /\ DOMAIN s = 1 .. Len(s)
  OBVIOUS
<1>2. 0 \in T
  BY <1>1
<1>3. ASSUME NEW k \in 0 .. (Len(s) - 1), k \in T PROVE k + 1 \in T
  <2>1. k + 1 \in 1 .. Len(s) /\ k + 1 \in 0 .. Len(s) /\ (k + 1) - 1 = k /\ k \in Nat
    BY <1>1
  <2>2. CASE \E k0 \in 1 .. k : FirstOf(s, c, k0)
    BY <2>1, <2>2
  <2>3. CASE \A i \in 1 .. k : s[i] # c
    <3>1. CASE s[k + 1] = c
      <4>1. FirstOf(s, c, k + 1) /\ k + 1 \in 1 .. k + 1
        BY <2>1, <2>3, <3>1 DEF FirstOf
      <4> QED BY <2>1, <4>1
    <3>2. CASE s[k + 1] # c
      <4>1. \A i \in 1 .. k + 1 : i \in 1 .. k \/ i = k + 1
        BY <2>1
      <4> QED BY <2>1, <2>3, <3>2, <4>1
    <3> QED BY <3>1, <3>2
  <2> QED BY <1>3, <2>2, <2>3
<1> HIDE DEF T
<1>4. \A k \in 0 .. Len(s) : k \in T
  BY <1>1, <1>2, <1>3, BoundedInduction
<1>5. PICK first \in 1 .. Len(s) : FirstOf(s, c, first)
  <2>1. Len(s) \in T
    BY <1>1, <1>4
  <2> QED BY <2>1 DEF T
<1>6. first \in hits /\ \A i \in hits : first <= i
  BY <1>1, <1>5 DEF FirstOf
<1>7. find(s, c) = Min(hits)
  <2>1. hits # {}
    BY <1>6
  <2> QED BY <2>1, Zenon DEF find
<1>8. Min(hits) = first
  <2>1. \A i \in hits : i \in Nat
    BY <1>1
  <2> HIDE DEF hits
  <2>2. \A i \in hits : (\A j \in hits : i <= j) => i = first
    BY <1>6, <2>1
  <2>3. Min(hits) \in hits /\ \A j \in hits : Min(hits) <= j
    BY <1>6, Zenon DEF Min
  <2> QED BY <2>2, <2>3
<1> QED BY <1>5, <1>7, <1>8

LEMMA FindsNone ==
  ASSUME NEW s \in Seq(Words), NEW c, \A n \in 1 .. Len(s) : s[n] # c
  PROVE  find(s, c) = npos
<1>1. {i \in DOMAIN s : s[i] = c} = {}
  OBVIOUS
<1> QED BY <1>1, Zenon DEF find

LEMMA FindIs ==
  ASSUME NEW s \in Seq(Words), NEW c, NEW n, FirstOf(s, c, n)
  PROVE  find(s, c) = n
<1> DEFINE m == find(s, c)
<1>1. FirstOf(s, c, m)
  BY FindsFirst DEF FirstOf
<1> HIDE DEF m
<1>2. m = n
  <2>1. n \in Nat /\ m \in Nat /\ ~(n < m) /\ ~(m < n)
    BY <1>1 DEF FirstOf
  <2> QED BY <2>1
<1> QED BY <1>2 DEF m

(* The end of the part without c: where c is first, or past the end.       *)
EndBefore(s, c) == IF find(s, c) = npos THEN Len(s) + 1 ELSE find(s, c)

LEMMA EndIs ==
  ASSUME NEW s \in Seq(Words), NEW c
  PROVE  LET n == EndBefore(s, c)
         IN  /\ n \in 1 .. Len(s) + 1 /\ \A i \in 1 .. n - 1 : s[i] # c
             /\ n <= Len(s) => s[n] = c
             /\ find(s, c) = npos => n = Len(s) + 1
             /\ find(s, c) # npos => n = find(s, c) /\ n <= Len(s)
<1>0. Len(s) \in Nat
  OBVIOUS
<1>1. CASE \E n \in 1 .. Len(s) : s[n] = c
  <2>1. FirstOf(s, c, find(s, c))
    BY <1>1, FindsFirst
  <2>2. find(s, c) # npos
    BY <2>1 DEF FirstOf, npos
  <2> QED BY <1>0, <2>1, <2>2 DEF EndBefore, FirstOf
<1>2. CASE \A n \in 1 .. Len(s) : s[n] # c
  <2>1. find(s, c) = npos
    BY <1>2, FindsNone
  <2> QED BY <1>0, <1>2, <2>1 DEF EndBefore
<1> QED BY <1>1, <1>2

LEMMA EndUnique ==
  ASSUME NEW s \in Seq(Words), NEW c, NEW n \in 1 .. Len(s) + 1,
         \A i \in 1 .. n - 1 : s[i] # c, n <= Len(s) => s[n] = c
  PROVE  EndBefore(s, c) = n
<1>0. Len(s) \in Nat
  OBVIOUS
<1>1. CASE n <= Len(s)
  <2>1. FirstOf(s, c, n)
    BY <1>0, <1>1 DEF FirstOf
  <2>2. find(s, c) = n /\ n # npos
    BY <2>1, FindIs DEF npos
  <2> QED BY <2>2 DEF EndBefore
<1>2. CASE n = Len(s) + 1
  <2>1. \A i \in 1 .. Len(s) : s[i] # c
    BY <1>0, <1>2
  <2>2. find(s, c) = npos
    BY <2>1, FindsNone
  <2> QED BY <1>2, <2>2 DEF EndBefore
<1> QED BY <1>0, <1>1, <1>2

(* Equal pieces of two sequences.                                          *)
LEMMA SamePiece ==
  ASSUME NEW s \in Seq(Words), NEW t \in Seq(Words), NEW m \in Nat, NEW n \in Int, NEW d \in Nat,
         m > 0, n + d <= Len(s), n <= Len(t), \A i \in m .. n : t[i] = s[i + d]
  PROVE  SubSeq(t, m, n) = SubSeq(s, m + d, n + d)
<1>1. CASE n < m
  BY <1>1, SubSeqEmpty
<1>2. CASE n >= m
  <2> DEFINE a == SubSeq(t, m, n)
             b == SubSeq(s, m + d, n + d)
  <2>1. (\A i \in m .. n : t[i] \in Words) /\ (\A i \in m + d .. n + d : s[i] \in Words)
    OBVIOUS
  <2>2. a \in Seq(Words) /\ Len(a) = n - m + 1 /\ \A i \in 1 .. n - m + 1 : a[i] = t[m + i - 1]
    BY <1>2, <2>1, SubSeqProperties
  <2>3. b \in Seq(Words) /\ Len(b) = n - m + 1 /\ \A i \in 1 .. n - m + 1 : b[i] = s[m + d + i - 1]
    <3>1. m + d \in Int /\ n + d \in Int /\ m + d <= n + d /\ (n + d) - (m + d) + 1 = n - m + 1
      BY <1>2
    <3> QED BY <2>1, <3>1, SubSeqProperties
  <2> HIDE DEF a, b
  <2>4. \A i \in 1 .. n - m + 1 : a[i] = b[i]
    <3> TAKE i \in 1 .. n - m + 1
    <3>1. m + i - 1 \in m .. n /\ (m + i - 1) + d = m + d + i - 1
      OBVIOUS
    <3> QED BY <2>2, <2>3, <3>1
  <2>5. a = b
    BY <2>2, <2>3, <2>4
  <2> QED BY <2>5 DEF a, b
<1> QED BY <1>1, <1>2

WsScheme(url) == IF url # <<>> /\ url[1] = "wss" THEN "wss" ELSE "ws"
WsRest(url) == SubSeq(url, 5, Len(url))
WsHasPort(url) == find(WsRest(url), ":") # npos /\ find(WsRest(url), ":") < EndBefore(WsRest(url), "/")
WsHostEnd(url) == IF WsHasPort(url) THEN find(WsRest(url), ":") ELSE EndBefore(WsRest(url), "/")

(* What ParseUrl accepts, place by place.                                  *)
LEMMA WsAccepted ==
  ASSUME NEW url \in Seq(Words), ParseUrl(url).ok # FALSE
  PROVE  LET rest == WsRest(url)
             h == WsHostEnd(url)
             n == EndBefore(rest, "/")
         IN  /\ ParseUrl(url).ok = TRUE
             /\ ParseUrl(url).value =
                  [use_tls |-> url # <<>> /\ url[1] = "wss", host |-> SubSeq(rest, 1, h - 1),
                   port |-> IF WsHasPort(url) THEN atoi(SubSeq(rest, find(rest, ":") + 1, n - 1))
                            ELSE IF url # <<>> /\ url[1] = "wss" THEN 443 ELSE 80,
                   path |-> IF n > Len(rest) THEN <<"/">> ELSE SubSeq(rest, n, Len(rest))]
             /\ SubSeq(url, 1, 4) \in {<<p, ":", "/", "/">> : p \in {"ws", "wss"}}
             /\ SubSeq(rest, 1, h - 1) # <<>>
<1> DEFINE p == ParseUrl(url)
           host == SubSeq(WsRest(url), 1, WsHostEnd(url) - 1)
           n == EndBefore(WsRest(url), "/")
           refused == SubSeq(url, 1, 4) \notin {<<w, ":", "/", "/">> : w \in {"ws", "wss"}} \/ host = <<>>
           parts == [use_tls |-> url # <<>> /\ url[1] = "wss", host |-> host,
                     port |-> IF WsHasPort(url) THEN atoi(SubSeq(WsRest(url), find(WsRest(url), ":") + 1, n - 1))
                              ELSE IF url # <<>> /\ url[1] = "wss" THEN 443 ELSE 80,
                     path |-> IF n > Len(WsRest(url)) THEN <<"/">>
                              ELSE SubSeq(WsRest(url), n, Len(WsRest(url)))]
<1>1. p = IF refused THEN Error("refused") ELSE Ok(parts)
  BY Zenon DEF ParseUrl, Before, EndBefore, WsRest, WsHasPort, WsHostEnd
<1>2. Error("refused").ok = FALSE /\ Ok(parts).ok = TRUE /\ Ok(parts).value = parts
  BY DEF Error, Ok
<1>3. p.ok # FALSE
  OBVIOUS
<1> HIDE DEF p, parts, refused
<1>4. ~refused /\ p.ok = TRUE /\ p.value = parts
  BY <1>1, <1>2, <1>3, Zenon
<1> QED BY <1>4, Zenon DEF p, parts, refused

(* The places of the marks that divide the rest.                           *)
LEMMA WsPlaces ==
  ASSUME NEW url \in Seq(Words), ParseUrl(url).ok = TRUE
  PROVE  LET rest == WsRest(url)
             h == WsHostEnd(url)
             n == EndBefore(rest, "/")
         IN  /\ rest \in Seq(Words) /\ Len(rest) = Len(url) - 4 /\ Len(url) >= 5
             /\ \A i \in 1 .. Len(rest) : rest[i] = url[i + 4]
             /\ h \in 2 .. Len(rest) + 1 /\ n \in h .. Len(rest) + 1
             /\ \A i \in 1 .. h - 1 : rest[i] \notin {":", "/"}
             /\ \A i \in 1 .. n - 1 : rest[i] # "/"
             /\ n <= Len(rest) => rest[n] = "/"
             /\ WsHasPort(url) <=> h < n
             /\ WsHasPort(url) => h = find(rest, ":")
<1> DEFINE rest == WsRest(url)
           h == WsHostEnd(url)
           n == EndBefore(rest, "/")
           c == find(rest, ":")
           e == EndBefore(rest, ":")
<1>0. Len(url) \in Nat /\ \A i \in 5 .. Len(url) : url[i] \in Words
  OBVIOUS
<1>1. /\ rest \in Seq(Words)
      /\ Len(rest) = IF 5 <= Len(url) THEN Len(url) - 5 + 1 ELSE 0
      /\ \A i \in 1 .. Len(url) - 5 + 1 : rest[i] = url[5 + i - 1]
  BY <1>0, SubSeqProperties DEF WsRest
<1> HIDE DEF rest
<1>2. /\ n \in 1 .. Len(rest) + 1 /\ \A i \in 1 .. n - 1 : rest[i] # "/"
      /\ n <= Len(rest) => rest[n] = "/"
  BY <1>1, EndIs
<1>3. /\ e \in 1 .. Len(rest) + 1 /\ \A i \in 1 .. e - 1 : rest[i] # ":"
      /\ c = npos => e = Len(rest) + 1
      /\ c # npos => e = c /\ e <= Len(rest)
  BY <1>1, EndIs
<1>4. h = IF c # npos /\ c < n THEN c ELSE n
  BY DEF WsHostEnd, WsHasPort, rest
<1>5. WsHasPort(url) <=> c # npos /\ c < n
  BY DEF WsHasPort, rest
<1>6. SubSeq(rest, 1, h - 1) # <<>>
  BY WsAccepted, Zenon DEF rest
<1> HIDE DEF h, n, c, e
<1>7. Len(rest) \in Nat
  BY <1>1
<1>8. h \in 1 .. n /\ h <= e /\ (WsHasPort(url) <=> h < n) /\ (WsHasPort(url) => h = c)
  BY <1>2, <1>3, <1>4, <1>5, <1>7
<1>9. h # 1
  <2> SUFFICES ASSUME h = 1 PROVE FALSE
    OBVIOUS
  <2>1. SubSeq(rest, 1, h - 1) = <<>>
    BY SubSeqEmpty
  <2> QED BY <1>6, <2>1
<1>10. Len(rest) >= 1 /\ h \in 2 .. Len(rest) + 1 /\ n \in h .. Len(rest) + 1
  BY <1>2, <1>7, <1>8, <1>9
<1>11. Len(url) >= 5 /\ Len(rest) = Len(url) - 4
  BY <1>0, <1>1, <1>10
<1>12. \A i \in 1 .. Len(rest) : rest[i] = url[i + 4]
  BY <1>0, <1>1, <1>11
<1>13. \A i \in 1 .. h - 1 : rest[i] \notin {":", "/"}
  BY <1>2, <1>3, <1>7, <1>8
<1> QED BY <1>1, <1>2, <1>8, <1>10, <1>11, <1>12, <1>13 DEF rest, h, n, c

(* Host, port and path are the pieces of the url between its marks.        *)
UrlSplit(url, v) ==
  LET front == <<IF v.use_tls THEN "wss" ELSE "ws", ":", "/", "/">> \o v.host
      rest == SubSeq(url, Len(front) + 1, Len(url))
      slash == IF find(rest, "/") = npos THEN Len(rest) + 1 ELSE find(rest, "/")
  IN  /\ IsPrefix(front, url) /\ {v.host[i] : i \in DOMAIN v.host} \cap {":", "/"} = {}
      /\ v.path = IF slash > Len(rest) THEN <<"/">> ELSE SubSeq(rest, slash, Len(rest))
      /\ v.port = IF slash > 1 THEN atoi(SubSeq(rest, 2, slash - 1)) ELSE IF v.use_tls THEN 443 ELSE 80

LEMMA FourWords ==
  ASSUME NEW S, NEW a \in S, NEW b \in S, NEW c \in S, NEW d \in S
  PROVE  /\ <<a, b, c, d>> \in Seq(S) /\ Len(<<a, b, c, d>>) = 4
         /\ <<a, b, c, d>>[1] = a /\ <<a, b, c, d>>[2] = b
         /\ <<a, b, c, d>>[3] = c /\ <<a, b, c, d>>[4] = d
OBVIOUS

(* ParseUrl divides a url of any length at its marks: host, port and path  *)
(* are the pieces between them, and together they are the whole url.       *)
THEOREM ParseUrlSplits ==
  ASSUME NEW url \in Seq(Words), ParseUrl(url).ok = TRUE
  PROVE  UrlSplit(url, ParseUrl(url).value)
<1> DEFINE rest == WsRest(url)
           h == WsHostEnd(url)
           n == EndBefore(rest, "/")
           tls == url # <<>> /\ url[1] = "wss"
           v == ParseUrl(url).value
           scheme == IF v.use_tls THEN "wss" ELSE "ws"
           front == <<scheme, ":", "/", "/">> \o v.host
           tail == SubSeq(url, Len(front) + 1, Len(url))
           slash == EndBefore(tail, "/")
<1>0. /\ IsPrefix(front, url) /\ {v.host[i] : i \in DOMAIN v.host} \cap {":", "/"} = {}
      /\ v.path = IF slash > Len(tail) THEN <<"/">> ELSE SubSeq(tail, slash, Len(tail))
      /\ v.port = IF slash > 1 THEN atoi(SubSeq(tail, 2, slash - 1)) ELSE IF v.use_tls THEN 443 ELSE 80
      => UrlSplit(url, v)
  BY Zenon DEF UrlSplit, EndBefore
<1>1. /\ v = [use_tls |-> tls, host |-> SubSeq(rest, 1, h - 1),
              port |-> IF WsHasPort(url) THEN atoi(SubSeq(rest, find(rest, ":") + 1, n - 1))
                       ELSE IF tls THEN 443 ELSE 80,
              path |-> IF n > Len(rest) THEN <<"/">> ELSE SubSeq(rest, n, Len(rest))]
      /\ SubSeq(url, 1, 4) \in {<<p, ":", "/", "/">> : p \in {"ws", "wss"}}
  BY WsAccepted, Zenon
<1>2. /\ rest \in Seq(Words) /\ Len(rest) = Len(url) - 4 /\ Len(url) >= 5
      /\ \A i \in 1 .. Len(rest) : rest[i] = url[i + 4]
      /\ h \in 2 .. Len(rest) + 1 /\ n \in h .. Len(rest) + 1
      /\ \A i \in 1 .. h - 1 : rest[i] \notin {":", "/"}
      /\ \A i \in 1 .. n - 1 : rest[i] # "/"
      /\ n <= Len(rest) => rest[n] = "/"
      /\ WsHasPort(url) <=> h < n
      /\ WsHasPort(url) => h = find(rest, ":")
  BY WsPlaces, Zenon
<1>3. Len(url) \in Nat /\ \A i \in 1 .. Len(url) : url[i] \in Words
  OBVIOUS
<1> HIDE DEF rest, h, n
<1>4. /\ v.use_tls = tls /\ v.host = SubSeq(rest, 1, h - 1)
      /\ v.port = IF WsHasPort(url) THEN atoi(SubSeq(rest, find(rest, ":") + 1, n - 1))
                  ELSE IF tls THEN 443 ELSE 80
      /\ v.path = IF n > Len(rest) THEN <<"/">> ELSE SubSeq(rest, n, Len(rest))
  <2> HIDE DEF tls, v
  <2> QED BY <1>1
<1> HIDE DEF v
<1>5. url[1] = scheme /\ url[2] = ":" /\ url[3] = "/" /\ url[4] = "/"
  <2>1. PICK p \in {"ws", "wss"} : SubSeq(url, 1, 4) = <<p, ":", "/", "/">>
    BY <1>1
  <2>2. \A i \in 1 .. 4 : SubSeq(url, 1, 4)[i] = url[i]
    <3>1. \A i \in 1 .. 4 : url[i] \in Words
      BY <1>2, <1>3
    <3>2. \A i \in 1 .. 4 - 1 + 1 : SubSeq(url, 1, 4)[i] = url[1 + i - 1]
      BY <3>1, SubSeqProperties
    <3> QED BY <3>2
  <2>3. url[1] = p /\ url[2] = ":" /\ url[3] = "/" /\ url[4] = "/"
    <3> DEFINE s == <<p, ":", "/", "/">>
               t == SubSeq(url, 1, 4)
    <3>1. s[1] = p /\ s[2] = ":" /\ s[3] = "/" /\ s[4] = "/"
      BY FourWords, Zenon
    <3>2. t[1] = url[1] /\ t[2] = url[2] /\ t[3] = url[3] /\ t[4] = url[4]
      BY <2>2
    <3>3. t = s
      BY <2>1
    <3> HIDE DEF s, t
    <3> QED BY <3>1, <3>2, <3>3, Zenon
  <2>4. url # <<>>
    BY <1>2
  <2> QED BY <1>4, <2>3, <2>4
<1> HIDE DEF tls
<1>6. /\ v.host \in Seq(Words) /\ Len(v.host) = h - 1
      /\ \A i \in 1 .. h - 1 : v.host[i] = rest[i]
  <2>1. \A i \in 1 .. h - 1 : rest[i] \in Words
    BY <1>2
  <2>2. h - 1 \in Int /\ 1 <= h - 1 /\ (h - 1) - 1 + 1 = h - 1
    BY <1>2
  <2>3. /\ SubSeq(rest, 1, h - 1) \in Seq(Words)
        /\ Len(SubSeq(rest, 1, h - 1)) = h - 1
        /\ \A i \in 1 .. h - 1 : SubSeq(rest, 1, h - 1)[i] = rest[1 + i - 1]
    BY <2>1, <2>2, SubSeqProperties
  <2>4. \A i \in 1 .. h - 1 : 1 + i - 1 = i
    BY <1>2
  <2> QED BY <1>4, <2>3, <2>4
<1>7. /\ front \in Seq(Words) /\ Len(front) = h + 3
      /\ \A i \in 1 .. h + 3 : front[i] = url[i]
  <2> DEFINE s == <<scheme, ":", "/", "/">>
  <2>1. s \in Seq(Words) /\ Len(s) = 4 /\ s[1] = scheme /\ s[2] = ":" /\ s[3] = "/" /\ s[4] = "/"
    <3>1. \A i \in 1 .. 4 : url[i] \in Words
      BY <1>2, <1>3
    <3>2. url[1] \in Words /\ url[2] \in Words /\ url[3] \in Words /\ url[4] \in Words
      BY <3>1
    <3> HIDE DEF scheme
    <3>3. scheme \in Words /\ ":" \in Words /\ "/" \in Words
      BY <1>5, <3>2, Zenon
    <3> QED BY <3>3, FourWords, Zenon
  <2> HIDE DEF s, scheme
  <2>2. front \in Seq(Words) /\ Len(front) = 4 + (h - 1)
        /\ \A i \in 1 .. 4 + (h - 1) : front[i] = IF i <= 4 THEN s[i] ELSE v.host[i - 4]
    BY <1>2, <1>6, <2>1 DEF s
  <2>3. ASSUME NEW i \in 1 .. h + 3 PROVE front[i] = url[i]
    <3>1. CASE i <= 4
      <4>1. i \in {1, 2, 3, 4}
        BY <1>2, <3>1
      <4> QED BY <1>2, <1>5, <2>1, <2>2, <3>1, <4>1
    <3>2. CASE i > 4
      <4>1. i - 4 \in 1 .. h - 1 /\ i - 4 \in 1 .. Len(rest) /\ (i - 4) + 4 = i /\ ~(i <= 4)
        BY <1>2, <1>3, <3>2
      <4>2. front[i] = v.host[i - 4]
        BY <1>2, <2>2, <4>1
      <4> QED BY <1>2, <1>6, <4>1, <4>2
    <3>3. i <= 4 \/ i > 4
      BY <1>2
    <3> QED BY <3>1, <3>2, <3>3, Zenon
  <2>4. 4 + (h - 1) = h + 3
    BY <1>2
  <2> QED BY <2>2, <2>3, <2>4
<1> HIDE DEF front
<1>8. IsPrefix(front, url)
  <2>1. Len(front) <= Len(url) /\ Len(front) \in Nat
    BY <1>2, <1>3, <1>7
  <2>2. SubSeq(front, 1, Len(front)) = SubSeq(url, 1 + 0, Len(front) + 0)
    <3>1. \A i \in 1 .. Len(front) : front[i] = url[i + 0]
      BY <1>2, <1>7
    <3> QED BY <1>7, <2>1, <3>1, SamePiece
  <2>3. Len(front) + 0 = Len(front) /\ 1 + 0 = 1
    BY <2>1
  <2> QED BY <2>1, <2>2, <2>3 DEF IsPrefix
<1>9. {v.host[i] : i \in DOMAIN v.host} \cap {":", "/"} = {}
  <2>1. DOMAIN v.host = 1 .. h - 1
    BY <1>6
  <2> QED BY <1>2, <1>6, <2>1
<1>10. /\ tail \in Seq(Words) /\ Len(tail) = Len(rest) - h + 1
       /\ \A i \in 1 .. Len(rest) - h + 1 : tail[i] = rest[i + (h - 1)]
  <2>1. Len(front) + 1 = h + 4 /\ h + 4 \in Int /\ \A i \in h + 4 .. Len(url) : url[i] \in Words
    BY <1>2, <1>3, <1>7
  <2>2. /\ tail \in Seq(Words)
        /\ Len(tail) = IF h + 4 <= Len(url) THEN Len(url) - (h + 4) + 1 ELSE 0
        /\ \A i \in 1 .. Len(url) - (h + 4) + 1 : tail[i] = url[h + 4 + i - 1]
    BY <1>3, <2>1, SubSeqProperties
  <2> HIDE DEF tail
  <2>3. Len(tail) = Len(rest) - h + 1
    BY <1>2, <1>3, <2>2
  <2>4. ASSUME NEW i \in 1 .. Len(rest) - h + 1 PROVE tail[i] = rest[i + (h - 1)]
    <3>1. /\ i \in 1 .. Len(url) - (h + 4) + 1 /\ i + (h - 1) \in 1 .. Len(rest)
          /\ (i + (h - 1)) + 4 = h + 4 + i - 1
      BY <1>2, <1>3
    <3> QED BY <1>2, <2>2, <3>1
  <2> QED BY <2>2, <2>3, <2>4
<1> HIDE DEF tail
<1>11. slash = n - h + 1 /\ slash \in 1 .. Len(tail) + 1 /\ Len(rest) \in Nat
  <2> DEFINE k == n - h + 1
  <2>1. k \in 1 .. Len(tail) + 1 /\ Len(rest) \in Nat
    BY <1>2, <1>10
  <2>2. ASSUME NEW i \in 1 .. k - 1 PROVE tail[i] # "/"
    <3>1. i \in 1 .. Len(rest) - h + 1 /\ i + (h - 1) \in 1 .. n - 1
      BY <1>2, <2>1
    <3> QED BY <1>2, <1>10, <3>1
  <2>3. ASSUME k <= Len(tail) PROVE tail[k] = "/"
    <3>1. k \in 1 .. Len(rest) - h + 1 /\ k + (h - 1) = n /\ n <= Len(rest)
      BY <1>2, <1>10, <2>1, <2>3
    <3> QED BY <1>2, <1>10, <3>1
  <2> HIDE DEF k
  <2>4. EndBefore(tail, "/") = k
    BY <1>10, <2>1, <2>2, <2>3, EndUnique
  <2> QED BY <2>1, <2>4 DEF k
<1> HIDE DEF slash
<1>12. \A a, b \in Nat : a > 0 /\ b <= Len(tail) =>
         SubSeq(tail, a, b) = SubSeq(rest, a + (h - 1), b + (h - 1))
  <2> TAKE a, b \in Nat
  <2> HAVE a > 0 /\ b <= Len(tail)
  <2>1. h - 1 \in Nat /\ b + (h - 1) <= Len(rest) /\ \A i \in a .. b : i \in 1 .. Len(rest) - h + 1
    BY <1>2, <1>10, <1>11
  <2>2. \A i \in a .. b : tail[i] = rest[i + (h - 1)]
    BY <1>10, <2>1
  <2> QED BY <1>2, <1>10, <2>1, <2>2, SamePiece
<1>13. v.path = IF slash > Len(tail) THEN <<"/">> ELSE SubSeq(tail, slash, Len(tail))
  <2>1. slash > Len(tail) <=> n > Len(rest)
    BY <1>2, <1>10, <1>11
  <2>2. ASSUME ~(slash > Len(tail)) PROVE SubSeq(tail, slash, Len(tail)) = SubSeq(rest, n, Len(rest))
    <3>1. slash \in Nat /\ Len(tail) \in Nat /\ slash > 0
          /\ slash + (h - 1) = n /\ Len(tail) + (h - 1) = Len(rest) /\ Len(tail) <= Len(tail)
      BY <1>2, <1>10, <1>11
    <3>2. SubSeq(tail, slash, Len(tail)) = SubSeq(rest, slash + (h - 1), Len(tail) + (h - 1))
      BY <1>12, <3>1
    <3> QED BY <3>1, <3>2
  <2> QED BY <1>4, <2>1, <2>2
<1>14. v.port = IF slash > 1 THEN atoi(SubSeq(tail, 2, slash - 1)) ELSE IF v.use_tls THEN 443 ELSE 80
  <2>1. WsHasPort(url) <=> slash > 1
    BY <1>2, <1>11
  <2>2. ASSUME slash > 1 PROVE SubSeq(tail, 2, slash - 1) = SubSeq(rest, find(rest, ":") + 1, n - 1)
    <3>1. slash - 1 \in Nat /\ slash - 1 <= Len(tail) /\ 2 + (h - 1) = h + 1 /\ 2 \in Nat /\ 2 > 0 /\ (slash - 1) + (h - 1) = n - 1
      BY <1>2, <1>10, <1>11, <2>2
    <3>2. SubSeq(tail, 2, slash - 1) = SubSeq(rest, 2 + (h - 1), (slash - 1) + (h - 1))
      BY <1>12, <3>1, Zenon
    <3>3. h = find(rest, ":")
      BY <1>2, <2>1, <2>2
    <3> QED BY <3>1, <3>2, <3>3
  <2> QED BY <1>4, <2>1, <2>2
<1> QED BY <1>0, <1>8, <1>9, <1>13, <1>14, Zenon DEF v

-----------------------------------------------------------------------------
(* What a digit writes is read as that digit.                              *)
LEMMA DigitsInverse == \A d \in 0 .. 9 : Numerals[d + 1] \in DOMAIN Digits /\ Digits[Numerals[d + 1]] = d
<1> SUFFICES ASSUME NEW d \in 0 .. 9 PROVE Numerals[d + 1] \in DOMAIN Digits /\ Digits[Numerals[d + 1]] = d
  OBVIOUS
<1>1. \A e \in 0 .. 9 : Numerals[e + 1] = Numerals[d + 1] => e = d
  BY SMTT(30) DEF Numerals
<1> DEFINE c == Numerals[d + 1]
<1>2. c \in {Numerals[e + 1] : e \in 0 .. 9}
  BY Zenon
<1>3. Digits[c] = CHOOSE e \in 0 .. 9 : Numerals[e + 1] = c
  BY <1>2, Zenon DEF Digits
<1>4. Digits[c] \in 0 .. 9 /\ Numerals[Digits[c] + 1] = c
  <2>1. \E e \in 0 .. 9 : Numerals[e + 1] = c
    BY Zenon
  <2> HIDE DEF c
  <2> QED BY <1>3, <2>1, Zenon
<1>5. c \in DOMAIN Digits
  BY <1>2, Zenon DEF Digits
<1> QED BY <1>1, <1>4, <1>5, Zenon

(* A numeral is a word, and no mark that divides a url.                    *)
LEMMA NumeralsTyped == \A d \in 0 .. 9 : Numerals[d + 1] \in Words /\ Numerals[d + 1] \notin {":", "/"}
<1>1. \A d \in 0 .. 9 : Numerals[d + 1] \in Words
  BY Zenon DEF Words, Marks
<1>2. \A d \in 0 .. 9 : Numerals[d + 1] \notin {":", "/"}
  BY SMTT(30) DEF Numerals
<1> QED BY <1>1, <1>2

(* The digits of a port: where they begin, and what each adds.             *)
LEMMA PowerStep ==
  /\ \A k \in 1 .. 5 : Powers[k] \in Nat /\ Powers[k] > 0
  /\ Powers[1] = 1 /\ DOMAIN Powers = 1 .. 5
  /\ \A n \in 0 .. MaxPort : \A k \in 1 .. 5 : n \div Powers[k] \in Nat /\ ((n \div Powers[k]) % 10) \in 0 .. 9
  /\ \A n \in 0 .. MaxPort : n \div 1 = n
<1>1. \A n \in Nat : n % 10 \in 0 .. 9 /\ n \div 1 = n
  OBVIOUS
<1>2. /\ \A k \in 1 .. 5 : Powers[k] \in Nat /\ Powers[k] > 0
      /\ Powers[1] = 1 /\ DOMAIN Powers = 1 .. 5
  BY DEF Powers
<1>3. \A n \in 0 .. MaxPort : n \in Nat
  BY SMTT(30)
<1>4. \A n \in 0 .. MaxPort : \A k \in 1 .. 5 : n \div Powers[k] \in Nat
  BY <1>3, SMTT(30) DEF Powers
<1> QED BY <1>1, <1>2, <1>3, <1>4

(* A number is its last digit and ten times the others.                    *)
LEMMA TenParts == ASSUME NEW m \in Nat PROVE m = (m \div 10) * 10 + (m % 10)
<1> DEFINE q == m \div 10
           r == (m % 10)
<1>1. r = m - 10 * q /\ q \in Nat
  OBVIOUS
<1> HIDE DEF q, r
<1>2. m = q * 10 + r
  BY <1>1
<1> QED BY <1>2, Zenon DEF q, r

LEMMA OneDigit == ASSUME NEW m \in Nat, m <= 9 PROVE m = (m % 10)
BY SMTT(30)

(* Each digit of a port adds to ten times the number in front of it, and   *)
(* the first digit is alone.                                               *)
LEMMA PowerAdds ==
  ASSUME NEW n \in 0 .. MaxPort
  PROVE  /\ \A k \in 1 .. 4 : n \div Powers[k] = (n \div Powers[k + 1]) * 10 + ((n \div Powers[k]) % 10)
         /\ \A k \in 1 .. 5 : k = 5 \/ n < Powers[k + 1] => n \div Powers[k] = ((n \div Powers[k]) % 10)
<1>0. n \in Nat /\ n <= 65535
  <2>1. n \in Nat /\ n <= MaxPort
    BY SMT
  <2> QED BY <2>1, MaxPortIs, SMT
<1>1. n \div 1 = (n \div 10) * 10 + ((n \div 1) % 10)
  BY <1>0, TenParts
<1>2. n \div 10 = (n \div 100) * 10 + ((n \div 10) % 10)
  <2> DEFINE m == n \div 10
  <2>1. m \in Nat /\ n \div 100 = m \div 10
    BY <1>0, SMTT(30)
  <2> HIDE DEF m
  <2>2. m = (m \div 10) * 10 + (m % 10)
    BY <2>1, TenParts
  <2> QED BY <2>1, <2>2, SMT DEF m
<1>3. n \div 100 = (n \div 1000) * 10 + ((n \div 100) % 10)
  <2> DEFINE m == n \div 100
  <2>1. m \in Nat /\ n \div 1000 = m \div 10
    BY <1>0, SMTT(30)
  <2> HIDE DEF m
  <2>2. m = (m \div 10) * 10 + (m % 10)
    BY <2>1, TenParts
  <2> QED BY <2>1, <2>2, SMT DEF m
<1>4. n \div 1000 = (n \div 10000) * 10 + ((n \div 1000) % 10)
  <2> DEFINE m == n \div 1000
  <2>1. m \in Nat /\ n \div 10000 = m \div 10
    BY <1>0, SMTT(30)
  <2> HIDE DEF m
  <2>2. m = (m \div 10) * 10 + (m % 10)
    BY <2>1, TenParts
  <2> QED BY <2>1, <2>2, SMT DEF m
<1>5. n \div 10000 = ((n \div 10000) % 10)
  <2> DEFINE m == n \div 10000
  <2>1. m \in Nat /\ m <= 9
    BY <1>0, SMTT(30)
  <2> HIDE DEF m
  <2>2. m = (m % 10)
    BY <2>1, OneDigit
  <2> QED BY <2>2, SMT DEF m
<1>6. Powers[1] = 1 /\ Powers[2] = 10 /\ Powers[3] = 100 /\ Powers[4] = 1000 /\ Powers[5] = 10000
  BY DEF Powers
<1>7. ASSUME NEW k \in 1 .. 4
      PROVE  /\ n \div Powers[k] = (n \div Powers[k + 1]) * 10 + ((n \div Powers[k]) % 10)
             /\ n < Powers[k + 1] => n \div Powers[k + 1] = 0
  <2>1. n < Powers[k + 1] => n \div Powers[k + 1] = 0
    BY <1>0, <1>6, SMTT(30)
  <2>2. CASE k = 1
    BY <1>1, <1>6, <2>1, <2>2
  <2>3. CASE k = 2
    BY <1>2, <1>6, <2>1, <2>3
  <2>4. CASE k = 3
    BY <1>3, <1>6, <2>1, <2>4
  <2>5. CASE k = 4
    BY <1>4, <1>6, <2>1, <2>5
  <2> QED BY <2>2, <2>3, <2>4, <2>5
<1>8. ASSUME NEW k \in 1 .. 5, k = 5 \/ n < Powers[k + 1]
      PROVE  n \div Powers[k] = ((n \div Powers[k]) % 10)
  <2>1. CASE k = 5
    BY <1>5, <1>6, <2>1
  <2>2. CASE k # 5
    <3>1. k \in 1 .. 4 /\ n < Powers[k + 1]
      BY <1>8, <2>2
    <3> DEFINE d == ((n \div Powers[k]) % 10)
    <3>2. d \in 0 .. 9
      BY PowerStep, Zenon
    <3>3. n \div Powers[k] = (n \div Powers[k + 1]) * 10 + d /\ n \div Powers[k + 1] = 0
      BY <1>7, <3>1
    <3> HIDE DEF d
    <3>4. n \div Powers[k] = d
      BY <3>2, <3>3
    <3> QED BY <3>4 DEF d
  <2> QED BY <2>1, <2>2
<1> QED BY <1>7, <1>8

(* The digits to_string writes: from the first that is not 0.              *)
LEMMA PortLength ==
  ASSUME NEW n \in 1 .. MaxPort
  PROVE  \E len \in 1 .. 5 :
           /\ len = 5 \/ n < Powers[len + 1]
           /\ to_string(n) = [i \in 1 .. len |-> Numerals[((n \div Powers[len + 1 - i]) % 10) + 1]]
<1> DEFINE K == {k \in DOMAIN Powers : k = 1 \/ n >= Powers[k]}
<1>1. K \subseteq 1 .. 5 /\ 1 \in K
  BY PowerStep
<1>2. \E m \in K : \A k \in K : m >= k
  <2> HIDE DEF K
  <2>1. CASE 5 \in K
    BY <1>1, <2>1
  <2>2. CASE 5 \notin K /\ 4 \in K
    BY <1>1, <2>2
  <2>3. CASE 5 \notin K /\ 4 \notin K /\ 3 \in K
    BY <1>1, <2>3
  <2>4. CASE 5 \notin K /\ 4 \notin K /\ 3 \notin K
    BY <1>1, <2>4
  <2> QED BY <2>1, <2>2, <2>3, <2>4
<1>3. Max(K) \in K /\ \A k \in K : Max(K) >= k
  BY <1>2, Zenon DEF Max
<1>4. Max(K) = 5 \/ n < Powers[Max(K) + 1]
  <2> DEFINE m == Max(K)
  <2>1. m \in 1 .. 5 /\ (\A k \in K : m >= k) /\ n \in Int
    <3> HIDE DEF K
    <3>1. n \in Int
      <4> HIDE DEF m
      <4> QED BY SMTT(30)
    <3> QED BY <1>1, <1>3, <3>1
  <2> HIDE DEF m
  <2>2. ASSUME m # 5 PROVE n < Powers[m + 1]
    <3>1. m + 1 \in 1 .. 5 /\ m + 1 # 1
      BY <2>1, <2>2
    <3>2. m + 1 \notin K
      BY <2>1
    <3> QED BY <2>1, <3>1, <3>2, PowerStep
  <2> QED BY <2>2 DEF m
<1>5. to_string(n) = [i \in 1 .. Max(K) |-> Numerals[((n \div Powers[Max(K) + 1 - i]) % 10) + 1]]
  BY Zenon DEF to_string
<1> QED BY <1>1, <1>3, <1>4, <1>5, Zenon

(* std::to_string and parse_port are inverse on the ports.                 *)
THEOREM PortWritten ==
  ASSUME NEW n \in 1 .. MaxPort
  PROVE  LET s == to_string(n)
         IN  /\ s \in Seq(Words) /\ s # <<>> /\ Numeral(s) /\ Decimal(s) = n
             /\ \A i \in 1 .. Len(s) : s[i] \notin {":", "/"}
<1> DEFINE s == to_string(n)
           digit(k) == ((n \div Powers[k]) % 10)
<1>1. PICK len \in 1 .. 5 : /\ len = 5 \/ n < Powers[len + 1]
                            /\ s = [i \in 1 .. len |-> Numerals[digit(len + 1 - i) + 1]]
  BY PortLength, Zenon
<1>2. n \in 0 .. MaxPort /\ n \in Nat
  <2> HIDE DEF s, digit
  <2>1. MaxPort \in Nat
    BY MaxPortIs, SMTT(30)
  <2> QED BY <2>1
<1>3. \A k \in 1 .. 5 : digit(k) \in 0 .. 9
  BY <1>2, PowerStep, Zenon
<1>4. \A i \in 1 .. len : len + 1 - i \in 1 .. 5
  OBVIOUS
<1> HIDE DEF digit
<1>5. s \in Seq(Words) /\ Len(s) = len
  <2>1. \A i \in 1 .. len : Numerals[digit(len + 1 - i) + 1] \in Words
    BY <1>3, <1>4, NumeralsTyped
  <2> HIDE DEF s
  <2> QED BY <1>1, <2>1
<1> HIDE DEF s
<1>6. \A i \in 1 .. len : s[i] = Numerals[digit(len + 1 - i) + 1]
  BY <1>1
<1>7. \A i \in 1 .. len : s[i] \in DOMAIN Digits /\ Digits[s[i]] = digit(len + 1 - i) /\ s[i] \notin {":", "/"}
  BY <1>3, <1>4, <1>6, DigitsInverse, NumeralsTyped
<1>8. Numeral(s)
  BY <1>5, <1>7, Zenon DEF Numeral
<1> DEFINE w == ValueUpTo(s)
           T == {k \in 0 .. len : w[k] = IF k = 0 THEN 0 ELSE n \div Powers[len + 1 - k]}
<1>9. /\ w[0] = 0
      /\ \A k \in 1 .. len : w[k] = w[k - 1] * 10 + Digits[s[k]]
  BY <1>5, <1>8, ValueDefined, Zenon
<1> HIDE DEF w
<1>10. 0 \in T
  BY <1>9
<1>11. ASSUME NEW k \in 0 .. (len - 1), k \in T PROVE k + 1 \in T
  <2> DEFINE j == len - k
  <2>1. k + 1 \in 1 .. len /\ (k + 1) - 1 = k /\ len + 1 - (k + 1) = j /\ j \in 1 .. 5 /\ k + 1 # 0 /\ k + 1 \in 0 .. len
    OBVIOUS
  <2>2. w[k + 1] = w[k] * 10 + digit(j)
    BY <1>7, <1>9, <2>1
  <2>3. w[k + 1] = n \div Powers[j]
    <3>1. CASE k = 0
      <4>1. w[k] = 0 /\ j = len
        BY <1>9, <3>1
      <4>2. n \div Powers[j] = digit(j)
        <5>1. len = 5 \/ n < Powers[len + 1]
          BY <1>1, Zenon
        <5>2. n \div Powers[len] = ((n \div Powers[len]) % 10)
          BY <1>2, <5>1, PowerAdds, Zenon
        <5> QED BY <4>1, <5>2, Zenon DEF digit
      <4>3. w[k + 1] = digit(j)
        BY <1>3, <2>1, <2>2, <4>1
      <4> QED BY <4>2, <4>3
    <3>2. CASE k # 0
      <4>1. j \in 1 .. 4 /\ len + 1 - k = j + 1
        BY <3>2
      <4>2. w[k] = n \div Powers[j + 1]
        BY <1>11, <3>2, <4>1
      <4>3. n \div Powers[j] = (n \div Powers[j + 1]) * 10 + digit(j)
        BY <1>2, <4>1, PowerAdds, Zenon DEF digit
      <4> QED BY <2>2, <4>2, <4>3
    <3> QED BY <3>1, <3>2
  <2> QED BY <2>1, <2>3
<1>12. len \in T
  <2> HIDE DEF T
  <2>1. \A k \in 0 .. len : k \in T
    BY <1>10, <1>11, BoundedInduction
  <2> QED BY <2>1
<1>13. w[len] = n
  <2>1. w[len] = n \div Powers[1]
    BY <1>12
  <2> QED BY <1>2, <2>1, PowerStep
<1>14. Decimal(s) = n
  BY <1>5, <1>13, Zenon DEF Decimal, ValueUpTo, w
<1> QED BY <1>5, <1>7, <1>8, <1>14 DEF s

-----------------------------------------------------------------------------
(* Urls of ShareRTCUrl. Where a text is cut, and what the pieces are.      *)
(* The marks the urls are written with are words.                          *)
LEMMA KnownWords == \A c \in {"https", "h", ":", "/", "?", "&", "="} : c \in Words
BY Zenon DEF Words, Marks

(* A set of numbers up to a bound that is not empty has a least and a      *)
(* greatest.                                                               *)
LEMMA Extremes ==
  ASSUME NEW N \in Nat, NEW S, S \subseteq 0 .. N, S # {}
  PROVE  /\ Min(S) \in S /\ \A x \in S : Min(S) <= x
         /\ Max(S) \in S /\ \A x \in S : Max(S) >= x
<1> DEFINE T == {k \in 0 .. N : (\A y \in S : y > k) \/ \E x \in S : \A y \in S : x <= y}
           U == {k \in 0 .. N : (\A y \in S : y < N - k) \/ \E x \in S : \A y \in S : x >= y}
<1>1. 0 \in T
  <2>1. CASE 0 \in S
    BY <2>1
  <2>2. CASE 0 \notin S
    BY <2>2
  <2> QED BY <2>1, <2>2
<1>2. ASSUME NEW k \in 0 .. (N - 1), k \in T PROVE k + 1 \in T
  <2>1. CASE k + 1 \in S
    BY <1>2, <2>1
  <2>2. CASE k + 1 \notin S
    BY <1>2, <2>2
  <2> QED BY <2>1, <2>2
<1>3. 0 \in U
  <2>1. CASE N \in S
    BY <2>1
  <2>2. CASE N \notin S
    BY <2>2
  <2> QED BY <2>1, <2>2
<1>4. ASSUME NEW k \in 0 .. (N - 1), k \in U PROVE k + 1 \in U
  <2>1. CASE N - (k + 1) \in S
    BY <1>4, <2>1
  <2>2. CASE N - (k + 1) \notin S
    BY <1>4, <2>2
  <2> QED BY <2>1, <2>2
<1> HIDE DEF T, U
<1>5. N \in T /\ N \in U
  <2>1. N \in 0 .. N
    OBVIOUS
  <2>2. N \in T
    BY <1>1, <1>2, <2>1, BoundedInduction
  <2>3. N \in U
    BY <1>3, <1>4, <2>1, BoundedInduction
  <2> QED BY <2>2, <2>3
<1>6. \E x \in S : \A y \in S : x <= y
  <2>1. (\A y \in S : y > N) \/ \E x \in S : \A y \in S : x <= y
    BY <1>5, Zenon DEF T
  <2>2. ~\A y \in S : y > N
    <3>1. PICK y \in S : y \in 0 .. N
      OBVIOUS
    <3> QED BY <3>1
  <2> QED BY <2>1, <2>2, Zenon
<1>7. \E x \in S : \A y \in S : x >= y
  <2>1. (\A y \in S : y < N - N) \/ \E x \in S : \A y \in S : x >= y
    BY <1>5, Zenon DEF U
  <2>2. ~\A y \in S : y < N - N
    <3>1. PICK y \in S : y \in 0 .. N
      OBVIOUS
    <3> QED BY <3>1
  <2> QED BY <2>1, <2>2, Zenon
<1>8. Min(S) \in S /\ \A x \in S : Min(S) <= x
  BY <1>6, Zenon DEF Min
<1>9. Max(S) \in S /\ \A x \in S : Max(S) >= x
  BY <1>7, Zenon DEF Max
<1> QED BY <1>8, <1>9

Free(s, c) == \A i \in 1 .. Len(s) : s[i] # c

(* No c in two texts is none in the one behind the other.                  *)
LEMMA FreeConcat ==
  ASSUME NEW a \in Seq(Words), NEW b \in Seq(Words), NEW c
  PROVE  a \o b \in Seq(Words) /\ (Free(a \o b, c) <=> Free(a, c) /\ Free(b, c))
<1> DEFINE s == a \o b
<1>1. /\ s \in Seq(Words) /\ Len(s) = Len(a) + Len(b) /\ Len(a) \in Nat /\ Len(b) \in Nat
      /\ \A i \in 1 .. Len(a) : s[i] = a[i]
      /\ \A i \in 1 .. Len(b) : s[Len(a) + i] = b[i]
  OBVIOUS
<1> HIDE DEF s
<1>2. ASSUME Free(s, c) PROVE Free(a, c) /\ Free(b, c)
  <2>1. Free(a, c)
    BY <1>1, <1>2 DEF Free
  <2>2. ASSUME NEW i \in 1 .. Len(b) PROVE b[i] # c
    <3>1. Len(a) + i \in 1 .. Len(s) /\ s[Len(a) + i] = b[i]
      BY <1>1
    <3> QED BY <1>2, <3>1 DEF Free
  <2> QED BY <2>1, <2>2 DEF Free
<1>3. ASSUME Free(a, c), Free(b, c), NEW i \in 1 .. Len(s) PROVE s[i] # c
  <2>1. CASE i <= Len(a)
    BY <1>1, <1>3, <2>1 DEF Free
  <2>2. CASE i > Len(a)
    <3>1. i - Len(a) \in 1 .. Len(b) /\ i = Len(a) + (i - Len(a))
      BY <1>1, <2>2
    <3>2. s[i] = b[i - Len(a)]
      BY <1>1, <3>1
    <3> QED BY <1>3, <3>1, <3>2 DEF Free
  <2> QED BY <1>1, <2>1, <2>2
<1> QED BY <1>1, <1>2, <1>3 DEF s, Free

(* A piece of a text: its length, its words, and what it is free of.       *)
LEMMA Piece ==
  ASSUME NEW s \in Seq(Words), NEW m \in Nat, NEW n \in Int, m > 0, n <= Len(s)
  PROVE  LET t == SubSeq(s, m, n)
         IN  /\ t \in Seq(Words) /\ Len(t) = IF m <= n THEN n - m + 1 ELSE 0
             /\ \A i \in 1 .. Len(t) : t[i] = s[m + i - 1]
             /\ \A c : Free(s, c) => Free(t, c)
<1> DEFINE t == SubSeq(s, m, n)
<1>1. \A i \in m .. n : s[i] \in Words
  OBVIOUS
<1>2. /\ t \in Seq(Words) /\ Len(t) = IF m <= n THEN n - m + 1 ELSE 0
      /\ \A i \in 1 .. n - m + 1 : t[i] = s[m + i - 1]
  BY <1>1, SubSeqProperties
<1> HIDE DEF t
<1>3. \A i \in 1 .. Len(t) : t[i] = s[m + i - 1] /\ m + i - 1 \in 1 .. Len(s)
  BY <1>2
<1>4. \A c : Free(s, c) => Free(t, c)
  BY <1>3 DEF Free
<1> QED BY <1>2, <1>3, <1>4 DEF t

(* Of a text that is divided by a mark, what is in front of it and behind  *)
(* it.                                                                     *)
LEMMA Halves ==
  ASSUME NEW a \in Seq(Words), NEW b \in Seq(Words), NEW c \in Words
  PROVE  LET s == a \o <<c>> \o b
         IN  /\ s \in Seq(Words) /\ Len(s) = Len(a) + 1 + Len(b) /\ s[Len(a) + 1] = c
             /\ \A i \in 1 .. Len(a) : s[i] = a[i]
             /\ \A i \in 1 .. Len(b) : s[Len(a) + 1 + i] = b[i]
             /\ Before(s, Len(a) + 1) = a /\ After(s, Len(a) + 1) = b
<1> DEFINE s == a \o <<c>> \o b
<1>1. /\ s \in Seq(Words) /\ Len(s) = Len(a) + 1 + Len(b) /\ s[Len(a) + 1] = c
      /\ \A i \in 1 .. Len(a) : s[i] = a[i]
      /\ \A i \in 1 .. Len(b) : s[Len(a) + 1 + i] = b[i]
      /\ Len(a) \in Nat /\ Len(b) \in Nat
  OBVIOUS
<1> HIDE DEF s
<1>2. Before(s, Len(a) + 1) = a
  <2> DEFINE t == SubSeq(s, 1, Len(a))
  <2>1. t \in Seq(Words) /\ Len(t) = Len(a) /\ \A i \in 1 .. Len(t) : t[i] = s[1 + i - 1]
    BY <1>1, Piece
  <2> HIDE DEF t
  <2>2. \A i \in 1 .. Len(t) : t[i] = a[i]
    BY <1>1, <2>1
  <2>3. t = a
    BY <2>1, <2>2, SeqEqual
  <2>4. (Len(a) + 1) - 1 = Len(a)
    BY <1>1
  <2>5. Before(s, Len(a) + 1) = SubSeq(s, 1, (Len(a) + 1) - 1)
    BY Zenon DEF Before
  <2> QED BY <2>3, <2>4, <2>5 DEF t
<1>3. After(s, Len(a) + 1) = b
  <2> DEFINE t == SubSeq(s, Len(a) + 1 + 1, Len(s))
  <2>1. t \in Seq(Words) /\ Len(t) = Len(b) /\ \A i \in 1 .. Len(t) : t[i] = s[Len(a) + 1 + 1 + i - 1]
    <3>1. Len(a) + 1 + 1 \in Nat /\ Len(a) + 1 + 1 > 0 /\ Len(s) \in Int /\ Len(s) <= Len(s)
      BY <1>1
    <3>2. t \in Seq(Words) /\ Len(t) = (IF Len(a) + 1 + 1 <= Len(s) THEN Len(s) - (Len(a) + 1 + 1) + 1 ELSE 0)
             /\ \A i \in 1 .. Len(t) : t[i] = s[Len(a) + 1 + 1 + i - 1]
      BY <1>1, <3>1, Piece
    <3> HIDE DEF t
    <3> QED BY <1>1, <3>2
  <2> HIDE DEF t
  <2>2. \A i \in 1 .. Len(t) : t[i] = b[i]
    <3> SUFFICES ASSUME NEW i \in 1 .. Len(b) PROVE t[i] = b[i]
      BY <2>1
    <3>1. Len(a) + 1 + 1 + i - 1 = Len(a) + 1 + i
      OBVIOUS
    <3>2. t[i] = s[Len(a) + 1 + 1 + i - 1] /\ s[Len(a) + 1 + i] = b[i]
      BY <1>1, <2>1, Zenon
    <3> QED BY <3>1, <3>2, Zenon
  <2>3. t = b
    BY <2>1, <2>2, SeqEqual
  <2> QED BY <2>3, Zenon DEF t, After
<1> QED BY <1>1, <1>2, <1>3 DEF s

(* What is in front of the first c, and what is behind it                  *)
UpTo(t, c) == IF find(t, c) = npos THEN t ELSE Before(t, find(t, c))
Past(t, c) == IF find(t, c) = npos THEN <<>> ELSE After(t, find(t, c))

(* A text is cut at the first mark,                                        *)
LEMMA CutFirst ==
  ASSUME NEW a \in Seq(Words), NEW b \in Seq(Words), NEW c \in Words, Free(a, c)
  PROVE  LET s == a \o <<c>> \o b IN UpTo(s, c) = a /\ Past(s, c) = b
<1> DEFINE s == a \o <<c>> \o b
<1>1. s \in Seq(Words) /\ FirstOf(s, c, Len(a) + 1) /\ Len(a) \in Nat
  <2>1. /\ s \in Seq(Words) /\ Len(s) = Len(a) + 1 + Len(b) /\ s[Len(a) + 1] = c
        /\ \A i \in 1 .. Len(a) : s[i] = a[i]
    BY Halves
  <2>2. Len(a) \in Nat /\ Len(b) \in Nat
    OBVIOUS
  <2> HIDE DEF s
  <2>3. \A i \in 1 .. (Len(a) + 1) - 1 : s[i] # c
    BY <2>1, <2>2 DEF Free
  <2>4. Len(a) + 1 \in 1 .. Len(s)
    BY <2>1, <2>2
  <2> QED BY <2>1, <2>2, <2>3, <2>4 DEF FirstOf
<1>2. Before(s, Len(a) + 1) = a /\ After(s, Len(a) + 1) = b
  BY Halves
<1> HIDE DEF s
<1>3. find(s, c) = Len(a) + 1
  BY <1>1, FindIs
<1>4. find(s, c) # npos
  BY <1>1, <1>3 DEF npos
<1> QED BY <1>2, <1>3, <1>4, Zenon DEF s, UpTo, Past

(* or nowhere when it has none,                                            *)
LEMMA NothingToCut ==
  ASSUME NEW t \in Seq(Words), NEW c, Free(t, c)
  PROVE  UpTo(t, c) = t /\ Past(t, c) = <<>>
<1>1. find(t, c) = npos
  BY FindsNone, Zenon DEF Free
<1> QED BY <1>1, Zenon DEF UpTo, Past

(* and the pieces have no mark that the text had not.                      *)
LEMMA CutParts ==
  ASSUME NEW t \in Seq(Words), NEW c
  PROVE  /\ UpTo(t, c) \in Seq(Words) /\ Free(UpTo(t, c), c) /\ Past(t, c) \in Seq(Words)
         /\ \A d : Free(t, d) => Free(UpTo(t, c), d) /\ Free(Past(t, c), d)
<1>1. Len(t) \in Nat
  OBVIOUS
<1>2. CASE Free(t, c)
  <2>1. Free(<<>>, c) /\ \A d : Free(<<>>, d)
    BY DEF Free
  <2> QED BY <1>2, <2>1, NothingToCut, EmptySeq, Zenon
<1>3. CASE ~Free(t, c)
  <2> DEFINE m == find(t, c)
  <2>1. FirstOf(t, c, m)
    BY <1>3, FindsFirst DEF Free
  <2>2. m # npos /\ UpTo(t, c) = SubSeq(t, 1, m - 1) /\ Past(t, c) = SubSeq(t, m + 1, Len(t))
    <3>1. m # npos
      <4> HIDE DEF m
      <4> QED BY <2>1 DEF FirstOf, npos
    <3> QED BY <3>1, Zenon DEF UpTo, Past, Before, After
  <2> HIDE DEF m
  <2>3. m \in 1 .. Len(t) /\ \A i \in 1 .. m - 1 : t[i] # c
    BY <2>1 DEF FirstOf
  <2> DEFINE k == SubSeq(t, 1, m - 1)
             v == SubSeq(t, m + 1, Len(t))
  <2>4. /\ k \in Seq(Words) /\ Len(k) = (IF 1 <= m - 1 THEN (m - 1) - 1 + 1 ELSE 0)
        /\ (\A i \in 1 .. Len(k) : k[i] = t[1 + i - 1]) /\ \A d : Free(t, d) => Free(k, d)
    <3>1. m - 1 \in Int /\ m - 1 <= Len(t)
      BY <1>1, <2>3
    <3> QED BY <3>1, Piece
  <2>5. v \in Seq(Words) /\ \A d : Free(t, d) => Free(v, d)
    <3>1. m + 1 \in Nat /\ m + 1 > 0 /\ Len(t) \in Int /\ Len(t) <= Len(t)
      BY <1>1, <2>3
    <3> QED BY <3>1, Piece
  <2> HIDE DEF k, v
  <2>6. Free(k, c)
    BY <1>1, <2>3, <2>4 DEF Free
  <2> QED BY <2>2, <2>4, <2>5, <2>6, Zenon DEF k, v
<1> QED BY <1>2, <1>3

(* The last mark of a text.                                                *)
LEMMA CutLast ==
  ASSUME NEW a \in Seq(Words), NEW b \in Seq(Words), NEW c \in Words, Free(b, c)
  PROVE  LET s == a \o <<c>> \o b IN rfind(s, c) = Len(a) + 1 /\ rfind(s, c) # npos
<1> DEFINE s == a \o <<c>> \o b
           hits == {i \in DOMAIN s : s[i] = c}
           n == Len(a) + 1
<1>1. /\ s \in Seq(Words) /\ Len(s) = n + Len(b) /\ s[n] = c
      /\ \A i \in 1 .. Len(b) : s[n + i] = b[i]
  BY Halves
<1>2. Len(a) \in Nat /\ Len(b) \in Nat /\ n \in Nat /\ n > 0
  OBVIOUS
<1> HIDE DEF s, n
<1>3. n \in hits /\ \A i \in hits : i \in Nat /\ n >= i
  <2>1. n \in hits
    BY <1>1, <1>2
  <2>2. ASSUME NEW i \in hits, n < i PROVE FALSE
    <3>0. i \in 1 .. Len(s) /\ s[i] = c
      BY <1>1
    <3> HIDE DEF hits
    <3>1. i - n \in 1 .. Len(b) /\ i = n + (i - n)
      BY <1>1, <1>2, <2>2, <3>0
    <3>2. s[i] = b[i - n]
      BY <1>1, <3>1
    <3> QED BY <3>0, <3>1, <3>2 DEF Free
  <2>3. \A i \in hits : i \in Nat
    BY <1>1
  <2> HIDE DEF hits
  <2> QED BY <1>2, <2>1, <2>2, <2>3
<1>4. rfind(s, c) = Max(hits)
  <2>1. hits # {}
    BY <1>3
  <2> QED BY <2>1, Zenon DEF rfind
<1> HIDE DEF hits
<1>5. Max(hits) \in hits /\ \A x \in hits : Max(hits) >= x
  BY <1>3, Zenon DEF Max
<1>6. rfind(s, c) = n
  BY <1>3, <1>4, <1>5
<1> QED BY <1>2, <1>6 DEF s, n, npos

(* Strip leaves alone what does not begin or end with what it takes away,  *)
LEMMA StripEnds ==
  ASSUME NEW s \in Seq(Words), NEW C, s # <<>>, s[1] \notin C, s[Len(s)] \notin C
  PROVE  Strip(s, C) = s
<1> DEFINE kept == {i \in DOMAIN s : s[i] \notin C}
<1>1. /\ kept \subseteq 0 .. Len(s) /\ 1 \in kept /\ Len(s) \in kept /\ Len(s) \in Nat
      /\ \A i \in kept : 1 <= i /\ i <= Len(s)
  OBVIOUS
<1>2. Strip(s, C) = SubSeq(s, Min(kept), Max(kept))
  <2>1. kept # {}
    BY <1>1
  <2> QED BY <2>1, Zenon DEF Strip
<1> HIDE DEF kept
<1>3. Min(kept) \in kept /\ Min(kept) <= 1 /\ Max(kept) \in kept /\ Max(kept) >= Len(s)
  BY <1>1, Extremes
<1> DEFINE m == Min(kept)
           n == Max(kept)
<1>4. m = 1 /\ n = Len(s)
  <2>1. m \in kept /\ m <= 1 /\ n \in kept /\ n >= Len(s)
    BY <1>3
  <2> HIDE DEF m, n
  <2>2. m \in 0 .. Len(s) /\ n \in 0 .. Len(s) /\ 1 <= m /\ n <= Len(s)
    BY <1>1, <2>1
  <2> QED BY <1>1, <2>1, <2>2
<1>5. SubSeq(s, 1, Len(s)) = s
  BY SubSeqFull
<1> QED BY <1>2, <1>4, <1>5, Zenon

(* and gives such a text.                                                  *)
LEMMA StripGives ==
  ASSUME NEW s \in Seq(Words), NEW C
  PROVE  LET t == Strip(s, C)
         IN  /\ t \in Seq(Words) /\ \A c : Free(s, c) => Free(t, c)
             /\ t # <<>> => t[1] \notin C /\ t[Len(t)] \notin C
<1> DEFINE kept == {i \in DOMAIN s : s[i] \notin C}
           t == Strip(s, C)
<1>1. CASE kept = {}
  <2>1. t = <<>>
    BY <1>1, Zenon DEF Strip
  <2> QED BY <2>1 DEF Free
<1>2. CASE kept # {}
  <2>1. kept \subseteq 0 .. Len(s) /\ (\A i \in kept : i \in 1 .. Len(s) /\ s[i] \notin C) /\ Len(s) \in Nat
    OBVIOUS
  <2>2. t = SubSeq(s, Min(kept), Max(kept))
    BY <1>2, Zenon DEF Strip
  <2> HIDE DEF kept
  <2> DEFINE a == Min(kept)
             b == Max(kept)
  <2>3. a \in kept /\ b \in kept /\ a <= b
    BY <1>2, <2>1, Extremes
  <2> HIDE DEF a, b
  <2>4. a \in Nat /\ a > 0 /\ b \in Int /\ b <= Len(s)
    BY <2>1, <2>3
  <2>5. /\ t \in Seq(Words) /\ Len(t) = b - a + 1 /\ \A i \in 1 .. Len(t) : t[i] = s[a + i - 1]
        /\ \A c : Free(s, c) => Free(t, c)
    BY <2>2, <2>3, <2>4, Piece DEF a, b
  <2> HIDE DEF t
  <2>6. t[1] = s[a] /\ t[Len(t)] = s[b]
    BY <2>3, <2>4, <2>5
  <2> QED BY <2>1, <2>3, <2>5, <2>6 DEF t
<1> QED BY <1>1, <1>2

-----------------------------------------------------------------------------
(* The query: the segments of its text, and what parse_query makes of them. *)
Ends(q) == {0, Len(q) + 1} \cup {i \in DOMAIN q : q[i] = "&"}
Segments(q) == {g \in Ends(q) \X Ends(q) : g[1] < g[2] /\ \A k \in Ends(q) : k <= g[1] \/ k >= g[2]}
Seg(q, g) == SubSeq(q, g[1] + 1, g[2] - 1)
SegTexts(q) == {Seg(q, g) : g \in Segments(q)}
KeyOf(t) == UpTo(t, "=")
ValueOf(t) == Past(t, "=")
Keys(q) == {KeyOf(Seg(q, g)) : g \in Segments(q)} \ {<<>>}
LastWith(q, k) ==
  CHOOSE g \in Segments(q) :
    KeyOf(Seg(q, g)) = k /\ \A h \in Segments(q) : KeyOf(Seg(q, h)) = k => h[1] <= g[1]

(* parse_query, with its local names given to all.                         *)
LEMMA QueryParts ==
  ASSUME NEW q PROVE parse_query(q) = [k \in Keys(q) |-> ValueOf(Seg(q, LastWith(q, k)))]
BY Zenon DEF parse_query, Ends, Segments, Seg, KeyOf, ValueOf, UpTo, Past, Keys, LastWith

(* A segment is a text between two ends, without an ampersand.             *)
LEMMA SegmentIs ==
  ASSUME NEW q \in Seq(Words), NEW g \in Segments(q)
  PROVE  /\ g[1] \in 0 .. Len(q) /\ g[2] \in 1 .. Len(q) + 1 /\ g[1] < g[2]
         /\ Seg(q, g) \in Seq(Words) /\ Free(Seg(q, g), "&")
<1>1. Ends(q) \subseteq 0 .. Len(q) + 1 /\ Len(q) \in Nat
  BY DEF Ends
<1> DEFINE a == g[1]
           b == g[2]
<1>2. a \in Ends(q) /\ b \in Ends(q) /\ a < b /\ \A k \in Ends(q) : k <= a \/ k >= b
  BY DEF Segments
<1> HIDE DEF a, b
<1>3. a \in 0 .. Len(q) /\ b \in 1 .. Len(q) + 1
  BY <1>1, <1>2
<1> DEFINE t == SubSeq(q, a + 1, b - 1)
<1>4. /\ t \in Seq(Words) /\ Len(t) = IF a + 1 <= b - 1 THEN (b - 1) - (a + 1) + 1 ELSE 0
      /\ \A i \in 1 .. Len(t) : t[i] = q[a + 1 + i - 1]
  <2>1. a + 1 \in Nat /\ a + 1 > 0 /\ b - 1 \in Int /\ b - 1 <= Len(q)
    BY <1>1, <1>3
  <2> QED BY <2>1, Piece
<1> HIDE DEF t
<1>5. ASSUME NEW i \in 1 .. Len(t), t[i] = "&" PROVE FALSE
  <2>1. a + i \in 1 .. Len(q) /\ a + i > a /\ a + i < b /\ t[i] = q[a + i]
    BY <1>1, <1>3, <1>4
  <2>2. a + i \in Ends(q)
    BY <1>5, <2>1 DEF Ends
  <2> QED BY <1>2, <1>3, <2>1, <2>2
<1>6. t = Seg(q, g)
  BY Zenon DEF t, a, b, Seg
<1>7. Free(t, "&")
  BY <1>5 DEF Free
<1> QED BY <1>2, <1>3, <1>4, <1>6, <1>7 DEF a, b

(* Of the segments with a key there is a last.                             *)
LEMMA LastWithKey ==
  ASSUME NEW q \in Seq(Words), NEW g0 \in Segments(q)
  PROVE  LET k == KeyOf(Seg(q, g0))
         IN  LastWith(q, k) \in Segments(q) /\ KeyOf(Seg(q, LastWith(q, k))) = k
<1> DEFINE k == KeyOf(Seg(q, g0))
           S == {h \in Segments(q) : KeyOf(Seg(q, h)) = k}
           N == {h[1] : h \in S}
<1>1. g0 \in S /\ S \subseteq Segments(q)
  BY Zenon
<1> HIDE DEF k, S
<1>2. N \subseteq 0 .. Len(q) /\ N # {} /\ Len(q) \in Nat
  BY <1>1, SegmentIs
<1>3. Max(N) \in N /\ \A x \in N : Max(N) >= x
  <2> HIDE DEF N
  <2> QED BY <1>2, Extremes
<1>4. PICK g \in S : g[1] = Max(N)
  BY <1>3, Zenon
<1>5. \A h \in S : h[1] <= g[1]
  <2>1. ASSUME NEW h \in S PROVE h[1] <= g[1]
    <3>1. h[1] \in N
      BY Zenon
    <3>2. g[1] >= h[1] /\ g[1] \in 0 .. Len(q) /\ h[1] \in 0 .. Len(q)
      BY <1>3, <1>4, <3>1, <1>2
    <3> QED BY <3>2
  <2> QED BY <2>1
<1>6. \E h \in Segments(q) :
        KeyOf(Seg(q, h)) = k /\ \A h2 \in Segments(q) : KeyOf(Seg(q, h2)) = k => h2[1] <= h[1]
  BY <1>5, Zenon DEF S
<1>7. LastWith(q, k) \in Segments(q) /\ KeyOf(Seg(q, LastWith(q, k))) = k
  BY <1>6, Zenon DEF LastWith
<1> QED BY <1>7 DEF k

(* The queries a url can have                                              *)
IsQuery(f) ==
  /\ IsFiniteSet(DOMAIN f) /\ f = [k \in DOMAIN f |-> f[k]]
  /\ \A k \in DOMAIN f : /\ k \in Seq(Words) /\ k # <<>> /\ Free(k, "=") /\ Free(k, "&")
                         /\ f[k] \in Seq(Words) /\ Free(f[k], "&")

(* parse_query gives a query to_url can write: no key is empty or has the  *)
(* mark of a value or of a segment in it.                                  *)
LEMMA QueryGives == ASSUME NEW q \in Seq(Words) PROVE IsQuery(parse_query(q))
<1> DEFINE f == parse_query(q)
<1>1. f = [k \in Keys(q) |-> ValueOf(Seg(q, LastWith(q, k)))]
  BY QueryParts
<1>2. /\ DOMAIN f = Keys(q) /\ f = [k \in DOMAIN f |-> f[k]]
      /\ \A k \in Keys(q) : f[k] = ValueOf(Seg(q, LastWith(q, k)))
  BY <1>1
<1> HIDE DEF f
<1>3. ASSUME NEW k \in Keys(q)
      PROVE  /\ k \in Seq(Words) /\ k # <<>> /\ Free(k, "=") /\ Free(k, "&")
             /\ f[k] \in Seq(Words) /\ Free(f[k], "&")
  <2>1. PICK g0 \in Segments(q) : k = KeyOf(Seg(q, g0)) /\ k # <<>>
    BY Zenon DEF Keys
  <2>2. LastWith(q, k) \in Segments(q) /\ KeyOf(Seg(q, LastWith(q, k))) = k
    BY <2>1, LastWithKey, Zenon
  <2>3. Seg(q, LastWith(q, k)) \in Seq(Words) /\ Free(Seg(q, LastWith(q, k)), "&")
    BY <2>2, SegmentIs, Zenon
  <2> DEFINE t == Seg(q, LastWith(q, k))
  <2>4. f[k] = Past(t, "=") /\ k = UpTo(t, "=")
    BY <1>2, <2>2, Zenon DEF KeyOf, ValueOf
  <2>5. t \in Seq(Words) /\ Free(t, "&")
    BY <2>3
  <2> HIDE DEF t
  <2>6. UpTo(t, "=") \in Seq(Words) /\ Free(UpTo(t, "="), "=") /\ Free(UpTo(t, "="), "&")
    BY <2>5, CutParts
  <2>7. Past(t, "=") \in Seq(Words) /\ Free(Past(t, "="), "&")
    BY <2>5, CutParts
  <2> QED BY <2>1, <2>4, <2>6, <2>7, Zenon
<1>4. IsFiniteSet(Keys(q))
  <2>1. IsFiniteSet(Segments(q))
    <3>1. Ends(q) \subseteq 0 .. Len(q) + 1 /\ Len(q) + 1 \in Int
      BY DEF Ends
    <3>2. IsFiniteSet(0 .. Len(q) + 1)
      BY <3>1, FS_Interval
    <3>3. IsFiniteSet(Ends(q))
      BY <3>1, <3>2, FS_Subset
    <3>4. IsFiniteSet(Ends(q) \X Ends(q))
      BY <3>3, FS_Product
    <3>5. Segments(q) \in SUBSET (Ends(q) \X Ends(q))
      BY Zenon DEF Segments
    <3> QED BY <3>4, <3>5, FS_Subset
  <2> DEFINE T == {KeyOf(Seg(q, g)) : g \in Segments(q)}
             key == [g \in Segments(q) |-> KeyOf(Seg(q, g))]
  <2>2. key \in Surjection(Segments(q), T)
    BY Zenon DEF Surjection
  <2>3. Keys(q) \in SUBSET T
    BY Zenon DEF Keys
  <2> HIDE DEF T, key
  <2>4. IsFiniteSet(T)
    BY <2>1, <2>2, FS_Surjection
  <2> QED BY <2>3, <2>4, FS_Subset
<1> QED BY <1>2, <1>3, <1>4 DEF f, IsQuery

(* The segments of a text that is written one after another.               *)
LEMMA OneText == ASSUME NEW p \in Seq(Words), Free(p, "&") PROVE SegTexts(p) = {p}
<1>0. Len(p) \in Nat
  OBVIOUS
<1>1. Ends(p) = {0, Len(p) + 1}
  BY DEF Ends, Free
<1> DEFINE g == <<0, Len(p) + 1>>
<1>2. Segments(p) = {g}
  <2>1. g \in Segments(p)
    BY <1>0, <1>1 DEF Segments
  <2>2. ASSUME NEW h \in Segments(p) PROVE h = g
    <3>1. h \in Ends(p) \X Ends(p) /\ h[1] < h[2]
      BY DEF Segments
    <3>2. h[1] = 0 /\ h[2] = Len(p) + 1
      BY <1>0, <1>1, <3>1
    <3> QED BY <3>1, <3>2
  <2> QED BY <2>1, <2>2
<1>3. Seg(p, g) = p
  <2>1. g[1] + 1 = 1 /\ g[2] - 1 = Len(p)
    BY <1>0
  <2> HIDE DEF g
  <2>2. Seg(p, g) = SubSeq(p, 1, Len(p))
    BY <2>1, Zenon DEF Seg
  <2> QED BY <2>2, SubSeqFull
<1> HIDE DEF g
<1> QED BY <1>2, <1>3, SMT DEF SegTexts

LEMMA NextText ==
  ASSUME NEW a \in Seq(Words), NEW p \in Seq(Words), Free(p, "&")
  PROVE  SegTexts(a \o <<"&">> \o p) = SegTexts(a) \cup {p}
<1> DEFINE q == a \o <<"&">> \o p
           L == Len(a) + 1
           g == <<L, Len(q) + 1>>
<1>1. /\ q \in Seq(Words) /\ Len(q) = L + Len(p) /\ q[L] = "&"
      /\ \A i \in 1 .. Len(a) : q[i] = a[i]
      /\ \A i \in 1 .. Len(p) : q[L + i] = p[i]
      /\ Before(q, L) = a /\ After(q, L) = p
  BY Halves, KnownWords
<1>2. Len(a) \in Nat /\ Len(p) \in Nat /\ L \in Nat /\ L > 0 /\ L = Len(a) + 1
  OBVIOUS
<1> HIDE DEF q, L
<1>3. Ends(q) = Ends(a) \cup {Len(q) + 1}
  <2>1. ASSUME NEW i \in 1 .. Len(q), q[i] = "&" PROVE i \in Ends(a)
    <3>1. CASE i < L
      <4>1. i \in 1 .. Len(a) /\ a[i] = "&"
        BY <1>1, <1>2, <2>1, <3>1
      <4> QED BY <4>1 DEF Ends
    <3>2. CASE i = L
      BY <1>2, <3>2 DEF Ends
    <3>3. CASE i > L
      <4>1. i - L \in 1 .. Len(p) /\ i = L + (i - L)
        BY <1>1, <1>2, <3>3
      <4>2. p[i - L] = "&"
        BY <1>1, <2>1, <4>1
      <4> QED BY <4>1, <4>2 DEF Free
    <3> QED BY <1>2, <3>1, <3>2, <3>3
  <2>2. ASSUME NEW i \in Ends(a) PROVE i \in Ends(q)
    <3>1. CASE i = 0
      BY <3>1 DEF Ends
    <3>2. CASE i = L
      BY <1>1, <1>2, <3>2 DEF Ends
    <3>3. CASE i \in 1 .. Len(a) /\ a[i] = "&"
      <4>1. i \in 1 .. Len(q) /\ q[i] = "&"
        BY <1>1, <1>2, <3>3
      <4> QED BY <1>1, <4>1 DEF Ends
    <3> QED BY <1>2, <3>1, <3>2, <3>3 DEF Ends
  <2>3. Ends(q) = {0, Len(q) + 1} \cup {i \in 1 .. Len(q) : q[i] = "&"}
    BY <1>1 DEF Ends
  <2>4. 0 \in Ends(a)
    BY DEF Ends
  <2> QED BY <2>1, <2>2, <2>3, <2>4
<1>4. Ends(a) \subseteq 0 .. L /\ L \in Ends(a) /\ Len(q) + 1 > L /\ Len(q) + 1 \in Nat
  BY <1>1, <1>2 DEF Ends
<1>5. Segments(q) = Segments(a) \cup {g}
  <2>1. g \in Segments(q)
    <3>1. g \in Ends(q) \X Ends(q) /\ g[1] = L /\ g[2] = Len(q) + 1
      BY <1>3, <1>4
    <3>2. \A k \in Ends(q) : k <= L \/ k >= Len(q) + 1
      BY <1>2, <1>3, <1>4
    <3> HIDE DEF g
    <3> QED BY <1>4, <3>1, <3>2 DEF Segments
  <2>2. ASSUME NEW h \in Segments(a) PROVE h \in Segments(q)
    <3>1. h \in Ends(a) \X Ends(a) /\ h[1] < h[2] /\ \A k \in Ends(a) : k <= h[1] \/ k >= h[2]
      BY DEF Segments
    <3>2. h \in Ends(q) \X Ends(q) /\ h[2] <= L
      BY <1>2, <1>3, <1>4, <3>1
    <3>3. \A k \in Ends(q) : k <= h[1] \/ k >= h[2]
      BY <1>2, <1>3, <1>4, <3>1, <3>2
    <3> QED BY <3>1, <3>2, <3>3 DEF Segments
  <2>3. ASSUME NEW h \in Segments(q) PROVE h \in Segments(a) \/ h = g
    <3>1. h \in Ends(q) \X Ends(q) /\ h[1] < h[2] /\ \A k \in Ends(q) : k <= h[1] \/ k >= h[2]
      BY DEF Segments
    <3>2. h[1] \in Ends(q) /\ h[2] \in Ends(q) /\ h = <<h[1], h[2]>>
      BY <3>1
    <3>3. CASE h[2] = Len(q) + 1
      <4>1. h[1] \in Ends(a) /\ L \in Ends(q)
        BY <1>2, <1>3, <1>4, <3>1, <3>2, <3>3
      <4>2. h[1] <= L /\ h[1] \in Nat
        BY <1>2, <1>4, <4>1
      <4>3. L <= h[1]
        BY <1>4, <3>1, <3>3, <4>1, <1>2
      <4>4. h[1] = L
        BY <1>2, <4>2, <4>3
      <4> QED BY <3>2, <3>3, <4>4
    <3>4. CASE h[2] # Len(q) + 1
      <4>1. h[2] \in Ends(a) /\ h[1] \in Ends(a)
        BY <1>2, <1>3, <1>4, <3>1, <3>2, <3>4
      <4>2. h \in Ends(a) \X Ends(a)
        BY <3>2, <4>1
      <4>3. \A k \in Ends(a) : k <= h[1] \/ k >= h[2]
        BY <1>3, <3>1
      <4> QED BY <3>1, <4>2, <4>3 DEF Segments
    <3> QED BY <3>3, <3>4
  <2> HIDE DEF g
  <2> QED BY <2>1, <2>2, <2>3
<1>6. Seg(q, g) = p
  <2>1. g[1] = L /\ g[2] - 1 = Len(q)
    BY <1>4
  <2> HIDE DEF g
  <2> QED BY <1>1, <2>1, Zenon DEF Seg, After
<1>7. ASSUME NEW h \in Segments(a) PROVE Seg(q, h) = Seg(a, h)
  <2> DEFINE m == h[1] + 1
             n == h[2] - 1
  <2>1. m \in Nat /\ m > 0 /\ n \in Int /\ n <= Len(a)
    BY <1>2, SegmentIs
  <2> HIDE DEF m, n
  <2> DEFINE s == SubSeq(q, m, n)
             t == SubSeq(a, m, n)
  <2>2. /\ s \in Seq(Words) /\ Len(s) = IF m <= n THEN n - m + 1 ELSE 0
        /\ \A i \in 1 .. Len(s) : s[i] = q[m + i - 1]
    <3>1. n <= Len(q)
      BY <1>1, <1>2, <2>1
    <3> QED BY <1>1, <2>1, <3>1, Piece
  <2>3. /\ t \in Seq(Words) /\ Len(t) = IF m <= n THEN n - m + 1 ELSE 0
        /\ \A i \in 1 .. Len(t) : t[i] = a[m + i - 1]
    BY <2>1, Piece
  <2> HIDE DEF s, t
  <2>4. ASSUME NEW i \in 1 .. Len(s) PROVE s[i] = t[i]
    <3>1. m + i - 1 \in 1 .. Len(a) /\ i \in 1 .. Len(t)
      BY <1>2, <2>1, <2>2, <2>3
    <3> QED BY <1>1, <2>2, <2>3, <3>1
  <2>5. s = t
    BY <2>2, <2>3, <2>4, SeqEqual
  <2> QED BY <2>5, Zenon DEF s, t, m, n, Seg
<1> HIDE DEF g
<1>8. SegTexts(q) = SegTexts(a) \cup {p}
  <2>1. ASSUME NEW x \in SegTexts(q) PROVE x \in SegTexts(a) \cup {p}
    <3>1. PICK h \in Segments(q) : x = Seg(q, h)
      BY Zenon DEF SegTexts
    <3>2. CASE h \in Segments(a)
      BY <1>7, <3>1, <3>2, Zenon DEF SegTexts
    <3>3. CASE h = g
      BY <1>6, <3>1, <3>3
    <3> QED BY <1>5, <3>2, <3>3
  <2>2. ASSUME NEW x \in SegTexts(a) PROVE x \in SegTexts(q)
    <3>1. PICK h \in Segments(a) : x = Seg(a, h)
      BY Zenon DEF SegTexts
    <3>2. h \in Segments(q) /\ x = Seg(q, h)
      BY <1>5, <1>7, <3>1
    <3> QED BY <3>2, Zenon DEF SegTexts
  <2>3. p \in SegTexts(q)
    BY <1>5, <1>6 DEF SegTexts
  <2> QED BY <2>1, <2>2, <2>3
<1> QED BY <1>8 DEF q

(* A key and its value, as to_url writes them                              *)
Written(f, k) == k \o <<"=">> \o f[k]

(* A key and its value are read back from what is written of them.         *)
LEMMA WrittenIs ==
  ASSUME NEW f, IsQuery(f), NEW k \in DOMAIN f
  PROVE  /\ Written(f, k) \in Seq(Words) /\ Free(Written(f, k), "&")
         /\ KeyOf(Written(f, k)) = k /\ ValueOf(Written(f, k)) = f[k]
<1> DEFINE t == Written(f, k)
           v == f[k]
<1>1. k \in Seq(Words) /\ Free(k, "=") /\ Free(k, "&") /\ v \in Seq(Words) /\ Free(v, "&") /\ "=" \in Words
  BY KnownWords, Zenon DEF IsQuery
<1>0. t = k \o <<"=">> \o v
  BY Zenon DEF Written
<1> HIDE DEF v, t
<1>2. t \in Seq(Words)
  BY <1>0, <1>1, Halves
<1>4. KeyOf(t) = k /\ ValueOf(t) = v
  BY <1>0, <1>1, CutFirst, Zenon DEF KeyOf, ValueOf
<1>5. Free(t, "&")
  <2> DEFINE e == <<"=">>
  <2>1. e \in Seq(Words) /\ Free(e, "&")
    BY <1>1 DEF Free
  <2> HIDE DEF e
  <2>2. k \o e \in Seq(Words) /\ Free(k \o e, "&")
    BY <1>1, <2>1, FreeConcat
  <2>3. Free((k \o e) \o v, "&")
    BY <1>1, <2>2, FreeConcat
  <2> QED BY <1>0, <2>3 DEF e
<1> QED BY <1>2, <1>4, <1>5 DEF t, v

(* A text whose segments are those of a query is read as this query,       *)
(* whatever their order,                                                   *)
LEMMA QueryRead ==
  ASSUME NEW q \in Seq(Words), NEW f, IsQuery(f), SegTexts(q) = {Written(f, k) : k \in DOMAIN f}
  PROVE  parse_query(q) = f
<1>1. ASSUME NEW g \in Segments(q)
      PROVE  \E k \in DOMAIN f : Seg(q, g) = Written(f, k)
  BY Zenon DEF SegTexts
<1>2. ASSUME NEW k \in DOMAIN f
      PROVE  \E g \in Segments(q) : Seg(q, g) = Written(f, k)
  <2>1. Written(f, k) \in SegTexts(q)
    BY Zenon
  <2> QED BY <2>1, Zenon DEF SegTexts
<1>3. ASSUME NEW k \in DOMAIN f PROVE k \in Keys(q)
  <2>1. PICK g \in Segments(q) : Seg(q, g) = Written(f, k)
    BY <1>2
  <2>2. KeyOf(Seg(q, g)) = k /\ k # <<>>
    BY <2>1, WrittenIs, Zenon DEF IsQuery
  <2> QED BY <2>2, Zenon DEF Keys
<1>4. ASSUME NEW k \in Keys(q) PROVE k \in DOMAIN f /\ ValueOf(Seg(q, LastWith(q, k))) = f[k]
  <2>1. PICK g0 \in Segments(q) : k = KeyOf(Seg(q, g0))
    BY Zenon DEF Keys
  <2> DEFINE g == LastWith(q, k)
  <2>2. g \in Segments(q) /\ KeyOf(Seg(q, g)) = k
    BY <2>1, LastWithKey, Zenon
  <2> HIDE DEF g
  <2>3. PICK k1 \in DOMAIN f : Seg(q, g) = Written(f, k1)
    BY <1>1, <2>2
  <2>4. k1 = k /\ ValueOf(Seg(q, g)) = f[k1]
    BY <2>2, <2>3, WrittenIs, Zenon
  <2> QED BY <2>4 DEF g
<1>5. Keys(q) = DOMAIN f
  BY <1>3, <1>4
<1>6. [k \in Keys(q) |-> ValueOf(Seg(q, LastWith(q, k)))] = [k \in DOMAIN f |-> f[k]]
  BY <1>4, <1>5
<1> QED BY <1>6, QueryParts, Zenon DEF IsQuery

(* and no text as the query without a key.                                 *)
LEMMA NoQuery == ASSUME NEW f, IsQuery(f), DOMAIN f = {} PROVE parse_query(<<>>) = f
<1> DEFINE q == <<>>
<1>1. q \in Seq(Words) /\ Free(q, "&")
  BY DEF Free
<1>2. SegTexts(q) = {q}
  BY <1>1, OneText
<1>3. KeyOf(q) = <<>>
  <2>1. \A n \in 1 .. Len(q) : q[n] # "="
    OBVIOUS
  <2>2. find(q, "=") = npos
    BY <1>1, <2>1, FindsNone
  <2> QED BY <2>2, Zenon DEF KeyOf, UpTo
<1> HIDE DEF q
<1>4. Keys(q) = {}
  <2>1. \A g \in Segments(q) : Seg(q, g) = q
    BY <1>2, Zenon DEF SegTexts
  <2>2. \A g \in Segments(q) : KeyOf(Seg(q, g)) = <<>>
    BY <1>3, <2>1, Zenon
  <2> QED BY <2>2 DEF Keys
<1>5. [k \in Keys(q) |-> ValueOf(Seg(q, LastWith(q, k)))] = [k \in DOMAIN f |-> f[k]]
  BY <1>4
<1>6. parse_query(q) = f
  BY <1>5, QueryParts, Zenon DEF IsQuery
<1> QED BY <1>6 DEF q

(* to_url writes each key once, in some order.                             *)
LEMMA KeyOrder ==
  ASSUME NEW S, IsFiniteSet(S)
  PROVE  LET keys0 == SetToSeq(S)
         IN  /\ keys0 \in [1 .. Cardinality(S) -> S] /\ Cardinality(S) \in Nat
             /\ \A x \in S : \E i \in 1 .. Cardinality(S) : keys0[i] = x
<1> DEFINE n == Cardinality(S)
           order == SetToSeq(S)
<1>1. n \in Nat /\ ExistsBijection(1 .. n, S)
  BY FS_CardinalityType
<1>2. PICK b \in Bijection(1 .. n, S) : TRUE
  BY <1>1, Zenon DEF ExistsBijection
<1>3. b \in [1 .. n -> S] /\ IsInjective(b)
  BY <1>2, Zenon DEF Bijection, Injection
<1>4. order = CHOOSE f \in [1 .. n -> S] : IsInjective(f)
  BY Zenon DEF SetToSeq
<1> HIDE DEF n, order
<1>5. order \in [1 .. n -> S] /\ IsInjective(order)
  BY <1>3, <1>4, Zenon
<1>6. order \in Injection(1 .. n, S)
  BY <1>5, Zenon DEF Injection
<1>7. IsFiniteSet(1 .. n) /\ Cardinality(1 .. n) = Cardinality(S)
  <2>1. 1 \in Int /\ n \in Int /\ (IF 1 > n THEN 0 ELSE n - 1 + 1) = n
    BY <1>1
  <2> QED BY <2>1, FS_Interval DEF n
<1>8. order \in Surjection(1 .. n, S)
  BY <1>6, <1>7, FS_Injection
<1>9. \A x \in S : \E i \in 1 .. n : order[i] = x
  BY <1>8, Zenon DEF Surjection
<1> QED BY <1>1, <1>5, <1>9, Zenon DEF n, order

(* FlattenSeq puts one text behind the other.                              *)
LEMMA Flattened ==
  ASSUME NEW seqs \in Seq(Seq(Words)), seqs # <<>>
  PROVE  \E u : /\ FlattenSeq(seqs) = u[Len(seqs)] /\ u[1] = seqs[1]
                /\ \A i \in 2 .. Len(seqs) : u[i] = u[i - 1] \o seqs[i]
<1> DEFINE n == Len(seqs)
           N == n - 1
           T == Seq(Words)
           Step == [m \in 1 .. N |-> [x \in T |-> x \o seqs[m + 1]]]
<1>1. n \in Nat /\ n > 0 /\ N \in Nat /\ \A i \in 1 .. n : seqs[i] \in T
  BY EmptySeq
<1>2. \A x \in T, y \in T : x \o y \in T
  OBVIOUS
<1> HIDE DEF T, n
<1>3. Step \in [1 .. N -> [T -> T]]
  BY <1>1, <1>2
<1>4. seqs[1] \in T
  BY <1>1
<1>5. PICK g : Defines(g, T, N, seqs[1], Step)
  <2> HIDE DEF Step, N
  <2> QED BY <1>1, <1>3, <1>4, Recursion
<1> DEFINE u == [i \in 1 .. n |-> g[i - 1]]
<1>6. \A i \in 1 .. n : u[i] = IF i = 1 THEN seqs[i] ELSE u[i - 1] \o seqs[i]
  <2> TAKE i \in 1 .. n
  <2>1. CASE i = 1
    BY <1>1, <1>5, <2>1 DEF Defines
  <2>2. CASE i # 1
    <3>1. i - 1 \in 1 .. N /\ (i - 1) - 1 \in 0 .. N /\ i - 1 \in 1 .. n /\ (i - 1) + 1 = i
      BY <1>1, <2>2
    <3>2. g[(i - 1) - 1] \in T /\ g[i - 1] = Step[i - 1][g[(i - 1) - 1]]
      BY <1>5, <3>1 DEF Defines
    <3>3. g[i - 1] = g[(i - 1) - 1] \o seqs[i]
      BY <3>1, <3>2
    <3> QED BY <2>2, <3>1, <3>3
  <2> QED BY <2>1, <2>2
<1>7. u = [i \in 1 .. n |-> IF i = 1 THEN seqs[i] ELSE u[i - 1] \o seqs[i]]
  <2>1. DOMAIN u = 1 .. n /\ u = [i \in 1 .. n |-> u[i]]
    BY Zenon
  <2> HIDE DEF u
  <2> QED BY <1>6, <2>1
<1> DEFINE w == CHOOSE f : f = [i \in 1 .. n |-> IF i = 1 THEN seqs[i] ELSE f[i - 1] \o seqs[i]]
<1>8. w = [i \in 1 .. n |-> IF i = 1 THEN seqs[i] ELSE w[i - 1] \o seqs[i]]
  <2> HIDE DEF u
  <2> QED BY <1>7, Zenon
<1>9. FlattenSeq(seqs) = w[n]
  <2>1. Len(seqs) # 0
    BY <1>1 DEF n
  <2> QED BY <2>1, Zenon DEF FlattenSeq, n
<1> HIDE DEF w
<1>10. w[1] = seqs[1] /\ \A i \in 2 .. n : w[i] = w[i - 1] \o seqs[i]
  <2>1. w[1] = seqs[1]
    BY <1>1, <1>8
  <2>2. ASSUME NEW i \in 2 .. n PROVE w[i] = w[i - 1] \o seqs[i]
    <3>1. i \in 1 .. n /\ i # 1
      BY <1>1
    <3> QED BY <1>8, <3>1
  <2> QED BY <2>1, <2>2
<1> QED BY <1>9, <1>10, Zenon DEF n

QueryText(f) ==
  LET order == SetToSeq(DOMAIN f)
      Pair(i) == (IF i = 1 THEN <<"?">> ELSE <<"&">>) \o order[i] \o <<"=">> \o f[order[i]]
  IN  FlattenSeq([i \in DOMAIN order |-> Pair(i)])

(* to_url writes nothing of a query without a key, and otherwise a text    *)
(* whose segments are those of the query.                                  *)
LEMMA QueryWritten ==
  ASSUME NEW f, IsQuery(f)
  PROVE  /\ DOMAIN f = {} => QueryText(f) = <<>>
         /\ DOMAIN f # {} => \E q \in Seq(Words) : /\ QueryText(f) = <<"?">> \o q
                                                   /\ SegTexts(q) = {Written(f, k) : k \in DOMAIN f}
<1> DEFINE S == DOMAIN f
           n == Cardinality(S)
           order == SetToSeq(S)
           pairs == [i \in DOMAIN order |->
                       (IF i = 1 THEN <<"?">> ELSE <<"&">>) \o order[i] \o <<"=">> \o f[order[i]]]
<1>1. IsFiniteSet(S)
  BY DEF IsQuery
<1>2. order \in [1 .. n -> S] /\ n \in Nat /\ \A x \in S : \E i \in 1 .. n : order[i] = x
  BY <1>1, KeyOrder
<1>3. QueryText(f) = FlattenSeq(pairs)
  BY Zenon DEF QueryText
<1>4. n = 0 <=> S = {}
  BY <1>1, FS_EmptySet
<1> HIDE DEF S, n, order
<1>5. \A i \in 1 .. n : /\ order[i] \in DOMAIN f /\ order[i] \in Seq(Words) /\ f[order[i]] \in Seq(Words)
                        /\ Written(f, order[i]) \in Seq(Words) /\ Free(Written(f, order[i]), "&")
  BY <1>2, WrittenIs, Zenon DEF IsQuery, S
<1> DEFINE W(i) == Written(f, order[i])
<1>6. ASSUME NEW i \in 1 .. n
      PROVE  pairs[i] = (IF i = 1 THEN <<"?">> ELSE <<"&">>) \o W(i)
  <2> DEFINE m == IF i = 1 THEN <<"?">> ELSE <<"&">>
             k == order[i]
             v == f[order[i]]
             e == <<"=">>
  <2>1. m \in Seq(Words) /\ k \in Seq(Words) /\ v \in Seq(Words) /\ e \in Seq(Words)
    BY <1>5, KnownWords
  <2>2. i \in DOMAIN order
    BY <1>2
  <2>3. pairs[i] = ((m \o k) \o e) \o v /\ W(i) = (k \o e) \o v
    BY <2>2, Zenon DEF Written
  <2> HIDE DEF m, k, v, e
  <2>4. ((m \o k) \o e) \o v = m \o ((k \o e) \o v)
    <3>1. (m \o k) \o e = m \o (k \o e) /\ k \o e \in Seq(Words)
      BY <2>1, ConcatAssociative, ConcatProperties
    <3> DEFINE ke == k \o e
    <3>2. ke \in Seq(Words)
      BY <3>1
    <3> HIDE DEF ke
    <3>3. (m \o ke) \o v = m \o (ke \o v)
      BY <2>1, <3>2, ConcatAssociative, SMTT(30)
    <3> QED BY <3>1, <3>3, Zenon DEF ke
  <2> HIDE DEF pairs, W
  <2>5. pairs[i] = m \o W(i)
    BY <2>3, <2>4
  <2> QED BY <2>5, Zenon DEF m
<1>7. DOMAIN pairs = 1 .. n
  BY <1>2, Zenon
<1>8. pairs \in Seq(Seq(Words)) /\ Len(pairs) = n
  <2>1. <<"?">> \in Seq(Words) /\ <<"&">> \in Seq(Words)
    BY KnownWords
  <2>2. pairs = [i \in 1 .. n |-> pairs[i]]
    BY <1>7, Zenon
  <2> HIDE DEF pairs
  <2>3. ASSUME NEW i \in 1 .. n PROVE pairs[i] \in Seq(Words)
    <3>1. (IF i = 1 THEN <<"?">> ELSE <<"&">>) \in Seq(Words)
      BY <2>1
    <3> HIDE DEF W
    <3>2. W(i) \in Seq(Words)
      BY <1>5 DEF W
    <3> QED BY <1>6, <3>1, <3>2, ConcatProperties
  <2>4. pairs \in [1 .. n -> Seq(Words)]
    BY <2>2, <2>3
  <2> QED BY <1>2, <2>4
<1> HIDE DEF pairs
<1>9. ASSUME S = {} PROVE QueryText(f) = <<>>
  <2>1. Len(pairs) = 0 /\ pairs = <<>>
    BY <1>4, <1>8, <1>9
  <2> QED BY <1>3, <2>1, Zenon DEF FlattenSeq
<1>10. ASSUME S # {}
       PROVE  \E q \in Seq(Words) : QueryText(f) = <<"?">> \o q /\ SegTexts(q) = {Written(f, k) : k \in S}
  <2>1. n > 0 /\ pairs # <<>>
    BY <1>2, <1>4, <1>8, <1>10
  <2>2. PICK u : /\ FlattenSeq(pairs) = u[n] /\ u[1] = pairs[1]
                 /\ \A i \in 2 .. n : u[i] = u[i - 1] \o pairs[i]
    BY <1>8, <2>1, Flattened
  <2> DEFINE Gives(q, i) == u[i] = <<"?">> \o q /\ SegTexts(q) = {W(j) : j \in 1 .. i}
             T == {m \in 0 .. (n - 1) : \E q \in Seq(Words) : Gives(q, m + 1)}
  <2>3. 0 \in T
    <3>1. 1 \in 1 .. n /\ 1 .. 1 = {1} /\ 0 \in 0 .. (n - 1) /\ 0 + 1 = 1
      BY <1>2, <2>1
    <3>2. W(1) \in Seq(Words) /\ Free(W(1), "&")
      BY <1>5, <3>1, Zenon
    <3>3. u[1] = <<"?">> \o W(1)
      BY <1>6, <2>2, <3>1, Zenon
    <3>4. SegTexts(W(1)) = {W(1)}
      BY <3>2, OneText
    <3>5. {W(j) : j \in 1 .. 1} = {W(1)}
      BY <3>1
    <3> HIDE DEF W
    <3>6. Gives(W(1), 0 + 1)
      BY <3>1, <3>3, <3>4, <3>5
    <3> HIDE DEF Gives
    <3> QED BY <3>1, <3>2, <3>6
  <2>4. ASSUME NEW m \in 0 .. (n - 1 - 1), m \in T PROVE m + 1 \in T
    <3> DEFINE i == (m + 1) + 1
    <3>1. /\ i \in 2 .. n /\ i - 1 = m + 1 /\ i \in 1 .. n /\ i # 1
          /\ m + 1 \in 0 .. (n - 1) /\ 1 .. i = (1 .. m + 1) \cup {i}
      BY <1>2, <2>1
    <3> HIDE DEF i
    <3>2. PICK q \in Seq(Words) : Gives(q, m + 1)
      BY <2>4, Zenon
    <3> DEFINE t == W(i)
               r == q \o <<"&">> \o t
    <3>3. t \in Seq(Words) /\ Free(t, "&")
      BY <1>5, <3>1, Zenon
    <3>4. u[i] = u[m + 1] \o pairs[i] /\ pairs[i] = <<"&">> \o t
      BY <1>6, <2>2, <3>1
    <3> HIDE DEF t
    <3>5. <<"?">> \in Seq(Words) /\ <<"&">> \in Seq(Words)
      BY KnownWords
    <3>6. r \in Seq(Words) /\ u[i] = <<"?">> \o r
      <4> DEFINE a == <<"?">>
                 b == <<"&">>
      <4>1. u[i] = (a \o q) \o (b \o t)
        BY <3>2, <3>4
      <4> HIDE DEF a, b
      <4>2. a \in Seq(Words) /\ b \in Seq(Words)
        BY <3>5 DEF a, b
      <4>3. q \o b \in Seq(Words) /\ b \o t \in Seq(Words)
        BY <3>3, <4>2, ConcatProperties
      <4> DEFINE bt == b \o t
      <4>0. bt \in Seq(Words)
        BY <4>3
      <4> HIDE DEF bt
      <4>4. (a \o q) \o bt = a \o (q \o bt)
        BY <4>0, <4>2, ConcatAssociative
      <4>5. (q \o b) \o t = q \o (b \o t)
        BY <3>3, <4>2, ConcatAssociative
      <4>6. (q \o b) \o t \in Seq(Words)
        BY <3>3, <4>3, ConcatProperties
      <4>7. u[i] = a \o ((q \o b) \o t)
        BY <4>1, <4>4, <4>5, Zenon DEF bt
      <4> QED BY <4>6, <4>7, Zenon DEF a, b
    <3>7. SegTexts(r) = SegTexts(q) \cup {t}
      BY <3>3, NextText
    <3>8. SegTexts(r) = {W(j) : j \in 1 .. i}
      <4>1. {W(j) : j \in 1 .. i} = {W(j) : j \in 1 .. m + 1} \cup {W(i)}
        BY <3>1, Zenon
      <4> QED BY <3>2, <3>7, <4>1, Zenon DEF t
    <3> HIDE DEF r, W
    <3>9. Gives(r, i)
      BY <3>6, <3>8
    <3> HIDE DEF Gives
    <3> QED BY <3>1, <3>6, <3>9, Zenon DEF i
  <2> HIDE DEF T
  <2>5. n - 1 \in T
    <3>1. n - 1 \in Nat
      BY <1>2, <2>1
    <3>2. \A m \in 0 .. (n - 1) : m \in T
      BY <2>3, <2>4, <3>1, BoundedInduction
    <3> QED BY <3>1, <3>2
  <2>6. PICK q \in Seq(Words) : Gives(q, (n - 1) + 1)
    BY <2>5, Zenon DEF T
  <2>7. (n - 1) + 1 = n
    BY <1>2
  <2>8. {W(j) : j \in 1 .. n} = {Written(f, k) : k \in S}
    <3>1. ASSUME NEW j \in 1 .. n PROVE W(j) \in {Written(f, k) : k \in S}
      BY <1>2, Zenon
    <3>2. ASSUME NEW k \in S PROVE Written(f, k) \in {W(j) : j \in 1 .. n}
      <4>1. PICK i \in 1 .. n : order[i] = k
        BY <1>2
      <4> QED BY <4>1, Zenon
    <3> HIDE DEF W
    <3> QED BY <3>1, <3>2
  <2> QED BY <1>3, <2>2, <2>6, <2>7, <2>8, Zenon
<1> QED BY <1>9, <1>10, Zenon DEF S

-----------------------------------------------------------------------------
(* What parse accepts is a url, in lower case where case does not matter,  *)
(* with no mark where to_url will write one.                               *)
LEMMA LowerIs ==
  ASSUME NEW s \in Seq(Words)
  PROVE  LET t == to_lower(s)
         IN  /\ t \in Seq(Words) /\ Len(t) = Len(s) /\ to_lower(t) = t
             /\ Free(s, "/") => Free(t, "/")
<1> DEFINE low(w) == CASE w = "HTTPS" -> "https" [] w = "H" -> "h" [] OTHER -> w
           t == to_lower(s)
<1>1. t = [i \in 1 .. Len(s) |-> low(s[i])]
  BY DEF to_lower
<1>2. \A w : low(w) = w \/ low(w) = "https" \/ low(w) = "h"
  OBVIOUS
<1>3. low("https") = "https" /\ low("h") = "h"
  OBVIOUS
<1>4. \A w : low(low(w)) = low(w)
  <2> HIDE DEF low
  <2> QED BY <1>2, <1>3, Zenon
<1>5. \A w \in Words : low(w) \in Words
  <2> HIDE DEF low
  <2> QED BY <1>2, KnownWords, Zenon
<1>6. \A w : w # "/" => low(w) # "/"
  OBVIOUS
<1> HIDE DEF t, low
<1>7. t \in Seq(Words) /\ Len(t) = Len(s) /\ \A i \in 1 .. Len(s) : t[i] = low(s[i])
  BY <1>1, <1>5
<1>8. to_lower(t) = t
  <2>1. to_lower(t) = [i \in 1 .. Len(t) |-> low(t[i])]
    BY <1>7 DEF to_lower, low
  <2>2. \A i \in 1 .. Len(t) : low(t[i]) = t[i]
    BY <1>4, <1>7
  <2>3. t = [i \in 1 .. Len(t) |-> t[i]]
    BY <1>7
  <2> QED BY <2>1, <2>2, <2>3
<1>9. Free(s, "/") => Free(t, "/")
  BY <1>6, <1>7 DEF Free
<1> QED BY <1>7, <1>8, <1>9 DEF t

LEMMA ErrorIs == \A kind : Error(kind).ok = FALSE
BY SMT DEF Error

AuthorityOf(host, has_port, port) == [host |-> host, has_port |-> has_port, port |-> port]

(* An authority that is accepted has a host and the text of a port,        *)
LEMMA AuthorityGives ==
  ASSUME NEW s \in Seq(Words)
  PROVE  LET a == Authority(s)
         IN  \/ a.ok = FALSE
             \/ /\ a.ok = TRUE
                /\ a.value.host \in Seq(Words) /\ a.value.port \in Seq(Words)
                /\ \A c : Free(s, c) => Free(a.value.host, c)
<1> DEFINE close == find(s, "]")
           colon == rfind(s, ":")
           a == Authority(s)
           more == close < Len(s)
           v1 == AuthorityOf(SubSeq(s, 2, close - 1), more, After(s, close + 1))
           v2 == AuthorityOf(IF colon = npos THEN s ELSE Before(s, colon), colon # npos,
                             IF colon = npos THEN <<>> ELSE After(s, colon))
<1>1. \/ a = Error("IPv6 address missing ']'") \/ a = Error("invalid authority")
      \/ (a = Ok(v1) /\ close # npos) \/ a = Ok(v2)
  BY Zenon DEF Authority, AuthorityOf
<1>2. \A n \in 0 .. Len(s) : Before(s, n) \in Seq(Words) /\ \A c : Free(s, c) => Free(Before(s, n), c)
  <2> TAKE n \in 0 .. Len(s)
  <2>1. n - 1 \in Int /\ n - 1 <= Len(s)
    OBVIOUS
  <2> QED BY <2>1, Piece DEF Before
<1>3. \A n \in Nat : After(s, n) \in Seq(Words)
  <2> TAKE n \in Nat
  <2>1. n + 1 \in Nat /\ n + 1 > 0 /\ Len(s) \in Int /\ Len(s) <= Len(s)
    OBVIOUS
  <2> QED BY <2>1, Piece DEF After
<1>4. ASSUME a = Ok(v1), close # npos
      PROVE  /\ a.ok = TRUE
             /\ a.value.host \in Seq(Words) /\ a.value.port \in Seq(Words)
             /\ \A c : Free(s, c) => Free(a.value.host, c)
  <2>1. close \in 1 .. Len(s)
    <3>1. ~\A n \in 1 .. Len(s) : s[n] # "]"
      BY <1>4, FindsNone
    <3> QED BY <3>1, FindsFirst DEF FirstOf
  <2> HIDE DEF close
  <2> DEFINE h == SubSeq(s, 2, close - 1)
  <2>2. h \in Seq(Words) /\ \A c : Free(s, c) => Free(h, c)
    <3>1. 2 \in Nat /\ 2 > 0 /\ close - 1 \in Int /\ close - 1 <= Len(s)
      BY <2>1
    <3> QED BY <3>1, Piece
  <2>3. After(s, close + 1) \in Seq(Words)
    <3>1. close + 1 \in Nat
      BY <2>1
    <3> QED BY <1>3, <3>1
  <2>5. a.ok = TRUE /\ a.value = v1
    BY <1>4, OkResult, Zenon
  <2>6. v1.host = h /\ v1.port = After(s, close + 1)
    <3>1. close \in Int /\ Len(s) \in Int
      BY <2>1
    <3> DEFINE p == After(s, close + 1)
               n == Len(s)
    <3>2. v1 = AuthorityOf(h, close < n, p)
      OBVIOUS
    <3> HIDE DEF v1, h, p, n
    <3>3. AuthorityOf(h, close < n, p).host = h /\ AuthorityOf(h, close < n, p).port = p
      <4>1. n \in Int /\ close \in Int
        BY <3>1 DEF n
      <4> QED BY <4>1, SMT DEF AuthorityOf
    <3>4. v1.host = h /\ v1.port = p
      BY <3>2, <3>3
    <3> QED BY <3>4 DEF p
  <2> HIDE DEF a, h, v1
  <2>7. a.value.host = h /\ a.value.port = After(s, close + 1)
    BY <2>5, <2>6, Zenon
  <2> QED BY <2>2, <2>3, <2>5, <2>7
<1>5. ASSUME a = Ok(v2)
      PROVE  /\ a.ok = TRUE
             /\ a.value.host \in Seq(Words) /\ a.value.port \in Seq(Words)
             /\ \A c : Free(s, c) => Free(a.value.host, c)
  <2>1. colon \in 0 .. Len(s) /\ colon \in Nat
    <3> DEFINE hits == {i \in DOMAIN s : s[i] = ":"}
    <3>1. hits \subseteq 0 .. Len(s) /\ Len(s) \in Nat
      OBVIOUS
    <3>2. colon = IF hits = {} THEN npos ELSE Max(hits)
      BY Zenon DEF rfind
    <3> HIDE DEF hits
    <3>3. hits # {} => Max(hits) \in hits
      BY <3>1, Extremes
    <3> HIDE DEF colon
    <3> QED BY <3>1, <3>2, <3>3 DEF npos
  <2> HIDE DEF colon
  <2>3. (IF colon = npos THEN <<>> ELSE After(s, colon)) \in Seq(Words)
    BY <1>3, <2>1, EmptySeq, Zenon
  <2> DEFINE h == IF colon = npos THEN s ELSE Before(s, colon)
  <2>4. h \in Seq(Words) /\ \A c : Free(s, c) => Free(h, c)
    BY <1>2, <2>1, Zenon
  <2>5. a.ok = TRUE /\ a.value = v2
    BY <1>5, OkResult, Zenon
  <2> DEFINE p == IF colon = npos THEN <<>> ELSE After(s, colon)
  <2>6. v2.host = h /\ v2.port = p
    BY SMT DEF AuthorityOf
  <2> HIDE DEF a, h, p, v2
  <2>7. a.value.host = h /\ a.value.port = p
    BY <2>5, <2>6, Zenon
  <2>8. p \in Seq(Words)
    BY <2>3 DEF p
  <2> QED BY <2>4, <2>5, <2>7, <2>8
<1> HIDE DEF a, v1, v2
<1> QED BY <1>1, <1>4, <1>5, ErrorIs, Zenon DEF a

(* and is divided at the last colon, unless it begins with a bracket.      *)
LEMMA AuthorityWritten ==
  ASSUME NEW host \in Seq(Words), NEW port \in Seq(Words), host # <<>>, host[1] # "[", Free(port, ":")
  PROVE  Authority(host \o <<":">> \o port) = Ok(AuthorityOf(host, TRUE, port))
<1> DEFINE s == host \o <<":">> \o port
           n == Len(host) + 1
<1>1. rfind(s, ":") = n /\ rfind(s, ":") # npos /\ Before(s, n) = host /\ After(s, n) = port
  BY CutLast, Halves, KnownWords
<1>2. s[1] # "["
  <2>1. s[1] = host[1]
    <3>1. 1 \in 1 .. Len(host)
      BY EmptySeq
    <3> QED BY <3>1, Halves, KnownWords
  <2> QED BY <2>1
<1> HIDE DEF s, n
<1> QED BY <1>1, <1>2, Zenon DEF s, Authority, AuthorityOf

-----------------------------------------------------------------------------
(* The parts of a url, as parse cuts them                                  *)
Seps(s) == {i \in 1 .. Len(s) - 2 : SubSeq(s, i, i + 2) = <<":", "/", "/">>}
Scheme(s) == to_lower(Before(s, Min(Seps(s))))
Rest(s) == After(s, Min(Seps(s)) + 2)
AuthorityIn(s) == Authority(UpTo(Rest(s), "/"))
PortIn(a, d) == IF a.value.has_port THEN parse_port(a.value.port) ELSE Ok(d)
Path(s) == Past(Rest(s), "/")
Peerid(s) == Strip(UpTo(Path(s), "?"), {"/"})
Query(s) == Past(Path(s), "?")
UrlIn(s, d) ==
  ShareRTCUrl(Scheme(s), AuthorityIn(s).value.host, PortIn(AuthorityIn(s), d).value, Peerid(s),
              parse_query(Query(s)))
Complete(s, d) ==
  /\ s # <<>> /\ Seps(s) # {} /\ Scheme(s) = <<"https">>
  /\ AuthorityIn(s).ok /\ AuthorityIn(s).value.host # <<>> /\ PortIn(AuthorityIn(s), d).ok
  /\ Peerid(s) # <<>>

(* parse accepts what has every part, and is an error otherwise.           *)
LEMMA ParseCases ==
  ASSUME NEW url, NEW d \in 1 .. MaxPort
  PROVE  LET s == trim(url)
         IN  /\ Complete(s, d) => parse(url, d) = Ok(UrlIn(s, d))
             /\ ~Complete(s, d) => \/ \E kind : parse(url, d) = Error(kind)
                                   \/ Seps(s) # {} /\ ~AuthorityIn(s).ok /\ parse(url, d) = AuthorityIn(s)
                                   \/ /\ Seps(s) # {} /\ AuthorityIn(s).ok /\ ~PortIn(AuthorityIn(s), d).ok
                                      /\ parse(url, d) = PortIn(AuthorityIn(s), d)
<1> DEFINE s == trim(url)
           a == AuthorityIn(s)
           p == PortIn(a, d)
           r == parse(url, d)
<1>1. r = IF s = <<>> THEN Error("empty")
          ELSE IF d \notin 1 .. MaxPort THEN Error("invalid default port")
          ELSE IF Seps(s) = {} THEN Error("missing '://'")
          ELSE IF Scheme(s) # <<"https">> THEN Error("unsupported scheme")
          ELSE IF ~a.ok THEN a
          ELSE IF a.value.host = <<>> THEN Error("host must not be empty")
          ELSE IF ~p.ok THEN p
          ELSE IF Peerid(s) = <<>> THEN Error("missing peerid")
          ELSE Ok(UrlIn(s, d))
  BY Zenon DEF parse, Seps, Scheme, Rest, AuthorityIn, PortIn, Path, Peerid, Query, UrlIn, UpTo, Past
<1> HIDE DEF s, r
<1> QED BY <1>1, Zenon DEF Complete, s, r

UrlOf(host, port, peerid, query) ==
  [scheme |-> <<"https">>, host |-> host, port |-> port, peerid |-> peerid, query |-> query]

(* What parse leaves in the fields of a url                                *)
IsParts(host, port, peerid, query) ==
  /\ host \in Seq(Words) /\ host # <<>> /\ Free(host, "/") /\ to_lower(host) = host
  /\ port \in 1 .. MaxPort
  /\ peerid \in Seq(Words) /\ peerid # <<>> /\ Free(peerid, "?")
  /\ peerid[1] # "/" /\ peerid[Len(peerid)] # "/"
  /\ IsQuery(query)

LEMMA PieceAfter == ASSUME NEW s \in Seq(Words), NEW n \in Nat PROVE After(s, n) \in Seq(Words)
<1>1. n + 1 \in Nat /\ n + 1 > 0 /\ Len(s) \in Int /\ Len(s) <= Len(s)
  OBVIOUS
<1> QED BY <1>1, Piece DEF After

(* The port of a url is between 1 and MaxPort, be it given or not.         *)
LEMMA PortGives ==
  ASSUME NEW a, a.value.port \in Seq(Words), NEW d \in 1 .. MaxPort
  PROVE  LET p == PortIn(a, d)
         IN  p.ok = FALSE \/ (p.ok = TRUE /\ p.value \in 1 .. MaxPort)
<1>1. CASE a.value.has_port
  <2>1. PortIn(a, d) = parse_port(a.value.port)
    BY <1>1, Zenon DEF PortIn
  <2>2. PortRead(a.value.port, parse_port(a.value.port))
    BY parse_portExact, Zenon
  <2> QED BY <2>1, <2>2, Zenon DEF PortRead
<1>2. CASE ~a.value.has_port
  <2>1. PortIn(a, d) = Ok(d)
    BY <1>2, Zenon DEF PortIn
  <2> QED BY <2>1, OkResult, Zenon
<1> QED BY <1>1, <1>2

(* parse, of a text of any length, fails or gives a url in the form that   *)
(* to_url writes: a host in lower case that is not empty, a port from 1 to *)
(* 65535, a peer without slashes at its ends, and a query.                 *)
THEOREM ParseGives ==
  ASSUME NEW url \in Seq(Words), NEW d \in 1 .. MaxPort, parse(url, d).ok # FALSE
  PROVE  \E host, port, peerid, query :
           parse(url, d) = Ok(UrlOf(host, port, peerid, query)) /\ IsParts(host, port, peerid, query)
<1> DEFINE s == trim(url)
           a == AuthorityIn(s)
           p == PortIn(a, d)
           r == parse(url, d)
<1>1. s \in Seq(Words)
  BY StripGives DEF trim
<1>2. /\ Complete(s, d) => r = Ok(UrlIn(s, d))
      /\ ~Complete(s, d) => \/ \E kind : r = Error(kind)
                            \/ Seps(s) # {} /\ ~a.ok /\ r = a
                            \/ Seps(s) # {} /\ a.ok /\ ~p.ok /\ r = p
  BY ParseCases, Zenon
<1>3. ASSUME Seps(s) # {}
      PROVE  /\ Rest(s) \in Seq(Words)
             /\ a.ok = FALSE \/ /\ a.ok = TRUE /\ a.value.host \in Seq(Words) /\ Free(a.value.host, "/")
                                /\ p.ok = FALSE \/ (p.ok = TRUE /\ p.value \in 1 .. MaxPort)
  <2> HIDE DEF s
  <2>1. Min(Seps(s)) + 2 \in Nat
    <3>1. Len(s) \in Nat /\ Seps(s) \subseteq 0 .. Len(s)
      BY <1>1 DEF Seps
    <3>2. Min(Seps(s)) \in 0 .. Len(s)
      BY <1>3, <3>1, Extremes
    <3> QED BY <3>1, <3>2
  <2>2. Rest(s) \in Seq(Words)
    BY <1>1, <2>1, PieceAfter DEF Rest
  <2>3. UpTo(Rest(s), "/") \in Seq(Words) /\ Free(UpTo(Rest(s), "/"), "/")
    BY <2>2, CutParts, Zenon
  <2>4. \/ a.ok = FALSE
        \/ /\ a.ok = TRUE /\ a.value.host \in Seq(Words) /\ a.value.port \in Seq(Words)
           /\ Free(a.value.host, "/")
    BY <2>3, AuthorityGives, Zenon DEF AuthorityIn
  <2>5. ASSUME a.value.port \in Seq(Words) PROVE p.ok = FALSE \/ (p.ok = TRUE /\ p.value \in 1 .. MaxPort)
    BY <2>5, PortGives, Zenon
  <2> QED BY <2>2, <2>4, <2>5, Zenon
<1>4. Complete(s, d)
  <2> HIDE DEF a, p, s
  <2>1. r.ok # FALSE
    BY DEF r
  <2> HIDE DEF r
  <2>2. ASSUME Seps(s) # {}, ~a.ok, r = a PROVE FALSE
    BY <1>3, <2>1, <2>2, Zenon
  <2>3. ASSUME Seps(s) # {}, a.ok, ~p.ok, r = p PROVE FALSE
    BY <1>3, <2>1, <2>3, Zenon
  <2> QED BY <1>2, <2>1, <2>2, <2>3, ErrorIs, Zenon
<1> DEFINE h == a.value.host
           host == to_lower(h)
           pid == Peerid(s)
           f == parse_query(Query(s))
<1>5. Scheme(s) = <<"https">> /\ Seps(s) # {} /\ a.ok /\ h # <<>> /\ p.ok /\ pid # <<>>
  BY <1>4, Zenon DEF Complete
<1>6. Rest(s) \in Seq(Words) /\ h \in Seq(Words) /\ Free(h, "/") /\ p.value \in 1 .. MaxPort
  BY <1>3, <1>5, Zenon
<1>7. Path(s) \in Seq(Words)
  BY <1>6, CutParts, Zenon DEF Path
<1>8. /\ host \in Seq(Words) /\ host # <<>> /\ Free(host, "/") /\ to_lower(host) = host
  <2> HIDE DEF h
  <2>1. Len(h) # 0
    BY <1>5, <1>6
  <2>2. host \in Seq(Words) /\ Len(host) = Len(h) /\ to_lower(host) = host /\ (Free(h, "/") => Free(host, "/"))
    BY <1>6, LowerIs
  <2> HIDE DEF host
  <2> QED BY <1>6, <2>1, <2>2
<1>9. pid \in Seq(Words) /\ Free(pid, "?") /\ pid[1] # "/" /\ pid[Len(pid)] # "/"
  <2> DEFINE q == UpTo(Path(s), "?")
  <2>1. q \in Seq(Words) /\ Free(q, "?")
    BY <1>7, CutParts, Zenon
  <2>2. pid = Strip(q, {"/"})
    BY Zenon DEF Peerid
  <2> HIDE DEF q, pid
  <2> QED BY <1>5, <2>1, <2>2, StripGives, Zenon
<1>10. IsQuery(f)
  BY <1>7, CutParts, QueryGives, Zenon DEF Query
<1>11. IsParts(host, p.value, pid, f)
  <2> HIDE DEF host, p, pid, f
  <2> QED BY <1>5, <1>6, <1>8, <1>9, <1>10, Zenon DEF IsParts
<1>12. UrlIn(s, d) = UrlOf(host, p.value, pid, f)
  <2>1. to_lower(<<"https">>) = <<"https">>
    BY DEF to_lower
  <2>2. UrlIn(s, d) = ShareRTCUrl(<<"https">>, h, p.value, pid, f)
    BY <1>5, Zenon DEF UrlIn
  <2> QED BY <2>1, <2>2, Zenon DEF ShareRTCUrl, UrlOf
<1>13. r = Ok(UrlOf(host, p.value, pid, f))
  BY <1>2, <1>4, <1>12, Zenon
<1> QED BY <1>11, <1>13, Zenon DEF r

-----------------------------------------------------------------------------
HttpsMark == <<"https", ":", "/", "/">>

(* What is behind the mark of the scheme is found again.                   *)
LEMMA FrontRead ==
  ASSUME NEW R \in Seq(Words), NEW s, s = HttpsMark \o R
  PROVE  /\ s \in Seq(Words) /\ s # <<>> /\ s[1] = "https"
         /\ Seps(s) # {} /\ Scheme(s) = <<"https">> /\ Rest(s) = R
<1>1. HttpsMark \in Seq(Words) /\ Len(HttpsMark) = 4
  <2>1. "https" \in Words /\ ":" \in Words /\ "/" \in Words
    BY KnownWords
  <2> QED BY <2>1 DEF HttpsMark
<1>2. HttpsMark[1] = "https" /\ HttpsMark[2] = ":" /\ HttpsMark[3] = "/" /\ HttpsMark[4] = "/"
  BY DEF HttpsMark
<1> HIDE DEF HttpsMark
<1>3. /\ s \in Seq(Words) /\ Len(s) = 4 + Len(R) /\ Len(R) \in Nat
      /\ s[1] = "https" /\ s[2] = ":" /\ s[3] = "/" /\ s[4] = "/"
      /\ \A i \in 1 .. Len(R) : s[4 + i] = R[i]
  <2>1. s \in Seq(Words) /\ Len(s) = 4 + Len(R) /\ Len(R) \in Nat
    <3>1. s \in Seq(Words) /\ Len(s) = Len(HttpsMark) + Len(R)
      BY <1>1, ConcatProperties, Zenon
    <3> QED BY <1>1, <3>1
  <2>2. \A i \in 1 .. 4 + Len(R) : s[i] = IF i <= 4 THEN HttpsMark[i] ELSE R[i - 4]
    <3>1. \A i \in 1 .. Len(HttpsMark) + Len(R) : s[i] = IF i <= Len(HttpsMark) THEN HttpsMark[i]
                                                         ELSE R[i - Len(HttpsMark)]
      BY <1>1, ConcatProperties, Zenon
    <3> QED BY <1>1, <3>1, Zenon
  <2>3. s[1] = HttpsMark[1] /\ s[2] = HttpsMark[2] /\ s[3] = HttpsMark[3] /\ s[4] = HttpsMark[4]
    BY <2>1, <2>2
  <2>4. \A i \in 1 .. Len(R) : s[4 + i] = R[i]
    BY <2>1, <2>2
  <2> QED BY <1>2, <2>1, <2>3, <2>4
<1>4. 2 \in Seps(s)
  <2>1. 2 \in 1 .. Len(s) - 2
    BY <1>3
  <2>2. SubSeq(s, 2, 4) = <<":", "/", "/">>
    <3> DEFINE t == SubSeq(s, 2, 4)
    <3>1. t \in Seq(Words) /\ Len(t) = 3 /\ \A i \in 1 .. 3 : t[i] = s[2 + i - 1]
      <4>1. 2 \in Nat /\ 2 > 0 /\ 4 \in Int /\ 4 <= Len(s) /\ 4 - 2 + 1 = 3
        BY <1>3
      <4>2. /\ t \in Seq(Words) /\ Len(t) = IF 2 <= 4 THEN 4 - 2 + 1 ELSE 0
            /\ \A i \in 1 .. Len(t) : t[i] = s[2 + i - 1]
        BY <4>1, <1>3, Piece
      <4> HIDE DEF t
      <4>3. 2 <= 4
        OBVIOUS
      <4>4. Len(t) = 3
        BY <4>1, <4>2, <4>3
      <4> QED BY <4>2, <4>4
    <3> HIDE DEF t
    <3>2. t[1] = ":" /\ t[2] = "/" /\ t[3] = "/"
      BY <1>3, <3>1
    <3>3. t = <<":", "/", "/">>
      BY <3>1, <3>2
    <3> QED BY <3>3 DEF t
  <2>3. SubSeq(s, 2, 2 + 2) = <<":", "/", "/">>
    <3>1. 2 + 2 = 4
      OBVIOUS
    <3> QED BY <2>2, <3>1
  <2> QED BY <2>1, <2>3, Zenon DEF Seps
<1>5. 1 \notin Seps(s)
  <2> SUFFICES ASSUME 1 \in Seps(s) PROVE FALSE
    OBVIOUS
  <2> DEFINE t == SubSeq(s, 1, 1 + 2)
  <2>1. t = <<":", "/", "/">>
    BY Zenon DEF Seps
  <2>2. t[1] = s[1]
    BY <1>3
  <2> HIDE DEF t
  <2>3. t[1] = ":"
    BY <2>1
  <2> QED BY <1>3, <2>2, <2>3
<1>6. Min(Seps(s)) = 2
  <2>1. Seps(s) \subseteq 1 .. Len(s) /\ Seps(s) \subseteq 0 .. Len(s) /\ Len(s) \in Nat
    BY <1>3 DEF Seps
  <2>2. Min(Seps(s)) \in Seps(s) /\ Min(Seps(s)) <= 2
    BY <1>4, <2>1, Extremes
  <2> DEFINE m == Min(Seps(s))
  <2> HIDE DEF m
  <2>3. m \in 1 .. Len(s) /\ m <= 2 /\ m # 1
    BY <1>5, <2>1, <2>2 DEF m
  <2>4. m = 2
    BY <1>3, <2>3
  <2> QED BY <2>4 DEF m
<1>7. Scheme(s) = <<"https">>
  <2>1. Before(s, 2) = <<"https">>
    <3> DEFINE t == SubSeq(s, 1, 1)
    <3>1. Len(t) = 1 /\ t[1] = "https" /\ t \in Seq(Words)
      BY <1>3
    <3> HIDE DEF t
    <3>2. t = <<"https">>
      BY <3>1
    <3>3. 2 - 1 = 1
      OBVIOUS
    <3> QED BY <3>2, <3>3 DEF t, Before
  <2>2. to_lower(<<"https">>) = <<"https">>
    BY DEF to_lower
  <2> QED BY <1>6, <2>1, <2>2, Zenon DEF Scheme
<1>8. Rest(s) = R
  <2> DEFINE t == After(s, 4)
  <2>1. t \in Seq(Words) /\ Len(t) = Len(R) /\ \A i \in 1 .. Len(R) : t[i] = R[i]
    BY <1>3 DEF After
  <2> HIDE DEF t
  <2>2. t = R
    BY <2>1, SeqEqual
  <2>3. 2 + 2 = 4
    OBVIOUS
  <2> QED BY <1>6, <2>2, <2>3 DEF t, Rest
<1>9. s # <<>>
  BY <1>3
<1> QED BY <1>3, <1>4, <1>7, <1>8, <1>9

Regroups(a, b, c) == (a \o b) \o c = a \o (b \o c)

LEMMA Regroup ==
  ASSUME NEW a \in Seq(Words), NEW b \in Seq(Words), NEW c \in Seq(Words)
  PROVE  a \o b \in Seq(Words) /\ Regroups(a, b, c)
<1>1. a \o b \in Seq(Words)
  BY ConcatProperties
<1>2. (a \o b) \o c = a \o (b \o c)
  BY ConcatAssociative
<1> QED BY <1>1, <1>2, Zenon DEF Regroups

RegroupsUrl(a, b, c, d, e, g, k) ==
  a \o b \o c \o d \o e \o g \o k = a \o ((b \o c \o d) \o e \o (g \o k))

(* What to_url writes one after another is the scheme, the authority, a    *)
(* slash and the rest.                                                     *)
LEMMA Regrouped ==
  ASSUME NEW a \in Seq(Words), NEW b \in Seq(Words), NEW c \in Seq(Words), NEW d \in Seq(Words),
         NEW e \in Seq(Words), NEW g \in Seq(Words), NEW k \in Seq(Words)
  PROVE  RegroupsUrl(a, b, c, d, e, g, k)
<1> DEFINE x1 == b \o c
           x2 == x1 \o d
           x3 == x2 \o e
           gk == g \o k
           y == a \o x3
<1>1. x1 \in Seq(Words) /\ gk \in Seq(Words) /\ Regroups(a, b, c)
  BY Regroup, Zenon
<1>2. (a \o b) \o c = a \o x1
  BY <1>1, Zenon DEF Regroups
<1> HIDE DEF x1
<1>3. x2 \in Seq(Words) /\ Regroups(a, x1, d)
  BY <1>1, Regroup, Zenon
<1>4. (a \o x1) \o d = a \o x2
  BY <1>3, Zenon DEF Regroups
<1> HIDE DEF x2
<1>5. x3 \in Seq(Words) /\ Regroups(a, x2, e)
  BY <1>3, Regroup, Zenon
<1>6. (a \o x2) \o e = a \o x3
  BY <1>5, Zenon DEF Regroups
<1> HIDE DEF x3
<1>7. y \in Seq(Words)
  BY <1>5, Regroup, Zenon
<1> HIDE DEF y
<1>8. (y \o g) \o k = y \o gk
  <2>1. Regroups(y, g, k)
    BY <1>7, Regroup, Zenon
  <2> QED BY <2>1, Zenon DEF Regroups
<1> HIDE DEF gk
<1>9. (a \o x3) \o gk = a \o (x3 \o gk)
  <2>1. Regroups(a, x3, gk)
    BY <1>1, <1>5, Regroup, Zenon
  <2> QED BY <2>1, Zenon DEF Regroups
<1>10. a \o b \o c \o d \o e \o g \o k = a \o (x3 \o gk)
  BY <1>2, <1>4, <1>6, <1>8, <1>9, Zenon DEF y
<1> QED BY <1>10, Zenon DEF x1, x2, x3, gk, RegroupsUrl

WrittenAs(u, host, ps, peerid, q) ==
  to_url(u) = HttpsMark \o ((host \o <<":">> \o ps) \o <<"/">> \o (peerid \o q))

LEMMA UrlWritten ==
  ASSUME NEW host \in Seq(Words), NEW port, NEW peerid \in Seq(Words), NEW query,
         to_string(port) \in Seq(Words), QueryText(query) \in Seq(Words)
  PROVE  WrittenAs(UrlOf(host, port, peerid, query), host, to_string(port), peerid, QueryText(query))
<1> DEFINE u == UrlOf(host, port, peerid, query)
           ps == to_string(port)
           q == QueryText(query)
<1>1. u.scheme = <<"https">> /\ u.host = host /\ u.port = port /\ u.peerid = peerid /\ u.query = query
  BY SMT DEF UrlOf
<1>2. to_url(u) = u.scheme \o <<":", "/", "/">> \o u.host \o <<":">> \o to_string(u.port) \o <<"/">>
                    \o u.peerid \o QueryText(u.query)
  BY Zenon DEF to_url, QueryText
<1> HIDE DEF u, ps, q
<1>3. to_url(u) = <<"https">> \o <<":", "/", "/">> \o host \o <<":">> \o ps \o <<"/">> \o peerid \o q
  BY <1>1, <1>2, Zenon DEF ps, q
<1>4. <<"https">> \o <<":", "/", "/">> = HttpsMark
  <2> DEFINE a == <<"https">>
             b == <<":", "/", "/">>
  <2>1. "https" \in Words /\ ":" \in Words /\ "/" \in Words
    BY KnownWords
  <2>2. a \in Seq(Words) /\ b \in Seq(Words) /\ Len(a) = 1 /\ Len(b) = 3
    BY <2>1
  <2>3. HttpsMark \in Seq(Words) /\ Len(HttpsMark) = 4 /\ HttpsMark[1] = a[1]
        /\ HttpsMark[2] = b[1] /\ HttpsMark[3] = b[2] /\ HttpsMark[4] = b[3]
    BY <2>1 DEF HttpsMark
  <2> HIDE DEF a, b
  <2> DEFINE ab == a \o b
  <2>4. ab \in Seq(Words) /\ Len(ab) = 4 /\ ab[1] = a[1] /\ ab[2] = b[1] /\ ab[3] = b[2] /\ ab[4] = b[3]
    <3>1. ab \in Seq(Words) /\ Len(ab) = Len(a) + Len(b)
          /\ \A i \in 1 .. Len(a) + Len(b) : ab[i] = IF i <= Len(a) THEN a[i] ELSE b[i - Len(a)]
      BY <2>2, ConcatProperties, Zenon
    <3> HIDE DEF ab
    <3>2. \A i \in 1 .. 4 : ab[i] = IF i <= 1 THEN a[i] ELSE b[i - 1]
      BY <2>2, <3>1
    <3> QED BY <2>2, <3>1, <3>2
  <2> HIDE DEF ab, HttpsMark
  <2>5. \A i \in 1 .. 4 : i = 1 \/ i = 2 \/ i = 3 \/ i = 4
    OBVIOUS
  <2>6. \A i \in 1 .. 4 : ab[i] = HttpsMark[i]
    BY <2>3, <2>4, <2>5, Zenon
  <2>7. ab = HttpsMark
    BY <2>3, <2>4, <2>6, SeqEqual
  <2> QED BY <2>7 DEF ab, a, b
<1>5. HttpsMark \in Seq(Words) /\ <<":">> \in Seq(Words) /\ <<"/">> \in Seq(Words)
  <2>1. "https" \in Words /\ ":" \in Words /\ "/" \in Words
    BY KnownWords
  <2> QED BY <2>1 DEF HttpsMark
<1>6. ps \in Seq(Words) /\ q \in Seq(Words)
  BY DEF ps, q
<1> DEFINE colon == <<":">>
           slash == <<"/">>
<1>7. colon \in Seq(Words) /\ slash \in Seq(Words)
  BY <1>5
<1>8. to_url(u) = HttpsMark \o host \o colon \o ps \o slash \o peerid \o q
  BY <1>3, <1>4, Zenon
<1> HIDE DEF colon, slash
<1>9. to_url(u) = HttpsMark \o ((host \o colon \o ps) \o slash \o (peerid \o q))
  <2>1. RegroupsUrl(HttpsMark, host, colon, ps, slash, peerid, q)
    BY <1>5, <1>6, <1>7, Regrouped, Zenon
  <2> QED BY <1>8, <2>1, Zenon DEF RegroupsUrl
<1> QED BY <1>9, Zenon DEF u, ps, q, colon, slash, WrittenAs

(* What is behind the authority                                            *)
LEMMA TailWritten ==
  ASSUME NEW peerid \in Seq(Words), Free(peerid, "?"), NEW query, IsQuery(query)
  PROVE  LET tail == peerid \o QueryText(query)
         IN  /\ QueryText(query) \in Seq(Words) /\ tail \in Seq(Words)
             /\ UpTo(tail, "?") = peerid /\ parse_query(Past(tail, "?")) = query
<1> DEFINE t == QueryText(query)
           tail == peerid \o t
<1>1. /\ DOMAIN query = {} => t = <<>>
      /\ DOMAIN query # {} => \E q \in Seq(Words) : /\ t = <<"?">> \o q
                                                    /\ SegTexts(q) = {Written(query, k) : k \in DOMAIN query}
  BY QueryWritten
<1> HIDE DEF t
<1>2. CASE DOMAIN query = {}
  <2>1. t = <<>> /\ t \in Seq(Words)
    BY <1>1, <1>2, EmptySeq, Zenon
  <2>2. tail = peerid
    BY <2>1, ConcatEmptySeq
  <2> HIDE DEF tail
  <2>3. UpTo(tail, "?") = peerid /\ Past(tail, "?") = <<>>
    BY <2>2, NothingToCut, Zenon
  <2>4. parse_query(<<>>) = query
    BY <1>2, NoQuery, Zenon
  <2> QED BY <2>1, <2>2, <2>3, <2>4, Zenon DEF t, tail
<1>3. CASE DOMAIN query # {}
  <2>1. PICK q \in Seq(Words) : t = <<"?">> \o q /\ SegTexts(q) = {Written(query, k) : k \in DOMAIN query}
    BY <1>1, <1>3, Zenon
  <2> DEFINE m == <<"?">>
  <2>2. m \in Seq(Words)
    BY KnownWords
  <2>3. t = m \o q
    BY <2>1, Zenon
  <2> HIDE DEF m
  <2>4. t \in Seq(Words) /\ Regroups(peerid, m, q)
    BY <2>2, <2>3, Regroup, Zenon
  <2>5. tail = peerid \o m \o q
    BY <2>3, <2>4, Zenon DEF Regroups
  <2>6. tail \in Seq(Words)
    BY <2>4, Regroup, Zenon
  <2> HIDE DEF tail
  <2>7. UpTo(tail, "?") = peerid /\ Past(tail, "?") = q
    BY <2>5, CutFirst, KnownWords, Zenon DEF m
  <2>8. parse_query(q) = query
    BY <2>1, QueryRead, Zenon
  <2> QED BY <2>4, <2>6, <2>7, <2>8, Zenon DEF t, tail
<1> QED BY <1>2, <1>3

EndsWithBlank(s) == s[Len(s)] = " "

(* parse reads every url of that form back from what to_url writes of it,  *)
(* whatever its query: but for a host that begins with a bracket and a     *)
(* text that ends with a blank.                                            *)
THEOREM ParseWritten ==
  ASSUME NEW host, NEW port, NEW peerid, NEW query, IsParts(host, port, peerid, query),
         NEW d \in 1 .. MaxPort, host[1] # "[",
         ~EndsWithBlank(to_url(UrlOf(host, port, peerid, query)))
  PROVE  parse(to_url(UrlOf(host, port, peerid, query)), d) = Ok(UrlOf(host, port, peerid, query))
<1> DEFINE u == UrlOf(host, port, peerid, query)
           s == to_url(u)
           ps == to_string(port)
           auth == host \o <<":">> \o ps
           tail == peerid \o QueryText(query)
           R == auth \o <<"/">> \o tail
<1>1. /\ host \in Seq(Words) /\ host # <<>> /\ Free(host, "/") /\ to_lower(host) = host
      /\ port \in 1 .. MaxPort
      /\ peerid \in Seq(Words) /\ peerid # <<>> /\ Free(peerid, "?")
      /\ peerid[1] # "/" /\ peerid[Len(peerid)] # "/"
      /\ IsQuery(query)
  BY Zenon DEF IsParts
<1>2. /\ ps \in Seq(Words) /\ ps # <<>> /\ Numeral(ps) /\ Decimal(ps) = port
      /\ Free(ps, ":") /\ Free(ps, "/")
  <2>1. /\ ps \in Seq(Words) /\ ps # <<>> /\ Numeral(ps) /\ Decimal(ps) = port
        /\ \A i \in 1 .. Len(ps) : ps[i] \notin {":", "/"}
    BY <1>1, PortWritten
  <2> HIDE DEF ps
  <2> QED BY <2>1, Zenon DEF Free
<1>3. /\ QueryText(query) \in Seq(Words) /\ tail \in Seq(Words)
      /\ UpTo(tail, "?") = peerid /\ parse_query(Past(tail, "?")) = query
  BY <1>1, TailWritten
<1>4. s = HttpsMark \o R
  <2>1. WrittenAs(u, host, ps, peerid, QueryText(query))
    <3> HIDE DEF tail
    <3> QED BY <1>1, <1>2, <1>3, UrlWritten, Zenon
  <2> QED BY <2>1, Zenon DEF WrittenAs
<1> HIDE DEF ps, tail
<1>5. auth \in Seq(Words) /\ Free(auth, "/")
  <2> DEFINE m == <<":">>
             hm == host \o m
  <2>1. m \in Seq(Words) /\ Free(m, "/")
    BY KnownWords DEF Free
  <2> HIDE DEF m
  <2>2. hm \in Seq(Words) /\ Free(hm, "/")
    BY <1>1, <2>1, FreeConcat, Zenon
  <2> HIDE DEF hm
  <2>3. hm \o ps \in Seq(Words) /\ Free(hm \o ps, "/")
    BY <1>2, <2>2, FreeConcat, Zenon
  <2> QED BY <2>3, Zenon DEF hm, m
<1>6. Authority(auth) = Ok(AuthorityOf(host, TRUE, ps))
  BY <1>1, <1>2, AuthorityWritten, Zenon
<1> HIDE DEF auth
<1>7. R \in Seq(Words) /\ UpTo(R, "/") = auth /\ Past(R, "/") = tail
  <2>1. R \in Seq(Words)
    BY <1>3, <1>5, Halves, KnownWords, Zenon
  <2>2. UpTo(R, "/") = auth /\ Past(R, "/") = tail
    BY <1>3, <1>5, CutFirst, KnownWords, Zenon
  <2> QED BY <2>1, <2>2
<1> HIDE DEF R, s
<1>8. /\ s \in Seq(Words) /\ s # <<>> /\ s[1] = "https"
      /\ Seps(s) # {} /\ Scheme(s) = <<"https">> /\ Rest(s) = R
  BY <1>4, <1>7, FrontRead, Zenon
<1>9. AuthorityIn(s) = Ok(AuthorityOf(host, TRUE, ps))
  BY <1>6, <1>7, <1>8, Zenon DEF AuthorityIn
<1> DEFINE a == AuthorityIn(s)
           p == PortIn(a, d)
<1>10. a.ok = TRUE /\ a.value.host = host /\ a.value.has_port = TRUE /\ a.value.port = ps
  <2>1. a.ok = TRUE /\ a.value = AuthorityOf(host, TRUE, ps)
    BY <1>9, OkResult, Zenon
  <2> HIDE DEF a
  <2> QED BY <2>1, SMT DEF AuthorityOf
<1>11. p.ok = TRUE /\ p.value = port
  <2> HIDE DEF a
  <2>1. p = parse_port(ps)
    BY <1>10, Zenon DEF PortIn
  <2>2. PortRead(ps, p)
    BY <1>2, <2>1, parse_portExact, Zenon
  <2> HIDE DEF p
  <2> QED BY <1>1, <1>2, <2>2, Zenon DEF PortRead
<1>12. Path(s) = tail /\ Peerid(s) = peerid /\ parse_query(Query(s)) = query
  <2>1. Path(s) = tail
    BY <1>7, <1>8, Zenon DEF Path
  <2>2. Strip(peerid, {"/"}) = peerid
    BY <1>1, StripEnds, Zenon
  <2> QED BY <1>3, <2>1, <2>2, Zenon DEF Peerid, Query
<1>13. trim(s) = s
  <2>1. s[Len(s)] # " "
    BY Zenon DEF s, EndsWithBlank
  <2>2. "https" # " "
    BY Zenon
  <2> QED BY <1>8, <2>1, <2>2, StripEnds, Zenon DEF trim
<1>14. Complete(s, d)
  <2> HIDE DEF a, p
  <2>1. a.ok /\ p.ok /\ a.value.host # <<>>
    BY <1>1, <1>10, <1>11, Zenon
  <2> QED BY <1>1, <1>8, <1>12, <2>1, Zenon DEF Complete, a, p
<1>15. parse(s, d) = Ok(UrlIn(s, d))
  BY <1>13, <1>14, ParseCases, Zenon
<1>16. UrlIn(s, d) = u
  <2>1. to_lower(<<"https">>) = <<"https">>
    BY DEF to_lower
  <2> HIDE DEF a, p
  <2>2. UrlIn(s, d) = ShareRTCUrl(<<"https">>, host, port, peerid, query)
    BY <1>8, <1>10, <1>11, <1>12, Zenon DEF UrlIn, a, p
  <2> QED BY <1>1, <2>1, <2>2, Zenon DEF ShareRTCUrl, UrlOf
<1> QED BY <1>15, <1>16, Zenon DEF s

-----------------------------------------------------------------------------
(* The readers: what was read is an input, and what it gave is the output. *)
ReaderInv == input = Nothing \/ (input \in Inputs /\ output = Read(input))

LEMMA ReaderInvAlways == MCSpec => []ReaderInv
<1>1. MCInit => ReaderInv
  BY DEF MCInit, ReaderInv
<1>2. ReaderInv /\ [MCNext]_mcVars => ReaderInv'
  <2> SUFFICES ASSUME ReaderInv, [MCNext]_mcVars PROVE ReaderInv'
    OBVIOUS
  <2>1. CASE ReadInput
    BY <2>1, Zenon DEF ReadInput, ReaderInv
  <2>2. CASE UNCHANGED <<input, output>>
    BY <2>2, Zenon DEF ReaderInv
  <2> QED BY <2>1, <2>2, Zenon DEF MCNext, Serve, mcVars
<1> QED BY <1>1, <1>2, PTL DEF MCSpec

LEMMA InputOfKind ==
  ASSUME ReaderInv
  PROVE  /\ Kind("url") => input.text \in Urls /\ output = parse(input.text, 443)
         /\ Kind("port") => input.text \in Ports /\ output = parse_port(input.text)
         /\ Kind("ws") => input.text \in WsUrls /\ output = ParseUrl(input.text)
         /\ Kind("message") => input.text \in Messages /\ output = jsonToMessage(Marshalled(input.text))
         /\ Kind("root") => output = {HandledByBase(input.text), HandledByClient(input.text)}
<1>1. CASE input = Nothing
  <2>1. input.kind = "none"
    BY <1>1 DEF Nothing
  <2> QED BY <2>1 DEF Kind
<1>2. CASE input \in Inputs /\ output = Read(input)
  <2>1. Kind("url") => input.text \in Urls
    BY <1>2 DEF Inputs, Kind
  <2>2. Kind("port") => input.text \in Ports
    BY <1>2 DEF Inputs, Kind
  <2>3. Kind("message") => input.text \in Messages
    BY <1>2 DEF Inputs, Kind
  <2>4. Kind("ws") => input.text \in WsUrls
    BY <1>2 DEF Inputs, Kind
  <2>5. CASE Kind("url")
    <3>1. output = parse(input.text, 443)
      BY <1>2, <2>5 DEF Read, Kind
    <3> QED BY <2>1, <2>5, <3>1 DEF Kind
  <2>6. CASE Kind("port")
    <3>1. output = parse_port(input.text)
      BY <1>2, <2>6 DEF Read, Kind
    <3> QED BY <2>2, <2>6, <3>1 DEF Kind
  <2>7. CASE Kind("ws")
    <3>1. output = ParseUrl(input.text)
      BY <1>2, <2>7 DEF Read, Kind
    <3> QED BY <2>4, <2>7, <3>1 DEF Kind
  <2>8. CASE Kind("message")
    <3>1. output = jsonToMessage(Marshalled(input.text))
      BY <1>2, <2>8 DEF Read, Kind
    <3> QED BY <2>3, <2>8, <3>1 DEF Kind
  <2>9. CASE Kind("root")
    <3>1. output = {HandledByBase(input.text), HandledByClient(input.text)}
      BY <1>2, <2>9 DEF Read, Kind
    <3> QED BY <2>9, <3>1 DEF Kind
  <2> QED BY <2>5, <2>6, <2>7, <2>8, <2>9
<1> QED BY <1>1, <1>2 DEF ReaderInv

(* parse_port is exact, for texts of any length.                           *)
THEOREM PortAlwaysExact == MCSpec => []PortExact
<1>1. ReaderInv => PortExact
  <2> SUFFICES ASSUME ReaderInv PROVE PortExact
    BY Zenon
  <2> DEFINE s == input.text
             numeral == s # <<>> /\ \A i \in DOMAIN s : s[i] \in DOMAIN Digits
             Accepted == numeral /\ Decimal(s) \in 1 .. MaxPort
  <2>1. ASSUME Kind("port") PROVE (output.ok <=> Accepted) /\ (output.ok => output.value = Decimal(s))
    <3>1. s \in Seq(Words) /\ output = parse_port(s)
      BY <2>1, InputOfKind, InputAssumption, InputsAreTexts
    <3>2. PortRead(s, output)
      BY <3>1, parse_portExact, Zenon
    <3>3. DOMAIN s = 1 .. Len(s)
      BY <3>1
    <3>4. (output.ok = TRUE <=> Accepted) /\ (output.ok = TRUE => output.value = Decimal(s))
      BY <3>2, <3>3, Zenon DEF PortRead, Numeral
    <3>5. output.ok = TRUE \/ output.ok = FALSE
      BY <3>2, Zenon DEF PortRead
    <3> HIDE DEF Accepted, s
    <3>6. CASE output.ok = TRUE
      BY <3>4, <3>6, Zenon
    <3>7. CASE output.ok = FALSE
      BY <3>4, <3>7, Zenon
    <3> QED BY <3>5, <3>6, <3>7, Zenon
  <2> QED BY <2>1, Zenon DEF PortExact
<1> QED BY <1>1, ReaderInvAlways, PTL

(* A WebSocket url is divided at its marks, for urls of any length.        *)
THEOREM WsUrlsSplit == MCSpec => []WsSplitsUrl
<1>1. ReaderInv => WsSplitsUrl
  <2> SUFFICES ASSUME ReaderInv PROVE WsSplitsUrl
    OBVIOUS
  <2>1. ASSUME Kind("ws"), output.ok PROVE UrlSplit(input.text, output.value)
    <3>1. input.text \in Seq(Words) /\ output = ParseUrl(input.text)
      BY <2>1, InputOfKind, InputAssumption, InputsAreTexts
    <3>2. output.ok = TRUE
      <4>1. ParseUrl(input.text).ok # FALSE
        BY <2>1, <3>1, Zenon
      <4> QED BY <3>1, <4>1, WsAccepted, Zenon
    <3> QED BY <3>1, <3>2, ParseUrlSplits, Zenon
  <2> QED BY <2>1, Zenon DEF WsSplitsUrl, UrlSplit
<1> QED BY <1>1, ReaderInvAlways, PTL

(* Every url that parse accepts, of any length, is read back as it was.    *)
THEOREM UrlsRoundTrip == MCSpec => []UrlRoundTrip
<1>1. ReaderInv => UrlRoundTrip
  <2> SUFFICES ASSUME ReaderInv PROVE UrlRoundTrip
    OBVIOUS
  <2> DEFINE again == to_url(output.value)
  <2>1. ASSUME Kind("url"), output.ok
        PROVE  parse(again, 443) = output \/ output.value.host[1] = "[" \/ EndsWithBlank(again)
    <3>1. input.text \in Seq(Words) /\ output = parse(input.text, 443)
      BY <2>1, InputOfKind, InputAssumption, InputsAreTexts
    <3> DEFINE d == 443
    <3>2. d \in 1 .. MaxPort
      BY MaxPortIs, SMTT(30)
    <3>3. output = parse(input.text, d)
      BY <3>1, Zenon
    <3> HIDE DEF d
    <3>4. parse(input.text, d).ok # FALSE
      BY <2>1, <3>3, Zenon
    <3>5. PICK host, port, peerid, query :
            parse(input.text, d) = Ok(UrlOf(host, port, peerid, query)) /\ IsParts(host, port, peerid, query)
      BY <3>1, <3>2, <3>4, ParseGives, Zenon
    <3>6. output = Ok(UrlOf(host, port, peerid, query)) /\ output.value = UrlOf(host, port, peerid, query)
      BY <3>3, <3>5, OkResult, Zenon
    <3>7. UrlOf(host, port, peerid, query).host = host
      BY SMT DEF UrlOf
    <3>8. ASSUME host[1] # "[", ~EndsWithBlank(again) PROVE parse(again, d) = output
      BY <3>2, <3>5, <3>6, <3>8, ParseWritten, Zenon
    <3> QED BY <3>6, <3>7, <3>8, Zenon DEF d
  <2> QED BY <2>1, Zenon DEF UrlRoundTrip, EndsWithBlank
<1> QED BY <1>1, ReaderInvAlways, PTL

-----------------------------------------------------------------------------
(* Messages. What the readers see of a member.                             *)
LEMMA Scalars ==
  ASSUME NEW text, NEW as, as = "asInt" => text \in IntTexts
  PROVE  ToScalar(text, as).text = text /\ Converts(ToScalar(text, as), as)
BY DEF ToScalar, Converts, AsInt, AsString, Number, Str, Json

(* A content that was marshalled is unmarshalled as it was.                *)
THEOREM ContentRoundTrip ==
  ASSUME NEW kind \in MessageType, NEW content \in [DOMAIN createContentByKind[kind] -> STRING],
         HoldsInts(kind, content)
  PROVE  unmarshalContent(kind, marshalContent(kind, content)) = Done(content)
<1> DEFINE fields == createContentByKind[kind]
           jv == marshalContent(kind, content)
           members == [f \in DOMAIN fields |-> ToScalar(content[f], fields[f])]
<1>1. jv.type = "object" /\ jv.members = members
  BY DEF marshalContent, Object, Json
<1>2. unmarshalContent(kind, jv) =
        IF jv.type = "null" THEN Refused
        ELSE IF DOMAIN fields = {} THEN Done(<<>>)
        ELSE IF ~Indexable(jv) THEN Thrown
        ELSE IF ~(DOMAIN fields \subseteq DOMAIN jv.members) THEN Refused
        ELSE IF \E f \in DOMAIN fields : ~Converts(jv.members[f], fields[f]) THEN Thrown
        ELSE Done([f \in DOMAIN fields |-> jv.members[f].text])
  BY Zenon DEF unmarshalContent
<1> HIDE DEF jv, fields
<1>3. content \in [DOMAIN fields -> STRING]
  BY DEF fields
<1>4. CASE DOMAIN fields = {}
  <2>1. content = <<>>
    BY <1>3, <1>4
  <2>2. unmarshalContent(kind, jv) = Done(<<>>)
    BY <1>1, <1>2, <1>4
  <2> QED BY <2>1, <2>2 DEF jv
<1>5. CASE DOMAIN fields # {}
  <2>1. Indexable(jv) /\ DOMAIN jv.members = DOMAIN fields
    BY <1>1 DEF Indexable
  <2>2. ASSUME NEW f \in DOMAIN fields
        PROVE  Converts(jv.members[f], fields[f]) /\ jv.members[f].text = content[f]
    <3>1. jv.members[f] = ToScalar(content[f], fields[f])
      BY <1>1
    <3>2. fields[f] = "asInt" => content[f] \in IntTexts
      BY DEF HoldsInts, fields
    <3> QED BY <3>1, <3>2, Scalars
  <2>3. [f \in DOMAIN fields |-> jv.members[f].text] = content
    BY <1>3, <2>2
  <2>4. unmarshalContent(kind, jv) = Done([f \in DOMAIN fields |-> jv.members[f].text])
    BY <1>1, <1>2, <1>5, <2>1, <2>2, Zenon
  <2> QED BY <2>3, <2>4 DEF jv
<1> QED BY <1>4, <1>5

(* A message that messageToJson wrote is read as it was, with its content  *)
(* still in its JSON form.                                                 *)
LEMMA EnvelopeRead ==
  ASSUME NEW msg, msg.kind \in MessageType, msg.reach \in ReachType
  PROVE  jsonToMessage(messageToJson(msg)) =
           Done([kind |-> msg.kind, reach |-> msg.reach, sender |-> msg.sender, peerID |-> msg.peerID,
                 content |-> msg.content])
<1> DEFINE root == messageToJson(msg)
           members == [kind |-> Str(msg.kind), reach |-> Str(msg.reach), sender |-> Str(msg.sender),
                       peerID |-> Str(msg.peerID), content |-> msg.content]
           Kd == messageTypeFromString(Member(root, "kind").text)
           Rc == jsonValueToReachType(Member(root, "reach"))
<1>1. root.type = "object" /\ root.members = members
  BY DEF messageToJson, Object, Json, messageTypeToString, reachTypeToJsonValue
<1>2. /\ Member(root, "kind") = Str(msg.kind) /\ Member(root, "reach") = Str(msg.reach)
      /\ Member(root, "sender") = Str(msg.sender) /\ Member(root, "peerID") = Str(msg.peerID)
      /\ Member(root, "content") = msg.content
  BY <1>1 DEF Member
<1>3. \A text : Str(text).type = "string" /\ Str(text).text = text /\ AsString(Str(text))
  BY DEF Str, Json, AsString
<1>4. Kd = Done(msg.kind)
  BY <1>2, <1>3 DEF messageTypeFromString
<1>5. Rc = Done(msg.reach)
  BY <1>2, <1>3 DEF jsonValueToReachType
<1>6. jsonToMessage(root) =
        IF ~Indexable(root) \/ ~AsString(Member(root, "kind")) THEN Thrown
        ELSE IF "refused" \in {Kd.outcome, Rc.outcome} THEN Refused
        ELSE IF \E f \in {"sender", "peerID"} : ~AsString(Member(root, f)) THEN Thrown
        ELSE Done([kind |-> Kd.value, reach |-> Rc.value,
                   sender |-> Member(root, "sender").text, peerID |-> Member(root, "peerID").text,
                   content |-> Member(root, "content")])
  BY Zenon DEF jsonToMessage
<1>7. Indexable(root) /\ AsString(Member(root, "kind"))
  BY <1>1, <1>2, <1>3 DEF Indexable
<1>8. Kd.outcome = "done" /\ Kd.value = msg.kind /\ Rc.outcome = "done" /\ Rc.value = msg.reach
  BY <1>4, <1>5 DEF Done
<1>9. \A f \in {"sender", "peerID"} : AsString(Member(root, f))
  BY <1>2, <1>3
<1> HIDE DEF root, Kd, Rc
<1>10. "refused" \notin {Kd.outcome, Rc.outcome}
  BY <1>8
<1>11. jsonToMessage(root) = Done([kind |-> Kd.value, reach |-> Rc.value,
                   sender |-> Member(root, "sender").text, peerID |-> Member(root, "peerID").text,
                   content |-> Member(root, "content")])
  BY <1>6, <1>7, <1>9, <1>10, Zenon
<1> QED BY <1>2, <1>3, <1>8, <1>11 DEF root

(* A message is read back with everything it had, for any messages.        *)
THEOREM MessagesRoundTrip == MCSpec => []MessageRoundTrip
<1>1. ReaderInv => MessageRoundTrip
  <2> SUFFICES ASSUME ReaderInv, Kind("message") PROVE MessageRoundTrip
    BY DEF MessageRoundTrip
  <2> DEFINE msg == input.text
             jv == marshalContent(msg.kind, msg.content)
             out == [kind |-> msg.kind, reach |-> msg.reach, sender |-> msg.sender, peerID |-> msg.peerID,
                     content |-> jv]
  <2>1. msg \in Messages /\ output = jsonToMessage(Marshalled(msg))
    BY InputOfKind
  <2>2. /\ msg \in [kind : MessageType, reach : ReachType, sender : STRING, peerID : STRING,
                    content : {msg.content}]
        /\ msg.content \in [DOMAIN createContentByKind[msg.kind] -> STRING]
        /\ HoldsInts(msg.kind, msg.content)
    BY <2>1, InputAssumption
  <2> HIDE DEF jv
  <2>3. [msg EXCEPT !.content = jv] = out
    BY <2>2
  <2>4. output = Done(out)
    <3>1. out.kind \in MessageType /\ out.reach \in ReachType
      BY <2>2
    <3>2. Marshalled(msg) = messageToJson(out)
      BY <2>3 DEF Marshalled, jv
    <3>3. output = Done([kind |-> out.kind, reach |-> out.reach, sender |-> out.sender,
                         peerID |-> out.peerID, content |-> out.content])
      BY <2>1, <3>1, <3>2, EnvelopeRead
    <3> QED BY <3>3
  <2>5. output.outcome = "done" /\ output.value = out
    BY <2>4 DEF Done
  <2>6. [out EXCEPT !.content = msg.content] = msg
    BY <2>2
  <2>7. unmarshalContent(msg.kind, jv) = Done(msg.content)
    BY <2>2, ContentRoundTrip DEF jv
  <2>8. out.content = jv
    OBVIOUS
  <2> HIDE DEF out
  <2> QED BY <2>5, <2>6, <2>7, <2>8, Zenon DEF MessageRoundTrip
<1> QED BY <1>1, ReaderInvAlways, PTL

(* Every reader gives back what was written, for inputs of any length.     *)
THEOREM AllRoundTrips == MCSpec => []RoundTrips
<1>1. UrlRoundTrip /\ WsSplitsUrl /\ MessageRoundTrip => RoundTrips
  BY Zenon DEF RoundTrips
<1> QED BY <1>1, UrlsRoundTrip, WsUrlsSplit, MessagesRoundTrip, PTL

-----------------------------------------------------------------------------
(* What throws. A message with members such as toJson writes them:         *)
(* neither its reader nor that of its content does.                        *)
LEMMA MembersRead ==
  ASSUME NEW root, root # Garbage, AsWritten(root)
  PROVE  /\ root.type = "object"
         /\ \A m \in {"kind", "sender", "peerID"} : AsString(Member(root, m))
         /\ LET content == Member(root, "content")
            IN  /\ content.type \in {"object", "null"}
                /\ \A k \in MessageType : \A f \in DOMAIN createContentByKind[k] :
                     f \in DOMAIN content.members => Converts(content.members[f], createContentByKind[k][f])
<1> DEFINE content == Member(root, "content")
           Typed(m, type) == m \in DOMAIN root.members => root.members[m].type = type
           Readable(jv, as) == jv = ToScalar(jv.text, as) /\ (as = "asInt" => jv.text \in IntTexts)
<1>1. /\ root.type = "object"
      /\ \A m \in {"kind", "reach", "sender", "peerID"} : Typed(m, "string")
      /\ Typed("content", "object")
      /\ \A k \in MessageType : \A f \in DOMAIN createContentByKind[k] :
           f \in DOMAIN content.members => Readable(content.members[f], createContentByKind[k][f])
  BY Zenon DEF AsWritten
<1>2. Null.type = "null"
  BY DEF Null, Json
<1>3. ASSUME NEW m \in {"kind", "sender", "peerID"} PROVE AsString(Member(root, m))
  BY <1>1, <1>2 DEF AsString, Member
<1>4. content.type \in {"object", "null"}
  BY <1>1, <1>2 DEF Member
<1> HIDE DEF content
<1>5. ASSUME NEW k \in MessageType, NEW f \in DOMAIN createContentByKind[k], f \in DOMAIN content.members
      PROVE  Converts(content.members[f], createContentByKind[k][f])
  <2>1. Readable(content.members[f], createContentByKind[k][f])
    BY <1>1, <1>5
  <2> QED BY <2>1, Scalars
<1> QED BY <1>1, <1>3, <1>4, <1>5 DEF content

LEMMA JsonToMessageSafe ==
  ASSUME NEW root, root # Garbage, AsWritten(root)
  PROVE  LET msg == jsonToMessage(root)
         IN  \/ msg.outcome = "refused"
             \/ /\ msg.outcome = "done" /\ msg.value.kind \in MessageType
                /\ msg.value.content = Member(root, "content")
<1> DEFINE Kd == messageTypeFromString(Member(root, "kind").text)
           Rc == jsonValueToReachType(Member(root, "reach"))
           read == [kind |-> Kd.value, reach |-> Rc.value,
                    sender |-> Member(root, "sender").text, peerID |-> Member(root, "peerID").text,
                    content |-> Member(root, "content")]
<1>1. Indexable(root) /\ \A m \in {"kind", "sender", "peerID"} : AsString(Member(root, m))
  BY MembersRead DEF Indexable
<1>2. jsonToMessage(root) =
        IF ~Indexable(root) \/ ~AsString(Member(root, "kind")) THEN Thrown
        ELSE IF "refused" \in {Kd.outcome, Rc.outcome} THEN Refused
        ELSE IF \E f \in {"sender", "peerID"} : ~AsString(Member(root, f)) THEN Thrown
        ELSE Done(read)
  BY Zenon DEF jsonToMessage
<1>3. Refused.outcome = "refused" /\ Done(read).outcome = "done" /\ Done(read).value = read
  BY DEF Refused, Done
<1>4. Kd.outcome # "refused" => Kd.value \in MessageType
  BY DEF messageTypeFromString, Refused, Done
<1>5. read.kind = Kd.value /\ read.content = Member(root, "content")
  OBVIOUS
<1> HIDE DEF Kd, Rc, read
<1>6. CASE "refused" \in {Kd.outcome, Rc.outcome}
  <2>1. jsonToMessage(root) = Refused
    BY <1>1, <1>2, <1>6
  <2> QED BY <1>3, <2>1
<1>7. CASE "refused" \notin {Kd.outcome, Rc.outcome}
  <2>1. jsonToMessage(root) = Done(read)
    BY <1>1, <1>2, <1>7
  <2> QED BY <1>3, <1>4, <1>5, <1>7, <2>1
<1> QED BY <1>6, <1>7

LEMMA ContentSafe ==
  ASSUME NEW kind \in MessageType, NEW jv, jv.type \in {"object", "null"},
         \A f \in DOMAIN createContentByKind[kind] :
           f \in DOMAIN jv.members => Converts(jv.members[f], createContentByKind[kind][f])
  PROVE  unmarshalContent(kind, jv).outcome \in {"refused", "done"}
<1> DEFINE fields == createContentByKind[kind]
           u == unmarshalContent(kind, jv)
           filled == [f \in DOMAIN fields |-> jv.members[f].text]
<1>1. u = IF jv.type = "null" THEN Refused
          ELSE IF DOMAIN fields = {} THEN Done(<<>>)
          ELSE IF ~Indexable(jv) THEN Thrown
          ELSE IF ~(DOMAIN fields \subseteq DOMAIN jv.members) THEN Refused
          ELSE IF \E f \in DOMAIN fields : ~Converts(jv.members[f], fields[f]) THEN Thrown
          ELSE Done(filled)
  BY Zenon DEF unmarshalContent
<1>2. Indexable(jv)
  BY DEF Indexable
<1>3. Refused.outcome = "refused" /\ \A value : Done(value).outcome = "done"
  BY DEF Refused, Done
<1>4. DOMAIN fields \subseteq DOMAIN jv.members =>
        \A f \in DOMAIN fields : Converts(jv.members[f], fields[f])
  OBVIOUS
<1> HIDE DEF u, fields, filled
<1>5. u \in {Refused, Done(<<>>), Done(filled)}
  BY <1>1, <1>2, <1>4, Zenon
<1> QED BY <1>3, <1>5, Zenon DEF u

LEMMA HandleSafe ==
  ASSUME NEW root, AsWritten(root)
  PROVE  HandledByBase(root).outcome # "thrown" /\ HandledByClient(root).outcome # "thrown"
<1> DEFINE msg == jsonToMessage(root)
           content == unmarshalContent(msg.value.kind, msg.value.content)
<1>1. Refused.outcome = "refused" /\ \A value : Done(value).outcome = "done"
  BY DEF Refused, Done
<1>2. CASE root = Garbage
  BY <1>1, <1>2 DEF HandledByBase, HandledByClient, HandleMessage
<1>3. CASE root # Garbage
  <2>1. Indexable(root) /\ AsString(Member(root, "kind"))
    BY <1>3, MembersRead DEF Indexable
  <2>2. \/ msg.outcome = "refused"
        \/ /\ msg.outcome = "done" /\ msg.value.kind \in MessageType
           /\ msg.value.content = Member(root, "content")
    BY <1>3, JsonToMessageSafe, Zenon
  <2>3. jsonToMessageCaught(root) = msg
    BY <2>2 DEF jsonToMessageCaught
  <2>4. HandledByBase(root) = HandleMessage(root, msg) /\ HandledByClient(root) = HandleMessage(root, msg)
    BY <2>3, Zenon DEF HandledByBase, HandledByClient
  <2>5. HandleMessage(root, msg) =
          IF msg.outcome # "done" THEN msg
          ELSE IF content.outcome # "done" THEN content
          ELSE Done([kind |-> msg.value.kind, content |-> content.value])
    BY <1>3, <2>1, Zenon DEF HandleMessage
  <2>6. msg.outcome = "done" => content.outcome \in {"refused", "done"}
    <3> SUFFICES ASSUME msg.outcome = "done" PROVE content.outcome \in {"refused", "done"}
      OBVIOUS
    <3>1. msg.value.kind \in MessageType /\ msg.value.content = Member(root, "content")
      BY <2>2
    <3> DEFINE kind == msg.value.kind
               jv == Member(root, "content")
    <3>2. jv.type \in {"object", "null"}
      BY <1>3, MembersRead, Zenon
    <3>3. \A k \in MessageType : \A f \in DOMAIN createContentByKind[k] :
            f \in DOMAIN jv.members => Converts(jv.members[f], createContentByKind[k][f])
      BY <1>3, MembersRead, Zenon
    <3>4. kind \in MessageType /\ content = unmarshalContent(kind, jv)
      BY <3>1
    <3> HIDE DEF kind, jv
    <3>5. unmarshalContent(kind, jv).outcome \in {"refused", "done"}
      <4>1. \A f \in DOMAIN createContentByKind[kind] :
              f \in DOMAIN jv.members => Converts(jv.members[f], createContentByKind[kind][f])
        BY <3>3, <3>4, Zenon
      <4>2. kind \in MessageType
        BY <3>4
      <4> QED BY ONLY <3>2, <4>1, <4>2, ContentSafe
    <3> QED BY <3>4, <3>5, Zenon
  <2> HIDE DEF msg, content
  <2>7. HandleMessage(root, msg).outcome # "thrown"
    BY <1>1, <2>2, <2>5, <2>6
  <2> QED BY <2>4, <2>7
<1> QED BY <1>2, <1>3

(* Neither copy of HandleMessage throws on members such as toJson writes,  *)
(* whatever is missing or unknown, for any values.                         *)
THEOREM NothingElseThrows == MCSpec => []ThrowsOnlyOnTypes
<1>1. ReaderInv => ThrowsOnlyOnTypes
  <2> SUFFICES ASSUME ReaderInv, Kind("root"), AsWritten(input.text) PROVE ThrowsOnlyOnTypes
    BY Zenon DEF ThrowsOnlyOnTypes
  <2>1. output = {HandledByBase(input.text), HandledByClient(input.text)}
    BY InputOfKind
  <2>2. \A r \in output : r.outcome # "thrown"
    BY <2>1, HandleSafe, Zenon
  <2> QED BY <2>2, Zenon DEF ThrowsOnlyOnTypes
<1> QED BY <1>1, ReaderInvAlways, PTL
=============================================================================
