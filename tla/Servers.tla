--------------------------------- MODULE Servers ---------------------------------
(***************************************************************************)
(* The mains of the TURN server (turnserver/turnserver_main.cc) and of the *)
(* STUN server (stunserver/stunserver_main.cc). WebRTC's servers are       *)
(* external: the TURN server asks TurnFileAuth for the key of a user.      *)
(***************************************************************************)
EXTENDS Naturals, FiniteSets, ReadAuthFile

CONSTANT AuthFiles      \* what the file may hold: sequences of lines

VARIABLES
  program,       \* "turnserver" or "stunserver"
  argv,          \* its arguments, each good or bad
  at,            \* where main is
  bound,         \* it has its socket
  auth_file,     \* the lines of the file, or "missing"
  keys,          \* TurnFileAuth::name_to_key_
  served         \* the users whose key was found, and those it was not

vars == <<program, argv, at, bound, auth_file, keys, served>>

Users == UNION {{f[i].name : i \in DOMAIN f} : f \in AuthFiles}
NoUsers == [found |-> {}, refused |-> {}]

Init ==
  /\ program \in {"turnserver", "stunserver"}
  /\ argv \in UNION {[1 .. n -> {"good", "bad"}] : n \in 0 .. 5}
  /\ at = "main" /\ bound = FALSE /\ keys = <<>> /\ served = NoUsers
  /\ auth_file \in {[open |-> TRUE, lines |-> f] : f \in AuthFiles} \cup {[open |-> FALSE, lines |-> <<>>]}

Arguments == IF program = "turnserver" THEN 4 ELSE 1
Addresses == IF program = "turnserver" THEN {1, 2} ELSE {1}

ParseArguments ==
  /\ at = "main"
  /\ at' = IF Len(argv) # Arguments \/ (\E i \in Addresses : argv[i] = "bad") THEN "exit 1" ELSE "socket"
  /\ UNCHANGED <<program, argv, bound, auth_file, keys, served>>

CreateSocket ==      \* the address may be in use, or not be one of this host
  /\ at = "socket"
  /\ \/ at' = "exit 1" /\ UNCHANGED bound
     \/ at' = (IF program = "turnserver" THEN "auth" ELSE "run") /\ bound' = TRUE
  /\ UNCHANGED <<program, argv, auth_file, keys, served>>

ReadKeys ==      \* a file that cannot be opened is one without users
  /\ at = "auth" /\ at' = "run"
  /\ keys' = ReadAuthFile(auth_file.lines)
  /\ UNCHANGED <<program, argv, bound, auth_file, served>>

GetKey(user) ==
  /\ at = "run" /\ program = "turnserver"
  /\ served' = IF user \in DOMAIN keys
               THEN [served EXCEPT !.found = @ \cup {<<user, keys[user]>>}]
               ELSE [served EXCEPT !.refused = @ \cup {user}]
  /\ UNCHANGED <<program, argv, at, bound, auth_file, keys>>

Next == ParseArguments \/ CreateSocket \/ ReadKeys \/ \E user \in Users : GetKey(user)
Spec == Init /\ [][Next]_vars
=============================================================================
