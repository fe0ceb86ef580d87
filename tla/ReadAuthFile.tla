------------------------------- MODULE ReadAuthFile -------------------------------
(***************************************************************************)
(* ReadAuthFile (turnserver/read_auth_file.cc). A line has a name and the  *)
(* text after its first '=', or no '='; hex_decode is external: it gives   *)
(* the key, or "" for a text that is no hexadecimal number or one of more  *)
(* than 32 bytes.                                                          *)
(***************************************************************************)
EXTENDS Naturals, Sequences

Line(name, key) == [sep |-> TRUE, name |-> name, key |-> key]
NoSeparator == [sep |-> FALSE, name |-> "", key |-> ""]

(* Mutant: name_to_key[name] = key                                         *)
AddLineOver(name_to_key, line) ==
  IF ~line.sep \/ line.key = "" THEN name_to_key
  ELSE [n \in DOMAIN name_to_key \cup {line.name} |->
          IF n = line.name THEN line.key ELSE name_to_key[n]]

(* emplace leaves the key that a name has already                          *)
AddLine(name_to_key, line) ==
  IF ~line.sep \/ line.key = "" \/ line.name \in DOMAIN name_to_key THEN name_to_key
  ELSE [n \in DOMAIN name_to_key \cup {line.name} |->
          IF n = line.name THEN line.key ELSE name_to_key[n]]

ReadAuthFile(lines) ==
  LET name_to_key[i \in 0 .. Len(lines)] ==
        IF i = 0 THEN <<>> ELSE AddLine(name_to_key[i - 1], lines[i])
  IN  name_to_key[Len(lines)]
=============================================================================
