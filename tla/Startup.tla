------------------------------- MODULE Startup ------------------------------
(***************************************************************************)
(* config.cfg and the command line: how the server and the command-line    *)
(* client come to a host, a port and a keyspace (src/config.cpp,           *)
(* src/main.cpp, src/cli.cpp), when run.sh --cli starts both of them with  *)
(* the same arguments and the user edits the file.                         *)
(*                                                                         *)
(* Texts are only classified: by make_address, which knows addresses, by   *)
(* isAllSpace, and by stoi, which reads the number a text begins with.     *)
(***************************************************************************)
EXTENDS Integers, Sequences

CONSTANTS Text,      \* what may stand behind "=" or on the command line
          Nothing,   \* no text
          Address,   \* the texts that make_address accepts
          Blank,     \* the texts of spaces
          Number,    \* Number[v]: what stoi makes of v, or Throws
          Throws,
          Host0, Port0, Keyspace0,   \* Defaults, as texts
          Written,   \* bound: the lines the user may write
  Given,     \* bound: the arguments that run.sh may be given behind --cli
  MaxFile    \* bound: lines of config.cfg

(* A line <key>=<val>; a comment, whose key begins with #, has no other    *)
(* meaning than a key that nobody looks up.                                *)
ConfigLine == [key : {"host", "port", "keyspace", "other"}, val : Text \cup {Nothing}]

(* A port is a uint16_t.                                                   *)
Port == {n \in Nat : n <= 65535}

ASSUME TextAssumption ==
  /\ Written \subseteq ConfigLine /\ Given \subseteq Seq(Text)
  /\ {Host0, Port0, Keyspace0} \subseteq Text /\ Host0 \in Address
  /\ Nothing \notin Text /\ Address \cap Blank = {}
  /\ Number \in [Text -> Int \cup {Throws}] /\ Number[Port0] \in Port

VARIABLES
  file,     \* the lines of config.cfg, or NoFile
  server,   \* the server's Config, or Off
  client,   \* the client's Config, or Off
  args,     \* what run.sh was given behind --cli
  spawned   \* history: file is as spawnConfig wrote it

vars == <<file, server, client, args, spawned>>

NoFile == <<[key |-> "none", val |-> Nothing]>>
Off    == [host |-> Nothing, port |-> -1, keyspace |-> Nothing]

Defaults == [host |-> Host0, port |-> Number[Port0], keyspace |-> Keyspace0]

Init ==
  /\ file = NoFile
  /\ server = Off
  /\ client = Off
  /\ args = <<>>
  /\ spawned = FALSE
-----------------------------------------------------------------------------
(* validateHost, validatePort: cfg with the text, if it is a good one.     *)
WithHost(cfg, v) ==
  IF v \notin Blank /\ v \in Address THEN [cfg EXCEPT !.host = v] ELSE cfg

WithPort(cfg, v) ==
  IF Number[v] # Throws /\ Number[v] >= 0 /\ Number[v] <= 65535
  THEN [cfg EXCEPT !.port = Number[v] % 65536] ELSE cfg

MapOf_ReadsEmpty(f) ==   \* mutant: a line with nothing behind "=" counts
  [k \in {f[i].key : i \in DOMAIN f} |->
     f[CHOOSE i \in DOMAIN f :
         f[i].key = k /\ \A j \in DOMAIN f : f[j].key = k => j <= i].val]

MapOf_FirstCounts(f) ==   \* mutant: map.emplace(key, value)
  LET read == {i \in DOMAIN f : f[i].val # Nothing} IN
  [k \in {f[i].key : i \in read} |->
     f[CHOOSE i \in read : f[i].key = k /\ \A j \in read : f[j].key = k => j >= i].val]

(* parseConfig's map: a line with nothing behind "=" is not read, and of   *)
(* lines with one key the last counts.                                     *)
MapOf(f) ==
  LET read == {i \in DOMAIN f : f[i].val # Nothing} IN
  [k \in {f[i].key : i \in read} |->
     f[CHOOSE i \in read : f[i].key = k /\ \A j \in read : f[j].key = k => j <= i].val]

ParseConfig(f) ==
  LET map  == MapOf(f)
      cfg1 == IF "host" \in DOMAIN map THEN WithHost(Defaults, map["host"]) ELSE Defaults
      cfg2 == IF "port" \in DOMAIN map THEN WithPort(cfg1, map["port"]) ELSE cfg1
  IN IF "keyspace" \in DOMAIN map THEN [cfg2 EXCEPT !.keyspace = map["keyspace"]] ELSE cfg2

SpawnedFile_Swapped ==   \* mutant: the defaults in another order than their keys
  <<[key |-> "host", val |-> Host0], [key |-> "port", val |-> Keyspace0],
    [key |-> "keyspace", val |-> Port0]>>

SpawnedFile ==
  <<[key |-> "host", val |-> Host0], [key |-> "port", val |-> Port0],
    [key |-> "keyspace", val |-> Keyspace0]>>

(* The client's main: arguments after the file.                            *)
WithArgs(cfg, as) ==
  LET cfg1 == IF Len(as) > 0 THEN WithHost(cfg, as[1]) ELSE cfg
      cfg2 == IF Len(as) > 1 THEN WithPort(cfg1, as[2]) ELSE cfg1
  IN IF Len(as) > 2 THEN [cfg2 EXCEPT !.keyspace = as[3]] ELSE cfg2
-----------------------------------------------------------------------------
(* The user.                                                               *)
AddLine(l) ==
  /\ file = NoFile \/ Len(file) < MaxFile
  /\ file' = IF file = NoFile THEN <<l>> ELSE Append(file, l)
  /\ spawned' = FALSE
  /\ UNCHANGED <<server, client, args>>

RemoveFile ==
  /\ file # NoFile
  /\ file' = NoFile
  /\ spawned' = FALSE
  /\ UNCHANGED <<server, client, args>>

(* run.sh --cli as: the server's main spawns and reads the file, and does  *)
(* not look at its arguments.                                              *)
StartServer(as) ==
  /\ server = Off
  /\ file' = IF file = NoFile THEN SpawnedFile ELSE file
  /\ spawned' = (spawned \/ file = NoFile)
  /\ server' = ParseConfig(file')
  /\ args' = as
  /\ UNCHANGED client

(* Half a second later, the client's; it copes with a missing file.        *)
StartClient ==
  /\ server # Off /\ client = Off
  /\ client' = WithArgs(IF file = NoFile THEN Defaults ELSE ParseConfig(file), args)
  /\ UNCHANGED <<file, server, args, spawned>>

(* The line use, with nothing behind it, makes cli() ask for a keyspace,   *)
(* and take the answer as it is, an empty one as well.                     *)
Use(v) ==
  /\ client # Off
  /\ client' = [client EXCEPT !.keyspace = v]
  /\ UNCHANGED <<file, server, args, spawned>>

Stop ==
  /\ server # Off /\ client # Off
  /\ server' = Off
  /\ client' = Off
  /\ args' = <<>>
  /\ UNCHANGED <<file, spawned>>

Next ==
  \/ \E l \in Written : AddLine(l)
  \/ RemoveFile
  \/ \E as \in Given : StartServer(as)
  \/ StartClient
  \/ \E v \in Text \cup {Nothing} : Use(v)
  \/ Stop

Spec == Init /\ [][Next]_vars
-----------------------------------------------------------------------------
Config == [host : Text, port : Port, keyspace : Text]

Asked == [host : Text, port : Port, keyspace : Text \cup {Nothing}]

(* Above all: a keyspace (behind "keyspace=" in the file parseConfig       *)
(* reads) has a name, and so its files do; only the one that a client has  *)
(* been asked for may have none.                                           *)
TypeOK ==
  /\ file = NoFile \/ file \in Seq(ConfigLine)
  /\ server \in Config \cup {Off}
  /\ client \in Asked \cup {Off}
  /\ args \in Seq(Text)
  /\ spawned \in BOOLEAN

(* What the last line of f for key k that has a value says, if that is one *)
(* of the good ones, and else the default d.                               *)
LastLine(f, k, v) ==
  \E i \in DOMAIN f :
    /\ f[i].key = k /\ f[i].val = v
    /\ \A j \in DOMAIN f : j > i => f[j].key # k \/ f[j].val = Nothing

Says(f, k, good, d) ==
  IF \E v \in good : LastLine(f, k, v) THEN CHOOSE v \in good : LastLine(f, k, v) ELSE d

Hosts == {v \in Text : v \in Address /\ v \notin Blank}
Ports == {v \in Text : Number[v] # Throws /\ Number[v] \in Port}

(* A server that is started has host, port and keyspace of the last lines  *)
(* of the file, and a default just where that line is missing or is not    *)
(* usable: never a port that nobody wrote (the number is cut to 16 bits),  *)
(* a host that cannot be resolved, an earlier line's value, or the default *)
(* in spite of a good line.                                                *)
ServerTakesLastLines ==
  [][server' # server /\ server' # Off =>
       /\ server'.host = Says(file', "host", Hosts, Host0)
       /\ server'.port = Number[Says(file', "port", Ports, Port0)]
       /\ server'.keyspace = Says(file', "keyspace", Text, Keyspace0)]_vars

(* The file that the server writes when there is none (spawnConfig) means  *)
(* what a missing file means to parseConfig: its lines are read back.      *)
SpawnedMeansDefaults ==
  spawned => ParseConfig(file) = Defaults
-----------------------------------------------------------------------------
(* "You can also overwrite the settings at runtime by passing in arguments *)
(* from the command-line" (README.md): the client that run.sh starts looks *)
(* for the server where the server listens, if the file stays as it is.    *)
ClientFindsServer ==
  client # Off /\ server = ParseConfig(file) =>
    client.host = server.host /\ client.port = server.port

(* "use -> switch keyspace" (cli.cpp, welcome): the client that has asked  *)
(* for a keyspace works on that one.                                       *)
UseSwitches ==
  [][client # Off /\ client' \notin {Off, client} => server'.keyspace = client'.keyspace]_vars
=============================================================================
