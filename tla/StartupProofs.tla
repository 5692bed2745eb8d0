--------------------------- MODULE StartupProofs ----------------------------
(***************************************************************************)
(* Proofs about Startup for any texts, addresses and numbers, and any      *)
(* file: the types, what a server that starts takes from the file, and     *)
(* what the file is worth that it writes itself.                           *)
(***************************************************************************)
EXTENDS Startup, TLAPS, WellFoundedInduction

(* The lines that parseConfig reads.                                       *)
Read(f) == {i \in DOMAIN f : f[i].val # Nothing}

(* Line i of f is the last that counts for key k.                          *)
Last(f, k, i) ==
  /\ i \in Read(f) /\ f[i].key = k
  /\ \A j \in Read(f) : f[j].key = k => j <= i

(* Some index of a nonempty set of them is the largest.                    *)
LEMMA LargestIndex ==
  ASSUME NEW n \in Nat, NEW T \in SUBSET (1..n), T # {}
  PROVE  \E i \in T : \A j \in T : j <= i
<1> DEFINE After == {n - i : i \in T}
<1>0. \A i \in T : i \in Int /\ n - i \in Nat
  <2>1. \A i \in 1..n : i \in Int /\ n - i \in Nat
    OBVIOUS
  <2> QED  BY <2>1
<1>1. After \in SUBSET Nat /\ After # {}
  BY <1>0
<1>2. PICK R : R = OpToRel(<, Nat)
  OBVIOUS
<1>3. IsWellFoundedOn(R, Nat)
  BY <1>2, NatLessThanWellFounded
<1>4. PICK m \in After : \A h \in After : <<h, m>> \notin R
  <2> HIDE DEF After
  <2> QED  BY <1>1, <1>3, WFMin
<1>5. \A g, h \in Nat : <<g, h>> \in R <=> g < h
  BY <1>2 DEF OpToRel
<1>6. PICK i \in T : m = n - i
  OBVIOUS
<1>7. ASSUME NEW j \in T PROVE j <= i
  <2>1. n - j \in After /\ n - j \in Nat /\ m \in Nat
    BY <1>1
  <2>2. ~(n - j < m)
    BY <1>4, <1>5, <2>1
  <2>3. i \in Int /\ j \in Int
    BY <1>0
  <2> QED  BY <1>6, <2>2, <2>3
<1> QED  BY <1>7

(* The map has the value of the last line of each key.                     *)
LEMMA MapOfLast ==
  ASSUME NEW f \in Seq(ConfigLine)
  PROVE  /\ DOMAIN MapOf(f) = {f[i].key : i \in Read(f)}
         /\ \A k \in DOMAIN MapOf(f) : \E i \in DOMAIN f :
              Last(f, k, i) /\ MapOf(f)[k] = f[i].val /\ f[i].val \in Text
<1>1. MapOf(f) = [k \in {f[i].key : i \in Read(f)} |->
                    f[CHOOSE i \in Read(f) : f[i].key = k /\
                        \A j \in Read(f) : f[j].key = k => j <= i].val]
  BY DEF MapOf, Read
<1>2. ASSUME NEW k \in {f[i].key : i \in Read(f)}
      PROVE  \E i \in Read(f) : f[i].key = k /\
                \A j \in Read(f) : f[j].key = k => j <= i
  <2> DEFINE T == {i \in Read(f) : f[i].key = k}
  <2>1. T \in SUBSET (1..Len(f)) /\ T # {} /\ Len(f) \in Nat
    BY DEF Read
  <2>2. PICK i \in T : \A j \in T : j <= i
    <3> HIDE DEF T
    <3> QED  BY <2>1, LargestIndex
  <2> QED  BY <2>2
<1>3. \A i \in Read(f) : i \in DOMAIN f /\ f[i].val \in Text
  <2>1. \A i \in DOMAIN f : f[i] \in ConfigLine
    OBVIOUS
  <2> QED  BY <2>1 DEF Read, ConfigLine
<1> QED  BY <1>1, <1>2, <1>3 DEF Last
-----------------------------------------------------------------------------
(* The defaults, and whatever a good text changes in them, are a Config.    *)
LEMMA DefaultsType == Defaults \in Config
BY TextAssumption DEF Defaults, Config

(* validateHost leaves a Config.                                           *)
LEMMA WithHostType ==
  ASSUME NEW cfg \in Config, NEW v \in Text
  PROVE  WithHost(cfg, v) \in Config
BY DEF WithHost, Config

(* validatePort leaves a Config: the number is cut to a uint16_t.           *)
LEMMA WithPortType ==
  ASSUME NEW cfg \in Config, NEW v \in Text
  PROVE  WithPort(cfg, v) \in Config
<1>1. Number[v] # Throws => Number[v] \in Int
  BY TextAssumption
<1>2. Number[v] # Throws => Number[v] % 65536 \in Port
  BY <1>1 DEF Port
<1> QED  BY <1>2 DEF WithPort, Config

(* What the last line says is what parseConfig's map has for its key.      *)
LEMMA SaysWhatMapHas ==
  ASSUME NEW f \in Seq(ConfigLine), NEW k, NEW good \in SUBSET Text, NEW d
  PROVE  Says(f, k, good, d) = IF k \in DOMAIN MapOf(f) /\ MapOf(f)[k] \in good
                               THEN MapOf(f)[k] ELSE d
<1> DEFINE map == MapOf(f)
<1>1. Nothing \notin good /\ \A i \in DOMAIN f : i \in Int
  BY TextAssumption
<1>2. ASSUME NEW v \in good, LastLine(f, k, v)
      PROVE  k \in DOMAIN map /\ map[k] = v
  <2>1. PICK i \in DOMAIN f :
          /\ f[i].key = k /\ f[i].val = v
          /\ \A j \in DOMAIN f : j > i => f[j].key # k \/ f[j].val = Nothing
    BY <1>2 DEF LastLine
  <2>2. i \in Read(f) /\ k \in DOMAIN map
    BY <1>1, <2>1, MapOfLast DEF Read
  <2>3. PICK h \in DOMAIN f : Last(f, k, h) /\ map[k] = f[h].val
    BY <2>2, MapOfLast
  <2>4. i <= h /\ f[h].key = k /\ f[h].val # Nothing
    BY <2>1, <2>2, <2>3 DEF Last, Read
  <2>5. i = h
    BY <1>1, <2>1, <2>4
  <2> QED  BY <2>1, <2>2, <2>3, <2>5
<1>3. ASSUME k \in DOMAIN map, map[k] \in good
      PROVE  LastLine(f, k, map[k])
  <2>1. PICK h \in DOMAIN f : Last(f, k, h) /\ map[k] = f[h].val
    BY <1>3, MapOfLast
  <2>2. f[h].key = k /\ \A j \in Read(f) : f[j].key = k => j <= h
    BY <2>1 DEF Last
  <2>3. ASSUME NEW j \in DOMAIN f, j > h PROVE f[j].key # k \/ f[j].val = Nothing
    BY <1>1, <2>2, <2>3 DEF Read
  <2> QED  BY <2>1, <2>2, <2>3 DEF LastLine
<1> HIDE DEF map
<1>4. CASE k \in DOMAIN map /\ map[k] \in good
  BY <1>2, <1>3, <1>4 DEF Says, map
<1>5. CASE ~(k \in DOMAIN map /\ map[k] \in good)
  <2>1. ~\E v \in good : LastLine(f, k, v)
    BY <1>2, <1>5
  <2> QED  BY <1>5, <2>1 DEF Says, map
<1> QED  BY <1>4, <1>5

(* What a file means: host, port and keyspace of its last usable lines.    *)
LEMMA ParseConfigTakes ==
  ASSUME NEW f \in Seq(ConfigLine)
  PROVE  LET cfg == ParseConfig(f) IN
         /\ cfg \in Config
         /\ cfg.host = Says(f, "host", Hosts, Host0)
         /\ cfg.port = Number[Says(f, "port", Ports, Port0)]
         /\ cfg.keyspace = Says(f, "keyspace", Text, Keyspace0)
<1> DEFINE map == MapOf(f)
           cfg1 == IF "host" \in DOMAIN map THEN WithHost(Defaults, map["host"]) ELSE Defaults
           cfg2 == IF "port" \in DOMAIN map THEN WithPort(cfg1, map["port"]) ELSE cfg1
           cfg3 == IF "keyspace" \in DOMAIN map
                   THEN [cfg2 EXCEPT !.keyspace = map["keyspace"]] ELSE cfg2
<1>1. \A k \in DOMAIN map : map[k] \in Text
  BY MapOfLast
<1>2. ParseConfig(f) = cfg3
  BY DEF ParseConfig
<1>h. Says(f, "host", Hosts, Host0)
        = IF "host" \in DOMAIN map /\ map["host"] \in Hosts THEN map["host"] ELSE Host0
  BY SaysWhatMapHas DEF Hosts
<1>p. Says(f, "port", Ports, Port0)
        = IF "port" \in DOMAIN map /\ map["port"] \in Ports THEN map["port"] ELSE Port0
  BY SaysWhatMapHas DEF Ports
<1>k. Says(f, "keyspace", Text, Keyspace0)
        = IF "keyspace" \in DOMAIN map /\ map["keyspace"] \in Text
          THEN map["keyspace"] ELSE Keyspace0
  BY SaysWhatMapHas
<1> HIDE DEF map
<1>3. /\ cfg1 \in Config /\ cfg1.port = Defaults.port /\ cfg1.keyspace = Keyspace0
      /\ cfg1.host = Says(f, "host", Hosts, Host0)
  <2>1. CASE "host" \notin DOMAIN map
    BY <1>h, <2>1, DefaultsType DEF Defaults
  <2>2. CASE "host" \in DOMAIN map
    <3>1. map["host"] \in Text
      BY <1>1, <2>2
    <3>2. cfg1 \in Config
      BY <2>2, <3>1, DefaultsType, WithHostType
    <3> QED  BY <1>h, <2>2, <3>1, <3>2 DEF WithHost, Defaults, Hosts
  <2> QED  BY <2>1, <2>2
<1> HIDE DEF cfg1
<1>4. /\ cfg2 \in Config /\ cfg2.host = cfg1.host /\ cfg2.keyspace = cfg1.keyspace
      /\ cfg2.port = Number[Says(f, "port", Ports, Port0)]
  <2>1. CASE "port" \notin DOMAIN map
    BY <1>3, <1>p, <2>1 DEF Defaults
  <2>2. CASE "port" \in DOMAIN map
    <3>1. map["port"] \in Text
      BY <1>1, <2>2
    <3>2. cfg2 \in Config
      BY <1>3, <2>2, <3>1, WithPortType
    <3>3. Number[map["port"]] # Throws => Number[map["port"]] \in Int
      BY <3>1, TextAssumption
    <3>4. CASE map["port"] \in Ports
      <4>1. /\ Number[map["port"]] # Throws /\ Number[map["port"]] >= 0
            /\ Number[map["port"]] <= 65535
            /\ Number[map["port"]] % 65536 = Number[map["port"]]
        BY <3>3, <3>4 DEF Ports, Port
      <4>2. cfg2 = [cfg1 EXCEPT !.port = Number[map["port"]]]
        BY <2>2, <4>1 DEF WithPort
      <4> QED  BY <1>3, <1>p, <2>2, <3>2, <3>4, <4>2 DEF Config
    <3>5. CASE map["port"] \notin Ports
      <4>1. cfg2 = cfg1
        BY <2>2, <3>1, <3>3, <3>5 DEF WithPort, Ports, Port
      <4> QED  BY <1>3, <1>p, <3>5, <4>1 DEF Defaults
    <3> QED  BY <3>4, <3>5
  <2> QED  BY <2>1, <2>2
<1> HIDE DEF cfg2
<1>5. /\ cfg3 \in Config /\ cfg3.host = cfg2.host /\ cfg3.port = cfg2.port
      /\ cfg3.keyspace = Says(f, "keyspace", Text, Keyspace0)
  <2>1. "keyspace" \in DOMAIN map => map["keyspace"] \in Text
    BY <1>1
  <2> QED  BY <1>3, <1>4, <1>k, <2>1 DEF Config
<1> HIDE DEF cfg3
<1> QED  BY <1>2, <1>3, <1>4, <1>5

(* Every line of the file that spawnConfig writes is read back.            *)
LEMMA SpawnedFileMeans ==
  SpawnedFile \in Seq(ConfigLine) /\ ParseConfig(SpawnedFile) = Defaults
<1> DEFINE f == SpawnedFile
           map == MapOf(f)
<1>1. /\ f \in Seq(ConfigLine) /\ DOMAIN f = 1..3
      /\ f[1].key = "host" /\ f[1].val = Host0
      /\ f[2].key = "port" /\ f[2].val = Port0
      /\ f[3].key = "keyspace" /\ f[3].val = Keyspace0
  BY TextAssumption DEF SpawnedFile, ConfigLine
<1>2. Read(f) = 1..3
  BY <1>1, TextAssumption DEF Read
<1> HIDE DEF f, map
<1>3. DOMAIN map = {"host", "port", "keyspace"}
  <2>1. {f[i].key : i \in 1..3} = {"host", "port", "keyspace"}
    BY <1>1
  <2> QED  BY <1>1, <1>2, <2>1, MapOfLast DEF map
<1>4. map["host"] = Host0 /\ map["port"] = Port0 /\ map["keyspace"] = Keyspace0
  <2>1. \A k \in DOMAIN map : \E i \in DOMAIN f :
          Last(f, k, i) /\ map[k] = f[i].val
    BY <1>1, MapOfLast DEF map
  <2>2. \A k \in DOMAIN map : \E i \in 1..3 : f[i].key = k /\ map[k] = f[i].val
    BY <1>1, <2>1 DEF Last
  <2> QED  BY <1>1, <1>3, <2>2
<1>5. WithHost(Defaults, Host0) = Defaults
  BY DEF WithHost, Defaults
<1>6. WithPort(Defaults, Port0) = Defaults
  BY TextAssumption DEF WithPort, Defaults
<1>7. [Defaults EXCEPT !.keyspace = Keyspace0] = Defaults
  BY DEF Defaults
<1> QED  BY <1>1, <1>3, <1>4, <1>5, <1>6, <1>7 DEF ParseConfig, map, f
-----------------------------------------------------------------------------
(* The arguments change a Config into a Config.                            *)
LEMMA WithArgsType ==
  ASSUME NEW cfg \in Config, NEW given \in Seq(Text)
  PROVE  WithArgs(cfg, given) \in Config
<1> DEFINE cfg1 == IF Len(given) > 0 THEN WithHost(cfg, given[1]) ELSE cfg
           cfg2 == IF Len(given) > 1 THEN WithPort(cfg1, given[2]) ELSE cfg1
           cfg3 == IF Len(given) > 2 THEN [cfg2 EXCEPT !.keyspace = given[3]] ELSE cfg2
<1>1. /\ Len(given) > 0 => given[1] \in Text
      /\ Len(given) > 1 => given[2] \in Text
      /\ Len(given) > 2 => given[3] \in Text
  <2>1. Len(given) \in Nat /\ \A n \in 1..Len(given) : given[n] \in Text
    OBVIOUS
  <2>2. /\ Len(given) > 0 => 1 \in 1..Len(given)
        /\ Len(given) > 1 => 2 \in 1..Len(given)
        /\ Len(given) > 2 => 3 \in 1..Len(given)
    BY <2>1
  <2> QED  BY <2>1, <2>2
<1>2. cfg1 \in Config
  BY <1>1, WithHostType
<1> HIDE DEF cfg1
<1>3. cfg2 \in Config
  BY <1>1, <1>2, WithPortType
<1> HIDE DEF cfg2
<1>4. cfg3 \in Config
  BY <1>1, <1>3 DEF Config
<1> USE DEF cfg1, cfg2
<1> QED  BY <1>4 DEF WithArgs

(* The inductive invariant: the file spawnConfig wrote is still that file. *)
StartupInv == TypeOK /\ (spawned => file = SpawnedFile)

(* It holds before anything is started.                                    *)
LEMMA StartupInit == Init => StartupInv
<1> SUFFICES ASSUME Init PROVE StartupInv
  OBVIOUS
<1>1. args \in Seq(Text)
  BY DEF Init
<1>2. spawned \in BOOLEAN
  BY Zenon DEF Init
<1> QED  BY <1>1, <1>2 DEF Init, StartupInv, TypeOK

(* Every step of the user, the server and the client keeps it.             *)
LEMMA StartupStep == StartupInv /\ [Next]_vars => StartupInv'
<1> SUFFICES ASSUME StartupInv, [Next]_vars PROVE StartupInv'
  OBVIOUS
<1> USE DEF StartupInv, TypeOK
<1>1. ASSUME NEW l \in Written, AddLine(l) PROVE StartupInv'
  <2>1. l \in ConfigLine
    BY TextAssumption
  <2>2. file' \in Seq(ConfigLine)
    BY <1>1, <2>1 DEF AddLine
  <2> QED  BY <1>1, <2>2 DEF AddLine
<1>2. CASE RemoveFile
  BY <1>2 DEF RemoveFile
<1>3. ASSUME NEW given \in Given, StartServer(given) PROVE StartupInv'
  <2>1. file' \in Seq(ConfigLine)
    BY <1>3, SpawnedFileMeans DEF StartServer
  <2>2. server' \in Config
    BY <1>3, <2>1, ParseConfigTakes DEF StartServer
  <2>3. args' \in Seq(Text)
    BY <1>3, TextAssumption DEF StartServer
  <2>4. spawned' \in BOOLEAN
    BY <1>3, Zenon DEF StartServer
  <2>5. spawned' => file' = SpawnedFile
    BY <1>3 DEF StartServer
  <2> QED  BY <1>3, <2>1, <2>2, <2>3, <2>4, <2>5 DEF StartServer
<1>4. CASE StartClient
  <2>1. (IF file = NoFile THEN Defaults ELSE ParseConfig(file)) \in Config
    BY DefaultsType, ParseConfigTakes
  <2>2. client' \in Asked
    <3>1. client' \in Config
      BY <1>4, <2>1, WithArgsType DEF StartClient
    <3> QED  BY <3>1 DEF Config, Asked
  <2> QED  BY <1>4, <2>2 DEF StartClient
<1>5. ASSUME NEW v \in Text \cup {Nothing}, Use(v) PROVE StartupInv'
  <2>1. client \in Asked
    BY <1>5 DEF Use
  <2>2. client' \in Asked
    BY <1>5, <2>1 DEF Use, Asked
  <2> QED  BY <1>5, <2>2 DEF Use
<1>6. CASE Stop
  BY <1>6 DEF Stop
<1>7. CASE UNCHANGED vars
  BY <1>7 DEF vars
<1> QED  BY <1>1, <1>2, <1>3, <1>4, <1>5, <1>6, <1>7 DEF Next

(* What is inductive holds of every behaviour.                             *)
LEMMA StartupAlways == Spec => []StartupInv
BY StartupInit, StartupStep, PTL DEF Spec

(* Server and client come to a host that is an address or what the file    *)
(* says is one, to a port of 16 bits and to a keyspace with a name,        *)
(* whatever the file and the arguments are (config.cpp, cli.cpp).          *)
THEOREM TypeCorrect == Spec => []TypeOK
<1>1. StartupInv => TypeOK
  BY DEF StartupInv
<1> QED  BY <1>1, StartupAlways, PTL

(* The file that the server writes when there is none means what a missing *)
(* file means: spawnConfig's lines are read back as the defaults, by the   *)
(* server that wrote it and by every later one and its clients.            *)
THEOREM SpawnedIsDefault == Spec => []SpawnedMeansDefaults
<1>1. StartupInv => SpawnedMeansDefaults
  BY SpawnedFileMeans DEF StartupInv, SpawnedMeansDefaults
<1> QED  BY <1>1, StartupAlways, PTL

(* A server that starts takes what the last lines of the file say, and the *)
(* default just where such a line is missing or unusable: parseConfig's    *)
(* map keeps the last value, and neither an unusable port nor an           *)
(* unresolvable host gets into the Config.                                 *)
THEOREM ServerTakes == Spec => ServerTakesLastLines
<1> DEFINE Takes ==
      server' # server /\ server' # Off =>
        /\ server'.host = Says(file', "host", Hosts, Host0)
        /\ server'.port = Number[Says(file', "port", Ports, Port0)]
        /\ server'.keyspace = Says(file', "keyspace", Text, Keyspace0)
<1>1. StartupInv /\ [Next]_vars => [Takes]_vars
  <2> SUFFICES ASSUME StartupInv, Next, server' # server, server' # Off
               PROVE  Takes
    BY DEF vars
  <2>1. PICK given \in Given : StartServer(given)
    BY DEF Next, AddLine, RemoveFile, StartClient, Use, Stop
  <2>2. file' \in Seq(ConfigLine) /\ server' = ParseConfig(file')
    BY <2>1, SpawnedFileMeans DEF StartServer, StartupInv, TypeOK
  <2> QED  BY <2>2, ParseConfigTakes
<1> QED  BY <1>1, StartupAlways, PTL DEF Spec, ServerTakesLastLines
=============================================================================
