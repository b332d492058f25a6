------------------------- MODULE ProvisioningProofs --------------------------
(***************************************************************************)
(* What generate_certs.py, setup_device.py and the entry points of the two *)
(* servers promise, for any number of runs, wherever they are killed and   *)
(* however they overlap.                                                   *)
(***************************************************************************)
EXTENDS Provisioning, SequenceTheorems, TLAPS

gen == script["generate_certs"]
dev == script["setup_device"]

(* The files of generate_certs in the order it writes them, and what its   *)
(* run r writes to each.                                                   *)
Order == <<Key("ca"), Crt("ca"), Key("as"), Crt("as"), Key("rs"), Crt("rs"),
           Key("idevid"), Crt("idevid"), Key("ldevid"), Crt("ldevid")>>

Made(file, r) == Document(<<r, file[1]>>, IF file[2] = "crt" THEN <<r, "ca">> ELSE NoKey)

IsFrom(i, r) == disk[Order[i]] = Made(Order[i], r)

(* Nobody but generate_certs writes the first eight.                       *)
OnlyGenerated == 1..8

(* Where generate_certs is, and what it has still to put into place.       *)
Pos == 11 - Len(gen.left)
Due(i) == i > Pos \/ (i = Pos /\ gen.step # "chmod")

GenPlan ==
    /\ gen.pc \in {"idle", "write"}
    /\ gen.pc = "write" =>
         /\ gen.run \in 1..runs
         /\ Len(gen.left) \in 1..10
         /\ \A i \in 1..Len(gen.left) :
              gen.left[i] = [file |-> Order[Pos + i - 1], content |-> Made(Order[Pos + i - 1], gen.run)]
         /\ gen.step = "chmod" => Order[Pos][2] = "key"

(* What this run of generate_certs has done, and what it has not done.  If *)
(* nobody disturbs it, that holds of the files of the LDevID too.          *)
GenProgress ==
    gen.pc = "write" =>
      /\ \A i \in OnlyGenerated : IsFrom(i, gen.run) <=> ~Due(i)
      /\ \A i \in 1..10 : i < Pos /\ Order[i][2] = "key" => Order[i] \in private
      /\ gen.undisturbed =>
           /\ ~Due(9) => IsFrom(9, gen.run)
           /\ IsWhole(Crt("ldevid")) => disk[Crt("ldevid")].signer # <<gen.run, "ca">>

(* Where the files come from.                                              *)
Origin ==
    /\ \A i \in OnlyGenerated : IsWhole(Order[i]) => \E r \in 1..runs : IsFrom(i, r)
    /\ IsWhole(Crt("ldevid")) => \E q \in 1..runs : disk[Crt("ldevid")].signer = <<q, "ca">>

(* If two files are from one run, so is every file between them.           *)
Contiguous ==
    \A i, j, k \in OnlyGenerated : i < j /\ j < k =>
        \A r \in 1..MaxRuns : IsFrom(i, r) /\ IsFrom(k, r) => IsFrom(j, r)

(* An LDevID that chains to ca.crt means that the IDevID does.             *)
Enrolled ==
    ~overlap /\ IsWhole(Crt("ldevid")) =>
        \A r \in 1..MaxRuns :
            IsFrom(2, r) /\ disk[Crt("ldevid")].signer = <<r, "ca">> => IsFrom(8, r)

(* What the two scripts know of each other.                                *)
Apart ==
    /\ gen.pc # "idle" /\ dev.pc # "idle" => overlap /\ ~gen.undisturbed /\ ~dev.undisturbed
    /\ gen.pc # "idle" /\ ~gen.undisturbed => overlap
    /\ sound => gen.pc = "idle" /\ dev.pc = "idle"

(* What setup_device has still to write.                                   *)
DevFiles == {dev.left[i].file : i \in 1..Len(dev.left)}

DevPlan ==
    /\ dev.pc # "idle" => dev.run \in 1..runs
    /\ dev.pc # "write" => dev.step = "open"
    /\ dev.pc = "write" =>
        /\ dev.left # << >>
        /\ \A i \in 1..Len(dev.left) :
             \/ \E q \in 1..runs : dev.left[i] = Write(Crt("ldevid"), <<dev.run, "ldevid">>, <<q, "ca">>)
             \/ dev.left[i] = Write(Key("ldevid"), <<dev.run, "ldevid">>, NoKey)
             \/ dev.left[i] = Write(device_config, NoKey, NoKey)
        /\ dev.step = "chmod" => Head(dev.left).file = Key("ldevid")

(* What it has read is still so.                                           *)
DevRead ==
    ~overlap =>
       /\ dev.pc \in {"load_ca_cert", "load_ca_key"} =>
            IsWhole(Crt("idevid")) /\ dev.idevid = disk[Crt("idevid")].signer
       /\ dev.pc = "load_ca_key" =>
            IsWhole(Crt("ca")) /\ dev.ca = disk[Crt("ca")].key
       /\ dev.pc = "write" => \E r \in 1..MaxRuns : IsFrom(2, r) /\ IsFrom(8, r)

(* What it finds and leaves if nobody disturbs it.                         *)
Good(name) == Usable(name) /\ Key(name) \in private

DevProgress ==
    dev.undisturbed /\ dev.pc # "idle" =>
        /\ \A name \in Names \ {"ldevid"} : Good(name)
        /\ Key("ldevid") \in private
        /\ dev.pc # "write" => Usable("ldevid")
        /\ dev.pc = "write" =>
             /\ \A i \in 1..Len(dev.left) : dev.left[i].file = Crt("ldevid") =>
                    dev.left[i].content.signer = disk[Crt("ca")].key
             /\ Crt("ldevid") \notin DevFiles =>
                    disk[Crt("ldevid")] = Document(<<dev.run, "ldevid">>, disk[Crt("ca")].key)
             /\ Key("ldevid") \notin DevFiles \/ dev.step = "chmod" =>
                    disk[Key("ldevid")] = Document(<<dev.run, "ldevid">>, NoKey)

IInv ==
    /\ TypeOK
    /\ GenPlan /\ GenProgress
    /\ Origin /\ Contiguous /\ Enrolled
    /\ Apart
    /\ DevPlan /\ DevRead /\ DevProgress
    /\ DiskIsWhole

-----------------------------------------------------------------------------
(* The positions of the files, one by one.                                 *)
LEMMA OrderIs ==
    /\ Order[1] = <<"ca", "key">> /\ Order[2] = <<"ca", "crt">>
    /\ Order[3] = <<"as", "key">> /\ Order[4] = <<"as", "crt">>
    /\ Order[5] = <<"rs", "key">> /\ Order[6] = <<"rs", "crt">>
    /\ Order[7] = <<"idevid", "key">> /\ Order[8] = <<"idevid", "crt">>
    /\ Order[9] = <<"ldevid", "key">> /\ Order[10] = <<"ldevid", "crt">>
BY DEF Order, Key, Crt

(* Ten different files; the first eight are not of the LDevID.             *)
LEMMA OrderFacts ==
    /\ \A i \in 1..10 : Order[i] \in Names \X {"key", "crt"} /\ Order[i] \in Files
    /\ \A i, j \in 1..10 : Order[i] = Order[j] => i = j
    /\ \A i \in OnlyGenerated : i \in 1..10 /\ Order[i][1] # "ldevid" /\ Order[i] # device_config
<1>1. \A i \in 1..10 : \/ i = 1 \/ i = 2 \/ i = 3 \/ i = 4 \/ i = 5
                       \/ i = 6 \/ i = 7 \/ i = 8 \/ i = 9 \/ i = 10
  OBVIOUS
<1>2. ASSUME NEW i \in 1..10
      PROVE  /\ Order[i] \in Names \X {"key", "crt"}
             /\ Order[i] = <<Order[i][1], Order[i][2]>>
             /\ Order[i][1] = IF i \in {1, 2} THEN "ca" ELSE IF i \in {3, 4} THEN "as"
                              ELSE IF i \in {5, 6} THEN "rs" ELSE IF i \in {7, 8} THEN "idevid"
                              ELSE "ldevid"
             /\ Order[i][2] = IF i \in {1, 3, 5, 7, 9} THEN "key" ELSE "crt"
  <2>1. CASE i = 1  BY <2>1, OrderIs DEF Names
  <2>2. CASE i = 2  BY <2>2, OrderIs DEF Names
  <2>3. CASE i = 3  BY <2>3, OrderIs DEF Names
  <2>4. CASE i = 4  BY <2>4, OrderIs DEF Names
  <2>5. CASE i = 5  BY <2>5, OrderIs DEF Names
  <2>6. CASE i = 6  BY <2>6, OrderIs DEF Names
  <2>7. CASE i = 7  BY <2>7, OrderIs DEF Names
  <2>8. CASE i = 8  BY <2>8, OrderIs DEF Names
  <2>9. CASE i = 9  BY <2>9, OrderIs DEF Names
  <2>10. CASE i = 10  BY <2>10, OrderIs DEF Names
  <2> QED BY <1>1, <2>1, <2>2, <2>3, <2>4, <2>5, <2>6, <2>7, <2>8, <2>9, <2>10
<1>3. \A i \in 1..10 : Order[i] \in Files
  BY <1>2 DEF Files
<1>4. ASSUME NEW i \in 1..10, NEW j \in 1..10, Order[i] = Order[j] PROVE i = j
  <2>1. Order[i][1] = Order[j][1] /\ Order[i][2] = Order[j][2]
    BY <1>4
  <2> QED BY <1>1, <1>2, <2>1
<1>5. \A i \in OnlyGenerated : i \in 1..10 /\ Order[i][1] # "ldevid"
  BY <1>2 DEF OnlyGenerated
<1>6. \A i \in 1..10 : Order[i] # device_config
  BY <1>2 DEF device_config, Names
<1> QED BY <1>2, <1>3, <1>4, <1>5, <1>6

(* What a run writes tells which run it was.                               *)
LEMMA MadeFacts ==
    ASSUME NEW f \in Names \X {"key", "crt"}, NEW r \in 1..MaxRuns
    PROVE  /\ Made(f, r) \in Content
           /\ Made(f, r) # Missing /\ Made(f, r) # Torn
           /\ Made(f, r).key = <<r, f[1]>>
           /\ f[2] = "crt" => Made(f, r).signer = <<r, "ca">>
           /\ \A q \in 1..MaxRuns : Made(f, q) = Made(f, r) => q = r
<1>1. f[1] \in Names /\ "ca" \in Names
  BY DEF Names
<1>2. <<r, f[1]>> \in Keys /\ <<r, "ca">> \in Keys
  BY <1>1 DEF Keys
<1>3. PICK s \in Keys \cup {NoKey} : s = IF f[2] = "crt" THEN <<r, "ca">> ELSE NoKey
  BY <1>2
<1>4. Made(f, r) = Document(<<r, f[1]>>, s)
  BY <1>3 DEF Made
<1>5. Made(f, r) \in Content
  BY <1>2, <1>4 DEF Document, Content
<1>6. /\ Made(f, r).key = <<r, f[1]>>
      /\ f[2] = "crt" => Made(f, r).signer = <<r, "ca">>
  BY <1>3, <1>4 DEF Document
<1>7. ASSUME NEW q \in 1..MaxRuns, Made(f, q) = Made(f, r) PROVE q = r
  <2>1. Made(f, q).key = <<q, f[1]>>
    BY DEF Made, Document
  <2> QED BY <1>6, <1>7, <2>1
<1> QED BY <1>5, <1>6, <1>7, MarksAssumption

(* What the generators of generate_certs.py write, joined by main, is one  *)
(* file after the other in the order of Order.                             *)
Program(r) ==
    generate_ca(r) \o generate_end_entity("as", r) \o generate_end_entity("rs", r)
        \o generate_end_entity("idevid", r) \o generate_end_entity("ldevid", r)

Item(i, r) == [file |-> Order[i], content |-> Made(Order[i], r)]

Step == [file : Files, content : Content]

(* A step of generate_certs has the type of a step.                        *)
LEMMA ItemFacts ==
    ASSUME NEW i \in 1..10, NEW r \in 1..MaxRuns
    PROVE  Item(i, r) \in Step
BY OrderFacts, MadeFacts DEF Item, Step

(* s is the first n steps of run r.                                        *)
Starts(s, n, r) ==
    s \in Seq(Step) /\ Len(s) = n /\ \A i \in 1..n : s[i] = Item(i, r)

(* One key pair more: two steps are added to the first n.                  *)
LEMMA ProgramGrows ==
    ASSUME NEW r \in 1..MaxRuns, NEW n \in 0..8, NEW s, Starts(s, n, r),
           NEW k, NEW l, k = n + 1, l = n + 2
    PROVE  Starts(s \o <<Item(k, r), Item(l, r)>>, l, r)
<1>1. PICK a, b, t : a = Item(k, r) /\ b = Item(l, r) /\ t = s \o <<a, b>>
  OBVIOUS
<1>2. a \in Step /\ b \in Step
  BY <1>1, ItemFacts
<1>3. /\ t \in Seq(Step) /\ Len(t) = n + 2
      /\ \A i \in 1..n : t[i] = s[i]
      /\ t[n + 1] = a /\ t[n + 2] = b
  <2>1. s \in Seq(Step) /\ Len(s) = n
    BY DEF Starts
  <2>2. /\ s \o <<a, b>> \in Seq(Step)
        /\ Len(s \o <<a, b>>) = Len(s) + 2
        /\ \A i \in 1..Len(s) : (s \o <<a, b>>)[i] = s[i]
        /\ (s \o <<a, b>>)[Len(s) + 1] = a
        /\ (s \o <<a, b>>)[Len(s) + 2] = b
    BY ONLY <1>2, <2>1
  <2> QED BY ONLY <1>1, <2>1, <2>2, Zenon
<1>4. ASSUME NEW i \in 1..l PROVE t[i] = Item(i, r)
  <2>1. CASE i \in 1..n  BY <2>1, <1>3 DEF Starts
  <2>2. CASE i = n + 1  BY <2>2, <1>3, <1>1
  <2>3. CASE i = n + 2  BY <2>3, <1>3, <1>1
  <2> QED BY <2>1, <2>2, <2>3
<1> QED BY <1>1, <1>3, <1>4 DEF Starts

(* main writes the ten files in the order of Order.                        *)
LEMMA ProgramIs ==
    ASSUME NEW r \in 1..MaxRuns
    PROVE  Starts(Program(r), 10, r)
<1>1. /\ generate_ca(r) = <<Item(1, r), Item(2, r)>>
      /\ generate_end_entity("as", r) = <<Item(3, r), Item(4, r)>>
      /\ generate_end_entity("rs", r) = <<Item(5, r), Item(6, r)>>
      /\ generate_end_entity("idevid", r) = <<Item(7, r), Item(8, r)>>
      /\ generate_end_entity("ldevid", r) = <<Item(9, r), Item(10, r)>>
  BY OrderIs DEF generate_ca, generate_end_entity, Item, Made, Write, CaKey, Key, Crt
<1>2. Starts(generate_ca(r), 2, r)
  <2>1. PICK a : a = <<Item(1, r), Item(2, r)>>
    OBVIOUS
  <2>2. a \in Seq(Step) /\ Len(a) = 2 /\ a[1] = Item(1, r) /\ a[2] = Item(2, r)
    BY <2>1, ItemFacts
  <2> QED BY <1>1, <2>1, <2>2 DEF Starts
<1>3. Starts(generate_ca(r) \o generate_end_entity("as", r), 4, r)
  BY <1>1, <1>2, ProgramGrows
<1>4. Starts(generate_ca(r) \o generate_end_entity("as", r)
               \o generate_end_entity("rs", r), 6, r)
  BY <1>1, <1>3, ProgramGrows
<1>5. Starts(generate_ca(r) \o generate_end_entity("as", r)
               \o generate_end_entity("rs", r) \o generate_end_entity("idevid", r), 8, r)
  BY <1>1, <1>4, ProgramGrows
<1>6. Starts(generate_ca(r) \o generate_end_entity("as", r)
               \o generate_end_entity("rs", r) \o generate_end_entity("idevid", r)
               \o generate_end_entity("ldevid", r), 10, r)
  BY <1>1, <1>5, ProgramGrows
<1> QED BY <1>6 DEF Program

-----------------------------------------------------------------------------
(* Types.                                                                  *)
LEMMA RunningIs == Running =
    [pc : {"idle", "load_idevid", "load_ca_cert", "load_ca_key", "write"}, run : 0..MaxRuns,
     left : Seq(Step), step : {"open", "fill", "chmod"},
     idevid : Keys \cup {NoKey}, ca : Keys \cup {NoKey}, undisturbed : BOOLEAN]
BY DEF Running, Step

(* A script that does nothing has a type.                                  *)
LEMMA IdleType == Idle \in Running
BY RunsAssumption DEF Running, Idle

(* A server that is down has a type.                                       *)
LEMMA DownType == Down \in
        [pc : {"down", "loading", "up"}, command : [as_cert : Names, pair : Names],
         key : Keys \cup {NoKey}, own : Content, quiet : BOOLEAN, fresh : BOOLEAN]
BY DEF Down, Names, Content, Document

(* The parts of a script's state, each with its type.                      *)
LEMMA StepType ==
    ASSUME TypeOK, NEW s \in Scripts
    PROVE  /\ script[s] \in Running
           /\ script[s].left \in Seq(Step)
           /\ script[s].left # << >> => Head(script[s].left) \in Step
           /\ script[s].left # << >> => Tail(script[s].left) \in Seq(Step)
<1>1. script[s] \in Running
  BY DEF TypeOK
<1>2. script[s].left \in Seq(Step)
  BY <1>1, RunningIs
<1>3. PICK l : l = script[s].left
  OBVIOUS
<1>4. l # << >> => Head(l) \in Step /\ Tail(l) \in Seq(Step)
  BY ONLY <1>2, <1>3
<1> QED BY <1>1, <1>2, <1>3, <1>4

(* The end of a script keeps the types.                                    *)
LEMMA EndType ==
    ASSUME TypeOK, NEW s \in Scripts, End(s)
    PROVE  script' \in [Scripts -> Running] /\ sound' \in BOOLEAN /\ overlap' \in BOOLEAN
<1>1. script[s] \in Running
  BY StepType
<1>2. script[s].undisturbed \in BOOLEAN
  BY <1>1 DEF Running
<1> QED BY <1>2, IdleType DEF End, TypeOK

(* Turning to the next file keeps the types.                               *)
LEMMA NextFileType ==
    ASSUME TypeOK, NEW s \in Scripts, NextFile(s), script[s].left # << >>
    PROVE  script' \in [Scripts -> Running] /\ sound' \in BOOLEAN /\ overlap' \in BOOLEAN
<1>1. CASE End(s)
  BY <1>1, EndType
<1>2. CASE /\ script' = [script EXCEPT ![s].left = Tail(@), ![s].step = "open"]
           /\ UNCHANGED <<sound, overlap>>
  <2>1. script[s] \in Running /\ Tail(script[s].left) \in Seq(Step)
    BY StepType
  <2>2. [script[s] EXCEPT !.left = Tail(script[s].left), !.step = "open"] \in Running
    BY <2>1, RunningIs
  <2>3. script' = [script EXCEPT ![s] = [script[s] EXCEPT !.left = Tail(script[s].left), !.step = "open"]]
    BY <1>2, <2>1 DEF TypeOK
  <2> QED BY <1>2, <2>2, <2>3 DEF TypeOK
<1> QED BY <1>1, <1>2 DEF NextFile

(* Writing a file keeps the types of the files and the servers.            *)
LEMMA PutType ==
    ASSUME TypeOK, NEW s \in Scripts, NEW c \in Content \cup {Torn}, Put(s, c),
           script[s].left # << >>
    PROVE  /\ disk' \in [Files -> Content \cup {Missing, Torn}]
           /\ server' \in [Servers ->
                [pc : {"down", "loading", "up"}, command : [as_cert : Names, pair : Names],
                 key : Keys \cup {NoKey}, own : Content, quiet : BOOLEAN, fresh : BOOLEAN]]
<1>1. disk' \in [Files -> Content \cup {Missing, Torn}]
  <2>1. Head(script[s].left).file \in Files
    BY StepType DEF Step
  <2> QED BY <2>1 DEF Put, TypeOK
<1>2. ASSUME NEW v \in Servers
      PROVE  [server[v] EXCEPT !.quiet = @ /\ server[v].pc # "loading"] \in
               [pc : {"down", "loading", "up"}, command : [as_cert : Names, pair : Names],
                key : Keys \cup {NoKey}, own : Content, quiet : BOOLEAN, fresh : BOOLEAN]
  BY DEF TypeOK
<1> QED BY <1>1, <1>2 DEF Put

(* The start of a script keeps the types.                                  *)
LEMMA StartType ==
    ASSUME TypeOK, NEW s \in Scripts, NEW first \in Running, Start(s, first)
    PROVE  /\ script' \in [Scripts -> Running] /\ runs' \in 0..MaxRuns
           /\ sound' \in BOOLEAN /\ overlap' \in BOOLEAN
<1>1. runs' \in 0..MaxRuns /\ runs' = runs + 1
  <2>1. runs' = runs + 1 /\ runs < MaxRuns
    BY DEF Start
  <2>2. runs \in 0..MaxRuns
    BY DEF TypeOK
  <2> QED BY <2>1, <2>2, RunsAssumption
<1>2. PICK alone : alone = \A o \in Scripts \ {s} : script[o].pc = "idle"
  OBVIOUS
<1>3. PICK b \in BOOLEAN : b = (alone /\ (s = "setup_device" => sound))
  OBVIOUS
<1>4. [first EXCEPT !.run = runs + 1, !.undisturbed = b] \in Running
  BY <1>1, RunningIs
<1>5. \A o \in Scripts : [script[o] EXCEPT !.undisturbed = FALSE] \in Running
  BY StepType, RunningIs
<1>6. script' = [o \in Scripts |->
                   IF o = s THEN [first EXCEPT !.run = runs + 1, !.undisturbed = b]
                   ELSE [script[o] EXCEPT !.undisturbed = FALSE]]
  BY <1>2, <1>3 DEF Start
<1>7. script' \in [Scripts -> Running]
  BY <1>4, <1>5, <1>6
<1>8. sound' \in BOOLEAN /\ overlap' \in BOOLEAN
  BY DEF Start, TypeOK
<1> QED BY <1>1, <1>7, <1>8

(* What a script that writes has still to write is not nothing.            *)
Writing == \A s \in Scripts : script[s].pc = "write" => script[s].left # << >>

Serving ==
    [pc : {"down", "loading", "up"}, command : [as_cert : Names, pair : Names],
     key : Keys \cup {NoKey}, own : Content, quiet : BOOLEAN, fresh : BOOLEAN]

(* What a file may hold; a whole file is a document.                       *)
LEMMA DiskType ==
    ASSUME TypeOK, NEW f \in Files
    PROVE  /\ disk[f] \in Content \cup {Missing, Torn}
           /\ IsWhole(f) <=> disk[f] \in Content
           /\ IsWhole(f) => disk[f].key \in Keys \cup {NoKey} /\ disk[f].signer \in Keys \cup {NoKey}
<1>1. disk[f] \in Content \cup {Missing, Torn}
  BY DEF TypeOK
<1>2. IsWhole(f) <=> disk[f] \in Content
  BY <1>1, MarksAssumption DEF IsWhole
<1> QED BY <1>1, <1>2 DEF Content

(* Different names give different files, and none the configuration.       *)
LEMMA NamesAndFiles ==
    /\ \A name \in Names : /\ Key(name) \in Files /\ Crt(name) \in Files
                           /\ Key(name) # Crt(name)
    /\ \A m, n \in Names : /\ Key(m) # Crt(n)
                           /\ (Key(m) = Key(n) => m = n) /\ (Crt(m) = Crt(n) => m = n)
    /\ \A n \in Names : Key(n) # device_config /\ Crt(n) # device_config
    /\ device_config \in Files
    /\ {"ca", "as", "rs", "idevid", "ldevid"} = Names
BY DEF Names, Files, Key, Crt, device_config

(* A server has the type of a server.                                      *)
LEMMA ServerFields ==
    ASSUME TypeOK, NEW v \in Servers
    PROVE  server[v] \in Serving
BY DEF TypeOK, Serving

(* generate_certs keeps the types of the servers.                          *)
LEMMA FreshType ==
    ASSUME TypeOK
    PROVE  [v \in Servers |-> [server[v] EXCEPT !.fresh = FALSE]] \in [Servers -> Serving]
BY ServerFields DEF Serving

(* Starting a server keeps the types of the servers.                       *)
LEMMA LaunchType ==
    ASSUME TypeOK, NEW v \in Servers, NEW c \in [as_cert : Names, pair : Names],
           NEW f \in Files, Launch(v, c, f)
    PROVE  server' \in [Servers -> Serving]
<1>1. disk[f].key \in Keys \cup {NoKey}
  BY DiskType DEF Launch
<1>2. Down.own \in Content
  BY DEF Down, Content, Document
<1>3. [pc |-> "loading", command |-> c, key |-> disk[f].key,
       own |-> Down.own, quiet |-> TRUE, fresh |-> sound] \in Serving
  BY <1>1, <1>2 DEF Serving, TypeOK
<1>4. server \in [Servers -> Serving]
  BY DEF TypeOK, Serving
<1> QED BY <1>3, <1>4 DEF Launch

(* server_tls_context keeps the types of the servers.                      *)
LEMMA ContextType ==
    ASSUME TypeOK, NEW v \in Servers, server_tls_context(v)
    PROVE  server' \in [Servers -> Serving]
<1>1. server[v] \in Serving /\ server \in [Servers -> Serving]
  BY DEF TypeOK, Serving
<1>2. Down \in Serving
  BY DownType DEF Serving
<1>3. CASE Matches(server[v].command.pair)
  <2>1. server[v].command.pair \in Names
    BY <1>1 DEF Serving
  <2>2. disk[Crt(server[v].command.pair)] \in Content
    BY <1>3, <2>1, DiskType, NamesAndFiles DEF Matches
  <2>3. [server[v] EXCEPT !.pc = "up", !.own = disk[Crt(server[v].command.pair)]] \in Serving
    BY <1>1, <2>2 DEF Serving
  <2> QED BY <1>1, <1>3, <2>3 DEF server_tls_context
<1>4. CASE ~Matches(server[v].command.pair)
  BY <1>1, <1>2, <1>4 DEF server_tls_context
<1> QED BY <1>3, <1>4

(* generate_certs starts in a state of the right type.                     *)
LEMMA GenStartType == ASSUME TypeOK, runs < MaxRuns
    PROVE  [Idle EXCEPT !.pc = "write", !.left = Program(runs + 1)] \in Running
<1>1. runs + 1 \in 1..MaxRuns
  BY RunsAssumption DEF TypeOK
<1>2. Program(runs + 1) \in Seq(Step)
  BY <1>1, ProgramIs DEF Starts
<1> QED BY <1>2, IdleType, RunningIs

(* The first two reads of setup_device keep the types.                     *)
LEMMA LoadType ==
    ASSUME TypeOK, load_idevid \/ load_ca_cert
    PROVE  script' \in [Scripts -> Running] /\ sound' \in BOOLEAN /\ overlap' \in BOOLEAN
<1>1. "setup_device" \in Scripts /\ script["setup_device"] \in Running
  BY StepType DEF Scripts
<1>2. CASE End("setup_device")
  BY <1>1, <1>2, EndType
<1>3. CASE /\ IsWhole(Crt("idevid"))
           /\ script' = [script EXCEPT !["setup_device"].pc = "load_ca_cert",
                                      !["setup_device"].idevid = disk[Crt("idevid")].signer]
           /\ UNCHANGED <<sound, overlap>>
  <2>1. disk[Crt("idevid")].signer \in Keys \cup {NoKey}
    BY <1>3, DiskType, NamesAndFiles
  <2>2. [script["setup_device"] EXCEPT !.pc = "load_ca_cert", !.idevid = disk[Crt("idevid")].signer] \in Running
    BY <1>1, <2>1, RunningIs
  <2>3. script' = [script EXCEPT !["setup_device"] =
            [script["setup_device"] EXCEPT !.pc = "load_ca_cert", !.idevid = disk[Crt("idevid")].signer]]
    BY <1>1, <1>3 DEF TypeOK
  <2> QED BY <1>3, <2>2, <2>3 DEF TypeOK
<1>4. CASE /\ IsWhole(Crt("ca"))
           /\ script' = [script EXCEPT !["setup_device"].pc = "load_ca_key",
                                      !["setup_device"].ca = disk[Crt("ca")].key]
           /\ UNCHANGED <<sound, overlap>>
  <2>1. disk[Crt("ca")].key \in Keys \cup {NoKey}
    BY <1>4, DiskType, NamesAndFiles
  <2>2. [script["setup_device"] EXCEPT !.pc = "load_ca_key", !.ca = disk[Crt("ca")].key] \in Running
    BY <1>1, <2>1, RunningIs
  <2>3. script' = [script EXCEPT !["setup_device"] =
            [script["setup_device"] EXCEPT !.pc = "load_ca_key", !.ca = disk[Crt("ca")].key]]
    BY <1>1, <1>4 DEF TypeOK
  <2> QED BY <1>4, <2>2, <2>3 DEF TypeOK
<1> QED BY <1>2, <1>3, <1>4 DEF load_idevid, load_ca_cert

(* What setup_device writes after it has read three files.                 *)
DevItems(b) == issue_ldevid(dev.run, disk[Key("ca")].key) \o write_config(b)

(* What issue_ldevid and write_config make setup_device write, in order.   *)
LEMMA DevItemsAre ==
    ASSUME TypeOK, IsWhole(Key("ca")), NEW b \in BOOLEAN, dev.run \in 1..MaxRuns
    PROVE  /\ DevItems(b) \in Seq(Step)
           /\ Len(DevItems(b)) = IF b THEN 3 ELSE 2
           /\ DevItems(b)[1] = Write(Crt("ldevid"), <<dev.run, "ldevid">>, disk[Key("ca")].key)
           /\ DevItems(b)[2] = Write(Key("ldevid"), <<dev.run, "ldevid">>, NoKey)
           /\ b => DevItems(b)[3] = Write(device_config, NoKey, NoKey)
<1>1. disk[Key("ca")].key \in Keys \cup {NoKey}
  BY DiskType, NamesAndFiles
<1>2. PICK x, y, z : /\ x = Write(Crt("ldevid"), <<dev.run, "ldevid">>, disk[Key("ca")].key)
                     /\ y = Write(Key("ldevid"), <<dev.run, "ldevid">>, NoKey)
                     /\ z = Write(device_config, NoKey, NoKey)
  OBVIOUS
<1>3. x \in Step /\ y \in Step /\ z \in Step
  <2>1. <<dev.run, "ldevid">> \in Keys
    BY DEF Keys, Names
  <2>2. Crt("ldevid") \in Files /\ Key("ldevid") \in Files /\ device_config \in Files
    BY NamesAndFiles
  <2> QED BY <1>1, <1>2, <2>1, <2>2 DEF Write, Document, Step, Content
<1>4. PICK l : l = <<x, y>>
  OBVIOUS
<1>5. l \in Seq(Step) /\ Len(l) = 2 /\ l[1] = x /\ l[2] = y
  BY ONLY <1>3, <1>4
<1>6. issue_ldevid(dev.run, disk[Key("ca")].key) = l
  BY <1>2, <1>4 DEF issue_ldevid
<1>7. CASE b
  <2>1. PICK o : o = <<z>>
    OBVIOUS
  <2>2. o \in Seq(Step) /\ Len(o) = 1 /\ o[1] = z
    BY ONLY <1>3, <2>1
  <2>3. /\ l \o o \in Seq(Step) /\ Len(l \o o) = 3
        /\ (l \o o)[1] = x /\ (l \o o)[2] = y /\ (l \o o)[3] = z
    <3>1. /\ l \o o \in Seq(Step) /\ Len(l \o o) = Len(l) + Len(o)
          /\ \A i \in 1..(Len(l) + Len(o)) :
               (l \o o)[i] = IF i <= Len(l) THEN l[i] ELSE o[i - Len(l)]
      BY ONLY <1>5, <2>2, ConcatProperties
    <3>2. Len(l) = 2 /\ Len(o) = 1 /\ 3 - 2 = 1
      BY <1>5, <2>2
    <3> QED BY ONLY <1>5, <2>2, <3>1, <3>2
  <2>4. DevItems(b) = l \o o
    BY <1>2, <1>6, <1>7, <2>1 DEF DevItems, write_config
  <2>5. /\ DevItems(b) \in Seq(Step) /\ Len(DevItems(b)) = 3
        /\ DevItems(b)[1] = x /\ DevItems(b)[2] = y /\ DevItems(b)[3] = z
    BY ONLY <2>3, <2>4, Zenon
  <2> QED BY ONLY <1>2, <1>7, <2>5
<1>8. CASE ~b
  <2>1. l \o << >> = l
    BY ONLY <1>5
  <2>2. DevItems(b) = l
    BY <1>6, <1>8, <2>1 DEF DevItems, write_config
  <2> QED BY <1>2, <1>5, <1>8, <2>2
<1> QED BY <1>7, <1>8

-----------------------------------------------------------------------------
(* What the actions do, one variable after the other.                      *)
Turns(s, pc, left, step) ==
    /\ script'[s].pc = pc /\ script'[s].left = left /\ script'[s].step = step
    /\ script'[s].run = script[s].run
    /\ script'[s].undisturbed = script[s].undisturbed

Writes(f, content) ==
    /\ disk'[f] = content
    /\ \A g \in Files : g # f => disk'[g] = disk[g]

(* The scripts are these two.                                              *)
LEMMA TwoScripts ==
    /\ "generate_certs" \in Scripts /\ "setup_device" \in Scripts
    /\ "generate_certs" # "setup_device"
    /\ \A s \in Scripts : s = "generate_certs" \/ s = "setup_device"
BY DEF Scripts

(* The start of generate_certs, variable by variable.                      *)
LEMMA GenStarts ==
    ASSUME TypeOK, generate_certs
    PROVE  /\ runs' = runs + 1 /\ runs' \in 1..MaxRuns /\ runs \in 0..MaxRuns
           /\ gen.pc = "idle" /\ gen'.pc = "write" /\ gen'.run = runs'
           /\ gen'.left = Program(runs') /\ gen'.step = "open"
           /\ gen'.undisturbed <=> dev.pc = "idle"
           /\ dev'.pc = dev.pc /\ dev'.left = dev.left /\ dev'.step = dev.step
           /\ dev'.run = dev.run /\ dev'.idevid = dev.idevid /\ dev'.ca = dev.ca
           /\ dev'.undisturbed = FALSE
           /\ overlap' <=> (overlap \/ dev.pc # "idle")
           /\ sound' = FALSE /\ disk' = disk /\ private' = private
           /\ script' \in [Scripts -> Running]
           /\ runs' \in 0..MaxRuns /\ overlap' \in BOOLEAN
<1>1. PICK first : first = [Idle EXCEPT !.pc = "write", !.left = Program(runs + 1)]
  OBVIOUS
<1>2. Start("generate_certs", first)
  BY <1>1 DEF generate_certs, Program
<1>3. runs < MaxRuns /\ runs' = runs + 1 /\ runs \in 0..MaxRuns /\ runs + 1 \in 1..MaxRuns
  <2>1. runs < MaxRuns /\ runs' = runs + 1
    BY <1>2 DEF Start
  <2>2. runs \in 0..MaxRuns
    BY DEF TypeOK
  <2> QED BY <2>1, <2>2, RunsAssumption
<1>4. first \in Running
  BY <1>1, <1>3, GenStartType
<1>5. first.pc = "write" /\ first.left = Program(runs + 1) /\ first.step = "open"
  <2>1. DOMAIN Idle = {"pc", "run", "left", "step", "idevid", "ca", "undisturbed"} /\ Idle.step = "open"
    BY DEF Idle
  <2> QED BY <1>1, <2>1, IdleType, RunningIs
<1>6. PICK alone \in BOOLEAN : alone = \A o \in Scripts \ {"generate_certs"} : script[o].pc = "idle"
  OBVIOUS
<1>7. alone <=> dev.pc = "idle"
  BY <1>6, TwoScripts DEF dev
<1>8. script' = [o \in Scripts |->
                 IF o = "generate_certs" THEN [first EXCEPT !.run = runs + 1, !.undisturbed = alone]
                 ELSE [script[o] EXCEPT !.undisturbed = FALSE]]
  BY <1>2, <1>6 DEF Start
<1>9. /\ script'["generate_certs"] = [first EXCEPT !.run = runs + 1, !.undisturbed = alone]
      /\ script'["setup_device"] = [script["setup_device"] EXCEPT !.undisturbed = FALSE]
  BY <1>8, TwoScripts
<1>10. /\ gen'.pc = "write" /\ gen'.run = runs + 1
       /\ gen'.left = Program(runs + 1) /\ gen'.step = "open" /\ gen'.undisturbed = alone
  BY <1>4, <1>5, <1>9, RunningIs DEF gen
<1>11. /\ dev'.pc = dev.pc /\ dev'.left = dev.left /\ dev'.step = dev.step
       /\ dev'.run = dev.run /\ dev'.idevid = dev.idevid /\ dev'.ca = dev.ca
       /\ dev'.undisturbed = FALSE
  <2>1. script["setup_device"] \in Running
    BY TwoScripts, StepType
  <2> QED BY <1>9, <2>1, RunningIs DEF dev
<1>12. /\ gen.pc = "idle" /\ sound' = FALSE /\ disk' = disk /\ private' = private
       /\ overlap' = (overlap \/ ~alone)
  BY <1>2, <1>6 DEF Start, gen
<1>13. /\ script' \in [Scripts -> Running]
       /\ runs' \in 0..MaxRuns /\ overlap' \in BOOLEAN
  BY <1>2, <1>4, TwoScripts, StartType
<1> QED BY <1>3, <1>7, <1>10, <1>11, <1>12, <1>13

(* The start of setup_device, variable by variable.                        *)
LEMMA DevStarts ==
    ASSUME TypeOK, setup_device
    PROVE  /\ runs' = runs + 1 /\ runs' \in 1..MaxRuns /\ runs \in 0..MaxRuns
           /\ dev.pc = "idle" /\ dev'.pc = "load_idevid" /\ dev'.run = runs'
           /\ dev'.step = "open"
           /\ dev'.undisturbed <=> gen.pc = "idle" /\ sound
           /\ gen'.pc = gen.pc /\ gen'.left = gen.left /\ gen'.step = gen.step
           /\ gen'.run = gen.run /\ gen'.undisturbed = FALSE
           /\ overlap' <=> (overlap \/ gen.pc # "idle")
           /\ sound' = FALSE /\ disk' = disk /\ private' = private /\ server' = server
           /\ script' \in [Scripts -> Running]
           /\ runs' \in 0..MaxRuns /\ overlap' \in BOOLEAN
<1>1. PICK first : first = [Idle EXCEPT !.pc = "load_idevid"]
  OBVIOUS
<1>2. Start("setup_device", first) /\ server' = server
  BY <1>1 DEF setup_device
<1>3. runs < MaxRuns /\ runs' = runs + 1 /\ runs \in 0..MaxRuns /\ runs + 1 \in 1..MaxRuns
  <2>1. runs < MaxRuns /\ runs' = runs + 1
    BY <1>2 DEF Start
  <2>2. runs \in 0..MaxRuns
    BY DEF TypeOK
  <2> QED BY <2>1, <2>2, RunsAssumption
<1>4. first \in Running /\ first.pc = "load_idevid" /\ first.step = "open"
  <2>1. Idle.step = "open"
    BY DEF Idle
  <2> QED BY <1>1, <2>1, IdleType, RunningIs
<1>5. PICK alone \in BOOLEAN : alone = \A o \in Scripts \ {"setup_device"} : script[o].pc = "idle"
  OBVIOUS
<1>6. alone <=> gen.pc = "idle"
  BY <1>5, TwoScripts DEF gen
<1>7. PICK b \in BOOLEAN : b = (alone /\ sound)
  OBVIOUS
<1>8. script' = [o \in Scripts |->
                 IF o = "setup_device" THEN [first EXCEPT !.run = runs + 1, !.undisturbed = b]
                 ELSE [script[o] EXCEPT !.undisturbed = FALSE]]
  BY <1>2, <1>5, <1>7 DEF Start, TypeOK
<1>9. /\ script'["setup_device"] = [first EXCEPT !.run = runs + 1, !.undisturbed = b]
      /\ script'["generate_certs"] = [script["generate_certs"] EXCEPT !.undisturbed = FALSE]
  BY <1>8, TwoScripts
<1>10. dev'.pc = "load_idevid" /\ dev'.run = runs + 1 /\ dev'.undisturbed = b /\ dev'.step = "open"
  BY <1>4, <1>9, RunningIs DEF dev
<1>11. /\ gen'.pc = gen.pc /\ gen'.left = gen.left /\ gen'.step = gen.step
       /\ gen'.run = gen.run /\ gen'.undisturbed = FALSE
  <2>1. script["generate_certs"] \in Running
    BY TwoScripts, StepType
  <2> QED BY <1>9, <2>1, RunningIs DEF gen
<1>12. /\ dev.pc = "idle" /\ sound' = FALSE /\ disk' = disk /\ private' = private
       /\ overlap' = (overlap \/ ~alone)
  BY <1>2, <1>5 DEF Start, dev
<1>13. /\ script' \in [Scripts -> Running]
       /\ runs' \in 0..MaxRuns /\ overlap' \in BOOLEAN
  BY <1>2, <1>4, TwoScripts, StartType
<1> QED BY <1>2, <1>3, <1>6, <1>7, <1>10, <1>11, <1>12, <1>13

(* s comes to its end.                                                     *)
Ends(s) ==
    /\ script'[s] = Idle
    /\ sound' = script[s].undisturbed
    /\ overlap' = (overlap /\ ~(s = "generate_certs" /\ script[s].undisturbed))

Others(s) == \A o \in Scripts : o # s => script'[o] = script[o]

(* The end of a script, variable by variable.                              *)
LEMMA EndIs ==
    ASSUME TypeOK, NEW s \in Scripts, End(s)
    PROVE  Ends(s) /\ Others(s)
BY DEF TypeOK, End, Ends, Others

(* A script is done with a file: it ends, or turns to the next.            *)
LEMMA NextFileIs ==
    ASSUME TypeOK, NEW s \in Scripts, script[s].left # << >>, NextFile(s)
    PROVE  /\ Others(s)
           /\ \/ Len(script[s].left) = 1 /\ Ends(s)
              \/ /\ Len(script[s].left) # 1
                 /\ Turns(s, script[s].pc, Tail(script[s].left), "open")
                 /\ UNCHANGED <<sound, overlap>>
<1>1. CASE Len(script[s].left) = 1
  BY <1>1, EndIs DEF NextFile
<1>2. CASE Len(script[s].left) # 1
  <2>1. script[s] \in Running
    BY StepType
  <2>2. PICK h : h = [script[s] EXCEPT !.left = Tail(script[s].left), !.step = "open"]
    OBVIOUS
  <2>3. /\ script' = [script EXCEPT ![s] = h]
        /\ UNCHANGED <<sound, overlap>>
    BY <1>2, <2>1, <2>2 DEF NextFile, TypeOK
  <2>4. /\ h.pc = script[s].pc /\ h.left = Tail(script[s].left) /\ h.step = "open"
        /\ h.run = script[s].run /\ h.undisturbed = script[s].undisturbed
    BY <2>1, <2>2, RunningIs
  <2>5. script'[s] = h /\ Others(s)
    BY <2>3 DEF TypeOK, Others
  <2> QED BY <1>2, <2>3, <2>4, <2>5 DEF Turns
<1> QED BY <1>1, <1>2

(* A script goes on with the same file.                                    *)
LEMMA StepChanges ==
    ASSUME TypeOK, NEW s \in Scripts, NEW t,
           script' = [script EXCEPT ![s].step = t]
    PROVE  Turns(s, script[s].pc, script[s].left, t) /\ Others(s)
<1>1. script[s] \in Running
  BY StepType
<1>2. PICK h : h = [script[s] EXCEPT !.step = t]
  OBVIOUS
<1>3. script' = [script EXCEPT ![s] = h]
  BY <1>1, <1>2 DEF TypeOK
<1>4. /\ h.pc = script[s].pc /\ h.left = script[s].left /\ h.step = t
      /\ h.run = script[s].run /\ h.undisturbed = script[s].undisturbed
  BY <1>1, <1>2, RunningIs
<1>5. script'[s] = h /\ Others(s)
  BY <1>3 DEF TypeOK, Others
<1> QED BY <1>4, <1>5 DEF Turns

(* path.write_bytes changes the file it is at and no other.                *)
LEMMA PutIs ==
    ASSUME TypeOK, NEW s \in Scripts, NEW c, Put(s, c), script[s].left # << >>
    PROVE  Writes(Head(script[s].left).file, c)
<1>1. Head(script[s].left).file \in Files
  BY StepType DEF Step
<1> QED BY <1>1 DEF Put, TypeOK, Writes

(* OpenFile, variable by variable.                                         *)
LEMMA OpenIs ==
    ASSUME TypeOK, Writing, NEW s \in Scripts, OpenFile(s)
    PROVE  /\ script[s].pc = "write" /\ script[s].step = "open"
           /\ Turns(s, "write", script[s].left, "fill") /\ Others(s)
           /\ Writes(Head(script[s].left).file, Torn)
           /\ UNCHANGED <<private, runs, sound, overlap>>
<1>1. /\ script[s].pc = "write" /\ script[s].step = "open"
      /\ UNCHANGED <<private, runs, sound, overlap>>
  BY DEF OpenFile
<1>2. script[s].left # << >>
  BY <1>1 DEF Writing
<1>3. Turns(s, "write", script[s].left, "fill") /\ Others(s)
  BY <1>1, StepChanges DEF OpenFile
<1>4. Writes(Head(script[s].left).file, Torn)
  BY <1>2, PutIs DEF OpenFile
<1> QED BY <1>1, <1>3, <1>4

(* FillFile, variable by variable, for a key, the last file and others.    *)
LEMMA FillIs ==
    ASSUME TypeOK, Writing, NEW s \in Scripts, FillFile(s)
    PROVE  /\ script[s].pc = "write" /\ script[s].step = "fill"
           /\ Others(s)
           /\ Writes(Head(script[s].left).file, Head(script[s].left).content)
           /\ UNCHANGED <<private, runs>>
           /\ \/ /\ Head(script[s].left).file[2] = "key"
                 /\ Turns(s, "write", script[s].left, "chmod")
                 /\ UNCHANGED <<sound, overlap>>
              \/ /\ Head(script[s].left).file[2] # "key"
                 /\ Len(script[s].left) = 1 /\ Ends(s)
              \/ /\ Head(script[s].left).file[2] # "key"
                 /\ Len(script[s].left) # 1
                 /\ Turns(s, "write", Tail(script[s].left), "open")
                 /\ UNCHANGED <<sound, overlap>>
<1>1. /\ script[s].pc = "write" /\ script[s].step = "fill"
      /\ UNCHANGED <<private, runs>>
  BY DEF FillFile
<1>2. script[s].left # << >>
  BY <1>1 DEF Writing
<1>3. Writes(Head(script[s].left).file, Head(script[s].left).content)
  BY <1>2, PutIs DEF FillFile
<1>4. CASE Head(script[s].left).file[2] = "key"
  <2>1. script' = [script EXCEPT ![s].step = "chmod"] /\ UNCHANGED <<sound, overlap>>
    BY <1>4 DEF FillFile
  <2>2. Turns(s, "write", script[s].left, "chmod") /\ Others(s)
    BY <1>1, <2>1, StepChanges
  <2> QED BY <1>1, <1>3, <1>4, <2>1, <2>2
<1>5. CASE Head(script[s].left).file[2] # "key"
  <2>1. NextFile(s)
    BY <1>5 DEF FillFile
  <2> QED BY <1>1, <1>2, <1>3, <1>5, <2>1, NextFileIs
<1> QED BY <1>4, <1>5

(* ChmodFile, variable by variable.                                        *)
LEMMA ChmodIs ==
    ASSUME TypeOK, Writing, NEW s \in Scripts, ChmodFile(s)
    PROVE  /\ script[s].pc = "write" /\ script[s].step = "chmod"
           /\ Others(s)
           /\ private' = private \cup {Head(script[s].left).file}
           /\ UNCHANGED <<disk, runs, server>>
           /\ \/ Len(script[s].left) = 1 /\ Ends(s)
              \/ /\ Len(script[s].left) # 1
                 /\ Turns(s, "write", Tail(script[s].left), "open")
                 /\ UNCHANGED <<sound, overlap>>
<1>1. /\ script[s].pc = "write" /\ script[s].step = "chmod"
      /\ private' = private \cup {Head(script[s].left).file}
      /\ UNCHANGED <<disk, runs, server>> /\ NextFile(s)
  BY DEF ChmodFile
<1>2. script[s].left # << >>
  BY <1>1 DEF Writing
<1> QED BY <1>1, <1>2, NextFileIs

(* Kill, variable by variable.                                             *)
LEMMA KillIs ==
    ASSUME TypeOK, NEW s \in Scripts, Kill(s)
    PROVE  /\ script[s].pc # "idle" /\ script'[s] = Idle /\ Others(s)
           /\ UNCHANGED <<disk, private, runs, server, sound, overlap>>
BY DEF TypeOK, Kill, Others

(* load_idevid, variable by variable.                                      *)
LEMMA LoadIdevidIs ==
    ASSUME TypeOK, load_idevid
    PROVE  /\ dev.pc = "load_idevid" /\ gen' = gen
           /\ UNCHANGED <<disk, private, runs, server>>
           /\ \/ Ends("setup_device")
              \/ /\ IsWhole(Crt("idevid"))
                 /\ dev'.pc = "load_ca_cert" /\ dev'.idevid = disk[Crt("idevid")].signer
                 /\ dev'.run = dev.run /\ dev'.undisturbed = dev.undisturbed
                 /\ dev'.step = dev.step
                 /\ UNCHANGED <<sound, overlap>>
<1>1. dev.pc = "load_idevid" /\ UNCHANGED <<disk, private, runs, server>>
  BY DEF load_idevid, dev
<1>2. CASE IsWhole(Crt("idevid"))
  <2>1. script["setup_device"] \in Running
    BY StepType, TwoScripts
  <2>2. PICK h : h = [script["setup_device"] EXCEPT !.pc = "load_ca_cert", !.idevid = disk[Crt("idevid")].signer]
    OBVIOUS
  <2>3. script' = [script EXCEPT !["setup_device"] = h] /\ UNCHANGED <<sound, overlap>>
    BY <1>2, <2>1, <2>2 DEF load_idevid, TypeOK
  <2>4. /\ h.pc = "load_ca_cert" /\ h.idevid = disk[Crt("idevid")].signer
        /\ h.step = script["setup_device"].step
        /\ h.run = script["setup_device"].run /\ h.undisturbed = script["setup_device"].undisturbed
    BY <2>1, <2>2, RunningIs
  <2>5. script'["setup_device"] = h /\ script'["generate_certs"] = script["generate_certs"]
    BY <2>3, TwoScripts DEF TypeOK
  <2> QED BY <1>1, <1>2, <2>3, <2>4, <2>5 DEF gen, dev
<1>3. CASE ~IsWhole(Crt("idevid"))
  <2>1. Ends("setup_device") /\ Others("setup_device")
    BY <1>3, EndIs, TwoScripts DEF load_idevid
  <2> QED BY <1>1, <2>1, TwoScripts DEF Others, gen
<1> QED BY <1>2, <1>3

(* load_ca_cert, variable by variable.                                     *)
LEMMA LoadCaCertIs ==
    ASSUME TypeOK, load_ca_cert
    PROVE  /\ dev.pc = "load_ca_cert" /\ gen' = gen
           /\ UNCHANGED <<disk, private, runs, server>>
           /\ \/ Ends("setup_device")
              \/ /\ IsWhole(Crt("ca"))
                 /\ dev'.pc = "load_ca_key" /\ dev'.ca = disk[Crt("ca")].key
                 /\ dev'.idevid = dev.idevid
                 /\ dev'.run = dev.run /\ dev'.undisturbed = dev.undisturbed
                 /\ dev'.step = dev.step
                 /\ UNCHANGED <<sound, overlap>>
<1>1. dev.pc = "load_ca_cert" /\ UNCHANGED <<disk, private, runs, server>>
  BY DEF load_ca_cert, dev
<1>2. CASE IsWhole(Crt("ca"))
  <2>1. script["setup_device"] \in Running
    BY StepType, TwoScripts
  <2>2. PICK h : h = [script["setup_device"] EXCEPT !.pc = "load_ca_key", !.ca = disk[Crt("ca")].key]
    OBVIOUS
  <2>3. script' = [script EXCEPT !["setup_device"] = h] /\ UNCHANGED <<sound, overlap>>
    BY <1>2, <2>1, <2>2 DEF load_ca_cert, TypeOK
  <2>4. /\ h.pc = "load_ca_key" /\ h.ca = disk[Crt("ca")].key
        /\ h.step = script["setup_device"].step
        /\ h.idevid = script["setup_device"].idevid
        /\ h.run = script["setup_device"].run /\ h.undisturbed = script["setup_device"].undisturbed
    BY <2>1, <2>2, RunningIs
  <2>5. script'["setup_device"] = h /\ script'["generate_certs"] = script["generate_certs"]
    BY <2>3, TwoScripts DEF TypeOK
  <2> QED BY <1>1, <1>2, <2>3, <2>4, <2>5 DEF gen, dev
<1>3. CASE ~IsWhole(Crt("ca"))
  <2>1. Ends("setup_device") /\ Others("setup_device")
    BY <1>3, EndIs, TwoScripts DEF load_ca_cert
  <2> QED BY <1>1, <2>1, TwoScripts DEF Others, gen
<1> QED BY <1>2, <1>3

(* load_ca_key, variable by variable.                                      *)
LEMMA LoadCaKeyIs ==
    ASSUME TypeOK, load_ca_key
    PROVE  /\ dev.pc = "load_ca_key" /\ gen' = gen
           /\ UNCHANGED <<disk, private, runs, server>>
           /\ \/ Ends("setup_device")
              \/ /\ IsWhole(Key("ca")) /\ dev.idevid = dev.ca
                 /\ dev'.pc = "write" /\ \E b \in BOOLEAN : dev'.left = DevItems(b)
                 /\ dev'.run = dev.run /\ dev'.undisturbed = dev.undisturbed
                 /\ dev'.step = dev.step
                 /\ UNCHANGED <<sound, overlap>>
<1>1. dev.pc = "load_ca_key" /\ UNCHANGED <<disk, private, runs, server>>
  BY DEF load_ca_key, dev
<1>2. CASE IsWhole(Key("ca")) /\ dev.idevid = dev.ca
  <2>1. script["setup_device"] \in Running
    BY StepType, TwoScripts
  <2>2. PICK b \in BOOLEAN :
            script' = [script EXCEPT !["setup_device"] =
               [dev EXCEPT !.pc = "write", !.left = DevItems(b)]]
    BY <1>2 DEF load_ca_key, verify_idevid, DevItems, dev
  <2>3. UNCHANGED <<sound, overlap>>
    BY <1>2 DEF load_ca_key, verify_idevid, dev
  <2>4. PICK h : h = [dev EXCEPT !.pc = "write", !.left = DevItems(b)]
    OBVIOUS
  <2>5. /\ h.pc = "write" /\ h.left = DevItems(b) /\ h.step = dev.step
        /\ h.run = dev.run /\ h.undisturbed = dev.undisturbed
    BY <2>1, <2>4, RunningIs DEF dev
  <2>6. script'["setup_device"] = h /\ script'["generate_certs"] = script["generate_certs"]
    BY <2>2, <2>4, TwoScripts DEF TypeOK
  <2> QED BY <1>1, <1>2, <2>3, <2>5, <2>6 DEF gen, dev
<1>3. CASE ~(IsWhole(Key("ca")) /\ dev.idevid = dev.ca)
  <2>1. Ends("setup_device") /\ Others("setup_device")
    BY <1>3, EndIs, TwoScripts DEF load_ca_key, verify_idevid, dev
  <2> QED BY <1>1, <2>1, TwoScripts DEF Others, gen
<1> QED BY <1>2, <1>3

(* A script that writes has something left to write.                       *)
LEMMA PlansWrite ==
    ASSUME TypeOK, GenPlan, DevPlan
    PROVE  Writing
<1>1. ASSUME gen.pc = "write" PROVE gen.left # << >>
  <2>1. Len(gen.left) \in 1..10
    BY <1>1 DEF GenPlan
  <2>2. Len(<< >>) = 0 /\ 0 \notin 1..10
    OBVIOUS
  <2> QED BY ONLY <2>1, <2>2, Zenon
<1>2. ASSUME dev.pc = "write" PROVE dev.left # << >>
  BY <1>2 DEF DevPlan
<1> QED BY <1>1, <1>2, TwoScripts DEF Writing, gen, dev

(* The file that generate_certs is at.                                     *)
LEMMA GenHead ==
    ASSUME TypeOK, GenPlan, gen.pc = "write"
    PROVE  /\ Pos \in 1..10 /\ gen.run \in 1..runs /\ gen.run \in 1..MaxRuns
           /\ gen.left \in Seq(Step) /\ Len(gen.left) = 11 - Pos
           /\ Head(gen.left).file = Order[Pos]
           /\ Head(gen.left).content = Made(Order[Pos], gen.run)
           /\ gen.step = "chmod" => Order[Pos][2] = "key"
           /\ gen.step \in {"open", "fill", "chmod"}
<1>1. gen.left \in Seq(Step) /\ gen.step \in {"open", "fill", "chmod"} /\ runs \in 0..MaxRuns
  BY StepType, TwoScripts, RunningIs DEF gen, TypeOK
<1>2. Len(gen.left) \in 1..10 /\ gen.run \in 1..runs
      /\ (gen.step = "chmod" => Order[Pos][2] = "key")
  BY DEF GenPlan
<1>3. Pos \in 1..10 /\ Len(gen.left) = 11 - Pos /\ Pos + 1 - 1 = Pos
  <2>1. PICK n : n \in 1..10 /\ n = Len(gen.left)
    BY <1>2
  <2>2. Pos = 11 - n
    BY <2>1 DEF Pos
  <2>3. 11 - n \in 1..10 /\ n = 11 - (11 - n) /\ (11 - n) + 1 - 1 = 11 - n
    <3>1. n \in 1..10
      BY ONLY <2>1, Zenon
    <3> QED BY ONLY <3>1
  <2> QED BY ONLY <2>1, <2>2, <2>3, Zenon
<1>4. gen.left[1] = [file |-> Order[Pos + 1 - 1], content |-> Made(Order[Pos + 1 - 1], gen.run)]
  BY <1>2 DEF GenPlan
<1>5. Head(gen.left) = gen.left[1]
  BY <1>1, <1>2
<1>6. Head(gen.left).file = Order[Pos] /\ Head(gen.left).content = Made(Order[Pos], gen.run)
  BY <1>3, <1>4, <1>5
<1>7. gen.run \in 1..MaxRuns
  BY <1>1, <1>2, RunsAssumption
<1> QED BY <1>1, <1>2, <1>3, <1>6, <1>7

(* Every step keeps the types.                                             *)
LEMMA NextType ==
    ASSUME TypeOK, GenPlan, DevPlan, [Next]_vars
    PROVE  TypeOK'
<1>0. Writing
  BY PlansWrite
<1>1. CASE generate_certs
  <2>1. server' \in [Servers -> Serving]
    BY <1>1, FreshType DEF generate_certs
  <2>2. disk' = disk /\ private' = private /\ sound' \in BOOLEAN
    BY <1>1, GenStarts
  <2> QED BY <1>1, <2>1, <2>2, GenStarts DEF TypeOK, Serving
<1>2. CASE setup_device
  <2>1. disk' = disk /\ private' = private /\ sound' \in BOOLEAN /\ server' = server
    BY <1>2, DevStarts
  <2> QED BY <1>2, <2>1, DevStarts DEF TypeOK
<1>3. CASE load_idevid \/ load_ca_cert
  <2>1. UNCHANGED <<disk, private, runs, server>>
    BY <1>3 DEF load_idevid, load_ca_cert
  <2> QED BY <1>3, <2>1, LoadType DEF TypeOK
<1>4. CASE load_ca_key
  <2>1. UNCHANGED <<disk, private, runs, server>>
    BY <1>4 DEF load_ca_key
  <2>2. CASE End("setup_device")
    BY <2>1, <2>2, EndType, TwoScripts DEF TypeOK
  <2>3. CASE ~End("setup_device")
    <3>1. IsWhole(Key("ca")) /\ dev.pc = "load_ca_key" /\ UNCHANGED <<sound, overlap>>
      BY <1>4, <2>3 DEF load_ca_key, dev
    <3>2. PICK b \in BOOLEAN :
            script' = [script EXCEPT !["setup_device"] =
               [dev EXCEPT !.pc = "write", !.left = DevItems(b)]]
      BY <1>4, <2>3 DEF load_ca_key, DevItems, dev
    <3>3. dev.run \in 1..MaxRuns
      BY <3>1, RunsAssumption DEF DevPlan, TypeOK
    <3>4. DevItems(b) \in Seq(Step)
      BY <3>1, <3>3, DevItemsAre
    <3>5. dev \in Running
      BY StepType, TwoScripts DEF dev
    <3>6. [dev EXCEPT !.pc = "write", !.left = DevItems(b)] \in Running
      BY <3>4, <3>5, RunningIs
    <3>7. script' \in [Scripts -> Running]
      BY <3>2, <3>6 DEF TypeOK
    <3> QED BY <2>1, <3>1, <3>7 DEF TypeOK
  <2> QED BY <2>2, <2>3
<1>5. ASSUME NEW s \in Scripts, OpenFile(s) PROVE TypeOK'
  <2>1. script[s].left # << >> /\ Put(s, Torn) /\ UNCHANGED <<private, runs, sound, overlap>>
    BY <1>0, <1>5 DEF OpenFile, Writing
  <2>2. script[s] \in Running
    BY StepType
  <2>3. [script[s] EXCEPT !.step = "fill"] \in Running
    BY <2>2, RunningIs
  <2>4. script' = [script EXCEPT ![s] = [script[s] EXCEPT !.step = "fill"]]
    BY <1>5 DEF OpenFile, TypeOK
  <2> QED BY <2>1, <2>3, <2>4, PutType DEF TypeOK
<1>6. ASSUME NEW s \in Scripts, FillFile(s) PROVE TypeOK'
  <2>1. script[s].left # << >> /\ Put(s, Head(script[s].left).content) /\ UNCHANGED <<private, runs>>
    BY <1>0, <1>6 DEF FillFile, Writing
  <2>2. Head(script[s].left).content \in Content
    BY <2>1, StepType DEF Step
  <2>3. CASE NextFile(s)
    BY <2>1, <2>2, <2>3, PutType, NextFileType DEF TypeOK
  <2>4. CASE script' = [script EXCEPT ![s].step = "chmod"] /\ UNCHANGED <<sound, overlap>>
    <3>1. script[s] \in Running
      BY StepType
    <3>2. [script[s] EXCEPT !.step = "chmod"] \in Running
      BY <3>1, RunningIs
    <3>3. script' = [script EXCEPT ![s] = [script[s] EXCEPT !.step = "chmod"]]
      BY <2>4 DEF TypeOK
    <3> QED BY <2>1, <2>2, <2>4, <3>2, <3>3, PutType DEF TypeOK
  <2> QED BY <1>6, <2>3, <2>4 DEF FillFile
<1>7. ASSUME NEW s \in Scripts, ChmodFile(s) PROVE TypeOK'
  <2>1. script[s].left # << >> /\ script[s].pc = "write" /\ script[s].step = "chmod"
        /\ private' = private \cup {Head(script[s].left).file}
        /\ NextFile(s) /\ UNCHANGED <<disk, runs, server>>
    BY <1>0, <1>7 DEF ChmodFile, Writing
  <2>2. \E name \in Names : Head(script[s].left).file = Key(name)
    <3>1. CASE s = "generate_certs"
      <4>1. Pos \in 1..10 /\ Head(script[s].left).file = Order[Pos] /\ Order[Pos][2] = "key"
        BY <2>1, <3>1, GenHead DEF gen
      <4>2. Order[Pos][1] \in Names /\ Order[Pos] = Key(Order[Pos][1])
        BY <4>1, OrderFacts DEF Key
      <4> QED BY <4>1, <4>2
    <3>2. CASE s = "setup_device"
      <4>1. Head(script[s].left).file = Key("ldevid")
        BY <2>1, <3>2 DEF DevPlan, dev
      <4> QED BY <4>1, NamesAndFiles
    <3> QED BY <3>1, <3>2, TwoScripts
  <2>3. private' \subseteq {Key(name) : name \in Names}
    BY <2>1, <2>2 DEF TypeOK
  <2> QED BY <2>1, <2>3, NextFileType DEF TypeOK
<1>8. ASSUME NEW s \in Scripts, Kill(s) PROVE TypeOK'
  BY <1>8, IdleType DEF Kill, TypeOK
<1>9. CASE auth_main
  <2>1. Launch("as", Down.command, Key("as"))
    BY <1>9 DEF auth_main
  <2>2. server' \in [Servers -> Serving]
    <3>1. Down.command \in [as_cert : Names, pair : Names] /\ "as" \in Servers
      BY DownType DEF Servers
    <3> QED BY <2>1, <3>1, LaunchType, NamesAndFiles
  <2> QED BY <2>1, <2>2 DEF Launch, TypeOK, Serving
<1>10. ASSUME NEW c \in Commands, server_main(c) PROVE TypeOK'
  <2>1. Launch("rs", c, Crt(c.as_cert))
    BY <1>10 DEF server_main, as_certificate
  <2>2. server' \in [Servers -> Serving]
    <3>1. c \in [as_cert : Names, pair : Names] /\ "rs" \in Servers
      BY CommandsAssumption DEF Servers
    <3> QED BY <2>1, <3>1, LaunchType, NamesAndFiles
  <2> QED BY <2>1, <2>2 DEF Launch, TypeOK, Serving
<1>11. ASSUME NEW v \in Servers, server_tls_context(v) PROVE TypeOK'
  BY <1>11, ContextType DEF server_tls_context, TypeOK, Serving
<1>12. ASSUME NEW v \in Servers, Stop(v) PROVE TypeOK'
  BY <1>12, DownType DEF Stop, TypeOK
<1>13. CASE UNCHANGED vars
  BY <1>13 DEF vars, TypeOK
<1> QED BY <1>1, <1>2, <1>3, <1>4, <1>5, <1>6, <1>7, <1>8, <1>9, <1>10, <1>11, <1>12, <1>13 DEF Next

-----------------------------------------------------------------------------
(* What generate_certs does to the files it writes.                        *)
LEMMA FromAfter ==
    ASSUME NEW p \in 1..10, NEW c, Writes(Order[p], c)
    PROVE  /\ disk'[Order[p]] = c
           /\ \A i \in 1..10 : i # p => disk'[Order[i]] = disk[Order[i]]
           /\ \A i \in 1..10 : i # p => (IsWhole(Order[i])' <=> IsWhole(Order[i]))
           /\ \A i \in 1..10 : \A r : i # p => (IsFrom(i, r)' <=> IsFrom(i, r))
           /\ \A r : IsFrom(p, r)' <=> c = Made(Order[p], r)
<1>1. disk'[Order[p]] = c
  BY DEF Writes
<1>2. \A i \in 1..10 : i # p => disk'[Order[i]] = disk[Order[i]]
  BY OrderFacts DEF Writes
<1> QED BY <1>1, <1>2 DEF IsWhole, IsFrom

(* What is due is at or after the position of the script.                  *)
LEMMA DueFacts ==
    ASSUME NEW p \in 1..10, p = Pos
    PROVE  /\ \A i \in 1..10 : i < p => ~Due(i)
           /\ \A i \in 1..10 : i > p => Due(i)
           /\ Due(p) <=> gen.step # "chmod"
BY DEF Due

(* Two runs write different content.                                       *)
LEMMA OneRun ==
    ASSUME NEW i \in 1..10, NEW q \in 1..MaxRuns, NEW r \in 1..MaxRuns,
           IsFrom(i, q), IsFrom(i, r)
    PROVE  q = r
<1>1. Made(Order[i], q) = Made(Order[i], r)
  BY DEF IsFrom
<1> QED BY <1>1, MadeFacts, OrderFacts

(* A file that was only opened is from no run.                             *)
LEMMA TornIsNothing ==
    ASSUME NEW i \in 1..10, NEW r \in 1..MaxRuns
    PROVE  Torn # Made(Order[i], r)
BY MadeFacts, OrderFacts

(* The order of the files, and what this run has done of it, survive the   *)
(* truncation and the writing of the file it is at.                        *)
LEMMA GenKeepsContiguous ==
    ASSUME TypeOK, GenPlan, GenProgress, Contiguous, gen.pc = "write", gen.step # "chmod",
           NEW c, c = Torn \/ c = Made(Order[Pos], gen.run),
           Writes(Order[Pos], c)
    PROVE  Contiguous'
<1>1. PICK p \in 1..10 : p = Pos
  BY GenHead
<1>2. PICK g \in 1..MaxRuns : g = gen.run
  BY GenHead
<1>3. /\ \A i \in OnlyGenerated : i < p => IsFrom(i, g)
      /\ \A i \in OnlyGenerated : i > p => ~IsFrom(i, g)
  BY <1>1, <1>2, DueFacts, OrderFacts DEF GenProgress
<1>4. /\ \A i \in 1..10 : \A r : i # p => (IsFrom(i, r)' <=> IsFrom(i, r))
      /\ \A r : IsFrom(p, r)' <=> c = Made(Order[p], r)
  BY <1>1, FromAfter
<1>5. \A r \in 1..MaxRuns : IsFrom(p, r)' => r = g /\ c = Made(Order[p], g)
  BY <1>1, <1>2, <1>4, TornIsNothing, MadeFacts, OrderFacts
<1>6. ASSUME NEW i \in OnlyGenerated, NEW j \in OnlyGenerated, NEW k \in OnlyGenerated,
             i < j, j < k, NEW r \in 1..MaxRuns, IsFrom(i, r)', IsFrom(k, r)'
      PROVE  IsFrom(j, r)'
  <2>0. i \in 1..10 /\ j \in 1..10 /\ k \in 1..10 /\ i < k /\ i # j /\ j # k
    BY <1>6, OrderFacts DEF OnlyGenerated
  <2>1. CASE i = p
    <3>1. r = g /\ k > p
      BY <1>5, <1>6, <2>0, <2>1
    <3>2. IsFrom(k, r)
      BY <1>4, <1>6, <2>0, <2>1
    <3> QED BY <1>3, <3>1, <3>2
  <2>2. CASE k = p
    <3>1. r = g /\ j < p
      BY <1>5, <1>6, <2>0, <2>2
    <3>2. IsFrom(j, r)
      BY <1>3, <3>1
    <3> QED BY <1>4, <2>0, <2>2, <3>2
  <2>3. CASE i # p /\ k # p
    <3>1. IsFrom(i, r) /\ IsFrom(k, r)
      BY <1>4, <1>6, <2>0, <2>3
    <3>2. IsFrom(j, r)
      BY <1>6, <3>1 DEF Contiguous
    <3>3. CASE j # p
      BY <1>4, <2>0, <3>2, <3>3
    <3>4. CASE j = p
      <4>1. i < p /\ k > p
        BY <1>6, <3>4
      <4>2. r = g
        BY <1>3, <2>0, <3>1, <4>1, OneRun
      <4> QED BY <1>3, <3>1, <4>1, <4>2
    <3> QED BY <3>3, <3>4
  <2> QED BY <2>1, <2>2, <2>3
<1> QED BY <1>6 DEF Contiguous

(* The names of the files and their positions.                             *)
LEMMA NamedFiles ==
    /\ Key("ca") = Order[1] /\ Crt("ca") = Order[2]
    /\ Key("as") = Order[3] /\ Crt("as") = Order[4]
    /\ Key("rs") = Order[5] /\ Crt("rs") = Order[6]
    /\ Key("idevid") = Order[7] /\ Crt("idevid") = Order[8]
    /\ Key("ldevid") = Order[9] /\ Crt("ldevid") = Order[10]
BY OrderIs DEF Key, Crt

(* Whatever generate_certs writes is from a run.                           *)
LEMMA GenKeepsOrigin ==
    ASSUME TypeOK, GenPlan, Origin, gen.pc = "write",
           NEW c, c = Torn \/ c = Made(Order[Pos], gen.run),
           Writes(Order[Pos], c), runs' = runs
    PROVE  Origin'
<1>1. PICK p \in 1..10 : p = Pos
  BY GenHead
<1>2. PICK g \in 1..MaxRuns : g = gen.run /\ g \in 1..runs
  BY GenHead
<1>3. /\ disk'[Order[p]] = c
      /\ \A i \in 1..10 : i # p => disk'[Order[i]] = disk[Order[i]]
      /\ \A i \in 1..10 : i # p => (IsWhole(Order[i])' <=> IsWhole(Order[i]))
      /\ \A i \in 1..10 : \A r : i # p => (IsFrom(i, r)' <=> IsFrom(i, r))
      /\ \A r : IsFrom(p, r)' <=> c = Made(Order[p], r)
  BY <1>1, FromAfter
<1>4. IsWhole(Order[p])' => c = Made(Order[p], g)
  BY <1>1, <1>2, <1>3 DEF IsWhole
<1>5. ASSUME NEW i \in OnlyGenerated, IsWhole(Order[i])' PROVE \E r \in 1..runs : IsFrom(i, r)'
  <2>1. i \in 1..10
    BY OrderFacts
  <2>2. CASE i = p
    BY <1>2, <1>3, <1>4, <1>5, <2>2
  <2>3. CASE i # p
    BY <1>3, <1>5, <2>1, <2>3 DEF Origin
  <2> QED BY <2>2, <2>3
<1>6. ASSUME IsWhole(Order[10])' PROVE \E q \in 1..runs : disk'[Order[10]].signer = <<q, "ca">>
  <2>1. CASE p = 10
    <3>1. Made(Order[10], g).signer = <<g, "ca">>
      BY MadeFacts, OrderFacts, OrderIs
    <3> QED BY <1>2, <1>3, <1>4, <1>6, <2>1, <3>1
  <2>2. CASE p # 10
    BY <1>3, <1>6, <2>2, NamedFiles DEF Origin
  <2> QED BY <2>1, <2>2
<1> QED BY <1>5, <1>6, NamedFiles DEF Origin

(* generate_certs leaves no LDevID that chains to a ca.crt it has made,    *)
(* before it has also made the IDevID.                                     *)
LEMMA GenKeepsEnrolled ==
    ASSUME TypeOK, GenPlan, GenProgress, Enrolled, Apart, gen.pc = "write", gen.step # "chmod",
           NEW c, c = Torn \/ c = Made(Order[Pos], gen.run),
           Writes(Order[Pos], c), overlap' = overlap \/ Pos = 10
    PROVE  Enrolled'
<1>1. PICK p \in 1..10 : p = Pos
  BY GenHead
<1>2. PICK g \in 1..MaxRuns : g = gen.run
  BY GenHead
<1>3. /\ disk'[Order[p]] = c
      /\ \A i \in 1..10 : i # p => disk'[Order[i]] = disk[Order[i]]
      /\ \A i \in 1..10 : i # p => (IsWhole(Order[i])' <=> IsWhole(Order[i]))
      /\ \A i \in 1..10 : \A r : i # p => (IsFrom(i, r)' <=> IsFrom(i, r))
      /\ \A r : IsFrom(p, r)' <=> c = Made(Order[p], r)
  BY <1>1, FromAfter
<1>4. \A r \in 1..MaxRuns : IsFrom(p, r)' => r = g /\ c = Made(Order[p], g)
  BY <1>1, <1>2, <1>3, TornIsNothing, MadeFacts, OrderFacts
<1>5. /\ \A i \in OnlyGenerated : i < p => IsFrom(i, g)
      /\ \A i \in OnlyGenerated : i > p => ~IsFrom(i, g)
  BY <1>1, <1>2, DueFacts, OrderFacts DEF GenProgress
<1>6. 2 \in OnlyGenerated /\ 8 \in OnlyGenerated
  BY DEF OnlyGenerated
<1>7. ASSUME ~overlap', IsWhole(Order[10])', NEW r \in 1..MaxRuns,
             IsFrom(2, r)', disk'[Order[10]].signer = <<r, "ca">>
      PROVE  IsFrom(8, r)'
  <2>1. CASE p = 10
    <3>1. Made(Order[10], g).signer = <<g, "ca">>
      BY MadeFacts, OrderFacts, OrderIs
    <3>2. c = Made(Order[10], g)
      BY <1>1, <1>2, <1>3, <1>7, <2>1 DEF IsWhole
    <3>3. r = g
      BY <1>3, <1>7, <2>1, <3>1, <3>2
    <3> QED BY <1>3, <1>5, <1>6, <2>1, <3>3
  <2>2. CASE p # 10
    <3>1. ~overlap
      BY <1>1, <1>7, <2>2
    <3>2. IsWhole(Order[10]) /\ disk[Order[10]].signer = <<r, "ca">>
      BY <1>3, <1>7, <2>2
    <3>3. r # g
      <4>1. gen.undisturbed
        BY <3>1 DEF Apart
      <4> QED BY <1>2, <3>2, <4>1, NamedFiles DEF GenProgress
    <3>4. p # 2
      BY <1>4, <1>7, <3>3
    <3>5. IsFrom(2, r)
      BY <1>3, <1>7, <3>4
    <3>6. IsFrom(8, r)
      BY <3>1, <3>2, <3>5, NamedFiles DEF Enrolled
    <3>7. p # 8
      BY <1>5, <1>6, <3>3, <3>5, OneRun
    <3> QED BY <1>3, <3>6, <3>7
  <2> QED BY <2>1, <2>2
<1> QED BY <1>7, NamedFiles DEF Enrolled

(* generate_certs goes on to its next file, or to its next step.           *)
LEMMA GenGoesOn ==
    ASSUME TypeOK, GenPlan, gen.pc = "write", Len(gen.left) # 1,
           Turns("generate_certs", "write", Tail(gen.left), "open"), runs' = runs
    PROVE  /\ Pos' = Pos + 1 /\ Pos' \in 1..10
           /\ \A i \in 1..10 : Due(i)' <=> i > Pos
           /\ GenPlan'
<1>1. PICK p \in 1..10 : p = Pos
  BY GenHead
<1>2. gen.left \in Seq(Step) /\ Len(gen.left) = 11 - p
  BY <1>1, GenHead
<1>3. p \in 1..9
  BY <1>1, <1>2
<1>4. PICK t : t = Tail(gen.left)
  OBVIOUS
<1>5. PICK l : l = gen.left
  OBVIOUS
<1>6. Len(t) = 10 - p /\ \A i \in 1..(10 - p) : t[i] = l[i + 1]
  BY ONLY <1>2, <1>3, <1>4, <1>5
<1>7. /\ gen'.pc = "write" /\ gen'.left = t /\ gen'.step = "open"
      /\ gen'.run = gen.run
  BY <1>4 DEF Turns, gen
<1>8. Pos' = p + 1
  <2>1. Pos' = 11 - Len(t)
    BY <1>7 DEF Pos
  <2>2. 11 - (10 - p) = p + 1
    BY <1>3
  <2> QED BY <1>6, <2>1, <2>2, Zenon
<1>9. \A i \in 1..10 : Due(i)' <=> i > p
  BY <1>3, <1>7, <1>8 DEF Due
<1>10. GenPlan'
  <2>1. gen.run \in 1..runs
    BY GenHead
  <2>2. ASSUME NEW i \in 1..(10 - p)
        PROVE  t[i] = [file |-> Order[(p + 1) + i - 1], content |-> Made(Order[(p + 1) + i - 1], gen.run)]
    <3>1. i + 1 \in 1..Len(l)
      BY <1>2, <1>3, <1>5, <2>2
    <3>2. l[i + 1] = [file |-> Order[p + (i + 1) - 1], content |-> Made(Order[p + (i + 1) - 1], gen.run)]
      BY <1>1, <1>5, <3>1 DEF GenPlan
    <3>3. p + (i + 1) - 1 = (p + 1) + i - 1
      BY <1>3, <2>2
    <3> QED BY <1>6, <3>2, <3>3
  <2>3. 10 - p \in 1..10
    BY <1>3
  <2>4. /\ gen'.pc = "write" /\ gen'.run \in 1..runs' /\ Len(gen'.left) \in 1..10
        /\ \A i \in 1..Len(gen'.left) :
             gen'.left[i] = [file |-> Order[Pos' + i - 1], content |-> Made(Order[Pos' + i - 1], gen'.run)]
        /\ gen'.step # "chmod"
    BY <1>6, <1>7, <1>8, <2>1, <2>2, <2>3
  <2> QED BY <2>4 DEF GenPlan
<1>11. p + 1 \in 1..10
  BY <1>3
<1> QED BY <1>1, <1>8, <1>9, <1>10, <1>11

(* generate_certs stays at its file.                                       *)
LEMMA GenTurns ==
    ASSUME TypeOK, GenPlan, gen.pc = "write", NEW t, t # "chmod" \/ Order[Pos][2] = "key",
           Turns("generate_certs", "write", gen.left, t), runs' = runs
    PROVE  /\ Pos' = Pos
           /\ \A i \in 1..10 : Due(i)' <=> i > Pos \/ (i = Pos /\ t # "chmod")
           /\ GenPlan'
<1>1. /\ gen'.pc = "write" /\ gen'.left = gen.left /\ gen'.step = t
      /\ gen'.run = gen.run
  BY DEF Turns, gen
<1>2. Pos' = Pos
  BY <1>1 DEF Pos
<1>3. \A i \in 1..10 : Due(i)' <=> i > Pos \/ (i = Pos /\ t # "chmod")
  BY <1>1, <1>2 DEF Due
<1>4. GenPlan'
  BY <1>1, <1>2 DEF GenPlan
<1> QED BY <1>2, <1>3, <1>4

(* Opening or filling a file keeps what this run knows of its files.       *)
LEMMA GenProgresses ==
    ASSUME TypeOK, GenPlan, GenProgress, gen.pc = "write", gen.step # "chmod",
           gen'.pc = "write", gen'.run = gen.run, gen'.undisturbed = gen.undisturbed,
           NEW c, Writes(Order[Pos], c), private' = private,
           \/ /\ c = Torn /\ Pos' = Pos
              /\ \A i \in 1..10 : Due(i)' <=> i > Pos \/ i = Pos
           \/ /\ c = Made(Order[Pos], gen.run) /\ Pos # 10
              /\ Pos' = Pos \/ (Pos' = Pos + 1 /\ Order[Pos][2] # "key")
              /\ \A i \in 1..10 : Due(i)' <=> i > Pos
    PROVE  GenProgress'
<1>1. PICK p \in 1..10 : p = Pos
  BY GenHead
<1>2. PICK g \in 1..MaxRuns : g = gen.run
  BY GenHead
<1>3. /\ disk'[Order[p]] = c
      /\ \A i \in 1..10 : i # p => disk'[Order[i]] = disk[Order[i]]
      /\ \A i \in 1..10 : i # p => (IsWhole(Order[i])' <=> IsWhole(Order[i]))
      /\ \A i \in 1..10 : \A r : i # p => (IsFrom(i, r)' <=> IsFrom(i, r))
      /\ \A r : IsFrom(p, r)' <=> c = Made(Order[p], r)
  BY <1>1, FromAfter
<1>4. /\ \A i \in 1..10 : i < p => ~Due(i)
      /\ \A i \in 1..10 : i > p => Due(i)
  BY <1>1, DueFacts
<1>5. \/ /\ c = Torn /\ Pos' = p
         /\ \A i \in 1..10 : Due(i)' <=> i > p \/ i = p
      \/ /\ c = Made(Order[p], g) /\ p # 10
         /\ Pos' = p \/ (Pos' = p + 1 /\ Order[p][2] # "key")
         /\ \A i \in 1..10 : Due(i)' <=> i > p
  BY <1>1, <1>2
<1>6. \A i \in 1..10 : i # p => (Due(i)' <=> Due(i))
  BY <1>4, <1>5
<1>7. IsFrom(p, g)' <=> ~Due(p)'
  BY <1>3, <1>5, TornIsNothing
<1>8. \A i \in OnlyGenerated : IsFrom(i, g)' <=> ~Due(i)'
  <2>1. \A i \in OnlyGenerated : IsFrom(i, g) <=> ~Due(i)
    BY <1>2 DEF GenProgress
  <2> QED BY <1>3, <1>6, <1>7, <2>1, OrderFacts
<1>9. ASSUME NEW i \in 1..10, i < Pos', Order[i][2] = "key" PROVE Order[i] \in private
  <2>1. i < p
    BY <1>5, <1>9
  <2> QED BY <1>1, <1>9, <2>1 DEF GenProgress
<1>10. ASSUME gen.undisturbed, ~Due(9)' PROVE IsFrom(9, g)'
  <2>1. CASE p = 9
    BY <1>7, <1>10, <2>1
  <2>2. CASE p # 9
    BY <1>2, <1>3, <1>6, <1>10, <2>2 DEF GenProgress
  <2> QED BY <2>1, <2>2
<1>11. ASSUME gen.undisturbed, IsWhole(Order[10])' PROVE disk'[Order[10]].signer # <<g, "ca">>
  <2>1. p # 10
    BY <1>3, <1>5, <1>11 DEF IsWhole
  <2>2. IsWhole(Order[10]) => disk[Order[10]].signer # <<g, "ca">>
    BY <1>2, <1>11, NamedFiles DEF GenProgress
  <2> QED BY <1>3, <1>11, <2>1, <2>2
<1>12. gen'.run = g /\ gen'.undisturbed = gen.undisturbed /\ private' = private
  BY <1>2
<1> QED BY <1>8, <1>9, <1>10, <1>11, <1>12, NamedFiles DEF GenProgress

(* Chmod of a key: nothing on the disk changes.                            *)
LEMMA GenChmods ==
    ASSUME TypeOK, GenPlan, GenProgress, gen.pc = "write", gen.step = "chmod",
           gen'.pc = "write", gen'.run = gen.run, gen'.undisturbed = gen.undisturbed,
           disk' = disk, private' = private \cup {Order[Pos]}, Pos' = Pos + 1,
           \A i \in 1..10 : Due(i)' <=> i > Pos
    PROVE  GenProgress'
<1>1. PICK p \in 1..10 : p = Pos
  BY GenHead
<1>2. \A i \in 1..10 : Due(i)' <=> Due(i)
  <2>1. /\ \A i \in 1..10 : i < p => ~Due(i)
        /\ \A i \in 1..10 : i > p => Due(i)
        /\ ~Due(p)
    BY <1>1, DueFacts
  <2>2. \A i \in 1..10 : Due(i)' <=> i > p
    BY <1>1
  <2> QED BY <2>1, <2>2
<1>3. /\ \A i \in 1..10 : \A r : IsFrom(i, r)' <=> IsFrom(i, r)
      /\ IsWhole(Crt("ldevid"))' <=> IsWhole(Crt("ldevid"))
  BY DEF IsFrom, IsWhole
<1>4. ASSUME NEW i \in 1..10, i < Pos', Order[i][2] = "key" PROVE Order[i] \in private'
  <2>1. i < p \/ i = p
    BY <1>1, <1>4
  <2>2. CASE i = p
    BY <1>1, <2>2
  <2>3. CASE i < p
    BY <1>1, <1>4, <2>3 DEF GenProgress
  <2> QED BY <2>1, <2>2, <2>3
<1>5. PICK g : g = gen.run
  OBVIOUS
<1>6. \A i \in OnlyGenerated : IsFrom(i, g)' <=> ~Due(i)'
  <2>1. \A i \in OnlyGenerated : IsFrom(i, g) <=> ~Due(i)
    BY <1>5 DEF GenProgress
  <2> QED BY <1>2, <1>3, <2>1, OrderFacts
<1>7. gen.undisturbed =>
        /\ ~Due(9)' => IsFrom(9, g)'
        /\ IsWhole(Crt("ldevid"))' => disk'[Crt("ldevid")].signer # <<g, "ca">>
  BY <1>2, <1>3, <1>5 DEF GenProgress
<1>8. gen'.run = g /\ gen'.undisturbed = gen.undisturbed /\ gen'.pc = "write"
  BY <1>5
<1> QED BY <1>4, <1>6, <1>7, <1>8 DEF GenProgress

(* An undisturbed generate_certs that fills its last file leaves all files *)
(* sound.                                                                  *)
LEMMA GenCompletes ==
    ASSUME TypeOK, GenPlan, GenProgress, gen.pc = "write", gen.step # "chmod",
           gen.undisturbed, Pos = 10, Writes(Order[10], Made(Order[10], gen.run)),
           private' = private
    PROVE  \A name \in Names : Usable(name)' /\ Key(name) \in private'
<1>1. PICK g \in 1..MaxRuns : g = gen.run
  BY GenHead
<1>2. \A i \in 1..9 : IsFrom(i, g)
  <2>1. \A i \in 1..10 : i < 10 => ~Due(i)
    BY DueFacts
  <2>2. ASSUME NEW i \in 1..9 PROVE IsFrom(i, g)
    <3>1. CASE i = 9
      BY <1>1, <2>1, <3>1 DEF GenProgress
    <3>2. CASE i # 9
      <4>1. i \in OnlyGenerated /\ i < 10 /\ i \in 1..10
        BY <3>2 DEF OnlyGenerated
      <4> QED BY <1>1, <2>1, <4>1 DEF GenProgress
    <3> QED BY <3>1, <3>2
  <2> QED BY <2>2
<1>3. ASSUME NEW i \in 1..10 PROVE disk'[Order[i]] = Made(Order[i], g)
  <2>1. /\ disk'[Order[10]] = Made(Order[10], g)
        /\ \A j \in 1..10 : j # 10 => disk'[Order[j]] = disk[Order[j]]
    BY <1>1, FromAfter
  <2>2. CASE i = 10
    BY <2>1, <2>2
  <2>3. CASE i # 10
    <3>1. i \in 1..9
      BY <2>3
    <3> QED BY <1>2, <2>1, <2>3, <3>1 DEF IsFrom
  <2> QED BY <2>2, <2>3
<1>4. \A i \in 1..10 :
        /\ IsWhole(Order[i])'
        /\ disk'[Order[i]].key = <<g, Order[i][1]>>
        /\ Order[i][2] = "crt" => disk'[Order[i]].signer = <<g, "ca">>
  BY <1>3, MadeFacts, OrderFacts DEF IsWhole
<1>5. ASSUME NEW k \in 1..10, NEW c \in 1..10, NEW name, Key(name) = Order[k], Crt(name) = Order[c],
             Order[k][1] = Order[c][1], Order[c][2] = "crt"
      PROVE  Usable(name)'
  <2>1. IsWhole(Key(name))' /\ IsWhole(Crt(name))' /\ IsWhole(Crt("ca"))'
    BY <1>4, <1>5, NamedFiles
  <2>2. disk'[Key(name)].key = disk'[Crt(name)].key
    BY <1>4, <1>5
  <2>3. disk'[Crt(name)].signer = disk'[Crt("ca")].key
    <3>1. disk'[Order[2]].key = <<g, "ca">>
      <4>1. 2 \in 1..10 /\ Order[2][1] = "ca"
        BY OrderIs
      <4>2. disk'[Order[2]].key = <<g, Order[2][1]>>
        BY ONLY <1>4, <4>1
      <4> QED BY ONLY <4>1, <4>2, Zenon
    <3> QED BY <1>4, <1>5, <3>1, NamedFiles
  <2> QED BY <2>1, <2>2, <2>3 DEF Usable, Matches, ChainsToCa
<1>6. Usable("ca")' /\ Usable("as")' /\ Usable("rs")' /\ Usable("idevid")' /\ Usable("ldevid")'
  BY <1>5, NamedFiles, OrderIs
<1>7. \A i \in 1..10 : i < 10 /\ Order[i][2] = "key" => Order[i] \in private
  BY DEF GenProgress
<1>8. \A name \in Names : Key(name) \in private
  BY <1>7, NamedFiles, OrderIs, NamesAndFiles
<1> QED BY <1>6, <1>8, NamesAndFiles

(* While generate_certs runs nothing is promised of setup_device.          *)
LEMMA GenBusy ==
    ASSUME Apart, DevPlan, DevRead, DevProgress, gen.pc # "idle", dev' = dev, runs' = runs,
           overlap' = overlap \/ overlap' = (overlap /\ ~gen.undisturbed)
    PROVE  DevPlan' /\ DevRead' /\ DevProgress'
<1>1. DevPlan'
  BY DEF DevPlan
<1>2. CASE dev.pc = "idle"
  BY <1>1, <1>2 DEF DevRead, DevProgress
<1>3. CASE dev.pc # "idle"
  <2>1. overlap /\ ~gen.undisturbed /\ ~dev.undisturbed
    BY <1>3 DEF Apart
  <2>2. overlap'
    BY <2>1
  <2> QED BY <1>1, <2>1, <2>2 DEF DevRead, DevProgress
<1> QED BY <1>2, <1>3

(* generate_certs opens a file.                                            *)
LEMMA GenOpens ==
    ASSUME IInv, TypeOK', OpenFile("generate_certs")
    PROVE  IInv'
<1>0. TypeOK /\ GenPlan /\ GenProgress /\ Origin /\ Contiguous /\ Enrolled /\ Apart
      /\ DevPlan /\ DevRead /\ DevProgress /\ DiskIsWhole /\ Writing
  BY PlansWrite DEF IInv
<1>1. /\ gen.pc = "write" /\ gen.step = "open"
      /\ Turns("generate_certs", "write", gen.left, "fill") /\ Others("generate_certs")
      /\ Writes(Head(gen.left).file, Torn)
      /\ UNCHANGED <<private, runs, sound, overlap>>
  BY <1>0, OpenIs, TwoScripts DEF gen
<1>2. /\ Writes(Order[Pos], Torn) /\ Pos \in 1..10
      /\ dev' = dev /\ gen'.pc = "write" /\ gen'.run = gen.run
      /\ gen'.undisturbed = gen.undisturbed
  BY <1>0, <1>1, GenHead, TwoScripts DEF Turns, Others, gen, dev
<1>3. /\ Pos' = Pos /\ GenPlan'
      /\ \A i \in 1..10 : Due(i)' <=> i > Pos \/ i = Pos
  BY <1>0, <1>1, GenTurns
<1>4. GenProgress'
  BY <1>0, <1>1, <1>2, <1>3, GenProgresses
<1>5. Origin' /\ Contiguous' /\ Enrolled'
  BY <1>0, <1>1, <1>2, GenKeepsOrigin, GenKeepsContiguous, GenKeepsEnrolled
<1>6. Apart' /\ DiskIsWhole'
  <2>1. ~sound /\ ~sound'
    BY <1>0, <1>1 DEF Apart
  <2> QED BY <1>0, <1>1, <1>2, <2>1 DEF Apart, DiskIsWhole
<1>7. DevPlan' /\ DevRead' /\ DevProgress'
  BY <1>0, <1>1, <1>2, GenBusy
<1> QED BY <1>3, <1>4, <1>5, <1>6, <1>7 DEF IInv

(* The fields of a script that does nothing.                               *)
LEMMA IdleIs ==
    Idle.pc = "idle" /\ Idle.undisturbed = FALSE /\ Idle.step = "open"
BY DEF Idle

(* generate_certs is over, whatever it has done.                           *)
LEMMA GenOver ==
    ASSUME gen' = Idle
    PROVE  GenPlan' /\ GenProgress'
BY IdleIs DEF GenPlan, GenProgress

(* generate_certs fills a file, and ends if it is the last.                *)
LEMMA GenFills ==
    ASSUME IInv, TypeOK', FillFile("generate_certs")
    PROVE  IInv'
<1>0. TypeOK /\ GenPlan /\ GenProgress /\ Origin /\ Contiguous /\ Enrolled /\ Apart
      /\ DevPlan /\ DevRead /\ DevProgress /\ DiskIsWhole /\ Writing
  BY PlansWrite DEF IInv
<1>1. /\ gen.pc = "write" /\ gen.step = "fill" /\ Others("generate_certs")
      /\ Writes(Head(gen.left).file, Head(gen.left).content)
      /\ UNCHANGED <<private, runs>>
      /\ \/ /\ Head(gen.left).file[2] = "key"
            /\ Turns("generate_certs", "write", gen.left, "chmod")
            /\ UNCHANGED <<sound, overlap>>
         \/ /\ Head(gen.left).file[2] # "key"
            /\ Len(gen.left) = 1 /\ Ends("generate_certs")
         \/ /\ Head(gen.left).file[2] # "key"
            /\ Len(gen.left) # 1
            /\ Turns("generate_certs", "write", Tail(gen.left), "open")
            /\ UNCHANGED <<sound, overlap>>
  BY <1>0, FillIs, TwoScripts DEF gen
<1>2. /\ Writes(Order[Pos], Made(Order[Pos], gen.run)) /\ Pos \in 1..10 /\ dev' = dev
      /\ Head(gen.left).file = Order[Pos] /\ Len(gen.left) = 11 - Pos
  BY <1>0, <1>1, GenHead, TwoScripts DEF Others, dev
<1>3. Origin' /\ Contiguous'
  BY <1>0, <1>1, <1>2, GenKeepsOrigin, GenKeepsContiguous
<1>4. CASE Len(gen.left) # 1 /\ UNCHANGED <<sound, overlap>> /\ gen'.pc = "write"
           /\ \/ Order[Pos][2] = "key" /\ Turns("generate_certs", "write", gen.left, "chmod")
              \/ /\ Order[Pos][2] # "key"
                 /\ Turns("generate_certs", "write", Tail(gen.left), "open")
  <2>1. Pos # 10
    BY <1>2, <1>4
  <2>2. gen'.run = gen.run /\ gen'.undisturbed = gen.undisturbed
    BY <1>4 DEF Turns, gen
  <2>3. /\ Pos' = Pos \/ (Pos' = Pos + 1 /\ Order[Pos][2] # "key")
        /\ \A i \in 1..10 : Due(i)' <=> i > Pos
        /\ GenPlan'
    <3>1. CASE Order[Pos][2] = "key" /\ Turns("generate_certs", "write", gen.left, "chmod")
      <4>1. /\ Pos' = Pos
            /\ \A i \in 1..10 : Due(i)' <=> i > Pos \/ (i = Pos /\ "chmod" # "chmod")
            /\ GenPlan'
        BY <1>0, <1>1, <3>1, GenTurns
      <4> QED BY <4>1
    <3>2. CASE Order[Pos][2] # "key" /\ Turns("generate_certs", "write", Tail(gen.left), "open")
      BY <1>0, <1>1, <1>4, <3>2, GenGoesOn
    <3> QED BY <1>4, <3>1, <3>2
  <2>4. GenProgress'
    BY <1>0, <1>1, <1>2, <1>4, <2>1, <2>2, <2>3, GenProgresses
  <2>5. Enrolled'
    BY <1>0, <1>1, <1>2, <1>4, GenKeepsEnrolled
  <2>6. Apart' /\ DiskIsWhole'
    <3>1. ~sound /\ ~sound'
      BY <1>0, <1>1, <1>4 DEF Apart
    <3> QED BY <1>0, <1>1, <1>2, <1>4, <2>2, <3>1 DEF Apart, DiskIsWhole
  <2>7. DevPlan' /\ DevRead' /\ DevProgress'
    BY <1>0, <1>1, <1>2, <1>4, GenBusy
  <2> QED BY <1>3, <2>3, <2>4, <2>5, <2>6, <2>7 DEF IInv
<1>5. CASE Len(gen.left) = 1 /\ Ends("generate_certs")
  <2>1. Pos = 10
    <3>1. PICK p \in 1..10 : p = Pos /\ 11 - p = 1
      BY <1>2, <1>5
    <3> QED BY <3>1
  <2>2. /\ gen' = Idle /\ sound' = gen.undisturbed
        /\ overlap' = (overlap /\ ~gen.undisturbed)
    BY <1>5 DEF Ends, gen
  <2>3. GenPlan' /\ GenProgress'
    BY <2>2, GenOver
  <2>4. Enrolled'
    BY <1>0, <1>1, <1>2, <2>1, GenKeepsEnrolled
  <2>5. DiskIsWhole'
    <3>1. CASE gen.undisturbed
      <4>1. \A name \in Names : Usable(name)' /\ Key(name) \in private'
        BY <1>0, <1>1, <1>2, <2>1, <3>1, GenCompletes
      <4> QED BY <4>1 DEF DiskIsWhole
    <3>2. CASE ~gen.undisturbed
      BY <2>2, <3>2 DEF DiskIsWhole
    <3> QED BY <3>1, <3>2
  <2>6. Apart'
    <3>1. gen.undisturbed => dev.pc = "idle"
      BY <1>0, <1>1 DEF Apart
    <3> QED BY <1>2, <2>2, <3>1, IdleIs DEF Apart
  <2>7. DevPlan' /\ DevRead' /\ DevProgress'
    BY <1>0, <1>1, <1>2, <2>2, GenBusy
  <2> QED BY <1>3, <2>3, <2>4, <2>5, <2>6, <2>7 DEF IInv
<1>6. Order[Pos][2] = "key" => Len(gen.left) # 1
  <2>1. Order[10][2] # "key"
    BY OrderIs
  <2> QED BY <1>2, <2>1
<1> QED BY <1>1, <1>2, <1>4, <1>5, <1>6 DEF Turns, gen

(* The disk is as it was, and no more runs have been started than before.  *)
LEMMA DiskStays ==
    ASSUME disk' = disk, runs' = runs \/ runs' = runs + 1, runs \in Nat
    PROVE  /\ Origin => Origin'
           /\ Contiguous => Contiguous'
           /\ (overlap => overlap') /\ Enrolled => Enrolled'
           /\ \A i, r : IsFrom(i, r)' <=> IsFrom(i, r)
           /\ \A f : IsWhole(f)' <=> IsWhole(f)
           /\ \A name : Usable(name)' <=> Usable(name)
<1>1. /\ \A i, r : IsFrom(i, r)' <=> IsFrom(i, r)
      /\ \A f : IsWhole(f)' <=> IsWhole(f)
  BY DEF IsFrom, IsWhole
<1>2. \A name : Usable(name)' <=> Usable(name)
  BY <1>1 DEF Usable, Matches, ChainsToCa
<1>3. ASSUME Origin PROVE Origin'
  <2>1. 1..runs \subseteq 1..runs'
    OBVIOUS
  <2> QED BY <1>1, <1>3, <2>1 DEF Origin
<1>4. Contiguous => Contiguous'
  BY <1>1 DEF Contiguous
<1>5. ASSUME overlap => overlap', Enrolled PROVE Enrolled'
  BY <1>1, <1>5 DEF Enrolled
<1> QED BY <1>1, <1>2, <1>3, <1>4, <1>5

(* generate_certs makes a key private; it never ends so.                   *)
LEMMA GenChmodKeeps ==
    ASSUME IInv, TypeOK', ChmodFile("generate_certs")
    PROVE  IInv'
<1>0. TypeOK /\ GenPlan /\ GenProgress /\ Origin /\ Contiguous /\ Enrolled /\ Apart
      /\ DevPlan /\ DevRead /\ DevProgress /\ DiskIsWhole /\ Writing
  BY PlansWrite DEF IInv
<1>1. /\ gen.pc = "write" /\ gen.step = "chmod" /\ Others("generate_certs")
      /\ private' = private \cup {Head(gen.left).file}
      /\ UNCHANGED <<disk, runs>>
      /\ \/ Len(gen.left) = 1
         \/ /\ Len(gen.left) # 1
            /\ Turns("generate_certs", "write", Tail(gen.left), "open")
            /\ UNCHANGED <<sound, overlap>>
  BY <1>0, ChmodIs, TwoScripts DEF gen
<1>2. PICK p \in 1..10 : p = Pos /\ Len(gen.left) = 11 - p /\ Order[p][2] = "key"
      /\ Head(gen.left).file = Order[Pos]
  BY <1>0, <1>1, GenHead
<1>3. Len(gen.left) # 1
  <2>1. p # 10
    BY <1>2, OrderIs
  <2>2. 11 - p # 1
    BY <2>1
  <2> QED BY <1>2, <2>2, Zenon
<1>4. /\ Turns("generate_certs", "write", Tail(gen.left), "open")
      /\ UNCHANGED <<sound, overlap>>
  BY <1>1, <1>3
<1>5. /\ Pos' = Pos + 1 /\ GenPlan'
      /\ \A i \in 1..10 : Due(i)' <=> i > Pos
  BY <1>0, <1>1, <1>3, <1>4, GenGoesOn
<1>6. /\ gen'.pc = "write" /\ gen'.run = gen.run /\ gen'.undisturbed = gen.undisturbed
      /\ dev' = dev
  BY <1>1, <1>4, TwoScripts DEF Turns, Others, gen, dev
<1>7. GenProgress'
  BY <1>0, <1>1, <1>2, <1>5, <1>6, GenChmods
<1>8. Origin' /\ Contiguous' /\ Enrolled'
  <2>1. runs \in Nat
    BY <1>0, RunsAssumption DEF TypeOK
  <2> QED BY <1>0, <1>1, <1>4, <2>1, DiskStays
<1>9. Apart' /\ DiskIsWhole'
  <2>1. ~sound /\ ~sound'
    BY <1>0, <1>1, <1>4 DEF Apart
  <2> QED BY <1>0, <1>1, <1>4, <1>6, <2>1 DEF Apart, DiskIsWhole
<1>10. DevPlan' /\ DevRead' /\ DevProgress'
  BY <1>0, <1>1, <1>4, <1>6, GenBusy
<1> QED BY <1>5, <1>7, <1>8, <1>9, <1>10 DEF IInv

(* generate_certs dies; nobody relies on what it did.                      *)
LEMMA GenKilled ==
    ASSUME IInv, TypeOK', Kill("generate_certs")
    PROVE  IInv'
<1>0. TypeOK /\ GenPlan /\ GenProgress /\ Origin /\ Contiguous /\ Enrolled /\ Apart
      /\ DevPlan /\ DevRead /\ DevProgress /\ DiskIsWhole
  BY DEF IInv
<1>1. /\ gen.pc # "idle" /\ gen' = Idle /\ dev' = dev
      /\ UNCHANGED <<disk, private, runs, sound, overlap>>
  BY <1>0, KillIs, TwoScripts DEF Others, gen, dev
<1>2. GenPlan' /\ GenProgress'
  BY <1>1, GenOver
<1>3. Origin' /\ Contiguous' /\ Enrolled'
  <2>1. runs \in Nat
    BY <1>0, RunsAssumption DEF TypeOK
  <2> QED BY <1>0, <1>1, <2>1, DiskStays
<1>4. Apart' /\ DiskIsWhole'
  <2>1. ~sound /\ ~sound'
    BY <1>0, <1>1 DEF Apart
  <2> QED BY <1>1, <2>1, IdleIs DEF Apart, DiskIsWhole
<1>5. DevPlan' /\ DevRead' /\ DevProgress'
  BY <1>0, <1>1, GenBusy
<1> QED BY <1>2, <1>3, <1>4, <1>5 DEF IInv

(* A new run of generate_certs has made nothing yet.                       *)
LEMMA GenStartKeeps ==
    ASSUME IInv, TypeOK', generate_certs
    PROVE  IInv'
<1>0. TypeOK /\ GenPlan /\ GenProgress /\ Origin /\ Contiguous /\ Enrolled /\ Apart
      /\ DevPlan /\ DevRead /\ DevProgress /\ DiskIsWhole
  BY DEF IInv
<1>1. /\ runs' = runs + 1 /\ runs' \in 1..MaxRuns /\ runs \in 0..MaxRuns
      /\ gen'.pc = "write" /\ gen'.run = runs'
      /\ gen'.left = Program(runs') /\ gen'.step = "open"
      /\ gen'.undisturbed <=> dev.pc = "idle"
      /\ dev'.pc = dev.pc /\ dev'.left = dev.left /\ dev'.step = dev.step
      /\ dev'.run = dev.run /\ dev'.idevid = dev.idevid /\ dev'.ca = dev.ca
      /\ dev'.undisturbed = FALSE
      /\ overlap' <=> (overlap \/ dev.pc # "idle")
      /\ sound' = FALSE /\ disk' = disk /\ private' = private
  BY <1>0, GenStarts
<1>2. runs \in Nat /\ 1..runs \subseteq 1..MaxRuns
  BY <1>1, RunsAssumption
<1>3. Origin' /\ Contiguous' /\ Enrolled'
  BY <1>0, <1>1, <1>2, DiskStays
<1>4. /\ Pos' = 1 /\ Len(Program(runs')) = 10
      /\ \A i \in 1..10 : Program(runs')[i] = Item(i, runs')
  <2>1. /\ Len(Program(runs')) = 10
        /\ \A i \in 1..10 : Program(runs')[i] = Item(i, runs')
    BY <1>1, ProgramIs DEF Starts
  <2>2. Pos' = 11 - Len(gen'.left)
    BY DEF Pos
  <2>3. 11 - 10 = 1
    OBVIOUS
  <2>4. Len(gen'.left) = 10
    BY <1>1, <2>1
  <2>5. Pos' = 1
    BY <2>2, <2>3, <2>4, Zenon
  <2> QED BY <2>1, <2>5
<1>5. GenPlan'
  <2>1. \A i \in 1..10 : 1 + i - 1 = i
    OBVIOUS
  <2>2. ASSUME NEW i \in 1..Len(gen'.left)
        PROVE  gen'.left[i] = [file |-> Order[Pos' + i - 1], content |-> Made(Order[Pos' + i - 1], gen'.run)]
    BY <1>1, <1>4, <2>1, <2>2 DEF Item
  <2>3. Len(gen'.left) \in 1..10 /\ gen'.run \in 1..runs'
    BY <1>1, <1>4
  <2> QED BY <1>1, <2>2, <2>3 DEF GenPlan
<1>6. GenProgress'
  <2>1. PICK g : g = runs'
    OBVIOUS
  <2>2. \A i \in 1..10 : Due(i)'
    BY <1>1, <1>4 DEF Due
  <2>3. ASSUME NEW i \in OnlyGenerated PROVE ~IsFrom(i, g)'
    <3>1. SUFFICES ASSUME IsFrom(i, g) PROVE FALSE
      BY <1>1, <1>2, DiskStays
    <3>2. i \in 1..10 /\ g \in 1..MaxRuns
      BY <1>1, <2>1, OrderFacts
    <3>3. IsWhole(Order[i])
      BY <3>1, <3>2, MadeFacts, OrderFacts DEF IsFrom, IsWhole
    <3>4. PICK r \in 1..runs : IsFrom(i, r)
      BY <1>0, <3>3 DEF Origin
    <3>5. r = g
      BY <1>2, <3>1, <3>2, <3>4, OneRun
    <3> QED BY <1>1, <1>2, <2>1, <3>4, <3>5
  <2>4. IsWhole(Crt("ldevid"))' => disk'[Crt("ldevid")].signer # <<g, "ca">>
    <3>1. SUFFICES ASSUME IsWhole(Crt("ldevid")) PROVE disk[Crt("ldevid")].signer # <<g, "ca">>
      BY <1>1, <1>2, DiskStays
    <3>2. PICK q \in 1..runs : disk[Crt("ldevid")].signer = <<q, "ca">>
      BY <1>0, <3>1 DEF Origin
    <3>3. q # g
      BY <1>1, <1>2, <2>1, <3>2
    <3> QED BY <3>2, <3>3
  <2>5. \A i \in 1..10 : ~(i < Pos')
    BY <1>4
  <2>6. gen'.run = g
    BY <1>1, <2>1
  <2> QED BY <2>2, <2>3, <2>4, <2>5, <2>6, OrderFacts DEF GenProgress
<1>7. Apart' /\ DiskIsWhole'
  BY <1>1 DEF Apart, DiskIsWhole
<1>8. DevPlan'
  <2>1. 1..runs \subseteq 1..runs'
    BY <1>1, <1>2
  <2> QED BY <1>0, <1>1, <2>1 DEF DevPlan
<1>9. DevRead' /\ DevProgress'
  BY <1>1 DEF DevRead, DevProgress
<1> QED BY <1>3, <1>5, <1>6, <1>7, <1>8, <1>9 DEF IInv

-----------------------------------------------------------------------------
(* What setup_device does.                                                 *)
LEMMA GenStays ==
    ASSUME gen' = gen, runs' = runs, private \subseteq private',
           \A i \in 1..8 : disk'[Order[i]] = disk[Order[i]],
           GenPlan, GenProgress, gen.pc # "write" \/ ~gen.undisturbed
    PROVE  GenPlan' /\ GenProgress'
<1>1. GenPlan'
  <2>1. Pos' = Pos
    BY DEF Pos
  <2> QED BY <2>1 DEF GenPlan
<1>2. CASE gen.pc # "write"
  BY <1>1, <1>2 DEF GenProgress
<1>3. CASE gen.pc = "write" /\ ~gen.undisturbed
  <2>1. PICK g : g = gen.run
    OBVIOUS
  <2>2. \A i : Due(i)' <=> Due(i)
    BY DEF Due, Pos
  <2>3. \A i \in OnlyGenerated : IsFrom(i, g)' <=> IsFrom(i, g)
    BY DEF IsFrom, OnlyGenerated
  <2>4. \A i \in OnlyGenerated : IsFrom(i, g)' <=> ~Due(i)'
    BY <1>3, <2>1, <2>2, <2>3 DEF GenProgress
  <2>5. \A i \in 1..10 : i < Pos' /\ Order[i][2] = "key" => Order[i] \in private'
    <3>1. Pos' = Pos
      BY DEF Pos
    <3> QED BY <1>3, <3>1 DEF GenProgress
  <2>6. gen'.run = g /\ ~gen'.undisturbed
    BY <1>3, <2>1
  <2> QED BY <1>1, <2>4, <2>5, <2>6 DEF GenProgress
<1> QED BY <1>2, <1>3

(* setup_device is over, whatever it has done.                             *)
LEMMA DevOver ==
    ASSUME dev' = Idle
    PROVE  DevPlan' /\ DevRead' /\ DevProgress'
BY IdleIs DEF DevPlan, DevRead, DevProgress

(* setup_device starts; undisturbed, it finds what DiskIsWhole says.       *)
LEMMA DevStartKeeps ==
    ASSUME IInv, TypeOK', setup_device
    PROVE  IInv'
<1>0. TypeOK /\ GenPlan /\ GenProgress /\ Origin /\ Contiguous /\ Enrolled /\ Apart
      /\ DevPlan /\ DevRead /\ DevProgress /\ DiskIsWhole
  BY DEF IInv
<1>1. /\ runs' = runs + 1 /\ runs' \in 1..MaxRuns /\ runs \in 0..MaxRuns
      /\ dev.pc = "idle" /\ dev'.pc = "load_idevid" /\ dev'.run = runs'
      /\ dev'.step = "open"
      /\ dev'.undisturbed <=> gen.pc = "idle" /\ sound
      /\ gen'.pc = gen.pc /\ gen'.left = gen.left /\ gen'.step = gen.step
      /\ gen'.run = gen.run /\ gen'.undisturbed = FALSE
      /\ overlap' <=> (overlap \/ gen.pc # "idle")
      /\ sound' = FALSE /\ disk' = disk /\ private' = private
  BY <1>0, DevStarts
<1>2. runs \in Nat /\ 1..runs \subseteq 1..runs'
  BY <1>1, RunsAssumption
<1>3. /\ Origin' /\ Contiguous' /\ Enrolled'
      /\ \A i, r : IsFrom(i, r)' <=> IsFrom(i, r)
      /\ \A name : Usable(name)' <=> Usable(name)
  BY <1>0, <1>1, <1>2, DiskStays
<1>4. GenPlan' /\ GenProgress'
  <2>1. Pos' = Pos
    BY <1>1 DEF Pos
  <2>2. \A i : Due(i)' <=> Due(i)
    BY <1>1, <2>1 DEF Due
  <2>3. GenPlan'
    BY <1>0, <1>1, <1>2, <2>1 DEF GenPlan
  <2>4. PICK g : g = gen.run
    OBVIOUS
  <2>5. gen.pc = "write" =>
          /\ \A i \in OnlyGenerated : IsFrom(i, g)' <=> ~Due(i)'
          /\ \A i \in 1..10 : i < Pos' /\ Order[i][2] = "key" => Order[i] \in private'
    BY <1>0, <1>1, <1>3, <2>1, <2>2, <2>4 DEF GenProgress
  <2>6. gen'.run = g /\ ~gen'.undisturbed /\ gen'.pc = gen.pc
    BY <1>1, <2>4
  <2> QED BY <2>3, <2>5, <2>6 DEF GenProgress
<1>5. Apart' /\ DiskIsWhole'
  BY <1>1 DEF Apart, DiskIsWhole
<1>6. DevPlan' /\ DevRead'
  <2>1. dev'.run \in 1..runs'
    BY <1>1, <1>2
  <2> QED BY <1>1, <2>1 DEF DevPlan, DevRead
<1>7. DevProgress'
  <2>1. SUFFICES ASSUME sound PROVE DevProgress'
    BY <1>1 DEF DevProgress
  <2>2. \A name \in Names : Usable(name)' /\ Key(name) \in private'
    BY <1>0, <1>1, <1>3, <2>1 DEF DiskIsWhole
  <2> QED BY <1>1, <2>2, NamesAndFiles DEF DevProgress, Good
<1> QED BY <1>3, <1>4, <1>5, <1>6, <1>7 DEF IInv

(* setup_device is over before it has written anything, or is killed.      *)
LEMMA DevKilled ==
    ASSUME IInv, TypeOK', dev.pc # "idle", dev' = Idle, gen' = gen,
           UNCHANGED <<disk, private, runs, overlap>>,
           sound' = sound \/ (sound' = dev.undisturbed /\ dev.pc # "write")
    PROVE  IInv'
<1>0. TypeOK /\ GenPlan /\ GenProgress /\ Origin /\ Contiguous /\ Enrolled /\ Apart
      /\ DevPlan /\ DevRead /\ DevProgress /\ DiskIsWhole
  BY DEF IInv
<1>1. /\ Origin' /\ Contiguous' /\ Enrolled'
      /\ \A name : Usable(name)' <=> Usable(name)
  <2>1. runs \in Nat
    BY <1>0, RunsAssumption DEF TypeOK
  <2> QED BY <1>0, <2>1, DiskStays
<1>2. gen.pc # "write" \/ ~gen.undisturbed
  BY <1>0 DEF Apart
<1>3. GenPlan' /\ GenProgress'
  BY <1>0, <1>2, GenStays
<1>4. ~sound /\ (dev.undisturbed => gen.pc = "idle")
  BY <1>0 DEF Apart
<1>5. Apart'
  BY <1>0, <1>4, IdleIs DEF Apart
<1>6. DiskIsWhole'
  <2>1. SUFFICES ASSUME sound' PROVE DiskIsWhole'
    BY DEF DiskIsWhole
  <2>2. dev.undisturbed /\ dev.pc # "write"
    BY <1>4, <2>1
  <2>3. \A name \in Names : Usable(name) /\ Key(name) \in private
    BY <1>0, <2>2 DEF DevProgress, Good
  <2> QED BY <1>1, <2>3 DEF DiskIsWhole
<1>7. DevPlan' /\ DevRead' /\ DevProgress'
  BY DevOver
<1> QED BY <1>1, <1>3, <1>5, <1>6, <1>7 DEF IInv

(* setup_device goes on, and what it has read or checked is still so.      *)
LEMMA DevGoesOn ==
    ASSUME IInv, TypeOK', dev.pc # "idle", dev'.pc # "idle", gen' = gen,
           dev'.undisturbed = dev.undisturbed,
           UNCHANGED <<disk, private, runs, overlap, sound>>,
           DevPlan', DevRead', DevProgress'
    PROVE  IInv'
<1>0. TypeOK /\ GenPlan /\ GenProgress /\ Origin /\ Contiguous /\ Enrolled /\ Apart
      /\ DiskIsWhole
  BY DEF IInv
<1>1. /\ Origin' /\ Contiguous' /\ Enrolled'
      /\ \A name : Usable(name)' <=> Usable(name)
  <2>1. runs \in Nat
    BY <1>0, RunsAssumption DEF TypeOK
  <2> QED BY <1>0, <2>1, DiskStays
<1>2. gen.pc # "write" \/ ~gen.undisturbed
  BY <1>0 DEF Apart
<1>3. GenPlan' /\ GenProgress'
  BY <1>0, <1>2, GenStays
<1>4. Apart' /\ DiskIsWhole'
  BY <1>0, <1>1 DEF Apart, DiskIsWhole
<1> QED BY <1>1, <1>3, <1>4 DEF IInv

(* setup_device reads the IDevID.                                          *)
LEMMA LoadIdevidKeeps ==
    ASSUME IInv, TypeOK', load_idevid
    PROVE  IInv'
<1>0. TypeOK /\ Apart /\ DevPlan /\ DevRead /\ DevProgress
  BY DEF IInv
<1>1. /\ dev.pc = "load_idevid" /\ gen' = gen
      /\ UNCHANGED <<disk, private, runs>>
  BY <1>0, LoadIdevidIs
<1>2. CASE Ends("setup_device")
  <2>1. dev' = Idle /\ sound' = dev.undisturbed /\ overlap' = overlap
    BY <1>0, <1>2, TwoScripts DEF Ends, dev, TypeOK
  <2> QED BY <1>1, <2>1, DevKilled
<1>3. CASE /\ IsWhole(Crt("idevid"))
           /\ dev'.pc = "load_ca_cert" /\ dev'.idevid = disk[Crt("idevid")].signer
           /\ dev'.run = dev.run /\ dev'.undisturbed = dev.undisturbed
           /\ dev'.step = dev.step
           /\ UNCHANGED <<sound, overlap>>
  <2>1. DevPlan'
    BY <1>0, <1>1, <1>3 DEF DevPlan
  <2>2. DevRead'
    <3>1. IsWhole(Crt("idevid"))'
      BY <1>1, <1>3 DEF IsWhole
    <3> QED BY <1>1, <1>3, <3>1 DEF DevRead
  <2>3. DevProgress'
    <3>1. \A name : Usable(name)' <=> Usable(name)
      BY <1>1 DEF Usable, Matches, ChainsToCa, IsWhole
    <3> QED BY <1>0, <1>1, <1>3, <3>1 DEF DevProgress, Good
  <2> QED BY <1>1, <1>3, <2>1, <2>2, <2>3, DevGoesOn
<1> QED BY <1>0, <1>2, <1>3, LoadIdevidIs

(* setup_device reads the certificate of the CA.                           *)
LEMMA LoadCaCertKeeps ==
    ASSUME IInv, TypeOK', load_ca_cert
    PROVE  IInv'
<1>0. TypeOK /\ Apart /\ DevPlan /\ DevRead /\ DevProgress
  BY DEF IInv
<1>1. /\ dev.pc = "load_ca_cert" /\ gen' = gen
      /\ UNCHANGED <<disk, private, runs>>
  BY <1>0, LoadCaCertIs
<1>2. CASE Ends("setup_device")
  <2>1. dev' = Idle /\ sound' = dev.undisturbed /\ overlap' = overlap
    BY <1>0, <1>2, TwoScripts DEF Ends, dev, TypeOK
  <2> QED BY <1>1, <2>1, DevKilled
<1>3. CASE /\ IsWhole(Crt("ca"))
           /\ dev'.pc = "load_ca_key" /\ dev'.ca = disk[Crt("ca")].key
           /\ dev'.idevid = dev.idevid
           /\ dev'.run = dev.run /\ dev'.undisturbed = dev.undisturbed
           /\ dev'.step = dev.step
           /\ UNCHANGED <<sound, overlap>>
  <2>1. DevPlan'
    BY <1>0, <1>1, <1>3 DEF DevPlan
  <2>2. DevRead'
    <3>1. IsWhole(Crt("ca"))' /\ (IsWhole(Crt("idevid"))' <=> IsWhole(Crt("idevid")))
      BY <1>1, <1>3 DEF IsWhole
    <3> QED BY <1>0, <1>1, <1>3, <3>1 DEF DevRead
  <2>3. DevProgress'
    <3>1. \A name : Usable(name)' <=> Usable(name)
      BY <1>1 DEF Usable, Matches, ChainsToCa, IsWhole
    <3> QED BY <1>0, <1>1, <1>3, <3>1 DEF DevProgress, Good
  <2> QED BY <1>1, <1>3, <2>1, <2>2, <2>3, DevGoesOn
<1> QED BY <1>0, <1>2, <1>3, LoadCaCertIs

(* A whole file of generate_certs tells the run that it is from.           *)
LEMMA WholeFrom ==
    ASSUME TypeOK, Origin, NEW i \in OnlyGenerated, IsWhole(Order[i])
    PROVE  \E r \in 1..MaxRuns :
             /\ r \in 1..runs /\ IsFrom(i, r)
             /\ disk[Order[i]] = Made(Order[i], r)
             /\ disk[Order[i]].key = <<r, Order[i][1]>>
             /\ Order[i][2] = "crt" => disk[Order[i]].signer = <<r, "ca">>
<1>1. PICK r \in 1..runs : IsFrom(i, r)
  BY DEF Origin
<1>2. r \in 1..MaxRuns
  BY RunsAssumption DEF TypeOK
<1>3. i \in 1..10 /\ disk[Order[i]] = Made(Order[i], r)
  BY <1>1, OrderFacts DEF IsFrom
<1> QED BY <1>1, <1>2, <1>3, MadeFacts, OrderFacts

(* The same, said of the certificates and keys that a run is named by.     *)
LEMMA CaFrom ==
    ASSUME TypeOK, Origin
    PROVE  /\ IsWhole(Order[1]) => \E r \in 1..MaxRuns :
                r \in 1..runs /\ disk[Order[1]].key = <<r, "ca">>
           /\ IsWhole(Order[2]) => \E r \in 1..MaxRuns :
                r \in 1..runs /\ IsFrom(2, r) /\ disk[Order[2]].key = <<r, "ca">>
           /\ IsWhole(Order[8]) => \E r \in 1..MaxRuns :
                r \in 1..runs /\ IsFrom(8, r) /\ disk[Order[8]].signer = <<r, "ca">>
<1>1. 1 \in OnlyGenerated /\ 2 \in OnlyGenerated /\ 8 \in OnlyGenerated
  BY DEF OnlyGenerated
<1>2. ASSUME NEW i \in OnlyGenerated, IsWhole(Order[i])
      PROVE  \E r \in 1..MaxRuns :
               /\ r \in 1..runs /\ IsFrom(i, r)
               /\ disk[Order[i]].key = <<r, Order[i][1]>>
               /\ Order[i][2] = "crt" => disk[Order[i]].signer = <<r, "ca">>
  BY <1>2, WholeFrom
<1>3. Order[1][1] = "ca" /\ Order[2][1] = "ca" /\ Order[8][2] = "crt"
  BY OrderIs
<1> QED BY ONLY <1>1, <1>2, <1>3

(* setup_device reads the key of the CA. That the IDevID verifies is why   *)
(* ca.crt and idevid.crt are from one run.                                 *)
LEMMA LoadCaKeyKeeps ==
    ASSUME IInv, TypeOK', load_ca_key
    PROVE  IInv'
<1>0. TypeOK /\ Apart /\ DevPlan /\ DevRead /\ DevProgress /\ Origin
  BY DEF IInv
<1>1. /\ dev.pc = "load_ca_key" /\ gen' = gen
      /\ UNCHANGED <<disk, private, runs>>
  BY <1>0, LoadCaKeyIs
<1>2. CASE Ends("setup_device")
  <2>1. dev' = Idle /\ sound' = dev.undisturbed /\ overlap' = overlap
    BY <1>0, <1>2, TwoScripts DEF Ends, dev, TypeOK
  <2> QED BY <1>1, <2>1, DevKilled
<1>3. ASSUME /\ IsWhole(Key("ca")) /\ dev.idevid = dev.ca
             /\ dev'.pc = "write" /\ \E b \in BOOLEAN : dev'.left = DevItems(b)
             /\ dev'.run = dev.run /\ dev'.undisturbed = dev.undisturbed
             /\ dev'.step = dev.step
             /\ UNCHANGED <<sound, overlap>>
      PROVE  IInv'
  <2>0. 1 \in OnlyGenerated /\ 2 \in OnlyGenerated /\ 8 \in OnlyGenerated
    BY DEF OnlyGenerated
  <2>1. PICK b \in BOOLEAN : dev'.left = DevItems(b)
    BY <1>3
  <2>2. dev.run \in 1..runs /\ dev.run \in 1..MaxRuns /\ dev.step = "open"
    BY <1>0, <1>1, RunsAssumption DEF DevPlan, TypeOK
  <2>3. /\ Len(dev'.left) = IF b THEN 3 ELSE 2
        /\ dev'.left[1] = Write(Crt("ldevid"), <<dev.run, "ldevid">>, disk[Key("ca")].key)
        /\ dev'.left[2] = Write(Key("ldevid"), <<dev.run, "ldevid">>, NoKey)
        /\ b => dev'.left[3] = Write(device_config, NoKey, NoKey)
    BY <1>0, <1>3, <2>1, <2>2, DevItemsAre
  <2>4. \A i \in 1..Len(dev'.left) : i = 1 \/ i = 2 \/ (b /\ i = 3)
    BY <2>3
  <2>5. PICK q \in 1..MaxRuns : q \in 1..runs /\ disk[Key("ca")].key = <<q, "ca">>
    BY <1>0, <1>3, CaFrom, NamedFiles
  <2>6. 1 \in 1..Len(dev'.left) /\ 2 \in 1..Len(dev'.left)
    BY <2>3
  <2>7. DevPlan'
    <3>1. dev'.left # << >>
      BY <2>6
    <3>2. ASSUME NEW i \in 1..Len(dev'.left)
          PROVE  \/ \E r \in 1..runs' : dev'.left[i] = Write(Crt("ldevid"), <<dev'.run, "ldevid">>, <<r, "ca">>)
                 \/ dev'.left[i] = Write(Key("ldevid"), <<dev'.run, "ldevid">>, NoKey)
                 \/ dev'.left[i] = Write(device_config, NoKey, NoKey)
      BY <1>1, <1>3, <2>3, <2>4, <2>5, <3>2
    <3>3. dev'.step # "chmod" /\ dev'.run \in 1..runs'
      BY <1>1, <1>3, <2>2
    <3> QED BY <1>3, <3>1, <3>2, <3>3 DEF DevPlan
  <2>8. DevRead'
    <3>1. SUFFICES ASSUME ~overlap PROVE \E r \in 1..MaxRuns : IsFrom(2, r)' /\ IsFrom(8, r)'
      BY <1>3 DEF DevRead
    <3>2. /\ IsWhole(Order[8]) /\ dev.idevid = disk[Order[8]].signer
          /\ IsWhole(Order[2]) /\ dev.ca = disk[Order[2]].key
      BY <1>0, <1>1, <3>1, NamedFiles DEF DevRead
    <3>3. PICK r \in 1..MaxRuns : IsFrom(2, r) /\ disk[Order[2]].key = <<r, "ca">>
      BY <1>0, <3>2, CaFrom
    <3>4. PICK t \in 1..MaxRuns : IsFrom(8, t) /\ disk[Order[8]].signer = <<t, "ca">>
      BY <1>0, <3>2, CaFrom
    <3>5. r = t
      <4>1. dev.idevid = dev.ca
        BY <1>3
      <4>2. <<r, "ca">> = <<t, "ca">>
        BY <3>2, <3>3, <3>4, <4>1, Zenon
      <4> QED BY ONLY <4>2
    <3> QED BY <1>1, <3>3, <3>4, <3>5 DEF IsFrom
  <2>9. DevProgress'
    <3>1. \A name : Usable(name)' <=> Usable(name)
      BY <1>1 DEF Usable, Matches, ChainsToCa, IsWhole
    <3>2. Crt("ldevid") \in DevFiles' /\ Key("ldevid") \in DevFiles'
      <4>1. dev'.left[1].file = Crt("ldevid") /\ dev'.left[2].file = Key("ldevid")
        BY <2>3 DEF Write
      <4> QED BY <2>6, <4>1 DEF DevFiles
    <3>3. ASSUME dev.undisturbed, NEW i \in 1..Len(dev'.left), dev'.left[i].file = Crt("ldevid")
          PROVE  dev'.left[i].content.signer = disk'[Crt("ca")].key
      <4>1. Usable("ca")
        BY <1>0, <1>1, <3>3, NamesAndFiles DEF DevProgress, Good
      <4>2. disk[Key("ca")].key = disk[Crt("ca")].key
        BY <4>1 DEF Usable, Matches
      <4>3. i = 1
        <5>1. Key("ldevid") # Crt("ldevid") /\ device_config # Crt("ldevid")
          BY NamesAndFiles
        <5> QED BY <2>3, <2>4, <3>3, <5>1 DEF Write
      <4>4. dev'.left[1].content.signer = disk[Key("ca")].key
        BY <2>3 DEF Write, Document
      <4> QED BY <1>1, <4>2, <4>3, <4>4
    <3>4. dev'.step = "open"
      BY <1>3, <2>2
    <3>5. dev.undisturbed => Key("ldevid") \in private /\ \A name \in Names \ {"ldevid"} : Good(name)
      BY <1>0, <1>1 DEF DevProgress
    <3> QED BY <1>1, <1>3, <3>1, <3>2, <3>3, <3>4, <3>5 DEF DevProgress, Good
  <2> QED BY <1>1, <1>3, <2>7, <2>8, <2>9, DevGoesOn
<1> QED BY <1>0, <1>2, <1>3, LoadCaKeyIs

(* The file that setup_device is at.                                       *)
LEMMA DevHead ==
    ASSUME TypeOK, DevPlan, dev.pc = "write"
    PROVE  /\ dev.left \in Seq(Step) /\ dev.left # << >>
           /\ 1 \in 1..Len(dev.left) /\ Head(dev.left) = dev.left[1]
           /\ Head(dev.left).file \in {Crt("ldevid"), Key("ldevid"), device_config}
           /\ Head(dev.left).file \in DevFiles
           /\ Head(dev.left).file = Crt("ldevid") =>
                /\ Head(dev.left).content.key = <<dev.run, "ldevid">>
                /\ Head(dev.left).content =
                     Document(<<dev.run, "ldevid">>, Head(dev.left).content.signer)
                /\ \E q \in 1..runs : Head(dev.left).content.signer = <<q, "ca">>
           /\ Head(dev.left).file = Key("ldevid") =>
                Head(dev.left).content = Document(<<dev.run, "ldevid">>, NoKey)
<1>1. dev.left \in Seq(Step) /\ dev.left # << >>
  BY StepType, TwoScripts DEF dev, DevPlan
<1>2. PICK l : l = dev.left
  OBVIOUS
<1>3. 1 \in 1..Len(l) /\ Head(l) = l[1]
  BY ONLY <1>1, <1>2
<1>4. \/ \E q \in 1..runs : l[1] = Write(Crt("ldevid"), <<dev.run, "ldevid">>, <<q, "ca">>)
      \/ l[1] = Write(Key("ldevid"), <<dev.run, "ldevid">>, NoKey)
      \/ l[1] = Write(device_config, NoKey, NoKey)
  BY <1>2, <1>3 DEF DevPlan
<1>5. Crt("ldevid") # Key("ldevid") /\ Crt("ldevid") # device_config /\ Key("ldevid") # device_config
  BY NamesAndFiles
<1>6. /\ l[1].file \in {Crt("ldevid"), Key("ldevid"), device_config}
      /\ l[1].file = Crt("ldevid") =>
           /\ l[1].content.key = <<dev.run, "ldevid">>
           /\ l[1].content = Document(<<dev.run, "ldevid">>, l[1].content.signer)
           /\ \E q \in 1..runs : l[1].content.signer = <<q, "ca">>
      /\ l[1].file = Key("ldevid") =>
           l[1].content = Document(<<dev.run, "ldevid">>, NoKey)
  <2>1. ASSUME NEW q \in 1..runs, l[1] = Write(Crt("ldevid"), <<dev.run, "ldevid">>, <<q, "ca">>)
        PROVE  /\ l[1].file = Crt("ldevid")
               /\ l[1].content.key = <<dev.run, "ldevid">>
               /\ l[1].content.signer = <<q, "ca">>
               /\ l[1].content = Document(<<dev.run, "ldevid">>, <<q, "ca">>)
    BY <2>1 DEF Write, Document
  <2>2. CASE l[1] = Write(Key("ldevid"), <<dev.run, "ldevid">>, NoKey)
    BY <1>5, <2>2 DEF Write, Document
  <2>3. CASE l[1] = Write(device_config, NoKey, NoKey)
    BY <1>5, <2>3 DEF Write
  <2> QED BY <1>4, <1>5, <2>1, <2>2, <2>3
<1>7. l[1].file \in DevFiles
  BY <1>2, <1>3 DEF DevFiles
<1> QED BY <1>1, <1>2, <1>3, <1>6, <1>7

(* Nothing that setup_device writes is written by generate_certs alone.    *)
LEMMA DevLeaves ==
    ASSUME TypeOK, DevPlan, dev.pc = "write", NEW c, Writes(Head(dev.left).file, c)
    PROVE  /\ \A i \in 1..8 : disk'[Order[i]] = disk[Order[i]]
           /\ \A i \in 1..8 : \A r : IsFrom(i, r)' <=> IsFrom(i, r)
           /\ \A i \in 1..8 : IsWhole(Order[i])' <=> IsWhole(Order[i])
           /\ \A name \in Names \ {"ldevid"} : Usable(name)' <=> Usable(name)
           /\ disk'[Crt("ca")] = disk[Crt("ca")]
<1>1. ASSUME NEW i \in 1..8 PROVE disk'[Order[i]] = disk[Order[i]]
  <2>1. i \in 1..10 /\ i # 9 /\ i # 10 /\ 9 \in 1..10 /\ 10 \in 1..10
    OBVIOUS
  <2>2. Order[i] # Order[9] /\ Order[i] # Order[10] /\ Order[i] # device_config /\ Order[i] \in Files
    <3>1. \A j \in 1..10 : Order[i] = Order[j] => i = j
      BY <2>1, OrderFacts, Zenon
    <3>2. Order[i] # Order[9] /\ Order[i] # Order[10]
      BY ONLY <2>1, <3>1, Zenon
    <3>3. Order[i] # device_config /\ Order[i] \in Files
      <4>1. i \in OnlyGenerated
        BY DEF OnlyGenerated
      <4> QED BY <2>1, <4>1, OrderFacts, Zenon
    <3> QED BY <3>2, <3>3
  <2>3. Head(dev.left).file \in {Order[10], Order[9], device_config}
    BY DevHead, NamedFiles
  <2> QED BY <2>2, <2>3 DEF Writes
<1>2. \A i \in 1..8 : \A r : IsFrom(i, r)' <=> IsFrom(i, r)
  BY <1>1 DEF IsFrom
<1>3. \A i \in 1..8 : IsWhole(Order[i])' <=> IsWhole(Order[i])
  BY <1>1 DEF IsWhole
<1>4. ASSUME NEW name \in Names \ {"ldevid"} PROVE Usable(name)' <=> Usable(name)
  <2>1. \E i, j \in 1..8 : Key(name) = Order[i] /\ Crt(name) = Order[j]
    BY NamedFiles, NamesAndFiles
  <2>2. disk'[Key(name)] = disk[Key(name)] /\ disk'[Crt(name)] = disk[Crt(name)]
    BY <1>1, <2>1
  <2>3. disk'[Crt("ca")] = disk[Crt("ca")]
    BY <1>1, NamedFiles
  <2> QED BY <2>2, <2>3 DEF Usable, Matches, ChainsToCa, IsWhole
<1> QED BY <1>1, <1>2, <1>3, <1>4, NamedFiles

(* What setup_device writes keeps the facts about where files come from.   *)
LEMMA DevKeepsOrder ==
    ASSUME TypeOK, Origin, Contiguous, Enrolled, DevPlan, DevRead, dev.pc = "write",
           NEW c, c = Torn \/ c = Head(dev.left).content,
           Writes(Head(dev.left).file, c), runs' = runs, overlap' = overlap
    PROVE  Origin' /\ Contiguous' /\ Enrolled'
<1>1. /\ \A i \in OnlyGenerated : \A r : IsFrom(i, r)' <=> IsFrom(i, r)
      /\ \A i \in OnlyGenerated : IsWhole(Order[i])' <=> IsWhole(Order[i])
  BY DevLeaves DEF OnlyGenerated
<1>2. Contiguous'
  BY <1>1 DEF Contiguous
<1>3. Origin'
  <2>1. ASSUME IsWhole(Crt("ldevid"))' PROVE \E q \in 1..runs : disk'[Crt("ldevid")].signer = <<q, "ca">>
    <3>1. CASE Head(dev.left).file = Crt("ldevid")
      <4>1. disk'[Crt("ldevid")] = c
        BY <3>1 DEF Writes
      <4>2. c = Head(dev.left).content
        BY <2>1, <4>1 DEF IsWhole
      <4> QED BY <3>1, <4>1, <4>2, DevHead
    <3>2. CASE Head(dev.left).file # Crt("ldevid")
      <4>1. disk'[Crt("ldevid")] = disk[Crt("ldevid")]
        BY <3>2, NamesAndFiles DEF Writes
      <4>2. IsWhole(Crt("ldevid"))
        BY <2>1, <4>1 DEF IsWhole
      <4> QED BY <4>1, <4>2 DEF Origin
    <3> QED BY <3>1, <3>2
  <2>2. ASSUME NEW i \in OnlyGenerated, IsWhole(Order[i])' PROVE \E r \in 1..runs : IsFrom(i, r)'
    BY <1>1, <2>2 DEF Origin
  <2> QED BY <2>1, <2>2 DEF Origin
<1>4. Enrolled'
  <2>1. SUFFICES ASSUME ~overlap, NEW r \in 1..MaxRuns, IsFrom(2, r)' PROVE IsFrom(8, r)'
    BY DEF Enrolled
  <2>2. 2 \in OnlyGenerated /\ 8 \in OnlyGenerated /\ 2 \in 1..10
    BY DEF OnlyGenerated
  <2>3. PICK t \in 1..MaxRuns : IsFrom(2, t) /\ IsFrom(8, t)
    BY <2>1 DEF DevRead
  <2>4. IsFrom(2, r)
    BY <1>1, <2>1, <2>2
  <2>5. r = t
    BY <2>2, <2>3, <2>4, OneRun
  <2> QED BY <1>1, <2>2, <2>3, <2>5
<1> QED BY <1>2, <1>3, <1>4

(* setup_device turns to its next file.                                    *)
LEMMA DevTail ==
    ASSUME TypeOK, DevPlan, dev.pc = "write", Len(dev.left) # 1, dev'.left = Tail(dev.left)
    PROVE  /\ dev'.left # << >>
           /\ \A i \in 1..Len(dev'.left) :
                i + 1 \in 1..Len(dev.left) /\ dev'.left[i] = dev.left[i + 1]
           /\ DevFiles \subseteq DevFiles' \cup {Head(dev.left).file}
<1>1. PICK l, t : l = dev.left /\ t = Tail(dev.left)
  OBVIOUS
<1>2. l \in Seq(Step) /\ l # << >> /\ Len(l) # 1 /\ t = Tail(l)
  BY <1>1, DevHead
<1>3. /\ t # << >> /\ Len(t) = Len(l) - 1 /\ Len(l) \in Nat /\ Head(l) = l[1]
      /\ \A i \in 1..Len(t) : i + 1 \in 1..Len(l) /\ t[i] = l[i + 1]
  <2>1. Len(t) = Len(l) - 1 /\ Len(l) \in Nat /\ Head(l) = l[1] /\ Len(t) \in Nat
    BY ONLY <1>2
  <2>2. \A i \in 1..Len(t) : t[i] = l[i + 1]
    BY ONLY <1>2
  <2>3. \A i \in 1..Len(t) : i + 1 \in 1..Len(l)
    BY ONLY <2>1
  <2>4. Len(t) # 0
    BY ONLY <1>2, <2>1
  <2>5. t # << >>
    BY ONLY <2>4
  <2> QED BY <2>1, <2>2, <2>3, <2>5
<1>4. ASSUME NEW i \in 1..Len(l), i # 1 PROVE \E j \in 1..Len(t) : l[i] = t[j]
  <2>1. i - 1 \in 1..Len(t) /\ (i - 1) + 1 = i
    BY <1>3, <1>4
  <2> QED BY <1>3, <2>1
<1>5. {l[i].file : i \in 1..Len(l)} \subseteq {t[i].file : i \in 1..Len(t)} \cup {Head(l).file}
  <2>1. ASSUME NEW i \in 1..Len(l)
        PROVE  l[i].file \in {t[j].file : j \in 1..Len(t)} \cup {Head(l).file}
    <3>1. CASE i = 1
      BY <1>3, <3>1
    <3>2. CASE i # 1
      BY <1>4, <3>2
    <3> QED BY <3>1, <3>2
  <2> QED BY ONLY <2>1
<1>6. dev'.left = t
  BY <1>1
<1>7. DevFiles = {l[i].file : i \in 1..Len(l)} /\ DevFiles' = {t[i].file : i \in 1..Len(t)}
  BY <1>1, <1>6 DEF DevFiles
<1>8. DevFiles \subseteq DevFiles' \cup {Head(dev.left).file}
  BY ONLY <1>1, <1>5, <1>7, Zenon
<1>9. /\ dev'.left # << >>
      /\ \A i \in 1..Len(dev'.left) :
           i + 1 \in 1..Len(dev.left) /\ dev'.left[i] = dev.left[i + 1]
  BY ONLY <1>1, <1>3, <1>6, Zenon
<1> QED BY <1>8, <1>9

(* setup_device has opened or filled a file and goes on.                   *)
LEMMA DevWrote ==
    ASSUME IInv, TypeOK', dev.pc = "write", gen' = gen,
           NEW c, c = Torn \/ c = Head(dev.left).content,
           Writes(Head(dev.left).file, c),
           UNCHANGED <<private, runs, overlap, sound>>,
           dev'.pc = "write", dev'.undisturbed = dev.undisturbed, DevPlan', DevProgress'
    PROVE  IInv'
<1>0. TypeOK /\ GenPlan /\ GenProgress /\ Origin /\ Contiguous /\ Enrolled /\ Apart
      /\ DevPlan /\ DevRead /\ DiskIsWhole
  BY DEF IInv
<1>1. Origin' /\ Contiguous' /\ Enrolled'
  BY <1>0, DevKeepsOrder
<1>2. gen.pc # "write" \/ ~gen.undisturbed
  BY <1>0 DEF Apart
<1>3. /\ \A i \in 1..8 : disk'[Order[i]] = disk[Order[i]]
      /\ \A i \in 1..8 : \A r : IsFrom(i, r)' <=> IsFrom(i, r)
  BY <1>0, DevLeaves
<1>4. GenPlan' /\ GenProgress'
  BY <1>0, <1>2, <1>3, GenStays
<1>5. Apart' /\ DiskIsWhole'
  <2>1. ~sound
    BY <1>0 DEF Apart
  <2> QED BY <1>0, <2>1 DEF Apart, DiskIsWhole
<1>6. DevRead'
  <2>1. ~overlap => \E r \in 1..MaxRuns : IsFrom(2, r)' /\ IsFrom(8, r)'
    <3>1. 2 \in 1..8 /\ 8 \in 1..8
      OBVIOUS
    <3> QED BY <1>0, <1>3, <3>1 DEF DevRead
  <2> QED BY <2>1 DEF DevRead
<1> QED BY <1>1, <1>4, <1>5, <1>6 DEF IInv

(* setup_device opens a file.                                              *)
LEMMA DevOpens ==
    ASSUME IInv, TypeOK', OpenFile("setup_device")
    PROVE  IInv'
<1>0. TypeOK /\ GenPlan /\ DevPlan /\ DevProgress /\ Writing
  BY PlansWrite DEF IInv
<1>1. /\ dev.pc = "write" /\ dev.step = "open"
      /\ Turns("setup_device", "write", dev.left, "fill") /\ Others("setup_device")
      /\ Writes(Head(dev.left).file, Torn)
      /\ UNCHANGED <<private, runs, sound, overlap>>
  BY <1>0, OpenIs, TwoScripts DEF dev
<1>2. /\ gen' = gen /\ dev'.pc = "write" /\ dev'.left = dev.left /\ dev'.step = "fill"
      /\ dev'.run = dev.run /\ dev'.undisturbed = dev.undisturbed
  BY <1>1, TwoScripts DEF Turns, Others, gen, dev
<1>3. DevPlan'
  BY <1>0, <1>1, <1>2 DEF DevPlan
<1>4. DevProgress'
  <2>1. SUFFICES ASSUME dev.undisturbed PROVE DevProgress'
    BY <1>2 DEF DevProgress
  <2>2. /\ \A name \in Names \ {"ldevid"} : Good(name)
        /\ Key("ldevid") \in private
        /\ \A i \in 1..Len(dev.left) : dev.left[i].file = Crt("ldevid") =>
                    dev.left[i].content.signer = disk[Crt("ca")].key
        /\ Crt("ldevid") \notin DevFiles =>
                    disk[Crt("ldevid")] = Document(<<dev.run, "ldevid">>, disk[Crt("ca")].key)
        /\ Key("ldevid") \notin DevFiles =>
                    disk[Key("ldevid")] = Document(<<dev.run, "ldevid">>, NoKey)
    BY <1>0, <1>1, <2>1 DEF DevProgress
  <2>3. /\ \A name \in Names \ {"ldevid"} : Usable(name)' <=> Usable(name)
        /\ disk'[Crt("ca")] = disk[Crt("ca")]
    BY <1>0, <1>1, DevLeaves
  <2>4. DevFiles' = DevFiles
    BY <1>2 DEF DevFiles
  <2>5. /\ Crt("ldevid") \notin DevFiles => disk'[Crt("ldevid")] = disk[Crt("ldevid")]
        /\ Key("ldevid") \notin DevFiles => disk'[Key("ldevid")] = disk[Key("ldevid")]
    BY <1>0, <1>1, DevHead, NamesAndFiles DEF Writes
  <2> QED BY <1>1, <1>2, <2>2, <2>3, <2>4, <2>5 DEF DevProgress, Good
<1> QED BY <1>1, <1>2, <1>3, <1>4, DevWrote

(* setup_device ends.                                                      *)
LEMMA DevEnds ==
    ASSUME IInv, TypeOK', dev.pc = "write", gen' = gen, dev' = Idle,
           \A i \in 1..8 : disk'[Order[i]] = disk[Order[i]],
           Origin', Contiguous', Enrolled', private \subseteq private', runs' = runs,
           overlap' = overlap, sound' = dev.undisturbed,
           dev.undisturbed => \A name \in Names : Usable(name)' /\ Key(name) \in private'
    PROVE  IInv'
<1>0. GenPlan /\ GenProgress /\ Apart
  BY DEF IInv
<1>1. gen.pc # "write" \/ ~gen.undisturbed
  BY <1>0 DEF Apart
<1>2. GenPlan' /\ GenProgress'
  BY <1>0, <1>1, GenStays
<1>3. Apart' /\ DiskIsWhole'
  BY <1>0, IdleIs DEF Apart, DiskIsWhole
<1>4. DevPlan' /\ DevRead' /\ DevProgress'
  BY DevOver
<1> QED BY <1>2, <1>3, <1>4 DEF IInv

(* What an undisturbed setup_device has on the disk when it has filled a   *)
(* file.                                                                   *)
LEMMA DevFilled ==
    ASSUME TypeOK, DevPlan, DevProgress, dev.pc = "write", dev.step = "fill", dev.undisturbed,
           Writes(Head(dev.left).file, Head(dev.left).content)
    PROVE  /\ disk'[Crt("ca")] = disk[Crt("ca")]
           /\ \A name \in Names \ {"ldevid"} : Usable(name)' /\ Key(name) \in private
           /\ Key("ldevid") \in private
           /\ Crt("ldevid") \notin DevFiles \/ Head(dev.left).file = Crt("ldevid") =>
                disk'[Crt("ldevid")] = Document(<<dev.run, "ldevid">>, disk[Crt("ca")].key)
           /\ Key("ldevid") \notin DevFiles \/ Head(dev.left).file = Key("ldevid") =>
                disk'[Key("ldevid")] = Document(<<dev.run, "ldevid">>, NoKey)
<1>1. /\ \A name \in Names \ {"ldevid"} : Good(name)
      /\ Key("ldevid") \in private
      /\ \A i \in 1..Len(dev.left) : dev.left[i].file = Crt("ldevid") =>
                  dev.left[i].content.signer = disk[Crt("ca")].key
      /\ Crt("ldevid") \notin DevFiles =>
                  disk[Crt("ldevid")] = Document(<<dev.run, "ldevid">>, disk[Crt("ca")].key)
      /\ Key("ldevid") \notin DevFiles =>
                  disk[Key("ldevid")] = Document(<<dev.run, "ldevid">>, NoKey)
  BY DEF DevProgress
<1>2. /\ \A name \in Names \ {"ldevid"} : Usable(name)' <=> Usable(name)
      /\ disk'[Crt("ca")] = disk[Crt("ca")]
  BY DevLeaves
<1>3. /\ 1 \in 1..Len(dev.left) /\ Head(dev.left) = dev.left[1]
      /\ Head(dev.left).file \in DevFiles
      /\ Head(dev.left).file = Crt("ldevid") =>
           Head(dev.left).content = Document(<<dev.run, "ldevid">>, Head(dev.left).content.signer)
      /\ Head(dev.left).file = Key("ldevid") =>
           Head(dev.left).content = Document(<<dev.run, "ldevid">>, NoKey)
  BY DevHead
<1>4. ASSUME Head(dev.left).file = Crt("ldevid")
      PROVE  disk'[Crt("ldevid")] = Document(<<dev.run, "ldevid">>, disk[Crt("ca")].key)
  <2>1. Head(dev.left).content.signer = disk[Crt("ca")].key
    BY <1>1, <1>3, <1>4
  <2> QED BY <1>3, <1>4, <2>1 DEF Writes
<1>5. ASSUME Head(dev.left).file = Key("ldevid")
      PROVE  disk'[Key("ldevid")] = Document(<<dev.run, "ldevid">>, NoKey)
  BY <1>3, <1>5 DEF Writes
<1>6. /\ Crt("ldevid") \notin DevFiles => disk'[Crt("ldevid")] = disk[Crt("ldevid")]
      /\ Key("ldevid") \notin DevFiles => disk'[Key("ldevid")] = disk[Key("ldevid")]
  BY <1>3, NamesAndFiles DEF Writes
<1> QED BY <1>1, <1>2, <1>4, <1>5, <1>6 DEF Good

(* An LDevID as setup_device writes it chains to ca.crt.                   *)
LEMMA LdevidUsable ==
    ASSUME TypeOK, NEW r \in 1..MaxRuns, NEW k \in Keys \cup {NoKey},
           disk'[Crt("ldevid")] = Document(<<r, "ldevid">>, k),
           disk'[Key("ldevid")] = Document(<<r, "ldevid">>, NoKey),
           IsWhole(Crt("ca"))', k = disk'[Crt("ca")].key
    PROVE  Usable("ldevid")'
<1>1. <<r, "ldevid">> \in Keys
  BY DEF Keys, Names
<1>2. Document(<<r, "ldevid">>, k) \in Content /\ Document(<<r, "ldevid">>, NoKey) \in Content
  BY <1>1 DEF Document, Content
<1>3. IsWhole(Crt("ldevid"))' /\ IsWhole(Key("ldevid"))'
  BY <1>2, MarksAssumption DEF IsWhole
<1>4. disk'[Crt("ldevid")].key = <<r, "ldevid">> /\ disk'[Key("ldevid")].key = <<r, "ldevid">>
      /\ disk'[Crt("ldevid")].signer = k
  BY DEF Document
<1> QED BY <1>3, <1>4 DEF Usable, Matches, ChainsToCa

(* The plan of setup_device, when it turns to its next file.               *)
LEMMA DevPlanGoesOn ==
    ASSUME TypeOK, DevPlan, dev.pc = "write", Len(dev.left) # 1,
           dev'.pc = "write", dev'.left = Tail(dev.left), dev'.step = "open",
           dev'.run = dev.run, runs' = runs
    PROVE  DevPlan'
<1>1. /\ dev'.left # << >>
      /\ \A i \in 1..Len(dev'.left) :
           i + 1 \in 1..Len(dev.left) /\ dev'.left[i] = dev.left[i + 1]
  BY DevTail
<1>2. ASSUME NEW i \in 1..Len(dev'.left)
      PROVE  \/ \E q \in 1..runs : dev'.left[i] = Write(Crt("ldevid"), <<dev.run, "ldevid">>, <<q, "ca">>)
             \/ dev'.left[i] = Write(Key("ldevid"), <<dev.run, "ldevid">>, NoKey)
             \/ dev'.left[i] = Write(device_config, NoKey, NoKey)
  <2>1. PICK j \in 1..Len(dev.left) : dev'.left[i] = dev.left[j]
    BY <1>1
  <2> QED BY <2>1 DEF DevPlan
<1>3. dev'.step # "chmod" /\ dev'.run \in 1..runs'
  BY DEF DevPlan
<1> QED BY <1>1, <1>2, <1>3 DEF DevPlan

(* setup_device fills a file, and ends if it is the last.                  *)
LEMMA DevFills ==
    ASSUME IInv, TypeOK', FillFile("setup_device")
    PROVE  IInv'
<1>0. TypeOK /\ GenPlan /\ DevPlan /\ DevProgress /\ Writing /\ Apart
      /\ Origin /\ Contiguous /\ Enrolled /\ DevRead
  BY PlansWrite DEF IInv
<1>1. /\ dev.pc = "write" /\ dev.step = "fill" /\ Others("setup_device")
      /\ Writes(Head(dev.left).file, Head(dev.left).content)
      /\ UNCHANGED <<private, runs>>
      /\ \/ /\ Head(dev.left).file[2] = "key"
            /\ Turns("setup_device", "write", dev.left, "chmod")
            /\ UNCHANGED <<sound, overlap>>
         \/ /\ Head(dev.left).file[2] # "key"
            /\ Len(dev.left) = 1 /\ Ends("setup_device")
         \/ /\ Head(dev.left).file[2] # "key"
            /\ Len(dev.left) # 1
            /\ Turns("setup_device", "write", Tail(dev.left), "open")
            /\ UNCHANGED <<sound, overlap>>
  BY <1>0, FillIs, TwoScripts DEF dev
<1>2. /\ Head(dev.left).file \in {Crt("ldevid"), Key("ldevid"), device_config}
      /\ gen' = gen /\ dev.run \in 1..runs /\ dev.run \in 1..MaxRuns
  <2>1. Head(dev.left).file \in {Crt("ldevid"), Key("ldevid"), device_config}
    BY <1>0, <1>1, DevHead
  <2>2. gen' = gen
    BY <1>1, TwoScripts DEF Others, gen
  <2>3. dev.run \in 1..runs /\ runs \in 0..MaxRuns
    BY <1>0, <1>1 DEF DevPlan, TypeOK
  <2>4. dev.run \in 1..MaxRuns
    BY <2>3, RunsAssumption
  <2> QED BY <2>1, <2>2, <2>3, <2>4
<1>3. Key("ldevid")[2] = "key" /\ Crt("ldevid")[2] # "key" /\ device_config[2] # "key"
  BY DEF Key, Crt, device_config
<1>4. ASSUME dev.undisturbed
      PROVE  /\ disk'[Crt("ca")] = disk[Crt("ca")]
             /\ \A name \in Names \ {"ldevid"} : Usable(name)' /\ Key(name) \in private
             /\ Key("ldevid") \in private
             /\ Crt("ldevid") \notin DevFiles \/ Head(dev.left).file = Crt("ldevid") =>
                  disk'[Crt("ldevid")] = Document(<<dev.run, "ldevid">>, disk[Crt("ca")].key)
             /\ Key("ldevid") \notin DevFiles \/ Head(dev.left).file = Key("ldevid") =>
                  disk'[Key("ldevid")] = Document(<<dev.run, "ldevid">>, NoKey)
             /\ \A i \in 1..Len(dev.left) : dev.left[i].file = Crt("ldevid") =>
                  dev.left[i].content.signer = disk[Crt("ca")].key
  BY <1>0, <1>1, <1>4, DevFilled DEF DevProgress
<1>5. CASE /\ Head(dev.left).file[2] = "key"
           /\ Turns("setup_device", "write", dev.left, "chmod")
           /\ UNCHANGED <<sound, overlap>>
  <2>1. Head(dev.left).file = Key("ldevid")
    BY <1>2, <1>3, <1>5
  <2>2. /\ dev'.pc = "write" /\ dev'.left = dev.left /\ dev'.step = "chmod"
        /\ dev'.run = dev.run /\ dev'.undisturbed = dev.undisturbed
    BY <1>5 DEF Turns, dev
  <2>3. DevPlan'
    BY <1>0, <1>1, <2>1, <2>2 DEF DevPlan
  <2>4. DevProgress'
    <3>1. SUFFICES ASSUME dev.undisturbed PROVE DevProgress'
      BY <2>2 DEF DevProgress
    <3>2. DevFiles' = DevFiles
      BY <2>2 DEF DevFiles
    <3> QED BY <1>1, <1>4, <2>1, <2>2, <3>1, <3>2 DEF DevProgress, Good
  <2> QED BY <1>1, <1>2, <1>5, <2>2, <2>3, <2>4, DevWrote
<1>6. CASE /\ Head(dev.left).file[2] # "key" /\ Len(dev.left) # 1
           /\ Turns("setup_device", "write", Tail(dev.left), "open")
           /\ UNCHANGED <<sound, overlap>>
  <2>1. /\ dev'.pc = "write" /\ dev'.left = Tail(dev.left) /\ dev'.step = "open"
        /\ dev'.run = dev.run /\ dev'.undisturbed = dev.undisturbed
    BY <1>6 DEF Turns, dev
  <2>2. DevPlan'
    BY <1>0, <1>1, <1>6, <2>1, DevPlanGoesOn
  <2>3. DevProgress'
    <3>1. SUFFICES ASSUME dev.undisturbed PROVE DevProgress'
      BY <2>1 DEF DevProgress
    <3>2. /\ \A i \in 1..Len(dev'.left) :
               i + 1 \in 1..Len(dev.left) /\ dev'.left[i] = dev.left[i + 1]
          /\ DevFiles \subseteq DevFiles' \cup {Head(dev.left).file}
      BY <1>0, <1>1, <1>6, <2>1, DevTail
    <3>3. \A i \in 1..Len(dev'.left) : dev'.left[i].file = Crt("ldevid") =>
             dev'.left[i].content.signer = disk'[Crt("ca")].key
      BY <1>4, <3>1, <3>2
    <3>4. /\ Crt("ldevid") \notin DevFiles' =>
               disk'[Crt("ldevid")] = Document(<<dev'.run, "ldevid">>, disk'[Crt("ca")].key)
          /\ Key("ldevid") \notin DevFiles' =>
               disk'[Key("ldevid")] = Document(<<dev'.run, "ldevid">>, NoKey)
      BY <1>4, <2>1, <3>1, <3>2
    <3>5. /\ \A name \in Names \ {"ldevid"} : Usable(name)' /\ Key(name) \in private'
          /\ Key("ldevid") \in private'
      BY <1>1, <1>4, <3>1
    <3> QED BY <2>1, <3>3, <3>4, <3>5 DEF DevProgress, Good
  <2> QED BY <1>1, <1>2, <1>6, <2>1, <2>2, <2>3, DevWrote
<1>7. CASE /\ Head(dev.left).file[2] # "key" /\ Len(dev.left) = 1 /\ Ends("setup_device")
  <2>1. dev' = Idle /\ sound' = dev.undisturbed /\ overlap' = overlap
    BY <1>0, <1>7, TwoScripts DEF Ends, dev, TypeOK
  <2>2. Origin' /\ Contiguous' /\ Enrolled'
    BY <1>0, <1>1, <2>1, DevKeepsOrder
  <2>3. \A i \in 1..8 : disk'[Order[i]] = disk[Order[i]]
    BY <1>0, <1>1, DevLeaves
  <2>4. ASSUME dev.undisturbed PROVE \A name \in Names : Usable(name)' /\ Key(name) \in private'
    <3>1. DevFiles = {Head(dev.left).file}
      <4>1. Head(dev.left) = dev.left[1]
        BY <1>0, <1>1, DevHead
      <4> QED BY <1>7, <4>1 DEF DevFiles
    <3>2. Head(dev.left).file # Key("ldevid")
      BY <1>3, <1>7
    <3>3. /\ disk'[Crt("ldevid")] = Document(<<dev.run, "ldevid">>, disk'[Crt("ca")].key)
          /\ disk'[Key("ldevid")] = Document(<<dev.run, "ldevid">>, NoKey)
      BY <1>4, <2>4, <3>1, <3>2
    <3>4. Usable("ca")' /\ IsWhole(Crt("ca"))'
      BY <1>4, <2>4, NamesAndFiles DEF Usable, ChainsToCa
    <3>5. disk'[Crt("ca")].key \in Keys \cup {NoKey}
      <4>1. disk'[Crt("ca")] \in Content
        BY <3>4, NamesAndFiles DEF IsWhole, TypeOK
      <4> QED BY <4>1 DEF Content
    <3>6. Usable("ldevid")'
      BY <1>0, <1>2, <3>3, <3>4, <3>5, LdevidUsable
    <3> QED BY <1>1, <1>4, <2>4, <3>6
  <2> QED BY <1>1, <1>2, <2>1, <2>2, <2>3, <2>4, DevEnds
<1> QED BY <1>1, <1>5, <1>6, <1>7

(* setup_device makes its key private, and ends if a URL has no port.      *)
LEMMA DevChmods ==
    ASSUME IInv, TypeOK', ChmodFile("setup_device")
    PROVE  IInv'
<1>0. /\ TypeOK /\ GenPlan /\ GenProgress /\ DevPlan /\ DevProgress /\ Writing /\ Apart
      /\ Origin /\ Contiguous /\ Enrolled /\ DevRead /\ DiskIsWhole
  BY PlansWrite DEF IInv
<1>1. /\ dev.pc = "write" /\ dev.step = "chmod" /\ Others("setup_device")
      /\ private' = private \cup {Head(dev.left).file}
      /\ UNCHANGED <<disk, runs>>
      /\ \/ Len(dev.left) = 1 /\ Ends("setup_device")
         \/ /\ Len(dev.left) # 1
            /\ Turns("setup_device", "write", Tail(dev.left), "open")
            /\ UNCHANGED <<sound, overlap>>
  BY <1>0, ChmodIs, TwoScripts DEF dev
<1>2. Head(dev.left).file = Key("ldevid") /\ gen' = gen
  BY <1>0, <1>1, TwoScripts DEF Others, gen, DevPlan
<1>3. dev.run \in 1..runs /\ dev.run \in 1..MaxRuns /\ runs \in Nat
  <2>1. dev.run \in 1..runs /\ runs \in 0..MaxRuns
    BY <1>0, <1>1 DEF DevPlan, TypeOK
  <2> QED BY <2>1, RunsAssumption
<1>4. \A name : Usable(name)' <=> Usable(name)
  BY <1>1, <1>3, DiskStays
<1>5. \A i \in 1..8 : disk'[Order[i]] = disk[Order[i]]
  BY <1>1
<1>6. gen.pc # "write" \/ ~gen.undisturbed
  BY <1>0, <1>1 DEF Apart
<1>7. GenPlan' /\ GenProgress'
  BY <1>0, <1>1, <1>2, <1>5, <1>6, GenStays
<1>8. dev.undisturbed =>
        /\ \A name \in Names \ {"ldevid"} : Usable(name) /\ Key(name) \in private
        /\ Key("ldevid") \in private
        /\ \A i \in 1..Len(dev.left) : dev.left[i].file = Crt("ldevid") =>
             dev.left[i].content.signer = disk[Crt("ca")].key
        /\ Crt("ldevid") \notin DevFiles =>
             disk[Crt("ldevid")] = Document(<<dev.run, "ldevid">>, disk[Crt("ca")].key)
        /\ disk[Key("ldevid")] = Document(<<dev.run, "ldevid">>, NoKey)
  BY <1>0, <1>1 DEF DevProgress, Good
<1>9. CASE /\ Len(dev.left) # 1
           /\ Turns("setup_device", "write", Tail(dev.left), "open")
           /\ UNCHANGED <<sound, overlap>>
  <2>1. /\ dev'.pc = "write" /\ dev'.left = Tail(dev.left) /\ dev'.step = "open"
        /\ dev'.run = dev.run /\ dev'.undisturbed = dev.undisturbed
    BY <1>9 DEF Turns, dev
  <2>2. DevPlan'
    BY <1>0, <1>1, <1>9, <2>1, DevPlanGoesOn
  <2>3. DevProgress'
    <3>1. SUFFICES ASSUME dev.undisturbed PROVE DevProgress'
      BY <2>1 DEF DevProgress
    <3>2. /\ \A i \in 1..Len(dev'.left) :
               i + 1 \in 1..Len(dev.left) /\ dev'.left[i] = dev.left[i + 1]
          /\ DevFiles \subseteq DevFiles' \cup {Head(dev.left).file}
      BY <1>0, <1>1, <1>9, <2>1, DevTail
    <3>3. \A i \in 1..Len(dev'.left) : dev'.left[i].file = Crt("ldevid") =>
             dev'.left[i].content.signer = disk'[Crt("ca")].key
      BY <1>1, <1>8, <3>1, <3>2
    <3>4. /\ Crt("ldevid") \notin DevFiles' =>
               disk'[Crt("ldevid")] = Document(<<dev'.run, "ldevid">>, disk'[Crt("ca")].key)
          /\ disk'[Key("ldevid")] = Document(<<dev'.run, "ldevid">>, NoKey)
      <4>1. Crt("ldevid") # Key("ldevid")
        BY NamesAndFiles
      <4> QED BY <1>1, <1>2, <1>8, <2>1, <3>1, <3>2, <4>1
    <3>5. /\ \A name \in Names \ {"ldevid"} : Usable(name)' /\ Key(name) \in private'
          /\ Key("ldevid") \in private'
      BY <1>1, <1>4, <1>8, <3>1
    <3> QED BY <2>1, <3>3, <3>4, <3>5 DEF DevProgress, Good
  <2>4. DevRead'
    <3>1. ~overlap => \E r \in 1..MaxRuns : IsFrom(2, r)' /\ IsFrom(8, r)'
      BY <1>0, <1>1 DEF DevRead, IsFrom
    <3> QED BY <1>9, <2>1, <3>1 DEF DevRead
  <2>5. Origin' /\ Contiguous' /\ Enrolled'
    BY <1>0, <1>1, <1>3, <1>9, DiskStays
  <2>6. Apart' /\ DiskIsWhole'
    <3>1. ~sound
      BY <1>0, <1>1 DEF Apart
    <3> QED BY <1>0, <1>1, <1>2, <1>9, <2>1, <3>1 DEF Apart, DiskIsWhole
  <2> QED BY <1>7, <2>2, <2>3, <2>4, <2>5, <2>6 DEF IInv
<1>10. CASE Len(dev.left) = 1 /\ Ends("setup_device")
  <2>1. dev' = Idle /\ sound' = dev.undisturbed /\ overlap' = overlap
    BY <1>0, <1>10, TwoScripts DEF Ends, dev, TypeOK
  <2>2. Origin' /\ Contiguous' /\ Enrolled'
    BY <1>0, <1>1, <1>3, <2>1, DiskStays
  <2>3. ASSUME dev.undisturbed PROVE \A name \in Names : Usable(name)' /\ Key(name) \in private'
    <3>1. DevFiles = {Head(dev.left).file}
      <4>1. Head(dev.left) = dev.left[1]
        BY <1>0, <1>1, DevHead
      <4> QED BY <1>10, <4>1 DEF DevFiles
    <3>2. Crt("ldevid") # Key("ldevid")
      BY NamesAndFiles
    <3>3. /\ disk'[Crt("ldevid")] = Document(<<dev.run, "ldevid">>, disk'[Crt("ca")].key)
          /\ disk'[Key("ldevid")] = Document(<<dev.run, "ldevid">>, NoKey)
      BY <1>1, <1>2, <1>8, <2>3, <3>1, <3>2
    <3>4. Usable("ca")' /\ IsWhole(Crt("ca"))'
      BY <1>4, <1>8, <2>3, NamesAndFiles DEF Usable, ChainsToCa
    <3>5. disk'[Crt("ca")].key \in Keys \cup {NoKey}
      <4>1. disk'[Crt("ca")] \in Content
        BY <3>4, NamesAndFiles DEF IsWhole, TypeOK
      <4> QED BY <4>1 DEF Content
    <3>6. Usable("ldevid")'
      BY <1>0, <1>3, <3>3, <3>4, <3>5, LdevidUsable
    <3> QED BY <1>1, <1>4, <1>8, <2>3, <3>6
  <2> QED BY <1>1, <1>2, <1>5, <2>1, <2>2, <2>3, DevEnds
<1> QED BY <1>1, <1>9, <1>10

(* setup_device dies.                                                      *)
LEMMA DevKillKeeps ==
    ASSUME IInv, TypeOK', Kill("setup_device")
    PROVE  IInv'
<1>1. TypeOK
  BY DEF IInv
<1>2. /\ dev.pc # "idle" /\ dev' = Idle /\ gen' = gen
      /\ UNCHANGED <<disk, private, runs, sound, overlap>>
  BY <1>1, KillIs, TwoScripts DEF Others, gen, dev
<1> QED BY <1>2, DevKilled

(* What the servers do changes nothing that the invariant is about.        *)
LEMMA ServersKeep ==
    ASSUME IInv, TypeOK', UNCHANGED <<disk, private, script, runs, sound, overlap>>
    PROVE  IInv'
<1>1. gen' = gen /\ dev' = dev
  BY DEF gen, dev
<1>2. Pos' = Pos /\ (\A i : Due(i)' <=> Due(i)) /\ DevFiles' = DevFiles
  BY <1>1 DEF Pos, Due, DevFiles
<1>3. /\ \A i, r : IsFrom(i, r)' <=> IsFrom(i, r)
      /\ \A f : IsWhole(f)' <=> IsWhole(f)
      /\ \A name : Usable(name)' <=> Usable(name)
      /\ \A name : Good(name)' <=> Good(name)
  BY DEF IsFrom, IsWhole, Usable, Matches, ChainsToCa, Good
<1>4. /\ (GenPlan => GenPlan') /\ (Origin => Origin') /\ (Contiguous => Contiguous')
      /\ (Enrolled => Enrolled') /\ (Apart => Apart') /\ (DevPlan => DevPlan')
      /\ (DevRead => DevRead') /\ (DiskIsWhole => DiskIsWhole')
  BY <1>1, <1>2, <1>3 DEF GenPlan, Origin, Contiguous, Enrolled, Apart, DevPlan, DevRead, DiskIsWhole
<1>5. GenProgress => GenProgress'
  BY <1>1, <1>2, <1>3 DEF GenProgress
<1>6. DevProgress => DevProgress'
  BY <1>1, <1>2, <1>3 DEF DevProgress
<1> QED BY <1>4, <1>5, <1>6 DEF IInv

(* The empty directory satisfies the invariant.                            *)
LEMMA InitInv == Init => IInv
<1> SUFFICES ASSUME Init PROVE IInv
  OBVIOUS
<1>1. gen.pc = "idle" /\ dev.pc = "idle" /\ dev.step = "open"
  BY TwoScripts, IdleIs DEF Init, gen, dev
<1>2. \A i \in 1..10 : ~IsWhole(Order[i])
  BY OrderFacts DEF Init, IsWhole
<1>3. TypeOK
  <2>1. script \in [Scripts -> Running]
    BY IdleType DEF Init
  <2>2. server \in [Servers ->
         [pc : {"down", "loading", "up"}, command : [as_cert : Names, pair : Names],
          key : Keys \cup {NoKey}, own : Content, quiet : BOOLEAN, fresh : BOOLEAN]]
    BY DownType DEF Init
  <2>3. runs \in 0..MaxRuns
    BY RunsAssumption DEF Init
  <2>4. disk \in [Files -> Content \cup {Missing, Torn}] /\ private \subseteq {Key(name) : name \in Names}
    BY DEF Init
  <2>5. sound \in BOOLEAN /\ overlap \in BOOLEAN
    BY DEF Init
  <2> QED BY <2>1, <2>2, <2>3, <2>4, <2>5 DEF TypeOK
<1>4. Origin
  BY <1>2, OrderFacts, NamedFiles DEF Origin
<1>5. Contiguous
  <2>1. \A i \in OnlyGenerated : \A r \in 1..MaxRuns : ~IsFrom(i, r)
    BY <1>2, MadeFacts, OrderFacts DEF IsFrom, IsWhole
  <2> QED BY <2>1 DEF Contiguous
<1>6. Enrolled
  BY <1>2, NamedFiles DEF Enrolled
<1>7. GenPlan /\ GenProgress /\ DevPlan /\ DevRead /\ DevProgress
  BY <1>1 DEF GenPlan, GenProgress, DevPlan, DevRead, DevProgress
<1>8. Apart /\ DiskIsWhole
  BY <1>1 DEF Init, Apart, DiskIsWhole
<1> QED BY <1>3, <1>4, <1>5, <1>6, <1>7, <1>8 DEF IInv

(* Every step keeps the invariant.                                         *)
LEMMA NextInv == IInv /\ [Next]_vars => IInv'
<1> SUFFICES ASSUME IInv, [Next]_vars PROVE IInv'
  OBVIOUS
<1>1. TypeOK'
  BY NextType DEF IInv
<1>2. CASE generate_certs  BY <1>1, <1>2, GenStartKeeps
<1>3. CASE setup_device  BY <1>1, <1>3, DevStartKeeps
<1>4. CASE load_idevid  BY <1>1, <1>4, LoadIdevidKeeps
<1>5. CASE load_ca_cert  BY <1>1, <1>5, LoadCaCertKeeps
<1>6. CASE load_ca_key  BY <1>1, <1>6, LoadCaKeyKeeps
<1>7. ASSUME NEW s \in Scripts, OpenFile(s) PROVE IInv'
  BY <1>1, <1>7, TwoScripts, GenOpens, DevOpens
<1>8. ASSUME NEW s \in Scripts, FillFile(s) PROVE IInv'
  BY <1>1, <1>8, TwoScripts, GenFills, DevFills
<1>9. ASSUME NEW s \in Scripts, ChmodFile(s) PROVE IInv'
  BY <1>1, <1>9, TwoScripts, GenChmodKeeps, DevChmods
<1>10. ASSUME NEW s \in Scripts, Kill(s) PROVE IInv'
  BY <1>1, <1>10, TwoScripts, GenKilled, DevKillKeeps
<1>11. CASE auth_main
  BY <1>1, <1>11, ServersKeep DEF auth_main, Launch
<1>12. ASSUME NEW c \in Commands, server_main(c) PROVE IInv'
  BY <1>1, <1>12, ServersKeep DEF server_main, Launch
<1>13. ASSUME NEW v \in Servers, server_tls_context(v) \/ Stop(v) PROVE IInv'
  BY <1>1, <1>13, ServersKeep DEF server_tls_context, Stop
<1>14. CASE UNCHANGED vars
  BY <1>1, <1>14, ServersKeep DEF vars
<1> QED BY <1>2, <1>3, <1>4, <1>5, <1>6, <1>7, <1>8, <1>9, <1>10, <1>11, <1>12, <1>13, <1>14 DEF Next

(* The inductive invariant holds of every behaviour.                       *)
THEOREM DiskInvariant == Spec => []IInv
BY InitInv, NextInv, PTL DEF Spec

(* Every variable keeps its type, however often the scripts run, die and   *)
(* overlap.                                                                *)
THEOREM Typing == Spec => []TypeOK
<1>1. IInv => TypeOK
  BY DEF IInv
<1> QED BY <1>1, DiskInvariant, PTL

(* After a generate_certs that nobody disturbed, and after every           *)
(* undisturbed setup_device that follows it, whichever way that one ended, *)
(* all pairs match, chain to ca.crt and keep their keys private.           *)
THEOREM WholeDisk == Spec => []DiskIsWhole
<1>1. IInv => DiskIsWhole
  BY DEF IInv
<1> QED BY <1>1, DiskInvariant, PTL

(* Killed wherever it may be, generate_certs leaves no CA under which the  *)
(* device can be enrolled and another certificate cannot be verified.      *)
LEMMA EnrolledIsWhole == IInv => EnrolledInWholeDomain
<1> SUFFICES ASSUME IInv, ~overlap, Usable("ldevid")
             PROVE  \A name \in {"as", "rs", "idevid"} : ChainsToCa(disk[Crt(name)])
  BY DEF EnrolledInWholeDomain
<1>1. TypeOK /\ Origin /\ Contiguous /\ Enrolled
  BY DEF IInv
<1>2. /\ IsWhole(Order[2]) /\ IsWhole(Order[10])
      /\ disk[Order[10]].signer = disk[Order[2]].key
  BY NamedFiles DEF Usable, Matches, ChainsToCa
<1>3. /\ 2 \in OnlyGenerated /\ 4 \in OnlyGenerated /\ 6 \in OnlyGenerated /\ 8 \in OnlyGenerated
      /\ 2 < 4 /\ 4 < 8 /\ 2 < 6 /\ 6 < 8
  BY DEF OnlyGenerated
<1>4. PICK r \in 1..MaxRuns : IsFrom(2, r) /\ disk[Order[2]].key = <<r, "ca">>
  BY <1>1, <1>2, CaFrom
<1>5. IsFrom(8, r)
  BY <1>1, <1>2, <1>4, NamedFiles DEF Enrolled
<1>6. IsFrom(4, r) /\ IsFrom(6, r)
  BY <1>1, <1>3, <1>4, <1>5 DEF Contiguous
<1>7. /\ disk[Order[4]].signer = <<r, "ca">> /\ disk[Order[6]].signer = <<r, "ca">>
      /\ disk[Order[8]].signer = <<r, "ca">>
  BY <1>5, <1>6, MadeFacts, OrderFacts, OrderIs DEF IsFrom
<1> QED BY <1>2, <1>4, <1>7, NamedFiles DEF ChainsToCa

(* verify_idevid suffices: an LDevID that clients can verify implies that  *)
(* AS, RS and IDevID have certificates they can verify.                    *)
THEOREM WholeDomain == Spec => []EnrolledInWholeDomain
BY EnrolledIsWhole, DiskInvariant, PTL
=============================================================================
