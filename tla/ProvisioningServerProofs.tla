---------------------- MODULE ProvisioningServerProofs -----------------------
(***************************************************************************)
(* What two servers that read their files at different moments, and never  *)
(* again, can rely on, whatever generate_certs.py and setup_device.py do   *)
(* to the files.  It follows from the invariant of the files,              *)
(* ProvisioningProofs!IInv.                                                *)
(***************************************************************************)
EXTENDS ProvisioningProofs

(* The run of generate_certs that nobody disturbs will make overlap FALSE  *)
(* when it ends; what is claimed then has to hold of it now.               *)
GenAlone == gen.pc = "write" /\ gen.undisturbed

(* What an RS that is up knows of the run r that its key is from and the   *)
(* run q whose CA signed its certificate: if the certificate chains to     *)
(* ca.crt, or comes to do so, they are one.                                *)
OfOneRun(r, q) ==
    /\ IsFrom(2, q) /\ (~overlap \/ (GenAlone /\ q = gen.run)) => r = q
    /\ GenAlone /\ Due(2) => q # gen.run

(* What a server holds that was not disturbed while it read its files, and *)
(* what it has found so far.                                               *)
AsLoaded ==
    LET s == server["as"] IN
    /\ s.command = Down.command
    /\ s.pc = "loading" /\ s.quiet => IsWhole(Key("as")) /\ s.key = disk[Key("as")].key
    /\ s.pc = "up" /\ s.quiet =>
         \E r \in 1..runs : s.own = Made(Crt("as"), r) /\ s.key = <<r, "as">>

RsLoaded ==
    LET s == server["rs"] IN
    /\ s.pc # "down" => s.command \in Commands
    /\ s.pc = "loading" /\ s.quiet => IsWhole(Crt("as")) /\ s.key = disk[Crt("as")].key
    /\ s.pc = "up" /\ s.quiet =>
         \E r, q \in 1..runs : /\ s.key = <<r, "as">> /\ s.own.signer = <<q, "ca">>
                              /\ OfOneRun(r, q)

(* The servers do nothing, and one that is loading notices what is written.*)
ServersStay ==
    \A v \in Servers :
      /\ server'[v].pc = server[v].pc /\ server'[v].command = server[v].command
      /\ server'[v].key = server[v].key /\ server'[v].own = server[v].own
      /\ server'[v].quiet => server[v].quiet
      /\ server'[v].quiet /\ server[v].pc = "loading" => disk' = disk

(* The servers are these two.                                              *)
LEMMA TwoServers ==
    /\ "as" \in Servers /\ "rs" \in Servers
    /\ \A v \in Servers : v = "as" \/ v = "rs"
BY DEF Servers

(* A file is written, and a server that is loading notices.                *)
LEMMA PutServers ==
    ASSUME TypeOK, NEW s \in Scripts, NEW c, Put(s, c)
    PROVE  ServersStay /\ \A v \in Servers : server'[v].fresh = server[v].fresh
<1>1. ASSUME NEW v \in Servers
      PROVE  /\ server'[v].pc = server[v].pc /\ server'[v].command = server[v].command
             /\ server'[v].key = server[v].key /\ server'[v].own = server[v].own
             /\ server'[v].fresh = server[v].fresh
             /\ server'[v].quiet => server[v].quiet /\ server[v].pc # "loading"
  <2>1. server[v] \in Serving
    BY ServerFields
  <2>2. PICK h : h = [server[v] EXCEPT !.quiet = @ /\ server[v].pc # "loading"]
    OBVIOUS
  <2>3. server'[v] = h
    BY <2>2 DEF Put
  <2>4. /\ h.pc = server[v].pc /\ h.command = server[v].command
        /\ h.key = server[v].key /\ h.own = server[v].own /\ h.fresh = server[v].fresh
        /\ h.quiet => server[v].quiet /\ server[v].pc # "loading"
    BY <2>1, <2>2 DEF Serving
  <2> QED BY <2>3, <2>4
<1> QED BY <1>1 DEF ServersStay

(* No script changes what a server has read.                               *)
LEMMA ScriptsOnly ==
    ASSUME TypeOK,
           \/ generate_certs \/ setup_device \/ load_idevid \/ load_ca_cert \/ load_ca_key
           \/ \E s \in Scripts : OpenFile(s) \/ FillFile(s) \/ ChmodFile(s) \/ Kill(s)
    PROVE  ServersStay
<1>1. CASE generate_certs
  <2>1. ASSUME NEW v \in Servers
        PROVE  /\ server'[v].pc = server[v].pc /\ server'[v].command = server[v].command
               /\ server'[v].key = server[v].key /\ server'[v].own = server[v].own
               /\ server'[v].quiet => server[v].quiet
    <3>1. server[v] \in Serving
      BY ServerFields
    <3>2. PICK h : h = [server[v] EXCEPT !.fresh = FALSE]
      OBVIOUS
    <3>3. server'[v] = h
      BY <1>1, <3>2 DEF generate_certs
    <3>4. /\ h.pc = server[v].pc /\ h.command = server[v].command
          /\ h.key = server[v].key /\ h.own = server[v].own
          /\ h.quiet = server[v].quiet
      BY <3>1, <3>2 DEF Serving
    <3> QED BY <3>3, <3>4
  <2>2. disk' = disk
    BY <1>1, GenStarts
  <2> QED BY <2>1, <2>2 DEF ServersStay
<1>2. CASE server' = server /\ disk' = disk
  BY <1>2 DEF ServersStay
<1>3. ASSUME NEW s \in Scripts, OpenFile(s) \/ FillFile(s) PROVE ServersStay
  BY <1>3, PutServers DEF OpenFile, FillFile
<1>4. ASSUME setup_device \/ load_idevid \/ load_ca_cert \/ load_ca_key
      PROVE  server' = server /\ disk' = disk
  BY <1>4, DevStarts DEF load_idevid, load_ca_cert, load_ca_key
<1>5. ASSUME NEW s \in Scripts, ChmodFile(s) \/ Kill(s) PROVE server' = server /\ disk' = disk
  BY <1>5 DEF ChmodFile, Kill
<1> QED BY <1>1, <1>2, <1>3, <1>4, <1>5

(* A step that makes no ca.crt and starts nothing keeps what the RS knows. *)
LEMMA OneRunStays ==
    ASSUME NEW r, NEW q, OfOneRun(r, q),
           IsFrom(2, q)' => IsFrom(2, q), overlap => overlap',
           GenAlone' => GenAlone /\ gen'.run = gen.run /\ (Due(2)' => Due(2))
    PROVE  OfOneRun(r, q)'
BY DEF OfOneRun

(* Whatever generate_certs does, an RS whose certificate chains to ca.crt  *)
(* keeps a key of the same run, or has one of a run that is not this one.  *)
LEMMA GenOpenOneRun ==
    ASSUME IInv, OpenFile("generate_certs"),
           NEW r \in 1..runs, NEW q \in 1..runs, OfOneRun(r, q)
    PROVE  OfOneRun(r, q)'
<1>0. TypeOK /\ GenPlan /\ Writing /\ q \in 1..MaxRuns
  BY PlansWrite, RunsAssumption DEF IInv, TypeOK
<1>1. /\ gen.pc = "write" /\ gen.step = "open"
      /\ Turns("generate_certs", "write", gen.left, "fill")
      /\ Writes(Head(gen.left).file, Torn)
      /\ UNCHANGED <<runs, overlap>>
  BY <1>0, OpenIs, TwoScripts DEF gen
<1>2. PICK p \in 1..10 : p = Pos /\ Writes(Order[p], Torn)
  BY <1>0, <1>1, GenHead
<1>3. gen'.run = gen.run /\ gen'.undisturbed = gen.undisturbed
  BY <1>1 DEF Turns, gen
<1>4. Due(2)' => Due(2)
  <2>1. \A i \in 1..10 : Due(i)' <=> i > Pos \/ i = Pos
    BY <1>0, <1>1, GenTurns
  <2> QED BY <1>1, <2>1 DEF Due
<1>5. IsFrom(2, q)' => IsFrom(2, q)
  <2>1. CASE p = 2
    BY <1>0, <1>2, <2>1, FromAfter, TornIsNothing
  <2>2. CASE p # 2
    BY <1>2, <2>2, FromAfter
  <2> QED BY <2>1, <2>2
<1> QED BY <1>1, <1>3, <1>4, <1>5, OneRunStays DEF GenAlone

(* generate_certs fills a file. If it is ca.crt, an undisturbed run cannot *)
(* be the one of a certificate in use; if it is the last, the claim is no  *)
(* longer suspended and holds already.                                     *)
LEMMA GenFillOneRun ==
    ASSUME IInv, FillFile("generate_certs"),
           NEW r \in 1..runs, NEW q \in 1..runs, OfOneRun(r, q)
    PROVE  OfOneRun(r, q)'
<1>0. TypeOK /\ GenPlan /\ GenProgress /\ Apart /\ Writing /\ q \in 1..MaxRuns
  BY PlansWrite, RunsAssumption DEF IInv, TypeOK
<1>1. /\ gen.pc = "write" /\ gen.step = "fill"
      /\ Writes(Head(gen.left).file, Head(gen.left).content)
      /\ runs' = runs
      /\ \/ /\ Head(gen.left).file[2] = "key"
            /\ Turns("generate_certs", "write", gen.left, "chmod")
            /\ UNCHANGED <<sound, overlap>>
         \/ /\ Head(gen.left).file[2] # "key"
            /\ Len(gen.left) = 1 /\ Ends("generate_certs")
         \/ /\ Head(gen.left).file[2] # "key"
            /\ Len(gen.left) # 1
            /\ Turns("generate_certs", "write", Tail(gen.left), "open")
            /\ UNCHANGED <<sound, overlap>>
  BY <1>0, FillIs, TwoScripts DEF gen
<1>2. PICK p \in 1..10, g \in 1..MaxRuns :
        /\ p = Pos /\ g = gen.run /\ Writes(Order[p], Made(Order[p], g))
        /\ Len(gen.left) = 11 - p /\ Head(gen.left).file = Order[p]
  BY <1>0, <1>1, GenHead
<1>3. CASE overlap' = overlap /\ gen'.pc = "write"
           /\ \/ Order[p][2] = "key" /\ Turns("generate_certs", "write", gen.left, "chmod")
              \/ Len(gen.left) # 1 /\ Turns("generate_certs", "write", Tail(gen.left), "open")
  <2>1. gen'.run = gen.run /\ gen'.undisturbed = gen.undisturbed
    BY <1>3 DEF Turns, gen
  <2>2. Due(2)' => Due(2)
    <3>1. CASE Order[p][2] = "key" /\ Turns("generate_certs", "write", gen.left, "chmod")
      <4>1. \A i \in 1..10 : Due(i)' <=> i > Pos \/ (i = Pos /\ "chmod" # "chmod")
        BY <1>0, <1>1, <1>2, <3>1, GenTurns
      <4> QED BY <4>1 DEF Due
    <3>2. CASE Len(gen.left) # 1 /\ Turns("generate_certs", "write", Tail(gen.left), "open")
      <4>1. \A i \in 1..10 : Due(i)' <=> i > Pos
        BY <1>0, <1>1, <3>2, GenGoesOn
      <4> QED BY <4>1 DEF Due
    <3> QED BY <1>3, <3>1, <3>2
  <2>3. CASE p # 2
    <3>1. IsFrom(2, q)' => IsFrom(2, q)
      BY <1>2, <2>3, FromAfter
    <3> QED BY <1>1, <1>3, <2>1, <2>2, <3>1, OneRunStays DEF GenAlone
  <2>4. CASE p = 2
    <3>1. Due(2)
      BY <1>1, <1>2, <2>4 DEF Due
    <3>2. IsFrom(2, q)' => q = g
      BY <1>0, <1>2, <2>4, FromAfter, MadeFacts, OrderFacts
    <3>3. CASE gen.undisturbed
      <4>1. q # g
        BY <1>1, <1>2, <3>1, <3>3 DEF OfOneRun, GenAlone
      <4> QED BY <1>2, <2>1, <3>2, <4>1 DEF OfOneRun
    <3>4. CASE ~gen.undisturbed
      <4>1. overlap
        BY <1>0, <1>1, <3>4 DEF Apart
      <4> QED BY <1>3, <2>1, <3>4, <4>1 DEF OfOneRun, GenAlone
    <3> QED BY <3>3, <3>4
  <2> QED BY <2>3, <2>4
<1>4. CASE Len(gen.left) = 1 /\ Ends("generate_certs")
  <2>1. p = 10
    <3>1. 11 - p = 1
      BY <1>2, <1>4
    <3> QED BY <3>1
  <2>2. gen' = Idle /\ overlap' = (overlap /\ ~gen.undisturbed)
    BY <1>4 DEF Ends, gen
  <2>3. ~GenAlone'
    BY <2>2, IdleIs DEF GenAlone
  <2>4. IsFrom(2, q)' <=> IsFrom(2, q)
    BY <1>2, <2>1, FromAfter
  <2>5. ASSUME IsFrom(2, q), ~overlap' PROVE r = q
    <3>1. CASE ~overlap
      BY <2>5, <3>1 DEF OfOneRun
    <3>2. CASE gen.undisturbed
      <4>1. IsFrom(2, g)
        <5>1. ~Due(2)
          BY <1>2, <2>1, DueFacts
        <5>2. 2 \in OnlyGenerated
          BY DEF OnlyGenerated
        <5> QED BY <1>0, <1>1, <1>2, <5>1, <5>2 DEF GenProgress
      <4>2. q = g
        BY <1>0, <2>5, <4>1, OneRun
      <4> QED BY <1>1, <1>2, <2>5, <3>2, <4>2 DEF OfOneRun, GenAlone
    <3> QED BY <2>2, <2>5, <3>1, <3>2
  <2> QED BY <2>3, <2>4, <2>5 DEF OfOneRun
<1> QED BY <1>1, <1>2, <1>3, <1>4, OrderIs DEF Turns, gen

(* generate_certs makes a key private.                                     *)
LEMMA GenChmodOneRun ==
    ASSUME IInv, ChmodFile("generate_certs"),
           NEW r \in 1..runs, NEW q \in 1..runs, OfOneRun(r, q)
    PROVE  OfOneRun(r, q)'
<1>0. TypeOK /\ GenPlan /\ Writing
  BY PlansWrite DEF IInv
<1>1. /\ gen.pc = "write" /\ gen.step = "chmod"
      /\ UNCHANGED <<disk, runs>>
      /\ \/ Len(gen.left) = 1
         \/ /\ Len(gen.left) # 1
            /\ Turns("generate_certs", "write", Tail(gen.left), "open")
            /\ UNCHANGED <<sound, overlap>>
  BY <1>0, ChmodIs, TwoScripts DEF gen
<1>2. PICK p \in 1..10 : p = Pos /\ Len(gen.left) = 11 - p /\ Order[p][2] = "key"
  BY <1>0, <1>1, GenHead
<1>3. Len(gen.left) # 1
  <2>1. p # 10
    BY <1>2, OrderIs
  <2>2. 11 - p # 1
    BY <2>1
  <2> QED BY <1>2, <2>2, Zenon
<1>4. /\ Turns("generate_certs", "write", Tail(gen.left), "open")
      /\ overlap' = overlap
  BY <1>1, <1>3
<1>5. Due(2)' => Due(2)
  <2>1. \A i \in 1..10 : Due(i)' <=> i > Pos
    BY <1>0, <1>1, <1>3, <1>4, GenGoesOn
  <2> QED BY <2>1 DEF Due
<1>6. gen'.run = gen.run /\ gen'.undisturbed = gen.undisturbed
  BY <1>4 DEF Turns, gen
<1>7. IsFrom(2, q)' <=> IsFrom(2, q)
  BY <1>1 DEF IsFrom
<1> QED BY <1>1, <1>4, <1>5, <1>6, <1>7, OneRunStays DEF GenAlone

(* What setup_device does, once it has been started.                       *)
DevSteps ==
    \/ load_idevid \/ load_ca_cert \/ load_ca_key
    \/ OpenFile("setup_device") \/ FillFile("setup_device") \/ ChmodFile("setup_device")
    \/ Kill("setup_device")

(* setup_device leaves the files of generate_certs alone.                  *)
LEMMA DevStepsKeep ==
    ASSUME IInv, DevSteps
    PROVE  /\ gen' = gen /\ overlap' = overlap /\ runs' = runs
           /\ \A i \in OnlyGenerated : disk'[Order[i]] = disk[Order[i]]
<1>0. TypeOK /\ GenPlan /\ DevPlan /\ Writing
  BY PlansWrite DEF IInv
<1>1. Ends("setup_device") => overlap' = overlap
  BY <1>0, TwoScripts DEF Ends, TypeOK
<1>2. CASE load_idevid
  <2>1. /\ gen' = gen /\ UNCHANGED <<disk, private, runs, server>>
        /\ Ends("setup_device") \/ UNCHANGED <<sound, overlap>>
    BY <1>0, <1>2, LoadIdevidIs
  <2> QED BY <1>1, <2>1
<1>3. CASE load_ca_cert
  <2>1. /\ gen' = gen /\ UNCHANGED <<disk, private, runs, server>>
        /\ Ends("setup_device") \/ UNCHANGED <<sound, overlap>>
    BY <1>0, <1>3, LoadCaCertIs
  <2> QED BY <1>1, <2>1
<1>4. CASE load_ca_key
  <2>1. /\ gen' = gen /\ UNCHANGED <<disk, private, runs, server>>
        /\ Ends("setup_device") \/ UNCHANGED <<sound, overlap>>
    BY <1>0, <1>4, LoadCaKeyIs
  <2> QED BY <1>1, <2>1
<1>5. CASE OpenFile("setup_device")
  <2>1. /\ dev.pc = "write" /\ Others("setup_device")
        /\ Writes(Head(dev.left).file, Torn)
        /\ UNCHANGED <<private, runs, sound, overlap>>
    BY <1>0, <1>5, OpenIs, TwoScripts DEF dev
  <2>2. \A i \in 1..8 : disk'[Order[i]] = disk[Order[i]]
    BY <1>0, <2>1, DevLeaves
  <2> QED BY <2>1, <2>2, TwoScripts DEF Others, gen, OnlyGenerated
<1>6. CASE FillFile("setup_device")
  <2>1. /\ dev.pc = "write" /\ Others("setup_device")
        /\ Writes(Head(dev.left).file, Head(dev.left).content)
        /\ UNCHANGED <<private, runs>>
        /\ Ends("setup_device") \/ UNCHANGED <<sound, overlap>>
    BY <1>0, <1>6, FillIs, TwoScripts DEF dev
  <2>2. \A i \in 1..8 : disk'[Order[i]] = disk[Order[i]]
    BY <1>0, <2>1, DevLeaves
  <2> QED BY <1>1, <2>1, <2>2, TwoScripts DEF Others, gen, OnlyGenerated
<1>7. CASE ChmodFile("setup_device")
  <2>1. /\ Others("setup_device")
        /\ UNCHANGED <<disk, runs, server>>
        /\ Ends("setup_device") \/ UNCHANGED <<sound, overlap>>
    BY <1>0, <1>7, ChmodIs, TwoScripts
  <2> QED BY <1>1, <2>1, TwoScripts DEF Others, gen
<1>8. CASE Kill("setup_device")
  BY <1>0, <1>8, KillIs, TwoScripts DEF Others, gen
<1> QED BY <1>2, <1>3, <1>4, <1>5, <1>6, <1>7, <1>8 DEF DevSteps

(* setup_device keeps what the RS knows.                                   *)
LEMMA DevOneRun ==
    ASSUME IInv, DevSteps, NEW r, NEW q, OfOneRun(r, q)
    PROVE  OfOneRun(r, q)'
<1>1. gen' = gen /\ overlap' = overlap
  BY DevStepsKeep
<1>2. IsFrom(2, q)' <=> IsFrom(2, q)
  BY DevStepsKeep DEF IsFrom, OnlyGenerated
<1>3. Due(2)' <=> Due(2)
  BY <1>1 DEF Due, Pos
<1> QED BY <1>1, <1>2, <1>3, OneRunStays DEF GenAlone

(* A new run is not one that a certificate in use is from.                 *)
LEMMA StartOneRun ==
    ASSUME IInv, generate_certs \/ setup_device,
           NEW r \in 1..runs, NEW q \in 1..runs, OfOneRun(r, q)
    PROVE  OfOneRun(r, q)'
<1>0. TypeOK
  BY DEF IInv
<1>1. CASE generate_certs
  <2>1. /\ gen.pc = "idle" /\ gen'.run = runs + 1 /\ disk' = disk
        /\ overlap => overlap'
        /\ runs \in 0..MaxRuns
    BY <1>0, <1>1, GenStarts
  <2>2. q # gen'.run
    <3>1. runs \in Nat
      BY <2>1, RunsAssumption
    <3> QED BY <2>1, <3>1
  <2>3. IsFrom(2, q)' <=> IsFrom(2, q)
    BY <2>1 DEF IsFrom
  <2>4. gen.pc # "write"
    BY <2>1
  <2> QED BY <2>1, <2>2, <2>3, <2>4 DEF OfOneRun, GenAlone
<1>2. CASE setup_device
  <2>1. gen'.undisturbed = FALSE /\ disk' = disk /\ (overlap => overlap')
    BY <1>0, <1>2, DevStarts
  <2>2. IsFrom(2, q)' <=> IsFrom(2, q)
    BY <2>1 DEF IsFrom
  <2> QED BY <2>1, <2>2, OneRunStays DEF GenAlone
<1> QED BY <1>1, <1>2

(* generate_certs dies.                                                    *)
LEMMA GenKillOneRun ==
    ASSUME IInv, Kill("generate_certs"), NEW r, NEW q, OfOneRun(r, q)
    PROVE  OfOneRun(r, q)'
<1>1. gen' = Idle /\ disk' = disk /\ overlap' = overlap
  BY KillIs, TwoScripts DEF IInv, gen
<1>2. IsFrom(2, q)' <=> IsFrom(2, q)
  BY <1>1 DEF IsFrom
<1> QED BY <1>1, <1>2, IdleIs, OneRunStays DEF GenAlone

(* Every step of the scripts keeps what the RS knows.                      *)
ScriptSteps ==
    \/ generate_certs \/ setup_device \/ load_idevid \/ load_ca_cert \/ load_ca_key
    \/ \E s \in Scripts : OpenFile(s) \/ FillFile(s) \/ ChmodFile(s) \/ Kill(s)

(* Whatever a script does keeps what the RS knows.                         *)
LEMMA ScriptsKeepOneRun ==
    ASSUME IInv, ScriptSteps, NEW r \in 1..runs, NEW q \in 1..runs, OfOneRun(r, q)
    PROVE  OfOneRun(r, q)'
<1>1. CASE DevSteps
  BY <1>1, DevOneRun
<1>2. CASE generate_certs \/ setup_device
  BY <1>2, StartOneRun
<1>3. CASE OpenFile("generate_certs")  BY <1>3, GenOpenOneRun
<1>4. CASE FillFile("generate_certs")  BY <1>4, GenFillOneRun
<1>5. CASE ChmodFile("generate_certs")  BY <1>5, GenChmodOneRun
<1>6. CASE Kill("generate_certs")  BY <1>6, GenKillOneRun
<1> QED BY <1>1, <1>2, <1>3, <1>4, <1>5, <1>6, TwoScripts DEF ScriptSteps, DevSteps

(* Runs are only added.                                                    *)
LEMMA RunsGrow ==
    ASSUME TypeOK, ScriptSteps
    PROVE  1..runs \subseteq 1..runs'
<1>1. runs \in Nat
  BY RunsAssumption DEF TypeOK
<1>2. runs' = runs \/ runs' = runs + 1
  BY DEF ScriptSteps, generate_certs, setup_device, Start, load_idevid, load_ca_cert,
         load_ca_key, OpenFile, FillFile, ChmodFile, Kill
<1> QED BY <1>1, <1>2

(* Whatever a script does keeps what both servers hold.                    *)
LEMMA ScriptsKeepServers ==
    ASSUME IInv, AsLoaded, RsLoaded, ScriptSteps
    PROVE  AsLoaded' /\ RsLoaded'
<1>1. ServersStay
  BY ScriptsOnly DEF IInv, ScriptSteps
<1>2. 1..runs \subseteq 1..runs'
  BY RunsGrow DEF IInv
<1>3. AsLoaded'
  BY <1>1, <1>2, TwoServers DEF AsLoaded, ServersStay, IsWhole
<1>4. RsLoaded'
  <2>1. \A r, q \in 1..runs : OfOneRun(r, q) => OfOneRun(r, q)'
    BY ScriptsKeepOneRun
  <2>2. PICK s, t : s = server["rs"] /\ t = server'["rs"]
    OBVIOUS
  <2>3. /\ t.pc = s.pc /\ t.command = s.command /\ t.key = s.key /\ t.own = s.own
        /\ t.quiet => s.quiet
        /\ t.quiet /\ s.pc = "loading" => disk' = disk
    BY <1>1, <2>2, TwoServers DEF ServersStay
  <2>4. t.pc # "down" => t.command \in Commands
    BY <2>2, <2>3 DEF RsLoaded
  <2>5. t.pc = "loading" /\ t.quiet => IsWhole(Crt("as"))' /\ t.key = disk'[Crt("as")].key
    BY <2>2, <2>3 DEF RsLoaded, IsWhole
  <2>6. t.pc = "up" /\ t.quiet =>
          \E r, q \in 1..runs' : /\ t.key = <<r, "as">> /\ t.own.signer = <<q, "ca">>
                                /\ OfOneRun(r, q)'
    BY <1>2, <2>1, <2>2, <2>3 DEF RsLoaded
  <2> QED BY <2>2, <2>4, <2>5, <2>6 DEF RsLoaded
<1> QED BY <1>3, <1>4

-----------------------------------------------------------------------------
(* A step of a server leaves everything else alone.                        *)
ServerSteps == UNCHANGED <<disk, private, script, runs, sound, overlap>>

(* Servers do not change what OfOneRun is about.                           *)
LEMMA SameRun ==
    ASSUME ServerSteps, NEW r, NEW q
    PROVE  OfOneRun(r, q)' <=> OfOneRun(r, q)
<1>1. gen' = gen /\ disk' = disk /\ overlap' = overlap
  BY DEF ServerSteps, gen
<1>2. IsFrom(2, q)' <=> IsFrom(2, q)
  BY <1>1 DEF IsFrom
<1>3. Due(2)' <=> Due(2)
  BY <1>1 DEF Due, Pos
<1> QED BY <1>1, <1>2, <1>3 DEF OfOneRun, GenAlone

(* The AS does nothing.                                                    *)
LEMMA AsStays ==
    ASSUME ServerSteps, server'["as"] = server["as"], AsLoaded
    PROVE  AsLoaded'
BY DEF ServerSteps, AsLoaded, IsWhole

(* The RS does nothing.                                                    *)
LEMMA RsStays ==
    ASSUME ServerSteps, server'["rs"] = server["rs"], RsLoaded
    PROVE  RsLoaded'
<1>1. disk' = disk /\ runs' = runs
  BY DEF ServerSteps
<1>2. IsWhole(Crt("as"))' <=> IsWhole(Crt("as"))
  BY <1>1 DEF IsWhole
<1> QED BY <1>1, <1>2, SameRun DEF RsLoaded

(* The fields of a server that is down.                                    *)
LEMMA DownIs == Down.pc = "down" /\ Down.command = [as_cert |-> "as", pair |-> "as"]
BY DEF Down

(* The AS stops, or refuses its pair.                                      *)
LEMMA AsDown ==
    ASSUME server'["as"] = Down
    PROVE  AsLoaded'
BY DownIs DEF AsLoaded

(* The RS stops, or refuses its pair.                                      *)
LEMMA RsDown ==
    ASSUME server'["rs"] = Down
    PROVE  RsLoaded'
BY DownIs DEF RsLoaded

(* The start of a server, variable by variable.                            *)
LEMMA LaunchIs ==
    ASSUME TypeOK, NEW v \in Servers, NEW c, NEW f, Launch(v, c, f)
    PROVE  /\ ServerSteps /\ server[v].pc = "down" /\ IsWhole(f)
           /\ \A o \in Servers : o # v => server'[o] = server[o]
           /\ server'[v].pc = "loading" /\ server'[v].command = c
           /\ server'[v].key = disk[f].key /\ server'[v].quiet = TRUE
           /\ server'[v].fresh = sound /\ server'[v].own = Down.own
BY DEF TypeOK, Launch, ServerSteps

(* server_tls_context, variable by variable.                               *)
LEMMA ContextIs ==
    ASSUME TypeOK, NEW v \in Servers, server_tls_context(v)
    PROVE  /\ ServerSteps /\ server[v].pc = "loading"
           /\ \A o \in Servers : o # v => server'[o] = server[o]
           /\ \/ server'[v] = Down
              \/ /\ Matches(server[v].command.pair)
                 /\ server'[v].pc = "up" /\ server'[v].own = disk[Crt(server[v].command.pair)]
                 /\ server'[v].command = server[v].command /\ server'[v].key = server[v].key
                 /\ server'[v].quiet = server[v].quiet /\ server'[v].fresh = server[v].fresh
<1>1. server[v] \in Serving
  BY ServerFields
<1>2. PICK h : h = [server[v] EXCEPT !.pc = "up", !.own = disk[Crt(server[v].command.pair)]]
  OBVIOUS
<1>3. /\ h.pc = "up" /\ h.own = disk[Crt(server[v].command.pair)]
      /\ h.command = server[v].command /\ h.key = server[v].key
      /\ h.quiet = server[v].quiet /\ h.fresh = server[v].fresh
  BY <1>1, <1>2 DEF Serving
<1>4. /\ ServerSteps /\ server[v].pc = "loading"
      /\ server' = [server EXCEPT ![v] = IF Matches(server[v].command.pair) THEN h ELSE Down]
  BY <1>2 DEF server_tls_context, ServerSteps
<1>5. /\ server'[v] = IF Matches(server[v].command.pair) THEN h ELSE Down
      /\ \A o \in Servers : o # v => server'[o] = server[o]
  BY <1>4 DEF TypeOK
<1> QED BY <1>3, <1>4, <1>5

(* The AS takes the key of the run that its certificate is from.           *)
LEMMA AsContext ==
    ASSUME IInv, AsLoaded, server_tls_context("as")
    PROVE  AsLoaded'
<1>0. TypeOK /\ Origin
  BY DEF IInv
<1>1. /\ ServerSteps /\ server["as"].pc = "loading"
      /\ \/ server'["as"] = Down
         \/ /\ Matches(server["as"].command.pair)
            /\ server'["as"].pc = "up"
            /\ server'["as"].own = disk[Crt(server["as"].command.pair)]
            /\ server'["as"].command = server["as"].command
            /\ server'["as"].key = server["as"].key
            /\ server'["as"].quiet = server["as"].quiet
  BY <1>0, ContextIs, TwoServers
<1>2. SUFFICES ASSUME Matches(server["as"].command.pair)
               PROVE  server["as"].quiet =>
                        \E r \in 1..runs : /\ disk[Crt(server["as"].command.pair)] = Made(Crt("as"), r)
                                           /\ server["as"].key = <<r, "as">>
  BY <1>1, AsDown DEF AsLoaded, ServerSteps
<1>3. server["as"].command.pair = "as"
  BY DownIs DEF AsLoaded
<1>4. IsWhole(Order[4]) /\ disk[Key("as")].key = disk[Order[4]].key /\ 4 \in OnlyGenerated
  BY <1>2, <1>3, NamedFiles DEF Matches, OnlyGenerated
<1>5. PICK r \in 1..runs : /\ disk[Order[4]] = Made(Order[4], r)
                           /\ disk[Order[4]].key = <<r, Order[4][1]>>
  BY <1>0, <1>4, WholeFrom
<1>6. ASSUME server["as"].quiet PROVE server["as"].key = <<r, "as">>
  BY <1>1, <1>4, <1>5, <1>6, OrderIs DEF AsLoaded
<1> QED BY <1>3, <1>5, <1>6, NamedFiles

(* The RS is given a certificate of the domain and, in the same moment,    *)
(* holds the key of as.crt.                                                *)
LEMMA PairIsOfOneRun ==
    ASSUME IInv, NEW name \in Names \ {"ca"}, IsWhole(Crt(name)), IsWhole(Crt("as"))
    PROVE  \E r, q \in 1..runs :
             /\ disk[Crt("as")].key = <<r, "as">> /\ disk[Crt(name)].signer = <<q, "ca">>
             /\ OfOneRun(r, q)
<1>0. TypeOK /\ GenPlan /\ GenProgress /\ Origin /\ Contiguous /\ Enrolled /\ runs \in Nat
  BY RunsAssumption DEF IInv, TypeOK
<1>1. 1..runs \subseteq 1..MaxRuns
  BY <1>0, RunsAssumption DEF TypeOK
<1>2. /\ 2 \in OnlyGenerated /\ 4 \in OnlyGenerated /\ 6 \in OnlyGenerated /\ 8 \in OnlyGenerated
      /\ 2 \in 1..10 /\ 4 \in 1..10
  BY DEF OnlyGenerated
<1>3. PICK r \in 1..runs : IsFrom(4, r) /\ disk[Order[4]].key = <<r, "as">>
  BY <1>0, <1>2, NamedFiles, OrderIs, WholeFrom
<1>4. CASE name # "ldevid"
  <2>1. PICK k \in {4, 6, 8} : Crt(name) = Order[k]
    BY <1>4, NamedFiles DEF Names
  <2>2. k \in OnlyGenerated /\ Order[k][2] = "crt" /\ k > 2 /\ (k = 4 \/ 4 < k)
    BY <1>2, OrderIs
  <2>3. PICK q \in 1..runs : IsFrom(k, q) /\ disk[Order[k]].signer = <<q, "ca">>
    BY <1>0, <2>1, <2>2, WholeFrom
  <2>4. ASSUME IsFrom(2, q) PROVE r = q
    <3>1. IsFrom(4, q)
      BY <1>0, <1>1, <1>2, <2>2, <2>3, <2>4 DEF Contiguous
    <3> QED BY <1>1, <1>2, <1>3, <3>1, OneRun
  <2>5. ASSUME GenAlone, Due(2) PROVE q # gen.run
    <3>1. PICK p \in 1..10 : p = Pos
      BY <1>0, <2>5, GenHead DEF GenAlone
    <3>2. p <= 2
      BY <2>5, <3>1 DEF Due
    <3>3. Due(k)
      BY <2>2, <3>1, <3>2 DEF Due, OnlyGenerated
    <3> QED BY <1>0, <2>2, <2>3, <2>5, <3>3 DEF GenProgress, GenAlone
  <2>6. OfOneRun(r, q)
    BY <2>4, <2>5 DEF OfOneRun
  <2> QED BY <1>3, <2>1, <2>3, <2>6, NamedFiles
<1>5. CASE name = "ldevid"
  <2>1. PICK q \in 1..runs : disk[Crt("ldevid")].signer = <<q, "ca">>
    BY <1>0, <1>5 DEF Origin
  <2>2. ASSUME GenAlone PROVE q # gen.run
    <3>1. disk[Crt("ldevid")].signer # <<gen.run, "ca">>
      BY <1>0, <1>5, <2>2 DEF GenProgress, GenAlone
    <3> QED BY <2>1, <3>1
  <2>3. ASSUME IsFrom(2, q), ~overlap PROVE r = q
    <3>1. IsFrom(8, q)
      BY <1>0, <1>1, <1>5, <2>1, <2>3 DEF Enrolled
    <3>2. IsFrom(4, q)
      BY <1>0, <1>1, <1>2, <2>3, <3>1 DEF Contiguous
    <3> QED BY <1>1, <1>2, <1>3, <3>2, OneRun
  <2>4. OfOneRun(r, q)
    BY <2>2, <2>3 DEF OfOneRun
  <2> QED BY <1>3, <1>5, <2>1, <2>4, NamedFiles
<1> QED BY <1>4, <1>5

(* The RS takes its pair.                                                  *)
LEMMA RsContext ==
    ASSUME IInv, RsLoaded, server_tls_context("rs"), \A c \in Commands : c.pair # "ca"
    PROVE  RsLoaded'
<1>0. TypeOK /\ server["rs"] \in Serving
  BY TwoServers, ServerFields DEF IInv
<1>1. /\ ServerSteps /\ server["rs"].pc = "loading"
      /\ \/ server'["rs"] = Down
         \/ /\ Matches(server["rs"].command.pair)
            /\ server'["rs"].pc = "up"
            /\ server'["rs"].own = disk[Crt(server["rs"].command.pair)]
            /\ server'["rs"].command = server["rs"].command
            /\ server'["rs"].key = server["rs"].key
            /\ server'["rs"].quiet = server["rs"].quiet
  BY <1>0, ContextIs, TwoServers
<1>2. CASE server'["rs"] = Down
  BY <1>2, RsDown
<1>3. CASE Matches(server["rs"].command.pair) /\ server'["rs"].pc = "up"
  <2>1. PICK name : name = server["rs"].command.pair
    OBVIOUS
  <2>2. server["rs"].command \in Commands /\ name \in Names \ {"ca"} /\ IsWhole(Crt(name))
    BY <1>0, <1>1, <1>3, <2>1 DEF RsLoaded, Serving, Matches
  <2>3. ASSUME server["rs"].quiet
        PROVE  \E r, q \in 1..runs :
                 /\ server["rs"].key = <<r, "as">> /\ disk[Crt(name)].signer = <<q, "ca">>
                 /\ OfOneRun(r, q)
    <3>1. IsWhole(Crt("as")) /\ server["rs"].key = disk[Crt("as")].key
      BY <1>1, <2>3 DEF RsLoaded
    <3> QED BY <2>2, <3>1, PairIsOfOneRun
  <2>4. ASSUME server'["rs"].quiet
        PROVE  \E r, q \in 1..runs' :
                 /\ server'["rs"].key = <<r, "as">> /\ server'["rs"].own.signer = <<q, "ca">>
                 /\ OfOneRun(r, q)'
    <3>1. server["rs"].quiet /\ runs' = runs
      BY <1>1, <1>3, <2>4, DownIs DEF ServerSteps
    <3>2. /\ server'["rs"].key = server["rs"].key
          /\ server'["rs"].own = disk[Crt(name)]
      BY <1>1, <1>3, <2>1, DownIs
    <3> QED BY <1>1, <2>3, <3>1, <3>2, SameRun
  <2>5. server'["rs"].command = server["rs"].command
    BY <1>1, <1>3, DownIs
  <2> QED BY <1>3, <2>2, <2>4, <2>5 DEF RsLoaded
<1> QED BY <1>1, <1>2, <1>3

(* The RS is told the certificate of the AS, and a pair of its own.        *)
AsDocumented == \A c \in Commands : c.as_cert = "as" /\ c.pair # "ca"

(* Every step keeps what both servers hold.                                *)
LEMMA ServersLearn ==
    ASSUME AsDocumented, IInv, AsLoaded, RsLoaded, [Next]_vars
    PROVE  AsLoaded' /\ RsLoaded'
<1>0. TypeOK
  BY DEF IInv
<1>1. CASE ScriptSteps
  BY <1>1, ScriptsKeepServers
<1>2. CASE auth_main
  <2>1. /\ ServerSteps /\ IsWhole(Key("as")) /\ server'["rs"] = server["rs"]
        /\ server'["as"].pc = "loading" /\ server'["as"].command = Down.command
        /\ server'["as"].key = disk[Key("as")].key
    <3>1. Launch("as", Down.command, Key("as"))
      BY <1>2 DEF auth_main
    <3>2. "as" \in Servers /\ "rs" \in Servers /\ "as" # "rs"
      BY TwoServers
    <3>3. PICK c, f : c = Down.command /\ f = Key("as")
      OBVIOUS
    <3>4. /\ ServerSteps /\ IsWhole(f)
          /\ \A o \in Servers : o # "as" => server'[o] = server[o]
          /\ server'["as"].pc = "loading" /\ server'["as"].command = c
          /\ server'["as"].key = disk[f].key
      <4>1. Launch("as", c, f)
        BY <3>1, <3>3
      <4> QED BY ONLY <1>0, <4>1, <3>2, LaunchIs
    <3> QED BY <3>2, <3>3, <3>4
  <2>2. AsLoaded'
    BY <2>1 DEF AsLoaded, IsWhole, ServerSteps
  <2> QED BY <2>1, <2>2, RsStays
<1>3. ASSUME NEW c \in Commands, server_main(c) PROVE AsLoaded' /\ RsLoaded'
  <2>1. as_certificate(c) = Crt("as")
    BY DEF AsDocumented, as_certificate
  <2>2. /\ ServerSteps /\ IsWhole(Crt("as")) /\ server'["as"] = server["as"]
        /\ server'["rs"].pc = "loading" /\ server'["rs"].command = c
        /\ server'["rs"].key = disk[Crt("as")].key
    <3>1. Launch("rs", c, Crt("as"))
      BY <1>3, <2>1 DEF server_main
    <3>2. "as" \in Servers /\ "rs" \in Servers /\ "as" # "rs"
      BY TwoServers
    <3>3. /\ ServerSteps /\ IsWhole(Crt("as"))
          /\ \A o \in Servers : o # "rs" => server'[o] = server[o]
          /\ server'["rs"].pc = "loading" /\ server'["rs"].command = c
          /\ server'["rs"].key = disk[Crt("as")].key
      BY <1>0, <3>1, <3>2, LaunchIs
    <3> QED BY <3>2, <3>3
  <2>3. RsLoaded'
    BY <2>2 DEF RsLoaded, IsWhole, ServerSteps
  <2> QED BY <2>2, <2>3, AsStays
<1>4. CASE server_tls_context("as")
  <2>1. ServerSteps /\ server'["rs"] = server["rs"]
    BY <1>0, <1>4, ContextIs, TwoServers
  <2> QED BY <1>4, <2>1, AsContext, RsStays
<1>5. CASE server_tls_context("rs")
  <2>1. ServerSteps /\ server'["as"] = server["as"]
    BY <1>0, <1>5, ContextIs, TwoServers
  <2> QED BY <1>5, <2>1, RsContext, AsStays DEF AsDocumented
<1>6. ASSUME NEW v \in Servers, Stop(v) PROVE AsLoaded' /\ RsLoaded'
  <2>1. /\ ServerSteps /\ server'[v] = Down
        /\ \A o \in Servers : o # v => server'[o] = server[o]
    BY <1>0, <1>6 DEF Stop, ServerSteps, TypeOK
  <2> QED BY <2>1, AsDown, RsDown, AsStays, RsStays, TwoServers
<1>7. CASE UNCHANGED vars
  BY <1>7, AsStays, RsStays DEF vars, ServerSteps
<1> QED BY <1>1, <1>2, <1>3, <1>4, <1>5, <1>6, <1>7, TwoServers DEF Next, ScriptSteps

(* If both certificates chain to the ca.crt of one run, so do the keys.    *)
LEMMA ServersAgree ==
    ASSUME IInv, AsLoaded, RsLoaded
    PROVE  TokensFollowTls
<1>0. TypeOK /\ Origin /\ runs \in Nat
  BY RunsAssumption DEF IInv, TypeOK
<1>1. SUFFICES ASSUME ~overlap,
                      \A v \in Servers : Up(v) /\ server[v].quiet /\ ChainsToCa(server[v].own)
               PROVE  Accepts
  BY DEF TokensFollowTls
<1>2. 2 \in OnlyGenerated /\ IsWhole(Order[2]) /\ 4 \in 1..10
  BY <1>1, TwoServers, NamedFiles DEF ChainsToCa, OnlyGenerated
<1>3. PICK c \in 1..runs : IsFrom(2, c) /\ disk[Crt("ca")].key = <<c, "ca">>
  BY <1>0, <1>2, CaFrom, NamedFiles
<1>4. PICK r0 \in 1..runs : server["as"].own = Made(Crt("as"), r0) /\ server["as"].key = <<r0, "as">>
  BY <1>1, TwoServers DEF AsLoaded, Up
<1>5. PICK r, q \in 1..runs : /\ server["rs"].key = <<r, "as">> /\ server["rs"].own.signer = <<q, "ca">>
                             /\ OfOneRun(r, q)
  BY <1>1, TwoServers DEF RsLoaded, Up
<1>6. server["as"].own.signer = <<r0, "ca">>
  BY <1>4 DEF Made, Document, Crt
<1>7. r0 = c /\ q = c
  BY <1>1, <1>3, <1>5, <1>6, TwoServers DEF ChainsToCa
<1>8. r = q
  BY <1>1, <1>3, <1>5, <1>7 DEF OfOneRun
<1> QED BY <1>4, <1>5, <1>7, <1>8 DEF Accepts

(* An RS that is told as.crt and given a pair of its own never refuses the *)
(* tokens of the AS while clients can connect to both, whichever of the    *)
(* two has been restarted since, and whatever generate_certs and           *)
(* setup_device have done, or not finished doing, in the meantime.         *)
THEOREM TokensFollow ==
    ASSUME AsDocumented
    PROVE  Spec => []TokensFollowTls
<1>1. Init => AsLoaded /\ RsLoaded
  BY TwoServers, DownIs DEF Init, AsLoaded, RsLoaded
<1>2. IInv /\ AsLoaded /\ RsLoaded /\ [Next]_vars => AsLoaded' /\ RsLoaded'
  BY ServersLearn
<1>3. IInv /\ AsLoaded /\ RsLoaded => TokensFollowTls
  BY ServersAgree
<1> QED BY <1>1, <1>2, <1>3, DiskInvariant, PTL DEF Spec

-----------------------------------------------------------------------------
(* What a server that was started on sound files relies on.                *)
FreshFiles ==
    /\ gen.pc = "idle"
    /\ \A name \in Names \ {"ldevid"} : Usable(name)
    /\ IsWhole(Crt("ldevid")) => ChainsToCa(disk[Crt("ldevid")])
    /\ dev.pc = "write" =>
         \A i \in 1..Len(dev.left) : dev.left[i].file = Crt("ldevid") =>
             dev.left[i].content.signer = disk[Crt("ca")].key

Fresh ==
    \A v \in Servers : server[v].fresh =>
        /\ server[v].pc # "down"
        /\ FreshFiles
        /\ server[v].key = disk[Crt("as")].key
        /\ Up(v) => ChainsToCa(server[v].own)

(* Files of the domain that are left alone, and an LDevID that is replaced *)
(* by one of the same CA, stay as they have to be.                         *)
LEMMA FreshStays ==
    ASSUME FreshFiles, gen'.pc = "idle",
           \A i \in OnlyGenerated : disk'[Order[i]] = disk[Order[i]],
           IsWhole(Crt("ldevid"))' =>
             \/ disk'[Crt("ldevid")] = disk[Crt("ldevid")]
             \/ disk'[Crt("ldevid")].signer = disk[Crt("ca")].key,
           dev'.pc = "write" =>
             \A i \in 1..Len(dev'.left) : dev'.left[i].file = Crt("ldevid") =>
               dev'.left[i].content.signer = disk[Crt("ca")].key
    PROVE  FreshFiles'
<1>1. ASSUME NEW name \in Names \ {"ldevid"} PROVE Usable(name)'
  <2>1. PICK k, c \in OnlyGenerated : Key(name) = Order[k] /\ Crt(name) = Order[c]
    BY NamedFiles, NamesAndFiles DEF OnlyGenerated
  <2>2. disk'[Key(name)] = disk[Key(name)] /\ disk'[Crt(name)] = disk[Crt(name)]
    BY <2>1
  <2>3. disk'[Crt("ca")] = disk[Crt("ca")]
    BY NamedFiles DEF OnlyGenerated
  <2>4. Usable(name)
    BY DEF FreshFiles
  <2> QED BY <2>2, <2>3, <2>4 DEF Usable, Matches, ChainsToCa, IsWhole
<1>2. disk'[Crt("ca")] = disk[Crt("ca")]
  BY NamedFiles DEF OnlyGenerated
<1>3. IsWhole(Crt("ca"))'
  BY <1>1, NamesAndFiles DEF Usable, Matches
<1>4. ASSUME IsWhole(Crt("ldevid"))' PROVE disk'[Crt("ldevid")].signer = disk[Crt("ca")].key
  <2>1. CASE disk'[Crt("ldevid")] = disk[Crt("ldevid")]
    <3>1. IsWhole(Crt("ldevid"))
      BY <1>4, <2>1 DEF IsWhole
    <3> QED BY <2>1, <3>1 DEF FreshFiles, ChainsToCa
  <2> QED BY <1>4, <2>1
<1> QED BY <1>1, <1>2, <1>3, <1>4 DEF FreshFiles, ChainsToCa

(* Enrolling the device spoils nothing, wherever it ends.                  *)
LEMMA DevKeepsFresh ==
    ASSUME IInv, FreshFiles, DevSteps
    PROVE  FreshFiles'
<1>0. TypeOK /\ GenPlan /\ DevPlan /\ Writing
  BY PlansWrite DEF IInv
<1>1. /\ gen'.pc = "idle"
      /\ \A i \in OnlyGenerated : disk'[Order[i]] = disk[Order[i]]
  BY DevStepsKeep DEF FreshFiles
<1>2. ASSUME disk' = disk, dev'.pc # "write" PROVE FreshFiles'
  BY <1>1, <1>2, FreshStays
<1>3. Ends("setup_device") => dev'.pc # "write"
  BY IdleIs DEF Ends, dev
<1>4. CASE load_idevid
  <2>1. disk' = disk /\ (Ends("setup_device") \/ dev'.pc = "load_ca_cert")
    BY <1>0, <1>4, LoadIdevidIs
  <2> QED BY <1>2, <1>3, <2>1
<1>5. CASE load_ca_cert
  <2>1. disk' = disk /\ (Ends("setup_device") \/ dev'.pc = "load_ca_key")
    BY <1>0, <1>5, LoadCaCertIs
  <2> QED BY <1>2, <1>3, <2>1
<1>6. CASE load_ca_key
  <2>1. /\ disk' = disk /\ dev.pc = "load_ca_key"
        /\ \/ Ends("setup_device")
           \/ IsWhole(Key("ca")) /\ \E b \in BOOLEAN : dev'.left = DevItems(b)
    BY <1>0, <1>6, LoadCaKeyIs
  <2>2. CASE Ends("setup_device")
    BY <1>2, <1>3, <2>1, <2>2
  <2>3. CASE IsWhole(Key("ca")) /\ \E b \in BOOLEAN : dev'.left = DevItems(b)
    <3>1. PICK b \in BOOLEAN : dev'.left = DevItems(b)
      BY <2>3
    <3>2. dev.run \in 1..MaxRuns
      <4>1. dev.run \in 1..runs /\ runs \in 0..MaxRuns
        BY <1>0, <2>1 DEF DevPlan, TypeOK
      <4> QED BY <4>1, RunsAssumption
    <3>3. /\ Len(DevItems(b)) = IF b THEN 3 ELSE 2
          /\ DevItems(b)[1] = Write(Crt("ldevid"), <<dev.run, "ldevid">>, disk[Key("ca")].key)
          /\ DevItems(b)[2] = Write(Key("ldevid"), <<dev.run, "ldevid">>, NoKey)
          /\ b => DevItems(b)[3] = Write(device_config, NoKey, NoKey)
      BY <1>0, <2>3, <3>2, DevItemsAre
    <3>4. disk[Key("ca")].key = disk[Crt("ca")].key
      BY NamesAndFiles DEF FreshFiles, Usable, Matches
    <3>5. ASSUME NEW i \in 1..Len(DevItems(b)), DevItems(b)[i].file = Crt("ldevid")
          PROVE  DevItems(b)[i].content.signer = disk[Crt("ca")].key
      <4>1. i = 1 \/ i = 2 \/ (i = 3 /\ b)
        BY <3>3, <3>5
      <4>2. i # 2 /\ ~(i = 3 /\ b)
        BY <3>3, <3>5, NamesAndFiles DEF Write
      <4>3. i = 1
        BY <4>1, <4>2
      <4> QED BY <3>3, <3>4, <4>3 DEF Write, Document
    <3> QED BY <1>1, <2>1, <3>1, <3>5, FreshStays
  <2> QED BY <2>1, <2>2, <2>3
<1>7. CASE OpenFile("setup_device")
  <2>1. /\ dev.pc = "write" /\ dev'.left = dev.left
        /\ Writes(Head(dev.left).file, Torn)
    BY <1>0, <1>7, OpenIs, TwoScripts DEF Turns, dev
  <2>2. IsWhole(Crt("ldevid"))' => disk'[Crt("ldevid")] = disk[Crt("ldevid")]
    BY <2>1, NamesAndFiles DEF Writes, IsWhole
  <2> QED BY <1>1, <2>1, <2>2, FreshStays DEF FreshFiles
<1>8. CASE FillFile("setup_device")
  <2>1. /\ dev.pc = "write"
        /\ Writes(Head(dev.left).file, Head(dev.left).content)
        /\ \/ Turns("setup_device", "write", dev.left, "chmod")
           \/ Ends("setup_device")
           \/ Len(dev.left) # 1 /\ Turns("setup_device", "write", Tail(dev.left), "open")
    BY <1>0, <1>8, FillIs, TwoScripts DEF dev
  <2>2. IsWhole(Crt("ldevid"))' =>
             \/ disk'[Crt("ldevid")] = disk[Crt("ldevid")]
             \/ disk'[Crt("ldevid")].signer = disk[Crt("ca")].key
    BY <1>0, <2>1, DevHead, NamesAndFiles DEF Writes, FreshFiles
  <2>3. ASSUME dev'.pc = "write", NEW i \in 1..Len(dev'.left), dev'.left[i].file = Crt("ldevid")
        PROVE  dev'.left[i].content.signer = disk[Crt("ca")].key
    <3>1. CASE dev'.left = dev.left
      BY <2>1, <2>3, <3>1 DEF FreshFiles
    <3>2. CASE Len(dev.left) # 1 /\ dev'.left = Tail(dev.left)
      <4>1. i + 1 \in 1..Len(dev.left) /\ dev'.left[i] = dev.left[i + 1]
        BY <1>0, <2>1, <2>3, <3>2, DevTail
      <4> QED BY <2>1, <2>3, <4>1 DEF FreshFiles
    <3> QED BY <1>3, <2>1, <2>3, <3>1, <3>2 DEF Turns, dev
  <2> QED BY <1>1, <2>2, <2>3, FreshStays
<1>9. CASE ChmodFile("setup_device")
  <2>1. /\ dev.pc = "write" /\ disk' = disk
        /\ \/ Ends("setup_device")
           \/ Len(dev.left) # 1 /\ Turns("setup_device", "write", Tail(dev.left), "open")
    BY <1>0, <1>9, ChmodIs, TwoScripts DEF dev
  <2>2. CASE Ends("setup_device")
    BY <1>2, <1>3, <2>1, <2>2
  <2>3. CASE Len(dev.left) # 1 /\ dev'.left = Tail(dev.left)
    <3>1. ASSUME NEW i \in 1..Len(dev'.left), dev'.left[i].file = Crt("ldevid")
          PROVE  dev'.left[i].content.signer = disk[Crt("ca")].key
      <4>1. i + 1 \in 1..Len(dev.left) /\ dev'.left[i] = dev.left[i + 1]
        BY <1>0, <2>1, <2>3, <3>1, DevTail
      <4> QED BY <2>1, <3>1, <4>1 DEF FreshFiles
    <3> QED BY <1>1, <2>1, <3>1, FreshStays
  <2> QED BY <2>1, <2>2, <2>3 DEF Turns, dev
<1>10. CASE Kill("setup_device")
  <2>1. disk' = disk /\ dev'.pc # "write"
    BY <1>0, <1>10, KillIs, TwoScripts, IdleIs DEF dev
  <2> QED BY <1>2, <2>1
<1> QED BY <1>4, <1>5, <1>6, <1>7, <1>8, <1>9, <1>10 DEF DevSteps

(* A server stays fresh until generate_certs is started.                   *)
LEMMA FreshIsKept ==
    ASSUME TypeOK, ScriptSteps, NEW v \in Servers, server'[v].fresh
    PROVE  server[v].fresh /\ ~generate_certs
<1>1. ~generate_certs
  <2>1. SUFFICES ASSUME generate_certs PROVE FALSE
    OBVIOUS
  <2>2. server[v] \in Serving
    BY ServerFields
  <2>3. PICK h : h = [server[v] EXCEPT !.fresh = FALSE]
    OBVIOUS
  <2>4. server'[v] = h
    BY <2>1, <2>3 DEF generate_certs
  <2>5. h.fresh = FALSE
    BY <2>2, <2>3 DEF Serving
  <2> QED BY <2>4, <2>5
<1>2. ASSUME NEW s \in Scripts, OpenFile(s) \/ FillFile(s) PROVE server[v].fresh
  BY <1>2, PutServers DEF OpenFile, FillFile
<1>3. ASSUME setup_device \/ load_idevid \/ load_ca_cert \/ load_ca_key
      PROVE  server[v].fresh
  BY <1>3, DevStarts DEF load_idevid, load_ca_cert, load_ca_key
<1>4. ASSUME NEW s \in Scripts, ChmodFile(s) \/ Kill(s) PROVE server[v].fresh
  BY <1>4 DEF ChmodFile, Kill
<1> QED BY <1>1, <1>2, <1>3, <1>4 DEF ScriptSteps

(* Servers do not change the files.                                        *)
LEMMA SameFresh ==
    ASSUME ServerSteps
    PROVE  FreshFiles' <=> FreshFiles
<1>1. gen' = gen /\ dev' = dev /\ disk' = disk
  BY DEF ServerSteps, gen, dev
<1>2. \A name : Usable(name)' <=> Usable(name)
  BY <1>1 DEF Usable, Matches, ChainsToCa, IsWhole
<1> QED BY <1>1, <1>2 DEF FreshFiles, IsWhole, ChainsToCa

(* The part of Fresh that is about one server.                             *)
FreshServer(v) ==
    server[v].fresh =>
        /\ server[v].pc # "down"
        /\ FreshFiles
        /\ server[v].key = disk[Crt("as")].key
        /\ Up(v) => ChainsToCa(server[v].own)

(* Fresh, server by server.                                                *)
LEMMA FreshIs == Fresh <=> \A v \in Servers : FreshServer(v)
BY DEF Fresh, FreshServer

(* A script other than a new generate_certs spoils nothing.                *)
LEMMA ScriptsKeepFresh ==
    ASSUME IInv, ScriptSteps, NEW v \in Servers, FreshServer(v)
    PROVE  FreshServer(v)'
<1>0. TypeOK /\ GenPlan /\ DevPlan /\ Writing
  BY PlansWrite DEF IInv
<1>1. SUFFICES ASSUME server'[v].fresh
               PROVE  FreshServer(v)'
  BY DEF FreshServer
<1>2. server[v].fresh /\ ~generate_certs
  BY <1>0, <1>1, FreshIsKept
<1>3. /\ server[v].pc # "down" /\ FreshFiles /\ server[v].key = disk[Crt("as")].key
      /\ Up(v) => ChainsToCa(server[v].own)
  BY <1>2 DEF FreshServer
<1>4. /\ server'[v].pc = server[v].pc /\ server'[v].key = server[v].key
      /\ server'[v].own = server[v].own
  BY <1>0, ScriptsOnly DEF ScriptSteps, ServersStay
<1>5. FreshFiles' /\ \A i \in OnlyGenerated : disk'[Order[i]] = disk[Order[i]]
  <2>1. CASE DevSteps
    BY <1>3, <2>1, DevKeepsFresh, DevStepsKeep
  <2>2. CASE setup_device
    <3>1. disk' = disk /\ gen'.pc = gen.pc /\ dev'.pc = "load_idevid"
      BY <1>0, <2>2, DevStarts
    <3> QED BY <1>3, <3>1, FreshStays DEF FreshFiles
  <2>3. CASE OpenFile("generate_certs") \/ FillFile("generate_certs")
             \/ ChmodFile("generate_certs") \/ Kill("generate_certs")
    <3>1. gen.pc # "idle"
      BY <2>3 DEF OpenFile, FillFile, ChmodFile, Kill, gen
    <3> QED BY <1>3, <3>1 DEF FreshFiles
  <2> QED BY <1>2, <2>1, <2>2, <2>3, TwoScripts DEF ScriptSteps, DevSteps
<1>6. disk'[Crt("ca")] = disk[Crt("ca")] /\ disk'[Crt("as")] = disk[Crt("as")]
  BY <1>5, NamedFiles DEF OnlyGenerated
<1>7. ChainsToCa(server[v].own) => ChainsToCa(server[v].own)'
  BY <1>4, <1>6 DEF ChainsToCa, IsWhole
<1> QED BY <1>3, <1>4, <1>5, <1>6, <1>7 DEF FreshServer, Up

(* A server that does nothing.                                             *)
LEMMA ServerStaysFresh ==
    ASSUME ServerSteps, NEW v \in Servers, FreshServer(v), server'[v] = server[v]
    PROVE  FreshServer(v)'
<1>1. ChainsToCa(server[v].own)' <=> ChainsToCa(server[v].own)
  BY DEF ChainsToCa, IsWhole, ServerSteps
<1> QED BY <1>1, SameFresh DEF FreshServer, Up, ServerSteps

(* A server that is started on sound files finds the key of as.crt.        *)
LEMMA LaunchFresh ==
    ASSUME IInv, NEW v \in Servers, NEW c, NEW f \in {Key("as"), Crt("as")}, Launch(v, c, f)
    PROVE  FreshServer(v)'
<1>1. /\ ServerSteps /\ server'[v].pc = "loading"
      /\ server'[v].key = disk[f].key /\ server'[v].fresh = sound
  BY LaunchIs DEF IInv
<1>2. SUFFICES ASSUME sound PROVE FreshServer(v)'
  BY <1>1 DEF FreshServer
<1>3. /\ \A name \in Names : Usable(name)
      /\ gen.pc = "idle" /\ dev.pc = "idle"
  BY <1>2 DEF IInv, DiskIsWhole, Apart
<1>4. FreshFiles
  BY <1>3, NamesAndFiles DEF FreshFiles, Usable
<1>5. disk[f].key = disk[Crt("as")].key
  BY <1>3, NamesAndFiles DEF Usable, Matches
<1>6. disk' = disk
  BY <1>1 DEF ServerSteps
<1> QED BY <1>1, <1>4, <1>5, <1>6, SameFresh DEF FreshServer, Up

(* A server takes its pair from sound files.                               *)
LEMMA ContextFresh ==
    ASSUME IInv, NEW v \in Servers, FreshServer(v), server_tls_context(v)
    PROVE  FreshServer(v)'
<1>0. TypeOK /\ server[v] \in Serving
  BY ServerFields DEF IInv
<1>1. /\ ServerSteps
      /\ \/ server'[v] = Down
         \/ /\ Matches(server[v].command.pair)
            /\ server'[v].pc = "up" /\ server'[v].own = disk[Crt(server[v].command.pair)]
            /\ server'[v].key = server[v].key /\ server'[v].fresh = server[v].fresh
  BY <1>0, ContextIs
<1>2. CASE server'[v] = Down
  <2>1. Down.fresh = FALSE
    BY DEF Down
  <2> QED BY <1>2, <2>1 DEF FreshServer
<1>3. CASE /\ Matches(server[v].command.pair)
           /\ server'[v].pc = "up" /\ server'[v].own = disk[Crt(server[v].command.pair)]
           /\ server'[v].key = server[v].key /\ server'[v].fresh = server[v].fresh
  <2>1. SUFFICES ASSUME server[v].fresh PROVE FreshServer(v)'
    BY <1>3 DEF FreshServer
  <2>2. FreshFiles /\ server[v].key = disk[Crt("as")].key
    BY <2>1 DEF FreshServer
  <2>3. PICK name \in Names : name = server[v].command.pair
    BY <1>0 DEF Serving
  <2>4. ChainsToCa(disk[Crt(name)])
    BY <1>3, <2>2, <2>3 DEF FreshFiles, Usable, Matches
  <2>5. disk' = disk
    BY <1>1 DEF ServerSteps
  <2>6. ChainsToCa(server[v].own)'
    BY <1>3, <2>3, <2>4, <2>5 DEF ChainsToCa, IsWhole
  <2> QED BY <1>1, <1>3, <2>2, <2>5, <2>6, SameFresh DEF FreshServer, Up
<1> QED BY <1>1, <1>2, <1>3

(* Every step keeps Fresh.                                                 *)
LEMMA NextFresh ==
    ASSUME \A c \in Commands : c.as_cert = "as", IInv, Fresh, [Next]_vars
    PROVE  Fresh'
<1>0. TypeOK
  BY DEF IInv
<1>1. SUFFICES ASSUME NEW v \in Servers PROVE FreshServer(v)'
  BY DEF Fresh, FreshServer
<1>2. FreshServer(v)
  BY FreshIs
<1>3. CASE ScriptSteps
  BY <1>2, <1>3, ScriptsKeepFresh
<1>4. CASE auth_main
  <2>1. Launch("as", Down.command, Key("as"))
    BY <1>4 DEF auth_main
  <2>2. ServerSteps /\ \A o \in Servers : o # "as" => server'[o] = server[o]
    BY <1>0, <2>1, LaunchIs, TwoServers
  <2> QED BY <1>2, <2>1, <2>2, LaunchFresh, ServerStaysFresh, TwoServers
<1>5. ASSUME NEW c \in Commands, server_main(c) PROVE FreshServer(v)'
  <2>1. as_certificate(c) = Crt("as")
    BY DEF as_certificate
  <2>2. Launch("rs", c, Crt("as"))
    BY <1>5, <2>1 DEF server_main
  <2>3. ServerSteps /\ \A o \in Servers : o # "rs" => server'[o] = server[o]
    BY <1>0, <2>2, LaunchIs, TwoServers
  <2> QED BY <1>2, <2>2, <2>3, LaunchFresh, ServerStaysFresh, TwoServers
<1>6. ASSUME NEW o \in Servers, server_tls_context(o) PROVE FreshServer(v)'
  <2>1. CASE o = v
    BY <1>2, <1>6, <2>1, ContextFresh
  <2>2. CASE o # v
    <3>1. ServerSteps /\ server'[v] = server[v]
      BY <1>0, <1>6, <2>2, ContextIs
    <3> QED BY <1>2, <3>1, ServerStaysFresh
  <2> QED BY <2>1, <2>2
<1>7. ASSUME NEW o \in Servers, Stop(o) PROVE FreshServer(v)'
  <2>1. /\ ServerSteps /\ server'[o] = Down
        /\ o # v => server'[v] = server[v]
    BY <1>0, <1>7 DEF Stop, ServerSteps, TypeOK
  <2>2. Down.fresh = FALSE
    BY DEF Down
  <2>3. CASE o = v
    BY <2>1, <2>2, <2>3 DEF FreshServer
  <2>4. CASE o # v
    BY <1>2, <2>1, <2>4, ServerStaysFresh
  <2> QED BY <2>3, <2>4
<1>8. CASE UNCHANGED vars
  BY <1>2, <1>8, ServerStaysFresh DEF vars, ServerSteps
<1> QED BY <1>3, <1>4, <1>5, <1>6, <1>7, <1>8 DEF Next, ScriptSteps

(* Servers that were started on sound files work together, and clients can *)
(* verify both, until the next generate_certs: whoever enrols the device   *)
(* again, and wherever that is cut short, spoils nothing.                  *)
THEOREM FreshStart ==
    ASSUME \A c \in Commands : c.as_cert = "as"
    PROVE  Spec => []FreshStartWorks
<1>1. Init => Fresh
  <2>1. Down.fresh = FALSE
    BY DEF Down
  <2> QED BY <2>1 DEF Init, Fresh
<1>2. IInv /\ Fresh /\ [Next]_vars => Fresh'
  BY NextFresh
<1>3. Fresh => FreshStartWorks
  BY TwoServers DEF Fresh, FreshStartWorks, Accepts
<1> QED BY <1>1, <1>2, <1>3, DiskInvariant, PTL DEF Spec
=============================================================================
