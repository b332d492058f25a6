----------------------------- MODULE Provisioning ----------------------------
(***************************************************************************)
(* From an empty directory to two running servers: scripts/                *)
(* generate_certs.py writes a CA and four key pairs, scripts/              *)
(* setup_device.py enrols the device and replaces its LDevID, and the      *)
(* entry points of auth.py and server.py load what they find.              *)
(*                                                                         *)
(* A file is written in place: truncated, filled and, if it holds a key,   *)
(* made private.  Scripts may be killed at any step and the two may run at *)
(* the same time; servers are started and stopped whenever the operator    *)
(* likes, and never look at the files again.                               *)
(***************************************************************************)
EXTENDS Integers, Sequences

CONSTANTS
    Commands,         \* how the RS is started: the certificate that --as-cert
                      \* names and the pair that --cert and --key name
    AuthImports,      \* the module that auth.py imports in main exists
    Missing, Torn,    \* no such file; a file that was opened for writing
    NoKey,
    MaxRuns           \* bound of the model: how often a script is run

VARIABLES
    disk,             \* the content of every file
    private,          \* the files whose mode is 0600
    script,           \* what generate_certs and setup_device are doing
    runs,             \* how often either has been started
    server,           \* what the AS and the RS have loaded
    sound,            \* history: the last generate_certs, and every
                      \* setup_device since, ran to its end undisturbed
    overlap           \* history: both have run at once, and no
                      \* generate_certs undisturbed since

vars == <<disk, private, script, runs, server, sound, overlap>>

Names == {"ca", "as", "rs", "idevid", "ldevid"}
Key(name) == <<name, "key">>
Crt(name) == <<name, "crt">>
device_config == <<"device_config", "json">>
Files == (Names \X {"key", "crt"}) \cup {device_config}

Scripts == {"generate_certs", "setup_device"}
Servers == {"as", "rs"}

ASSUME RunsAssumption == MaxRuns \in Nat
ASSUME CommandsAssumption == Commands \subseteq [as_cert : Names, pair : Names]
ASSUME ImportsAssumption == AuthImports \in BOOLEAN

-----------------------------------------------------------------------------
(* A key is named by the run that made it and by what it was made for.     *)
(* A certificate is the key it certifies and the key that signed it.       *)
Keys == (1..MaxRuns) \X Names
Content == [key : Keys \cup {NoKey}, signer : Keys \cup {NoKey}]
Document(key, signer) == [key |-> key, signer |-> signer]

(* A file that is missing or torn is no document.                          *)
ASSUME MarksAssumption == Missing \notin Content /\ Torn \notin Content

IsWhole(file) == disk[file] \notin {Missing, Torn}
Matches(name) == IsWhole(Key(name)) /\ IsWhole(Crt(name))
                 /\ disk[Key(name)].key = disk[Crt(name)].key

Write(file, key, signer) == [file |-> file, content |-> Document(key, signer)]

CaKey_Reused(run) == IF IsWhole(Key("ca")) THEN disk[Key("ca")].key ELSE <<run, "ca">>
CaKey(run) == <<run, "ca">>

generate_ca_KeepCert(run) ==
    IF IsWhole(Crt("ca")) THEN <<Write(Key("ca"), CaKey(run), NoKey)>>
    ELSE <<Write(Key("ca"), CaKey(run), NoKey), Write(Crt("ca"), CaKey(run), CaKey(run))>>
generate_ca(run) ==
    <<Write(Key("ca"), CaKey(run), NoKey), Write(Crt("ca"), CaKey(run), CaKey(run))>>

generate_end_entity(name, run) ==
    <<Write(Key(name), <<run, name>>, NoKey), Write(Crt(name), <<run, name>>, CaKey(run))>>

(* issue_ldevid writes the certificate first.  main then composes the      *)
(* configuration, which raises when a URL has no port.                     *)
issue_ldevid(run, ca_key) ==
    <<Write(Crt("ldevid"), <<run, "ldevid">>, ca_key),
      Write(Key("ldevid"), <<run, "ldevid">>, NoKey)>>

write_config(urls_have_ports) ==
    IF urls_have_ports THEN <<Write(device_config, NoKey, NoKey)>> ELSE << >>

-----------------------------------------------------------------------------
(* left: what a script has still to write.  step: what it does next to the *)
(* first of these files.  idevid and ca: what setup_device has read.       *)
(* undisturbed is history: the other script has not been active meanwhile, *)
(* and a setup_device found everything sound.                              *)
Idle == [pc |-> "idle", run |-> 0, left |-> << >>, step |-> "open",
         idevid |-> NoKey, ca |-> NoKey, undisturbed |-> FALSE]

Down == [pc |-> "down", command |-> [as_cert |-> "as", pair |-> "as"], key |-> NoKey,
         own |-> Document(NoKey, NoKey), quiet |-> FALSE, fresh |-> FALSE]

Init ==
    /\ disk = [f \in Files |-> Missing]
    /\ private = {}
    /\ script = [s \in Scripts |-> Idle]
    /\ runs = 0
    /\ server = [v \in Servers |-> Down]
    /\ sound = FALSE
    /\ overlap = FALSE

(* s starts in the state that first gives.                                 *)
Start(s, first) ==
    /\ script[s].pc = "idle" /\ runs < MaxRuns
    /\ LET alone == \A o \in Scripts \ {s} : script[o].pc = "idle"
       IN  /\ script' = [o \in Scripts |->
                 IF o = s THEN [first EXCEPT !.run = runs + 1,
                                             !.undisturbed = alone /\ (s = "setup_device" => sound)]
                          ELSE [script[o] EXCEPT !.undisturbed = FALSE]]
           /\ overlap' = (overlap \/ ~alone)
    /\ runs' = runs + 1
    /\ sound' = FALSE
    /\ UNCHANGED <<disk, private>>

(* s has come to its end, with success or not.                             *)
End(s) ==
    /\ script' = [script EXCEPT ![s] = Idle]
    /\ sound' = script[s].undisturbed
    /\ overlap' = (overlap /\ ~(s = "generate_certs" /\ script[s].undisturbed))

generate_certs ==
    /\ Start("generate_certs",
             [Idle EXCEPT !.pc = "write",
                          !.left = generate_ca(runs + 1)
                                   \o generate_end_entity("as", runs + 1)
                                   \o generate_end_entity("rs", runs + 1)
                                   \o generate_end_entity("idevid", runs + 1)
                                   \o generate_end_entity("ldevid", runs + 1)])
    /\ server' = [v \in Servers |-> [server[v] EXCEPT !.fresh = FALSE]]

(* click asks for files that exist; idevid.key is not looked at again.     *)
setup_device ==
    /\ \A f \in {Crt("idevid"), Key("idevid"), Crt("ca"), Key("ca")} : disk[f] # Missing
    /\ Start("setup_device", [Idle EXCEPT !.pc = "load_idevid"])
    /\ UNCHANGED server

(* setup_device reads three files, one after the other.  What it cannot    *)
(* parse, and an IDevID that does not verify, ends it.                     *)
load_idevid ==
    /\ script["setup_device"].pc = "load_idevid"
    /\ IF IsWhole(Crt("idevid"))
       THEN /\ script' = [script EXCEPT !["setup_device"].pc = "load_ca_cert",
                                        !["setup_device"].idevid = disk[Crt("idevid")].signer]
            /\ UNCHANGED <<sound, overlap>>
       ELSE End("setup_device")
    /\ UNCHANGED <<disk, private, runs, server>>

load_ca_cert ==
    /\ script["setup_device"].pc = "load_ca_cert"
    /\ IF IsWhole(Crt("ca"))
       THEN /\ script' = [script EXCEPT !["setup_device"].pc = "load_ca_key",
                                        !["setup_device"].ca = disk[Crt("ca")].key]
            /\ UNCHANGED <<sound, overlap>>
       ELSE End("setup_device")
    /\ UNCHANGED <<disk, private, runs, server>>

verify_idevid_Skipped(idevid_signer, ca_cert_key) == TRUE
verify_idevid(idevid_signer, ca_cert_key) == idevid_signer = ca_cert_key

(* The key in ca.key is not compared with the one in ca.crt.               *)
load_ca_key ==
    LET me == script["setup_device"] IN
    /\ me.pc = "load_ca_key"
    /\ IF IsWhole(Key("ca")) /\ verify_idevid(me.idevid, me.ca)
       THEN /\ \E urls_have_ports \in BOOLEAN :
                 script' = [script EXCEPT !["setup_device"] =
                   [me EXCEPT !.pc = "write",
                              !.left = issue_ldevid(me.run, disk[Key("ca")].key)
                                       \o write_config(urls_have_ports)]]
            /\ UNCHANGED <<sound, overlap>>
       ELSE End("setup_device")
    /\ UNCHANGED <<disk, private, runs, server>>

-----------------------------------------------------------------------------
(* path.write_bytes, and path.chmod for keys.                              *)
Put(s, content) ==
    /\ disk' = [disk EXCEPT ![Head(script[s].left).file] = content]
    /\ server' = [v \in Servers |->
                    [server[v] EXCEPT !.quiet = @ /\ server[v].pc # "loading"]]

NextFile(s) ==
    IF Len(script[s].left) = 1 THEN End(s)
    ELSE /\ script' = [script EXCEPT ![s].left = Tail(@), ![s].step = "open"]
         /\ UNCHANGED <<sound, overlap>>

OpenFile(s) ==
    /\ script[s].pc = "write" /\ script[s].step = "open"
    /\ Put(s, Torn)
    /\ script' = [script EXCEPT ![s].step = "fill"]
    /\ UNCHANGED <<private, runs, sound, overlap>>

FillFile_AnyChmod(s) ==
    /\ script[s].pc = "write" /\ script[s].step = "fill"
    /\ Put(s, Head(script[s].left).content)
    /\ script' = [script EXCEPT ![s].step = "chmod"]
    /\ UNCHANGED <<private, runs, sound, overlap>>

FillFile(s) ==
    /\ script[s].pc = "write" /\ script[s].step = "fill"
    /\ Put(s, Head(script[s].left).content)
    /\ IF Head(script[s].left).file[2] = "key"
       THEN script' = [script EXCEPT ![s].step = "chmod"] /\ UNCHANGED <<sound, overlap>>
       ELSE NextFile(s)
    /\ UNCHANGED <<private, runs>>

ChmodFile(s) ==
    /\ script[s].pc = "write" /\ script[s].step = "chmod"
    /\ private' = private \cup {Head(script[s].left).file}
    /\ NextFile(s)
    /\ UNCHANGED <<disk, runs, server>>

Kill(s) ==
    /\ script[s].pc # "idle"
    /\ script' = [script EXCEPT ![s] = Idle]
    /\ UNCHANGED <<disk, private, runs, server, sound, overlap>>

-----------------------------------------------------------------------------
(***************************************************************************)
(* The entry points.  The AS takes its signing key from its key file and   *)
(* the RS the key it trusts from the certificate it is told; then both     *)
(* give their pair to server_tls_context, where load_cert_chain reads it   *)
(* (the AS its key file for the second time) and refuses a pair that does  *)
(* not match.  What cannot be read ends the program.  quiet and fresh are  *)
(* history: nothing was written between the two steps; the files were      *)
(* sound at the first of them and have not been generated anew since.      *)
(***************************************************************************)
as_certificate_Own(command) == Crt(command.pair)
as_certificate(command) == Crt(command.as_cert)

Launch(v, command, first) ==
    /\ server[v].pc = "down"
    /\ \A kind \in {"key", "crt"} : disk[<<command.pair, kind>>] # Missing
    /\ IsWhole(first)
    /\ server' = [server EXCEPT ![v] =
         [pc |-> "loading", command |-> command, key |-> disk[first].key,
          own |-> Down.own, quiet |-> TRUE, fresh |-> sound]]
    /\ UNCHANGED <<disk, private, script, runs, sound, overlap>>

auth_main == AuthImports /\ Launch("as", Down.command, Key("as"))

server_main(command) == Launch("rs", command, as_certificate(command))

server_tls_context(v) ==
    /\ server[v].pc = "loading"
    /\ server' = [server EXCEPT ![v] =
         IF Matches(server[v].command.pair)
         THEN [server[v] EXCEPT !.pc = "up", !.own = disk[Crt(server[v].command.pair)]]
         ELSE Down]
    /\ UNCHANGED <<disk, private, script, runs, sound, overlap>>

Stop(v) ==
    /\ server[v].pc # "down"
    /\ server' = [server EXCEPT ![v] = Down]
    /\ UNCHANGED <<disk, private, script, runs, sound, overlap>>

Next ==
    \/ generate_certs \/ setup_device \/ load_idevid \/ load_ca_cert \/ load_ca_key
    \/ \E s \in Scripts : OpenFile(s) \/ FillFile(s) \/ ChmodFile(s) \/ Kill(s)
    \/ auth_main
    \/ \E command \in Commands : server_main(command)
    \/ \E v \in Servers : server_tls_context(v) \/ Stop(v)

Spec == Init /\ [][Next]_vars
-----------------------------------------------------------------------------
Running ==
    [pc : {"idle", "load_idevid", "load_ca_cert", "load_ca_key", "write"}, run : 0..MaxRuns,
     left : Seq([file : Files, content : Content]), step : {"open", "fill", "chmod"},
     idevid : Keys \cup {NoKey}, ca : Keys \cup {NoKey}, undisturbed : BOOLEAN]

TypeOK ==
    /\ disk \in [Files -> Content \cup {Missing, Torn}]
    /\ private \subseteq {Key(name) : name \in Names}
    /\ script \in [Scripts -> Running]
    /\ runs \in 0..MaxRuns
    /\ server \in [Servers ->
         [pc : {"down", "loading", "up"}, command : [as_cert : Names, pair : Names],
          key : Keys \cup {NoKey}, own : Content, quiet : BOOLEAN, fresh : BOOLEAN]]
    /\ sound \in BOOLEAN /\ overlap \in BOOLEAN

(* A client that trusts ca.crt as it is now completes the handshake.       *)
ChainsToCa(certificate) == IsWhole(Crt("ca")) /\ certificate.signer = disk[Crt("ca")].key

Usable(name) == Matches(name) /\ ChainsToCa(disk[Crt(name)])

(* Whatever was killed before, once generate_certs has run to its end, and *)
(* after every setup_device that does, even one that raises because a URL  *)
(* has no port, all pairs match, chain to ca.crt and keep their keys       *)
(* private.                                                                *)
DiskIsWhole == sound => \A name \in Names : Usable(name) /\ Key(name) \in private

(* verify_idevid is the only thing that keeps setup_device from enrolling  *)
(* the device under a CA whose generation was cut short: an LDevID that    *)
(* clients can verify implies that AS, RS and IDevID have certificates     *)
(* they can verify, whichever script was killed and wherever.              *)
EnrolledInWholeDomain ==
    ~overlap /\ Usable("ldevid") =>
        \A name \in {"as", "rs", "idevid"} : ChainsToCa(disk[Crt(name)])

Accepts == server["rs"].key = server["as"].key
Up(v) == server[v].pc = "up"

(* The RS reads the certificate of the AS only once, yet it never refuses  *)
(* the tokens of an AS that was restarted with another key unless TLS has  *)
(* failed before: when a client can connect to both servers, the RS        *)
(* verifies tokens with the key the AS signs with.  (Not for a server that *)
(* was loading while a file was written, nor when the two scripts ran at   *)
(* the same time.)                                                         *)
TokensFollowTls ==
    /\ ~overlap
    /\ \A v \in Servers : Up(v) /\ server[v].quiet /\ ChainsToCa(server[v].own)
    => Accepts

(* Servers started on sound files work until the next generate_certs, even *)
(* if the device is enrolled again, and again, while they load or run, or  *)
(* setup_device dies.                                                      *)
FreshStartWorks ==
    (\A v \in Servers : Up(v) /\ server[v].fresh) =>
        Accepts /\ \A v \in Servers : ChainsToCa(server[v].own)

(* setup_device "writes a device configuration file ready for use with     *)
(* telescope-server" and prints the command that starts it: an RS started  *)
(* so, on sound files, accepts the tokens of the AS.                       *)
ReadyForUse ==
    /\ IsWhole(device_config)
    /\ \A v \in Servers : Up(v) /\ server[v].fresh
    /\ server["rs"].command = [as_cert |-> "ca", pair |-> "ldevid"]
    => Accepts
=============================================================================
