----------------------------- MODULE TokenCache -----------------------------
(***************************************************************************)
(* The command line client of src/telescope/client.py: any number of       *)
(* processes that share one token cache file.  `telescope-client token'    *)
(* fetches a token and saves it; the other commands load it and send one   *)
(* request to the resource server.                                         *)
(*                                                                         *)
(* The file is a sequence of cells.  write_text opens it, which truncates  *)
(* it, and then writes from the start of it, so that two writers overlay   *)
(* each other.  Processes may be killed at any point.                      *)
(***************************************************************************)
EXTENDS Integers, Sequences

CONSTANTS
    Processes,
    Lengths,          \* the lengths of the documents that are written; they
                      \* depend on the client id and the scope of the token
    token_lifetime,   \* of the AS
    Buffer,           \* the 60 s of _load_cached_token
    Skew,             \* the clock of the servers minus the client's
    MaxLatency,       \* how long a request takes to reach the RS
    Kills,            \* processes may be killed
    NoToken,
    MaxTime           \* bound of the model

VARIABLES
    now,              \* time.time() of the client's machine
    cache,            \* the content of the token cache, << >> if it is missing
    private,          \* its mode is 0600
    cli,              \* what each process is doing, and how it ended
    interrupted       \* history: a `token' command was killed between the
                      \* write and the chmod, and none has ended well since

vars == <<now, cache, private, cli, interrupted>>

ASSUME LengthsAssumption == Lengths \subseteq Nat \ {0}
ASSUME TimesAssumption ==
    token_lifetime \in Nat /\ Buffer \in Nat /\ Skew \in Int /\ MaxLatency \in Nat
ASSUME BoundsAssumption == MaxTime \in Nat /\ Kills \in BOOLEAN

(* The buffer is meant to cover the way to the RS and the clocks.          *)
ASSUME BufferAssumption == MaxLatency + Skew <= Buffer

-----------------------------------------------------------------------------
(* A token, as its cache document shows it: {"access_token", "exp"}.       *)
Token == [exp : Int, length : Lengths]
Document_NoExpiry(tok) == [i \in 1..tok.length |-> [length |-> tok.length]]
Document(tok) == [i \in 1..tok.length |-> tok]

IsDocument(file) == file # << >> /\ file = Document(file[1])

(* Writing doc from the start of a file that may hold more already.        *)
Overlay(doc, file) == doc \o SubSeq(file, Len(doc) + 1, Len(file))

(* alone is history: no other process has opened or written the cache      *)
(* since this one opened it.                                               *)
Idle == [pc |-> "idle", token |-> NoToken, sent |-> 0, outcome |-> "none",
         alone |-> FALSE]

Init ==
    /\ now = 0
    /\ cache = << >>
    /\ private = FALSE
    /\ cli = [p \in Processes |-> Idle]
    /\ interrupted = FALSE

(* A request reaches the RS within MaxLatency, or not at all.              *)
Tick ==
    /\ now < MaxTime
    /\ \A p \in Processes : cli[p].pc = "request" => now < cli[p].sent + MaxLatency
    /\ now' = now + 1
    /\ UNCHANGED <<cache, private, cli, interrupted>>

End(p, outcome) == cli' = [cli EXCEPT ![p].pc = "ended", ![p].outcome = outcome]

Start(p, command) ==
    /\ cli[p].pc \in {"idle", "ended"}
    /\ cli' = [cli EXCEPT ![p] = [Idle EXCEPT !.pc = command]]
    /\ UNCHANGED <<now, cache, private, interrupted>>

token(p) == Start(p, "token")

(* position; slew, status and `admin connections' are the same here.       *)
position(p) == Start(p, "load")

(* click asks for a confirmation first, and waits as long as it takes.     *)
admin_reset(p) == Start(p, "prompt")

Confirm(p) ==
    /\ cli[p].pc = "prompt"
    /\ cli' = [cli EXCEPT ![p].pc = "load"]
    /\ UNCHANGED <<now, cache, private, interrupted>>

Decline(p) ==
    /\ cli[p].pc = "prompt"
    /\ End(p, "aborted")
    /\ UNCHANGED <<now, cache, private, interrupted>>

-----------------------------------------------------------------------------
(* The `token' command: fetch_token, then _save_token in three steps.      *)
fetch_token(p) ==
    /\ cli[p].pc = "token"
    /\ \E n \in Lengths :
         cli' = [cli EXCEPT ![p].pc = "open",
                            ![p].token = [exp |-> now + Skew + token_lifetime, length |-> n]]
    /\ UNCHANGED <<now, cache, private, interrupted>>

(* raise_for_status, or no answer within the timeout.                      *)
FetchFails(p) ==
    /\ cli[p].pc = "token"
    /\ End(p, "http_error")
    /\ UNCHANGED <<now, cache, private, interrupted>>

Touch(p, pc, alone) ==
    cli' = [q \in Processes |->
              IF q = p THEN [cli[p] EXCEPT !.pc = pc, !.alone = alone]
                       ELSE [cli[q] EXCEPT !.alone = FALSE]]

OpenCache_NoTruncate(p) ==
    /\ cli[p].pc = "open"
    /\ Touch(p, "write", TRUE)
    /\ UNCHANGED <<now, cache, private, interrupted>>

OpenCache(p) ==
    /\ cli[p].pc = "open"
    /\ cache' = << >>
    /\ Touch(p, "write", TRUE)
    /\ UNCHANGED <<now, private, interrupted>>

WriteCache(p) ==
    /\ cli[p].pc = "write"
    /\ cache' = Overlay(Document(cli[p].token), cache)
    /\ Touch(p, "chmod", cli[p].alone)
    /\ UNCHANGED <<now, private, interrupted>>

ChmodCache_Skipped(p) ==
    /\ cli[p].pc = "chmod"
    /\ interrupted' = FALSE
    /\ End(p, "issued")
    /\ UNCHANGED <<now, cache, private>>

ChmodCache(p) ==
    /\ cli[p].pc = "chmod"
    /\ private' = TRUE
    /\ interrupted' = FALSE
    /\ End(p, "issued")
    /\ UNCHANGED <<now, cache>>

-----------------------------------------------------------------------------
(* Every other command: _load_cached_token, then one request.              *)
Fresh_NoBuffer(tok) == tok.exp > now
Fresh(tok) == tok.exp > now + Buffer

LoadCache(p) ==
    /\ cli[p].pc = "load"
    /\ IF IsDocument(cache) /\ Fresh(cache[1])
       THEN cli' = [cli EXCEPT ![p].pc = "request", ![p].token = cache[1], ![p].sent = now]
       ELSE End(p, "usage_error")
    /\ UNCHANGED <<now, cache, private, interrupted>>

(* The RS looks at the expiry with its own clock (require_scope).          *)
Answer(p) ==
    /\ cli[p].pc = "request"
    /\ End(p, IF now + Skew < cli[p].token.exp THEN "answered" ELSE "token_expired")
    /\ UNCHANGED <<now, cache, private, interrupted>>

(* requests.Timeout: the RS may have served the request all the same.      *)
(* timeout=10 bounds the connecting and each read; an answer is taken here *)
(* to arrive in one read.                                                  *)
TimeOut_Never(p) == FALSE /\ UNCHANGED vars
TimeOut(p) ==
    /\ cli[p].pc = "request"
    /\ End(p, "http_error")
    /\ UNCHANGED <<now, cache, private, interrupted>>

Kill(p) ==
    /\ Kills /\ cli[p].pc \notin {"idle", "ended"}
    /\ End(p, "killed")
    /\ interrupted' = (interrupted \/ (cli[p].pc = "chmod" /\ ~private))
    /\ UNCHANGED <<now, cache, private>>

(* What a process does without the help of a server: its own work, and     *)
(* giving up when no answer comes for 10 s.                                *)
OwnStep(p) ==
    \/ FetchFails(p) \/ OpenCache(p) \/ WriteCache(p) \/ ChmodCache(p)
    \/ LoadCache(p) \/ TimeOut(p)

Next ==
    \/ Tick
    \/ \E p \in Processes : token(p) \/ position(p) \/ admin_reset(p)
    \/ \E p \in Processes : Confirm(p) \/ Decline(p)
    \/ \E p \in Processes : fetch_token(p) \/ Answer(p) \/ OwnStep(p) \/ Kill(p)

Spec == Init /\ [][Next]_vars

(* The operating system runs every process; the servers may never answer.  *)
FairSpec == Spec /\ \A p \in Processes : WF_vars(OwnStep(p))

-----------------------------------------------------------------------------
Running ==
    [pc : {"idle", "token", "open", "write", "chmod", "prompt", "load", "request",
           "ended"},
     token : Token \cup {NoToken}, sent : Nat, alone : BOOLEAN,
     outcome : {"none", "issued", "usage_error", "http_error", "answered",
                "token_expired", "aborted", "killed"}]

TypeOK ==
    /\ now \in Nat
    /\ cache \in Seq(Token)
    /\ private \in BOOLEAN /\ interrupted \in BOOLEAN
    /\ cli \in [Processes -> Running]

(* The 60 s buffer does its work: as long as it covers the way to the RS   *)
(* and the difference of the clocks, no command is answered "token         *)
(* expired", whoever saved the token and whenever.                         *)
NeverAnsweredExpired == \A p \in Processes : cli[p].outcome # "token_expired"

(* write_text makes a file that others may read, and the chmod comes       *)
(* after.  The cache shows its token to others only while some `token'     *)
(* command is between the two, or if one was killed there and no other has *)
(* ended well since; rewriting the file never opens it again.              *)
ReadableOnlyIfInterrupted ==
    cache # << >> /\ ~private => interrupted \/ \E p \in Processes : cli[p].pc = "chmod"

(* A `token' command leaves its token, whole, in the cache unless another  *)
(* one opens or writes the file between its own steps; what was there      *)
(* before, half a document or a longer one, does not matter.               *)
SaveSticksIfAlone ==
    \A p \in Processes :
        cli[p].alone /\ (cli[p].pc = "chmod" \/ cli[p].outcome = "issued") =>
            cache = Document(cli[p].token)

(* Every command comes to its end, though the servers need not answer any  *)
(* request, since each of them has a timeout; but nothing makes the user   *)
(* answer the prompt of `admin reset'.                                     *)
EveryCommandEnds ==
    \A p \in Processes :
        cli[p].pc \notin {"idle", "prompt", "ended"} ~> cli[p].pc \in {"idle", "ended"}

(* "Persist the token and its expiry claim for re-use across CLI calls"    *)
(* (_save_token): when a `token' command has ended well and no command is  *)
(* at work, the cache holds a document.                                    *)
PersistedForReuse ==
    /\ \E p \in Processes : cli[p].outcome = "issued"
    /\ \A p \in Processes : cli[p].pc \in {"idle", "ended"}
    => IsDocument(cache)
=============================================================================
