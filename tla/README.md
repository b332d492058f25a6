# Verification of the minimal secure telescope protocol

TLA+ models of the authorization server (AS), the resource server (RS) with its
simulated mount, both servers together, the token cache of the command line
client, and the scripts that create the keys and certificates the servers are
started with; two abstract specifications, of the AS and of the mount, that the
detailed ones implement; TLC configurations that check all of it on small
instances; and TLAPS proofs that both servers, the two together, the token
cache and the files the servers are started on keep their invariants, and that
the AS and the mount implement their abstract specifications, for every
registry, key set, lifetime, buffer and number of threads, processes or runs.

Paths below are relative to the repository: `auth.py`, `server.py`,
`client.py`, `protocol.py`, `tls_config.py` are in `src/telescope/`.

## 1. Inventory

| Component | Source | State it keeps | Operations |
|---|---|---|---|
| Wire models | `protocol.py` | none | validation of coordinates, slew commands, token requests, responses |
| Authorization server | `auth.py` | `_REVOKED_JTIS` (module global, memory only), the registry `_REGISTERED_CLIENTS` (constant), the signing key and lifetime in `app.config` | `/token`, `/introspect`, `/revoke`, `/.well-known/...` |
| Resource server | `server.py` | AS public key and URLs in `app.config`; its process' copy of `_REVOKED_JTIS` | `require_scope` in front of `position`, `slew`, `status`, `admin/reset`, `admin/connections`; `/mud` |
| Mount | `server.py`, `TelescopeMountState` | `ra`, `dec`, `is_slewing`, `is_tracking`, `_connection_log` (a deque of 100) | `get_position`, `get_status`, `slew_to`, `reset`, `log_connection`, `list_connections` |
| Client | `client.py` | the token cache, a JSON file shared by every invocation | `token`; `position`, `slew`, `status` and the admin commands, which load the cached token |
| Admin command line | `scripts/admin.py` | none | lists clients, gets tokens, introspects, revokes |
| Certificates | `scripts/generate_certs.py` | key and certificate files | CA, AS, RS, manufacturer, IDevID |
| Bootstrap | `scripts/setup_device.py` | LDevID key and certificate, device configuration | verify IDevID, enrol, write files, print how to start the RS |
| Entry points | `main` of `auth.py` and `server.py` | what they loaded when they started | read keys and certificates, build the TLS context, serve |
| TLS contexts | `tls_config.py` | none | builds `ssl.SSLContext` objects |
| MUD file | `mud/telescope-mount.mud.json` | static | none |

How they interact. The client posts its id and secret to `/token` over TLS and
keeps the JWT in its cache; it sends the JWT as a bearer token to the RS. The RS
never calls the AS: it verifies the signature with the AS certificate it read
when it started, and looks the `jti` up with `is_revoked`, which it imports
from `auth.py`. That is a list of its own process, so whether the two servers
share it depends on whether they run in one process (the tests) or in two (as
`README.md` of the repository starts them).

What is hard here. Flask serves each request in a thread and no lock is taken
anywhere, so every request is interleaved with others, with the clock, and with
revocations. The state is memory only, so restarts lose it. Tokens expire on
clocks that differ. The cache file is rewritten in place by processes that know
nothing of each other. Keys and certificates are written in place too, one file
after the other, by scripts that can be killed or run twice, while servers that
read them once go on with what they have. PROJECT.json lists these hazards one by one with the
line where each bites and the properties aimed at it.

What makes each component correct:

- AS: a token never carries more than the registry grants; the answer of
  `/introspect` is true although it is computed in two steps; the 200 of
  `/revoke` is final; nothing but the posted token is revoked.
- RS: an endpoint runs only for a token that was good at one moment after the
  request came in; a token refused as expired or revoked stays refused; no
  request that was refused, whatever for, is in the connection log; no recent
  one is missing from it; a listing of the log is the log.
- Mount: a position that is told or reached is a pair that some request
  commanded, never a mixture; `is_slewing` never sticks; reading it never fails.
- Both servers: registry scopes reach the mount unchanged; a token can be used
  only within its lifetime; a revoked token is refused.
- Client: the buffer of 60 s prevents expired tokens on the wire; the token
  in the cache is readable by others only before its chmod, or if the `token`
  command was killed there; a save that is alone sticks; every command ends although
  servers may not answer, once its user has confirmed it.
- Certificates, bootstrap and entry points: what a script leaves behind when it
  was not killed is whole, whatever was killed before; a device is enrolled only
  into a whole domain; servers that a client can connect to agree on the key
  that signs tokens.

## 2. Modules

| Module | Models | Kind |
|---|---|---|
| `Protocol` | `protocol.py`; `issue_token` and `verify_token` of `auth.py` | constant operators |
| `AuthServer` | the application of `create_auth_app` | state machine |
| `TokenAuthority` | what the AS promises: a set of live tokens and atomic calls | abstract specification |
| `AuthServerProofs` | invariants of `AuthServer` | TLAPS |
| `AuthServerRefinement` | `AuthServer` implements `TokenAuthority` | TLAPS |
| `ResourceServer` | `require_scope`, the endpoints, the mount, the log | state machine |
| `AtomicMount` | what the mount promises: atomic slews, resets and readings | abstract specification |
| `ResourceServerProofs` | invariants of `ResourceServer` | TLAPS |
| `MountRefinement` | `ResourceServer` implements `AtomicMount` | TLAPS |
| `TelescopeSystem` | one AS and one RS: `INSTANCE AuthServer`, `INSTANCE ResourceServer` | composition |
| `TelescopeSystemProofs` | invariants of `TelescopeSystem`, from those of its parts | TLAPS |
| `TokenCache` | the cache file and the processes of `client.py` | state machine |
| `TokenCacheProofs` | invariants of `TokenCache` | TLAPS |
| `Provisioning` | `generate_certs.py`, `setup_device.py`, the entry points and `server_tls_context` | state machine |
| `ProvisioningProofs` | invariants of the files of `Provisioning` | TLAPS |
| `ProvisioningServerProofs` | what the servers started on them can rely on | TLAPS |
| `MC...` | small instances of each | model checking |

Operators ending in `_Something` next to the operator they vary
(`slew_to_RaOnly`, `Fresh_NoBuffer`) are plausible bugs of that operator. They
are part of no specification; each property is checked to fail when the right
one of them replaces its original.

### AuthServer

| TLA+ | Code |
|---|---|
| `signing_key` | `app.config["signing_key"]`, one EC key per life of the process |
| `responses` | every `TokenResponse` sent; `issued` is the tokens in them |
| `revoked` | `_REVOKED_JTIS` |
| `handler[w]` | what thread `w` holds between two steps of `/introspect` or `/revoke`, and its last answer |
| `token_endpoint(req)` | `/token`: one step, since it reads nothing another request writes |
| `IntrospectVerify`, `RevokeVerify` | the call of `verify_token`, with the early answer when it raises |
| `RevokeRefuses` | the 400 of `/revoke` for a body without a token |
| `IntrospectAnswer`, `RevokeAnswer` | the use of the list after it |
| `Restart` | the process dies and starts again, perhaps with another key |

`posted`, `epoch` and the field `was_active` are history: no action reads
`posted` and `was_active`, and `epoch` only bounds the restarts.

`Authority` maps this state to `TokenAuthority`: a token is live while it is
active (`Live`: accepted by `verify_token` now, and its jti not in the list),
and a thread's call is open from `...Verify` to `...Answer` (`AbstractCall`).
The clock then is `Lapse`, which may end any live token; `token_endpoint` is
`Grant`; an answer of `/introspect` must be one that was true since the call
came in (`possible`); `/revoke` takes exactly the posted token out of the set; a
call without a token is `Refuse`, and changes nothing.
Only `Restart` may put tokens back. `IsTokenAuthority` is this refinement.

### ResourceServer

A request of thread `w` goes `Authenticate` (bearer token, signature, dates),
`Authorize` (revocation list, scope), `RejectSlew` or `log_connection`, and then
one step per access to an attribute of the mount (`Assign`, `Read`) or to an
entry of the log (`list_connections`, `NextConnection`). `Accesses` is the program text of the mount's methods:
the attributes they assign or read, in order.

Where threads switch depends on the build of CPython, so it is a constant:

- `Preemptive = TRUE`: between any two accesses, as on a free-threaded build.
- `Preemptive = FALSE`: with the GIL. `pyproject.toml` asks for Python 3.12 or
  later, where the evaluation loop gives up the GIL at calls and backward jumps
  and not at attribute accesses. `slew_to`, `reset` and `get_position` load or
  store attributes with no call in between, so that another thread never sees
  the middle of them; `get_status` reads two flags, then calls `get_position`,
  and may be switched out at that call. `SwitchPoints` says this, and `CanRun`
  holds every other thread while one is inside such a stretch. This is a
  property of the interpreter, not of the language.

`list(self._connection_log)` makes an iterator (`list_connections`) and takes
one entry after another from it (`NextConnection`). Before each it looks whether
the deque was changed since it was made (`mutated`, which another thread's
`log_connection` sets), and if so raises `RuntimeError`, a 500. With the GIL the
whole is one call into C, which no other thread interrupts, so this cannot
happen; without it, it does. `NoServerError` says so: only `connections`, and only
when threads are switched anywhere, fails. `ListingIsTheLog` says of those that do
not fail that they are exact.

The fields `was_active`, `logged` and `later` of a thread are history, which no
action reads: whether its token was good when the request came in, whether its
request has been appended to the log, and how many were after it.

`SharedProcess` says whether `/revoke` can change the list this RS reads.

`Atomic` maps the mount to `AtomicMount`, where a slew, a reset and the reading
of a position are one step each and a status is two, the flags and then the
position. The mapping commits a method at its first access: while a thread is
inside `slew_to` or `reset`, `AbstractMount` already has all its assignments,
and while one is inside `get_position`, `AbstractAnswer` already has both
coordinates. `MountIsAtomic` is this refinement; it holds with the GIL only.
Preemptive threads do mix positions, and `mount_threads` claims only what holds
for them.

### TelescopeSystem

The steps of `AuthServer` and `ResourceServer` interleaved, over tokens that
the AS really issued in this behaviour (`Request` guards on `issued`).
`ListOfRS` is the one coupling besides tokens and clock: with `SharedProcess`
the RS's list is the AS's; without it, it never changes. `Skew` is the
difference of the two clocks. `answered` and `warned` are history: the tokens
`/revoke` has answered for, and whether an RS request came in after that.

### TokenCache

`cache` is the file as a sequence of cells, each of which names the document it
comes from, so that half-overwritten files can be told from whole ones.
`token` starts a command that saves; `position` one that loads and sends one
request, as `slew`, `status` and `admin connections` do in the same steps;
`admin_reset` is such a command behind a prompt (`Confirm`, `Decline`).
`Path.write_text` is `OpenCache` (which truncates) and `WriteCache` (from the
start of the file); `chmod` is a third step. A command may be killed at any of
them. The AS is reduced to an answer that carries the expiry and a length; the
RS to its comparison of the expiry with its own clock. The assumption
`MaxLatency + Skew <= Buffer` says what the 60 s are for; without it
`NeverAnsweredExpired` does not hold. `OwnStep` is what a process does without a
server's help, giving up after `timeout=10` included. That bounds the connecting
and each read of an answer, not the whole of it: an answer is taken to come in
one read, and a server that sends a byte every few seconds is not modelled.

`interrupted` is history: some `token` command was killed between its write and
its chmod while the file was not private, and none has ended well since. The file
is readable by others in that gap and after such a kill; `ReadableOnlyIfInterrupted`
says that it never is otherwise, in particular not because a save rewrites a file
that was private, or because two saves overlap.

### Provisioning

| TLA+ | Code |
|---|---|
| `disk` | the files of `certs/` and `device_config.json`: missing, opened for writing (`Torn`), or a document |
| `private` | the files with mode 0600 |
| `script[s]` | what `generate_certs` and `setup_device` have read and have still to write, in the order of the code |
| `OpenFile`, `FillFile`, `ChmodFile` | `write_bytes` truncates and then fills; keys are made private after that |
| `load_idevid`, `load_ca_cert`, `load_ca_key` | the three reads of `setup_device`, with the check of the IDevID |
| `Kill` | a script dies between any two of these steps |
| `server[v]` | what the AS and the RS have in memory: the key they sign or verify with, and the pair they show to TLS clients |
| `auth_main`, `server_main` | the first read of each entry point, with `click`'s check that the pair exists |
| `server_tls_context` | `load_cert_chain`, which reads the pair and refuses one that does not match |

A document is the key it holds or certifies and the key that signed it; other
X.509 fields, host names, ports and the making of directories are left out.
`Commands` are the ways the RS is started. `AuthImports` stands for the import
at `auth.py:266`, of a module that the `cryptography` package does not have: the
instance goes on as if it succeeded, since otherwise no AS starts at all. Clients
are not modelled here; a client is one that trusts `ca.crt` as it is now
(`ChainsToCa`), as every command in the repository's README does.

`sound`, `overlap`, `undisturbed`, `quiet` and `fresh` are history. They tell
apart what the code can promise from what it cannot: the two scripts do not
exclude each other, so nothing is claimed of files that both have written at
once until `generate_certs` has run alone again (`overlap`), nor of a server that
was loading while a file was being written (`quiet`). The AS, for one, reads its
key file twice, and signs with one key and shows another if the file changes in
between.

### Abstractions

- A token is its claims and the key that signed it; a string that is no JWT, or
  not one of this AS, is a token of another key. Cryptography is not modelled.
- Times are whole seconds, which is exact: `iat` and `exp` are integers, so the
  floor of `time.time()` decides every comparison in the same way. The clock
  does not go backwards.
- Coordinates are whole hours and degrees. The initial position 5.575 h, -5.39°
  is written 5, -5. A field of a body is the set of the numbers it can be read
  as; a missing field, a string or NaN is the empty set.
- A scope string is the set of its words, which is how both servers read it.
- Log entries have no timestamps; the wording of answers is left out.

## 3. Runs

Sizes and times are of TLC with two workers.

| Run | Instance | States | What it shows |
|---|---|---|---|
| `auth_server` | 2 clients, 2 tokens, 2 keys, 2 threads, lifetime 2, clock 0..3, 1 restart | 249 k | The AS invariants of section 1; `InactiveIsForever`; `IsTokenAuthority` |
| `auth_revoke_by_jti` | same | violation | revoking by JTI is answered 200 and does nothing |
| `mount_gil` | 3 threads, 2 targets, reset, position, status, connections | 626 k | the mount implements `AtomicMount`; it never rests at a mixture; no request fails |
| `mount_threads` | 2 threads, slews, reset, status, connections, a bad body, log of 2; preemptive, fair | 216 k | what needs no GIL: `is_slewing` never sticks, reading the mount never fails, the log keeps the latest and is listed as it is; every request is answered |
| `rs_tokens` | 2 threads, 5 kinds of token, clock 0..3, revocations | 714 k | every outcome of `require_scope`, in date order and out of it; a refused request leaves no trace in the log |
| `system_shared` | 2 clients, 2 tokens, one process, 1 restart | 520 k | revocation works when the list is shared |
| `system_deployed` | two processes, RS clock one second slow, 2 keys, 1 AS restart | 73 k | scopes and lifetime hold across key changes, restarts and skew |
| `system_revocation` | two processes | violation | the RS accepts a revoked token |
| `token_cache` | 2 processes, documents of 2 lengths, lifetime 4, buffer 2, skew 1, latency 1, kills; fair | 1.0 M | the client properties of section 1; every command ends |
| `cache_overlap` | same, no kills | violation | two overlapping saves leave an unusable file |
| `provisioning` | 3 runs of the scripts, both ways to start the RS | 1.9 M | the provisioning properties of section 1 |
| `printed_command` | 2 runs, the RS started as `setup_device` prints | violation | this RS refuses every token of the AS |

Why these bounds are enough. Nearly every interaction in the code is between
two requests: the threads share only the list, the log and four attributes, and
two threads meet every order of two requests; `mount_gil` has three, since a
reader can meet two writers in its two readings. For everything but liveness
the theorems of section 4 settle it for any number. Two targets that
differ in both coordinates, and differ from the home position, are enough to see
a mixture. A copy of the log is interrupted by an append, before and after the
log is full, and by one that pushes out an entry already copied. Two tokens show that revoking one leaves the other alone. The clock
runs past the end of every token. A log of two entries is filled and overflows
with two threads. The body of a slew is tried at both edges of the range and
just outside. In `TokenCache` two lengths give the short-over-long and the
long-over-short file. In `Provisioning`, three runs are a `generate_certs` that
succeeds, a second one that is killed, and a `setup_device` on the mixture; or a
`generate_certs` and two enrolments; and the two scripts at the same time before
or after either.

Symmetry is used in the runs without liveness, over threads, keys, tokens or
processes, none of which a specification names. Deadlock is checked in every
run but those of `Provisioning`, where all runs of the scripts may be used up
with no file that a server could start on.

Fairness. Two properties need it, and each assumes weak fairness of what a
thread or process does on its own. `EveryRequestAnswered`: each thread's `Step`.
A thread that is ready keeps being ready, and both the operating system and the
interpreter run every ready thread again and again. Nothing makes clients send,
tokens be revoked or the process restart. The property is claimed with
`Preemptive`, where a ready thread is never held back; under the GIL guard, weak
fairness of a thread's step would say less than the interpreter provides, since
`CanRun` becomes false again and again. `EveryCommandEnds`: each process'
`OwnStep`, which the operating system runs. `fetch_token` and `Answer` need a
server and are not fair: it is `timeout=10`, on every call of `client.py`, that
ends the command. `Confirm` is the user's, who may leave the prompt of
`admin reset` for ever, so that the property says nothing of a command that waits
there.

## 4. What is proved

Each table is for arbitrary values of the constants, within the assumptions
named under it, which are those of the modules; TLC evaluates them in every run.

### AuthServer

| Theorem | States |
|---|---|
| `TypeCorrect` | `[]TypeOK` |
| `ScopesAreRegistered` | `[]ScopesWithinRegistry` |
| `NothingElseIsRevoked` | `[]RevokedOnlyIfPosted` |
| `RevocationIsFinal` | `[]RevokeAnswerIsFinal` |
| `IntrospectionLinearizes` | `[]IntrospectionIsAtomic` |
| `NoResurrection` | `InactiveIsForever`, an action property |
| `ImplementsTokenAuthority` | `IsTokenAuthority`: `Spec => Authority!Spec` |

Assumed: `RegistryAssumption` (a registered client has a secret and valid
scopes), `LifetimeAssumption` (an integer), `OtherTokensAssumption` (a string that
the AS did not issue fails a check of `verify_token`) and `BoundsAssumption`.
`uuid4` not repeating itself is in `FreshJtis`; it is what makes a jti stand for
one token.

The argument. None of the properties is inductive. `IInv` adds to them

- `IssuedHere`: every issued token has the URLs of this AS and RS and was
  issued in the past;
- `JtisAreUnique`: two issued tokens with one jti are one token; otherwise
  revoking one would revoke the other;
- `RevokedFromPosted`: every revoked jti is that of a token posted since the
  restart. Unlike `RevokedOnlyIfPosted` this survives a new token, which then
  follows from `JtisAreUnique`;
- `VerifiedHandler`: a thread between its two steps holds an issued token, a
  posted one if it is about to revoke it, and the token was active when the
  request came in unless it is revoked by now;
- `DoneHandler`: what a finished thread knows. An answer "active" was true when
  the request came in; after any other answer, of `/introspect` or of `/revoke`,
  the token is not active.

The lemma `InactiveStays` is the heart of it: as long as the process lives, the
clock does not go back and the list only grows, an inactive token stays
inactive. An issued token fails because of its key, which does not change before
the restart, or its expiry, which the clock never undoes, and never because of
an `iat` in the future; a string that is not issued never gets past the key and
the URLs (`AcceptedIsIssued`). Each action has a lemma that it preserves `IInv`
and the theorems combine them. TLC checked `IInv` in the instance of
`auth_server` before it was proved.

The refinement uses `IInv` before and after each step. Its one idea is in
`CallLapses`: an open call may be answered "inactive" from the moment its token
is live no longer, and this is the same for the clock (`TickRefines`) and for
another thread's `/revoke` (`RevokeRefines`, where `JtisAreUnique` shows that the
list takes out one token and no other). `VerifiedHandler` gives the rest: the
token of an open call was active when the call came in unless it is revoked by
now, so whatever `/introspect` answers was possible. `OneCall` says what a step
of one thread leaves alone in the abstract state.

### ResourceServer

| Theorem | States |
|---|---|
| `TypeCorrect` | `[]TypeOK` |
| `NoStaleAdmission` | `[]ServedOnlyIfActive` |
| `RefusedForGood` | `[]RefusalIsFinal` |
| `OnlyServedAreLogged` | `[]RefusedLeaveNoTrace` |
| `LatestStayLogged` | `[]LogKeepsTheLatest` |
| `ListingIsExact` | `ListingIsTheLog`, an action property |
| `SlewingMeansSlew` | `[]SlewingOnlyDuringSlew` |
| `OnlyListingFails` | `[]NoServerError` |
| `OneCommandAtATime` | `[]NoMixedPosition`, with the GIL |
| `ImplementsAtomicMount` | `MountIsAtomic`: `Spec => Atomic!Spec`, with the GIL |

Assumed: `RequestsAssumption` (an endpoint of this server, a body whose fields
are read as integers, a token whose `exp` is an integer, as every token that
`issue_token` makes has), `MaxLogAssumption` (the deque holds at least one entry),
`SwitchAssumption` and `MaxTimeAssumption`. The last two theorems also assume
`~Preemptive`: TLC finds mixtures when threads are switched at every access. The
others hold wherever threads are switched.

The argument. What a thread knows between two of its steps is `ThreadOK`, in
six parts by what it depends on:

- `InProgram`, on its own program: it has had no error so far, `get_position`
  has two accesses, the target of a slew is one of its body's, what was logged
  is not refused later, and only a preempted copy finds the deque changed;
- `HasToken`, on its token: between the two steps of `require_scope`, the token
  was active when the request came in unless it is revoked by now, so that the
  second step, which looks only at the list, decides for a moment in between;
- `Refused`, on the clock and the list: what was expired still is;
- `InLog`, on the connection log: its entry is `later` places from the end.
  `LoggedFacts` says what one `append` to a deque, full or not, does to places;
- `InCopy`, on the log again: what a thread has copied are the first entries of
  the log, as long as its iterator finds the deque unchanged. A full deque that
  takes an entry moves all places, and `mutated` is what tells this thread;
- `InMethod`, on the mount: with the GIL, what `slew_to` or `reset` has assigned
  so far is still there.

Besides, `IInv` has `OneInside` (with the GIL, at most one thread is inside a
method) and `WholePosition` (while none is inside `slew_to` or `reset`, the
position is one that was commanded), which is `NoMixedPosition` for the states
in which a reader is inside its method. `OneThreadStep` reduces a step that
touches nothing shared to the state of its thread; the steps that touch the log
or the mount (`LogStep`, `AssignStep`) show that the other threads still know what
they knew. TLC checked this invariant in the runs of `ResourceServer` before it
was proved.

In `MountRefinement`, `CanRun` makes the refinement mapping simple: when a thread
takes a step, no other is inside a method, so that the abstract mount, and the
abstract answer of this thread, depend on the mount and on this thread alone
(`MountSeen`, `AnswerSeen`) and only its own call changes (`OneCall`). The first
assignment of a method is then the abstract command, and `InMethod` shows that
the last one makes the mount what the mapping said it was. For `reset` this needs
`SlewingOnlyDuringSlew` too, or a slew could have set `is_slewing` again. For a
reader, nothing changes the mount before its second read.

### TelescopeSystem

| Theorem | States |
|---|---|
| `TypeCorrect` | `[]TypeOK` |
| `SystemRunsAuthServer` | `Spec => AS!Spec` |
| `SystemKeepsResourceServer` | the invariants of the RS that need no clock of its own |
| `LeastPrivilegeHolds` | `[]LeastPrivilege` |
| `ExposureBounded` | `ExposureIsBounded`, an action property |
| `RevocationEnforced` | `[]RevocationIsEnforced`, in one process with one key |

Assumed: `SkewAssumption`, `SharedClockAssumption` (servers in one process read one
clock), `PublicKeyAssumption` (the RS verifies with the public half of a key of
the AS) and the two servers' own assumptions, which `AuthServerAssumption` and
`ResourceServerAssumption` restate, since the assumptions of an instantiated
module are not checked where it is instantiated.

The argument. The proofs of the two servers are instantiated (`ASP`, `RSP`) and
their lemmas, one for each action, are used as they are: a step of the system is
a step of the AS or leaves the AS alone, and for the RS it is a step of it, or
time that passes, or a change of the list. This is why the invariant of the RS
asks of `now` only that it is an integer (with a negative skew the RS's clock
starts below zero) and says nothing of `revoked`. The system's `IInv` adds what
neither server can know: `Aged` (a token's life is the one the AS was told) and
`FromHere` (a request that got past the signature carries a token that the AS
issued), which follows from `PublicKeyAssumption` and from
`OtherTokensAssumption`. `LeastPrivilege` is then `ServedOnlyIfActive` of the RS
and `ScopesWithinRegistry` of the AS, about one token.

`RevocationEnforced` needs both of its assumptions. `SharedProcess`, because
otherwise the code does not do this (`system_revocation`). One key, which is
every program the tests start: if the AS could come back with another key while
the RS keeps the old one, `/revoke` would answer 200 for a token that it does
not accept any longer, and which therefore it does not put in the list, and the
RS would take this token. `Warned` is the invariant: an answered token is
inactive for the AS, hence expired or in the list, and the RS, with the same
clock, key and list, either refuses it in the first step of `require_scope` or
finds it in the list in the second.

### TokenCache

| Theorem | States |
|---|---|
| `TypeCorrect` | `[]TypeOK` |
| `BufferCoversTheWay` | `[]NeverAnsweredExpired` |
| `ReadableOnlyInTheGap` | `[]ReadableOnlyIfInterrupted` |
| `UndisturbedSaveSticks` | `[]SaveSticksIfAlone` |

Assumed: `BufferAssumption` (`MaxLatency + Skew <= Buffer`), `LengthsAssumption` (a
document has at least one cell), `TimesAssumption` and `BoundsAssumption`.

The argument. `RequestInTime` says of a request on its way that its token was
beyond the buffer when it left, no longer ago than the latency; with
`BufferAssumption` and the guard of the clock, that is all of
`NeverAnsweredExpired`. `AloneWithCache` says what the file holds at each step of
an undisturbed save: it is empty after it was opened, and then it is the
document (`OverlayIsSeq`). `ReadableOnlyIfInterrupted` is inductive as it stands,
but every step must show that it leaves someone in the gap or nothing to show:
a step that only moves one process, not out of it, needs no more
(`NothingToNote`). `HoldsToken` and `OutcomeAtEnd` are about the process
itself. TLC checked the invariant before it was proved.

### Provisioning

| Theorem | States |
|---|---|
| `DiskInvariant` | `[]IInv`, the inductive invariant of the files |
| `Typing` | `[]TypeOK` |
| `WholeDisk` | `[]DiskIsWhole` |
| `WholeDomain` | `[]EnrolledInWholeDomain` |
| `TokensFollow` | `[]TokensFollowTls`, for an RS that is told `as.crt` and given a pair other than the CA's |
| `FreshStart` | `[]FreshStartWorks`, for an RS that is told `as.crt` |

The last two are in `ProvisioningServerProofs`. Assumed: `RunsAssumption` (the
bound on the runs is a number, of any size), `CommandsAssumption` (the names that
an RS is started with are those of pairs), `ImportsAssumption` and
`MarksAssumption` (a missing or torn file is no document). The hypotheses of
`TokensFollow` and `FreshStart` are how the repository's README starts the RS;
the command that `setup_device` prints does not satisfy them, and
`printed_command` shows what comes of it. The CA's pair is excluded because
`generate_certs` replaces `ca.crt` before `as.crt`: an RS that is started in
between, and shows `ca.crt`, can be verified but trusts the old key.

The argument. All properties are about files that several runs have written and
that may have been cut short, so `IInv` says for each file which run it is from.
The ten files of `generate_certs` are numbered in the order it writes them
(`Order`; `ProgramIs` shows that `main` writes them so), and `Made(file, r)` is
what run `r` writes. `IInv` then has

- `GenPlan`, `GenProgress`: what is left to write, and that the files written so
  far are of this run and no file still due is;
- `Origin`: every whole file of `generate_certs` is from a run, and the LDevID is
  signed with a CA key of a run;
- `Contiguous`: if two files are from one run, all files between them are. This
  is what survives any number of runs that were cut short, and the reason is the
  fixed order: a later run overwrites an initial segment;
- `Enrolled`: if the LDevID chains to `ca.crt`, the IDevID is from that run, too.
  `Contiguous` then gives the AS and the RS, whose files are between. This is
  what `verify_idevid` is for: `setup_device` signs with the key in `ca.key`,
  which may be of a later run than `ca.crt`, and it is `DevRead`, that `ca.crt`
  and `idevid.crt` are from one run, which makes the LDevID harmless then;
- `DevPlan`, `DevRead`, `DevProgress`: the same for `setup_device`, with what it
  has read and, if nobody disturbs it, what it found sound and has replaced;
- `Apart`: the scripts are never active together without having been recorded
  in `overlap` and `undisturbed`, and never while `sound` holds.

Each action has a lemma that says what it changes (`GenStarts`, `FillIs`, ...),
and one or two that it keeps `IInv`.

For the servers, `OfOneRun` relates the run `r` of the key that an RS trusts to
the run `q` whose CA signed its certificate. They need not be equal: the AS
certificate and the pair may be of different runs. What holds is that they are
equal if `ca.crt` is of run `q`, now or later, because then `Contiguous` puts
`as.crt`, at the moment the RS read it, into run `q`; and a run that is under way
and has not written `ca.crt` yet is not `q`, so that no file it completes brings
the two apart. The AS shows a certificate of the run of its own key (`AsLoaded`).
Clients that can connect to both put both in the run of `ca.crt`. `Fresh` is the
simpler case of servers started on sound files: `setup_device` only replaces the
LDevID, by one of the same CA, wherever it is cut short (`FreshFiles`).

TLC checked `IInv`, `AsLoaded`, `RsLoaded` and `Fresh` in the instance of
`provisioning` before they were proved.

### Only model-checked

The liveness properties (`EveryRequestAnswered`, `EveryCommandEnds`), which are
out of the prover's reach, as is everything about `ENABLED`. The four expected
violations of section 5 are counterexamples, which TLC finds.

## 5. Where code and text disagree

Four runs are expected to find a violation; PROJECT.json quotes the lines.

1. With AS and RS in two processes, as the repository's README starts them, the
   RS accepts revoked tokens until they expire (`system_revocation`). What does
   hold is `ExposureIsBounded`: the lifetime of the token, give or take the
   skew of the clocks.
2. `admin.py revoke` is documented to take a JTI; that revokes nothing and
   prints "Token revoked." (`auth_revoke_by_jti`).
3. Two `token` commands at the same time can leave a cache file that no command
   can use, although both report success (`cache_overlap`).
4. `setup_device` prints a command that starts the RS with the CA certificate
   where it expects the AS's; this RS refuses every token (`printed_command`).

Read off the code without a run: `expires_in` is 3600 whatever
`--token-lifetime` says (`auth.py:183`); the client never refreshes an expired
token, it asks the user to (`client.py:8` says otherwise); with a
`--token-lifetime` of 60 or less no cached token is ever usable
(`client.py:74`); `main` of `auth.py` imports a module that does not exist
(`auth.py:266`); the default of the client's `--ca-cert` is `certs/as.crt`,
which verifies no certificate of the RS (`client.py:174`). After a
`generate_certs` that died between `ca.key` and `ca.crt`, `setup_device` reports
success and issues an LDevID that no client can verify, because it does not
compare the two (`setup_device.py:184`); `EnrolledInWholeDomain` says what holds
all the same.

## 6. Not modelled

- TLS itself: the handshake and the options of `tls_config.py` belong to the
  `ssl` library. What the servers load and which trust anchor verifies it is in
  `Provisioning`. `client_tls_context`, client certificates and
  `describe_context` are used by no program of the repository.
- The MUD file and the gateway that would read it; `/mud` and `/.well-known`,
  which change no state; terminal output; ports and host names.
- `admin.py` as a program: it keeps no state, each command posts one request
  that `AuthServer` or `ResourceServer` takes.
- `ErrorResponse` of `protocol.py`, which the code does not use.
- The physical mount: the code has none, a slew is instant.
- The client composed with both servers. What happens to a cached token that is
  revoked is `RevocationIsEnforced`, and a slew that the user gave up on after
  10 s is a thread of `ResourceServer` that acts late; no code notices either.
- Clocks that are set back.

## 7. Plan

Done: all modules and runs above, and a theorem for every invariant, action
property and refinement that a run checks. What could follow: the client
composed with both servers (section 6), and the proofs of further properties
should the code gain a lock around the cache or a refresh of tokens.
