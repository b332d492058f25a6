-------------------------- MODULE TokenCacheProofs ---------------------------
(***************************************************************************)
(* What the token cache of client.py promises, for any number of processes *)
(* and documents of any length, every lifetime, and every buffer that      *)
(* covers the latency and the skew.                                        *)
(***************************************************************************)
EXTENDS TokenCache, SequenceTheorems, TLAPS

(* A process that is about to write or use a token has one.                *)
HoldsToken ==
    \A p \in Processes :
        cli[p].pc \in {"open", "write", "chmod", "request"} \/ cli[p].outcome = "issued"
        => cli[p].token \in Token

(* Only a command that has ended has an outcome.                           *)
OutcomeAtEnd == \A p \in Processes : cli[p].pc # "ended" => cli[p].outcome = "none"

(* A request that is on its way left when the token was beyond the buffer, *)
(* and no longer ago than the latency.                                     *)
RequestInTime ==
    \A p \in Processes : cli[p].pc = "request" =>
        /\ cli[p].sent + Buffer < cli[p].token.exp
        /\ now <= cli[p].sent + MaxLatency

(* What the file holds while nobody else touches it.                       *)
AloneWithCache ==
    \A p \in Processes : cli[p].alone =>
        /\ cli[p].pc = "write" => cache = << >>
        /\ cli[p].pc = "chmod" \/ cli[p].outcome = "issued" => cache = Document(cli[p].token)

IInv ==
    /\ TypeOK
    /\ HoldsToken
    /\ OutcomeAtEnd
    /\ RequestInTime
    /\ NeverAnsweredExpired
    /\ ReadableOnlyIfInterrupted
    /\ AloneWithCache
-----------------------------------------------------------------------------
LEMMA IdleFields ==
    /\ Idle \in Running
    /\ Idle.outcome = "none" /\ Idle.alone = FALSE /\ Idle.pc = "idle"
BY DEF Idle, Running

(* A document is a sequence of tokens.                                     *)
LEMMA DocumentIsSeq ==
    ASSUME NEW tok \in Token
    PROVE  /\ Document(tok) \in Seq(Token)
           /\ Len(Document(tok)) = tok.length
           /\ Document(tok) # << >>
<1>1. tok.length \in Nat /\ tok.length # 0
  BY LengthsAssumption DEF Token
<1>2. Document(tok) \in [1..tok.length -> Token]
  BY DEF Document
<1>3. Document(tok) \in Seq(Token) /\ Len(Document(tok)) = tok.length
  BY <1>1, <1>2
<1> QED BY <1>1, <1>3

(* Writing to a file keeps it a sequence of tokens; an empty file then     *)
(* holds the document.                                                     *)
LEMMA OverlayIsSeq ==
    ASSUME NEW doc \in Seq(Token), NEW file \in Seq(Token)
    PROVE  /\ Overlay(doc, file) \in Seq(Token)
           /\ file = << >> => Overlay(doc, file) = doc
<1>1. Len(doc) \in Nat /\ Len(file) \in Nat
  BY LenProperties
<1>2. \A i \in Len(doc) + 1 .. Len(file) : file[i] \in Token
  BY <1>1, ElementOfSeq
<1>3. SubSeq(file, Len(doc) + 1, Len(file)) \in Seq(Token)
  BY <1>1, <1>2, SubSeqProperties
<1>4. Overlay(doc, file) \in Seq(Token)
  BY <1>3, ConcatProperties DEF Overlay
<1>5. ASSUME file = << >> PROVE Overlay(doc, file) = doc
  <2>1. Len(file) = 0
    BY <1>5, EmptySeq
  <2>2. SubSeq(file, Len(doc) + 1, Len(file)) = << >>
    BY <1>1, <2>1, SubSeqEmpty
  <2> QED BY <2>2, ConcatEmptySeq DEF Overlay
<1> QED BY <1>4, <1>5

(* A `token' command that stops between the write and the chmod of a file  *)
(* that is not private leaves a note; no other end of a command does.      *)
Noted(p) == interrupted' = (interrupted \/ (cli[p].pc = "chmod" /\ ~private))

LEMMA NothingToNote ==
    ASSUME IInv, UNCHANGED interrupted, NEW p \in Processes, cli[p].pc # "chmod"
    PROVE  Noted(p)
BY DEF IInv, TypeOK, Noted

LEMMA InitIInv == Init => IInv
<1> SUFFICES ASSUME Init PROVE IInv
  OBVIOUS
<1>1. TypeOK
  BY IdleFields, EmptySeq DEF Init, TypeOK
<1>2. \A p \in Processes : cli[p].pc = "idle" /\ cli[p].outcome = "none" /\ ~cli[p].alone
  BY IdleFields DEF Init
<1> QED BY <1>1, <1>2 DEF Init, IInv, HoldsToken, OutcomeAtEnd, RequestInTime,
                          NeverAnsweredExpired, ReadableOnlyIfInterrupted, AloneWithCache

(* The clock: a request is not older than its latency.                     *)
LEMMA TickStep ==
    ASSUME IInv, Tick
    PROVE  IInv'
<1>1. /\ now' = now + 1 /\ UNCHANGED <<cache, private, cli, interrupted>>
      /\ \A p \in Processes : cli[p].pc = "request" => now < cli[p].sent + MaxLatency
  BY DEF Tick
<1>2. TypeOK'
  BY <1>1 DEF IInv, TypeOK
<1>3. RequestInTime'
  <2> SUFFICES ASSUME NEW p \in Processes, cli[p].pc = "request"
               PROVE  now' <= cli[p].sent + MaxLatency
    BY <1>1 DEF IInv, RequestInTime
  <2>1. cli[p].sent \in Nat
    BY DEF IInv, TypeOK, Running
  <2> QED BY <1>1, <2>1, TimesAssumption DEF IInv, TypeOK
<1> QED BY <1>1, <1>2, <1>3 DEF IInv, HoldsToken, OutcomeAtEnd,
                               NeverAnsweredExpired, ReadableOnlyIfInterrupted, AloneWithCache

(* What one process does to its own state only.                            *)
LEMMA OwnStateStep ==
    ASSUME IInv, UNCHANGED <<now, cache, private>>, NEW p \in Processes, Noted(p),
           NEW c \in Running, cli' = [cli EXCEPT ![p] = c],
           c.pc \in {"open", "write", "chmod", "request"} \/ c.outcome = "issued"
             => c.token \in Token,
           c.pc # "ended" => c.outcome = "none",
           c.pc = "request" => /\ c.sent + Buffer < c.token.exp
                               /\ now <= c.sent + MaxLatency,
           c.outcome # "token_expired",
           c.alone => /\ c.pc = "write" => cache = << >>
                      /\ c.pc = "chmod" \/ c.outcome = "issued" => cache = Document(c.token)
    PROVE  IInv'
<1>1. \A q \in Processes : cli'[q] = IF q = p THEN c ELSE cli[q]
  BY DEF IInv, TypeOK
<1>2. TypeOK'
  BY DEF IInv, TypeOK, Noted
<1>3. HoldsToken' /\ OutcomeAtEnd' /\ NeverAnsweredExpired'
  BY <1>1 DEF IInv, HoldsToken, OutcomeAtEnd, NeverAnsweredExpired
<1>4. RequestInTime'
  BY <1>1 DEF IInv, RequestInTime
<1>5. AloneWithCache'
  BY <1>1 DEF IInv, AloneWithCache
<1>6. ReadableOnlyIfInterrupted'
  <2> SUFFICES ASSUME cache # << >>, ~private, ~interrupted'
               PROVE  \E q \in Processes : cli'[q].pc = "chmod"
    BY DEF ReadableOnlyIfInterrupted
  <2>1. ~interrupted /\ cli[p].pc # "chmod"
    BY DEF Noted
  <2>2. PICK q \in Processes : cli[q].pc = "chmod"
    BY <2>1 DEF IInv, ReadableOnlyIfInterrupted
  <2> QED BY <1>1, <2>1, <2>2
<1> QED BY <1>2, <1>3, <1>4, <1>5, <1>6 DEF IInv

LEMMA StartStep ==
    ASSUME IInv, NEW p \in Processes,
           NEW command \in {"token", "load", "prompt"}, Start(p, command)
    PROVE  IInv'
<1>1. PICK c : c = [Idle EXCEPT !.pc = command]
  OBVIOUS
<1>2. c \in Running /\ c.pc = command /\ c.outcome = "none" /\ c.alone = FALSE
  BY <1>1, IdleFields DEF Running
<1>3. cli' = [cli EXCEPT ![p] = c] /\ UNCHANGED <<now, cache, private>> /\ Noted(p)
  BY <1>1, NothingToNote DEF Start
<1> QED BY <1>2, <1>3, OwnStateStep

(* The prompt of `admin reset' is answered with yes.                       *)
LEMMA ConfirmStep ==
    ASSUME IInv, NEW p \in Processes, Confirm(p)
    PROVE  IInv'
<1>1. PICK c : c = [cli[p] EXCEPT !.pc = "load"]
  OBVIOUS
<1>2. cli[p] \in Running /\ cli[p].pc = "prompt" /\ cli[p].outcome = "none"
  BY DEF IInv, TypeOK, OutcomeAtEnd, Confirm
<1>3. c \in Running /\ c.pc = "load" /\ c.outcome = "none"
  BY <1>1, <1>2 DEF Running
<1>4. cli' = [cli EXCEPT ![p] = c] /\ UNCHANGED <<now, cache, private>> /\ Noted(p)
  BY <1>1, <1>2, NothingToNote DEF Confirm
<1> QED BY <1>3, <1>4, OwnStateStep

LEMMA FetchStep ==
    ASSUME IInv, NEW p \in Processes, fetch_token(p)
    PROVE  IInv'
<1>1. PICK n \in Lengths :
        cli' = [cli EXCEPT ![p].pc = "open",
                           ![p].token = [exp |-> now + Skew + token_lifetime, length |-> n]]
  BY DEF fetch_token
<1>2. PICK tok : tok = [exp |-> now + Skew + token_lifetime, length |-> n]
  OBVIOUS
<1>3. tok \in Token
  BY <1>2, TimesAssumption DEF IInv, TypeOK, Token
<1>4. PICK c : c = [cli[p] EXCEPT !.pc = "open", !.token = tok]
  OBVIOUS
<1>5. cli[p] \in Running /\ cli[p].pc = "token" /\ cli[p].outcome = "none"
  BY DEF IInv, TypeOK, OutcomeAtEnd, fetch_token
<1>6. c \in Running /\ c.pc = "open" /\ c.token = tok /\ c.outcome = "none"
  BY <1>3, <1>4, <1>5 DEF Running
<1>7. cli' = [cli EXCEPT ![p] = c] /\ UNCHANGED <<now, cache, private>> /\ Noted(p)
  BY <1>1, <1>2, <1>4, <1>5, NothingToNote DEF fetch_token
<1> QED BY <1>3, <1>6, <1>7, OwnStateStep

(* However a command ends that has not just saved, it ends alike.          *)
LEMMA EndStep ==
    ASSUME IInv, NEW p \in Processes, cli[p].pc # "ended",
           NEW outcome \in {"usage_error", "http_error", "answered", "aborted", "killed"},
           End(p, outcome), UNCHANGED <<now, cache, private>>, Noted(p)
    PROVE  IInv'
<1>1. PICK c : c = [cli[p] EXCEPT !.pc = "ended", !.outcome = outcome]
  OBVIOUS
<1>2. cli[p] \in Running
  BY DEF IInv, TypeOK
<1>3. c \in Running /\ c.pc = "ended" /\ c.outcome = outcome
  BY <1>1, <1>2 DEF Running
<1>4. cli' = [cli EXCEPT ![p] = c]
  BY <1>1 DEF End
<1> QED BY <1>3, <1>4, OwnStateStep

(* The RS answers in time: the latency and the skew fit into the buffer.   *)
LEMMA AnswerStep ==
    ASSUME IInv, NEW p \in Processes, Answer(p)
    PROVE  IInv'
<1>1. cli[p].pc = "request" /\ cli[p] \in Running /\ cli[p].token \in Token
  BY DEF Answer, IInv, TypeOK, HoldsToken
<1>2. cli[p].sent + Buffer < cli[p].token.exp /\ now <= cli[p].sent + MaxLatency
  BY <1>1 DEF IInv, RequestInTime
<1>3. now \in Nat /\ cli[p].sent \in Nat /\ cli[p].token.exp \in Int
  BY <1>1 DEF IInv, TypeOK, Running, Token
<1>4. now + Skew < cli[p].token.exp
  BY <1>2, <1>3, TimesAssumption, BufferAssumption
<1>5. End(p, "answered") /\ UNCHANGED <<now, cache, private>> /\ Noted(p)
  BY <1>1, <1>4, NothingToNote DEF Answer
<1> QED BY <1>1, <1>5, EndStep

LEMMA LoadStep ==
    ASSUME IInv, NEW p \in Processes, LoadCache(p)
    PROVE  IInv'
<1>1. cli[p].pc = "load" /\ UNCHANGED <<now, cache, private>> /\ Noted(p)
  BY NothingToNote DEF LoadCache
<1>2. CASE IsDocument(cache) /\ Fresh(cache[1])
  <2>1. cache[1] \in Token
    <3>1. cache \in Seq(Token) /\ cache # << >>
      BY <1>2 DEF IInv, TypeOK, IsDocument
    <3>2. 1 \in 1..Len(cache)
      BY <3>1, EmptySeq, LenProperties
    <3> QED BY <3>1, <3>2, ElementOfSeq
  <2>2. PICK c : c = [cli[p] EXCEPT !.pc = "request", !.token = cache[1], !.sent = now]
    OBVIOUS
  <2>3. cli[p] \in Running /\ cli[p].outcome = "none" /\ now \in Nat
    BY <1>1 DEF IInv, TypeOK, OutcomeAtEnd
  <2>4. /\ c \in Running /\ c.pc = "request" /\ c.token = cache[1]
        /\ c.sent = now /\ c.outcome = "none"
    BY <2>1, <2>2, <2>3 DEF Running
  <2>5. cli' = [cli EXCEPT ![p] = c]
    BY <1>2, <2>2 DEF LoadCache
  <2>6. cache[1].exp \in Int /\ now + Buffer < cache[1].exp
    BY <1>2, <2>1, <2>3, TimesAssumption DEF Fresh, Token
  <2>7. now <= now + MaxLatency
    BY <2>3, TimesAssumption
  <2> QED BY <1>1, <2>1, <2>4, <2>5, <2>6, <2>7, OwnStateStep
<1>3. CASE ~(IsDocument(cache) /\ Fresh(cache[1]))
  <2>1. End(p, "usage_error")
    BY <1>3 DEF LoadCache
  <2> QED BY <1>1, <2>1, EndStep
<1> QED BY <1>2, <1>3

(* What opening and writing the file have in common: nobody else is alone  *)
(* with it afterwards.                                                     *)
LEMMA TouchStep ==
    ASSUME IInv, UNCHANGED <<now, private, interrupted>>, cache' \in Seq(Token),
           NEW p \in Processes, cli[p].pc \in {"open", "write"},
           NEW pc \in {"write", "chmod"}, NEW alone \in BOOLEAN, Touch(p, pc, alone),
           pc = "write" => cache' = << >>,
           alone /\ pc = "chmod" => cache' = Document(cli[p].token)
    PROVE  IInv'
<1>1. PICK c : c = [cli[p] EXCEPT !.pc = pc, !.alone = alone]
  OBVIOUS
<1>2. /\ cli[p] \in Running /\ cli[p].token \in Token /\ cli[p].outcome = "none"
  BY DEF IInv, TypeOK, HoldsToken, OutcomeAtEnd
<1>3. /\ c \in Running /\ c.pc = pc /\ c.alone = alone /\ c.token = cli[p].token
      /\ c.outcome = "none"
  BY <1>1, <1>2 DEF Running
<1>4. cli' = [q \in Processes |-> IF q = p THEN c ELSE [cli[q] EXCEPT !.alone = FALSE]]
  BY <1>1 DEF Touch
<1>5. \A q \in Processes : cli[q] \in Running
  BY DEF IInv, TypeOK
<1>6. \A q \in Processes : q # p =>
        /\ cli'[q] \in Running /\ cli'[q].alone = FALSE /\ cli'[q].pc = cli[q].pc
        /\ cli'[q].token = cli[q].token /\ cli'[q].outcome = cli[q].outcome
        /\ cli'[q].sent = cli[q].sent
  BY <1>4, <1>5 DEF Running
<1>7. cli'[p] = c
  BY <1>4
<1>8. TypeOK'
  <2>1. cli' \in [Processes -> Running]
    BY <1>3, <1>4, <1>6, <1>7
  <2> QED BY <2>1 DEF IInv, TypeOK
<1>9. HoldsToken' /\ OutcomeAtEnd' /\ NeverAnsweredExpired'
  BY <1>2, <1>3, <1>6, <1>7 DEF IInv, HoldsToken, OutcomeAtEnd, NeverAnsweredExpired
<1>10. RequestInTime'
  BY <1>3, <1>6, <1>7 DEF IInv, RequestInTime
<1>11. AloneWithCache'
  BY <1>3, <1>6, <1>7 DEF AloneWithCache
<1>12. ReadableOnlyIfInterrupted'
  <2>1. CASE pc = "write"
    BY <2>1 DEF ReadableOnlyIfInterrupted
  <2>2. CASE pc = "chmod"
    BY <1>3, <1>7, <2>2 DEF ReadableOnlyIfInterrupted
  <2> QED BY <2>1, <2>2
<1> QED BY <1>8, <1>9, <1>10, <1>11, <1>12 DEF IInv

LEMMA OpenStep ==
    ASSUME IInv, NEW p \in Processes, OpenCache(p)
    PROVE  IInv'
<1>1. << >> \in Seq(Token)
  BY EmptySeq
<1> QED BY <1>1, TouchStep DEF OpenCache

LEMMA WriteStep ==
    ASSUME IInv, NEW p \in Processes, WriteCache(p)
    PROVE  IInv'
<1>1. cli[p].pc = "write" /\ cli[p].token \in Token /\ cli[p].alone \in BOOLEAN
  BY DEF WriteCache, IInv, TypeOK, HoldsToken, Running
<1>2. cache \in Seq(Token) /\ (cli[p].alone => cache = << >>)
  BY <1>1 DEF IInv, TypeOK, AloneWithCache
<1>3. PICK doc : doc = Document(cli[p].token)
  OBVIOUS
<1>4. /\ Overlay(doc, cache) \in Seq(Token)
      /\ cli[p].alone => Overlay(doc, cache) = doc
  BY <1>1, <1>2, <1>3, DocumentIsSeq, OverlayIsSeq
<1>5. cache' = Overlay(doc, cache) /\ Touch(p, "chmod", cli[p].alone)
      /\ UNCHANGED <<now, private, interrupted>>
  BY <1>3 DEF WriteCache
<1> QED BY <1>1, <1>3, <1>4, <1>5, TouchStep

LEMMA ChmodStep ==
    ASSUME IInv, NEW p \in Processes, ChmodCache(p)
    PROVE  IInv'
<1>1. PICK c : c = [cli[p] EXCEPT !.pc = "ended", !.outcome = "issued"]
  OBVIOUS
<1>2. cli[p].pc = "chmod" /\ cli[p] \in Running /\ cli[p].token \in Token
  BY DEF ChmodCache, IInv, TypeOK, HoldsToken
<1>3. /\ c \in Running /\ c.pc = "ended" /\ c.outcome = "issued"
      /\ c.token = cli[p].token /\ c.alone = cli[p].alone
  BY <1>1, <1>2 DEF Running
<1>4. /\ cli' = [cli EXCEPT ![p] = c] /\ UNCHANGED <<now, cache>>
      /\ private' = TRUE /\ interrupted' = FALSE
  BY <1>1 DEF ChmodCache, End
<1>5. \A q \in Processes : cli'[q] = IF q = p THEN c ELSE cli[q]
  BY <1>4 DEF IInv, TypeOK
<1>6. TypeOK'
  BY <1>3, <1>4 DEF IInv, TypeOK
<1>7. HoldsToken' /\ OutcomeAtEnd' /\ NeverAnsweredExpired'
  BY <1>2, <1>3, <1>5 DEF IInv, HoldsToken, OutcomeAtEnd, NeverAnsweredExpired
<1>8. RequestInTime' /\ ReadableOnlyIfInterrupted'
  BY <1>3, <1>4, <1>5 DEF IInv, RequestInTime, ReadableOnlyIfInterrupted
<1>9. AloneWithCache'
  BY <1>2, <1>3, <1>4, <1>5 DEF IInv, AloneWithCache
<1> QED BY <1>6, <1>7, <1>8, <1>9 DEF IInv

LEMMA NextIInv == IInv /\ [Next]_vars => IInv'
<1> SUFFICES ASSUME IInv, [Next]_vars PROVE IInv'
  OBVIOUS
<1>1. CASE Tick
  BY <1>1, TickStep
<1>2. ASSUME NEW p \in Processes, token(p) \/ position(p) \/ admin_reset(p)
      PROVE  IInv'
  BY <1>2, StartStep DEF token, position, admin_reset
<1>3. ASSUME NEW p \in Processes, fetch_token(p) PROVE IInv'
  BY <1>3, FetchStep
<1>4. ASSUME NEW p \in Processes, Answer(p) PROVE IInv'
  BY <1>4, AnswerStep
<1>5. ASSUME NEW p \in Processes, OwnStep(p) PROVE IInv'
  <2>1. CASE FetchFails(p)
    BY <2>1, EndStep, NothingToNote DEF FetchFails
  <2>2. CASE OpenCache(p)
    BY <2>2, OpenStep
  <2>3. CASE WriteCache(p)
    BY <2>3, WriteStep
  <2>4. CASE ChmodCache(p)
    BY <2>4, ChmodStep
  <2>5. CASE LoadCache(p)
    BY <2>5, LoadStep
  <2>6. CASE TimeOut(p)
    BY <2>6, EndStep, NothingToNote DEF TimeOut
  <2> QED BY <1>5, <2>1, <2>2, <2>3, <2>4, <2>5, <2>6 DEF OwnStep
<1>6. ASSUME NEW p \in Processes, Kill(p) PROVE IInv'
  BY <1>6, EndStep DEF Kill, Noted
<1>7. ASSUME NEW p \in Processes, Confirm(p) PROVE IInv'
  BY <1>7, ConfirmStep
<1>8. ASSUME NEW p \in Processes, Decline(p) PROVE IInv'
  BY <1>8, EndStep, NothingToNote DEF Decline
<1>9. CASE UNCHANGED vars
  BY <1>9 DEF vars, IInv, TypeOK, HoldsToken, OutcomeAtEnd, RequestInTime,
              NeverAnsweredExpired, ReadableOnlyIfInterrupted, AloneWithCache
<1> QED BY <1>1, <1>2, <1>3, <1>4, <1>5, <1>6, <1>7, <1>8, <1>9 DEF Next

(* The inductive invariant holds in every state of every behaviour.        *)
LEMMA InvariantHolds == Spec => []IInv
BY InitIInv, NextIInv, PTL DEF Spec

-----------------------------------------------------------------------------
(* The file is made of what `token' commands have written, and every       *)
(* process keeps its types (client.py, _save_token, _load_cached_token).   *)
THEOREM TypeCorrect == Spec => []TypeOK
<1>1. IInv => TypeOK
  BY DEF IInv
<1> QED BY <1>1, InvariantHolds, PTL

(* The buffer of _load_cached_token keeps expired tokens off the wire, if  *)
(* it covers the way to the RS and the difference of the clocks            *)
(* (client.py, _load_cached_token).                                        *)
THEOREM BufferCoversTheWay == Spec => []NeverAnsweredExpired
<1>1. IInv => NeverAnsweredExpired
  BY DEF IInv
<1> QED BY <1>1, InvariantHolds, PTL

(* The cache shows its token to others only between the write and the      *)
(* chmod of some `token' command, or after one was killed there and until  *)
(* the next has ended well, however many processes rewrite it at the same  *)
(* time (client.py, _save_token).                                          *)
THEOREM ReadableOnlyInTheGap == Spec => []ReadableOnlyIfInterrupted
<1>1. IInv => ReadableOnlyIfInterrupted
  BY DEF IInv
<1> QED BY <1>1, InvariantHolds, PTL

(* A save that nobody overlaps leaves its document whole, whatever was in  *)
(* the file (client.py, _save_token), for documents of any length.         *)
THEOREM UndisturbedSaveSticks == Spec => []SaveSticksIfAlone
<1>1. IInv => SaveSticksIfAlone
  BY DEF IInv, AloneWithCache, SaveSticksIfAlone
<1> QED BY <1>1, InvariantHolds, PTL
=============================================================================
