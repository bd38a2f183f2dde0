------------------------- MODULE HelperSessionProofs -------------------------
(***************************************************************************)
(* Proofs about HelperSession: no caller is given the answer to another    *)
(* request, the watchdog never ends a session in use, and nobody waits     *)
(* without a deadline, for any number of callers.                          *)
(***************************************************************************)
EXTENDS HelperSession, FiniteSetTheorems, SequenceTheorems, TLAPS

Ops == Opens \cup Uses \cup {"releaseHandle"}
Requests == [who : Callers, op : Ops]
Addresses == [who : Callers \cup {"helper"}, op : Ops \cup {"none"}]
Replies == [to : Addresses,
            says : OpenReplies \cup {"done", "garbage", "ready"}]
Points == {"free", "opening", "held", "useless", "using", "returning"}

Types == /\ child \in {"none", "starting", "serving", "killed"}
         /\ ready \in BOOLEAN /\ out \in BOOLEAN
         /\ opTimer \in BOOLEAN /\ idleTimer \in BOOLEAN
         /\ outstanding \in Nat
         /\ queue \in Seq(Requests) /\ inbox \in Seq(Requests)
         /\ pipe \in Seq(Replies)
         /\ pc \in [Callers -> Points]
         /\ wants \in [Callers -> Addresses]
         /\ got \in [Callers -> Addresses]

\* A dead session has no child and keeps nobody waiting.
Silent == Dead => /\ child \in {"none", "killed"}
                  /\ queue = <<>>
                  /\ \A c \in Callers : ~Waiting(c)

\* How far the helper and the session are: of the requests only the first is
\* out, and it is at the helper or its reply is on the way back.
Handshaking ==
  ~Dead /\ ~ready =>
    /\ ~out /\ inbox = <<>> /\ child # "killed"
    /\ child \in {"none", "starting"} => pipe = <<>>
    /\ child = "serving" => Len(pipe) = 1
    /\ child = "none" <=> life = "new"
    /\ life = "new" => queue = <<>> /\ ~opTimer
    /\ life = "live" => opTimer
Serving ==
  ~Dead /\ ready =>
    /\ life = "live" /\ child = "serving"
    /\ out <=> queue # <<>>
    /\ out => opTimer
    /\ ~out => inbox = <<>> /\ pipe = <<>>
    /\ out => \/ inbox = <<Head(queue)>> /\ pipe = <<>>
              \/ /\ inbox = <<>> /\ Len(pipe) = 1
                 /\ Head(pipe).to = Head(queue)

\* What a caller that waits has asked for.
Fits(point, op) == \/ point = "opening" /\ op \in Opens
                   \/ point = "using" /\ op \in Uses
                   \/ point = "returning" /\ op = "releaseHandle"
\* Who waits has one request in the queue, the one it wants.
Queued ==
  /\ \A i \in DOMAIN queue : /\ Fits(pc[queue[i].who], queue[i].op)
                             /\ wants[queue[i].who] = queue[i]
  /\ \A i, j \in DOMAIN queue : queue[i].who = queue[j].who => i = j
  /\ ~Dead => \A c \in Callers :
                Waiting(c) => \E i \in DOMAIN queue : queue[i].who = c

\* The session counts the callers that have a handle to give back.
Holders == {c \in Callers : pc[c] \in {"held", "useless", "using", "returning"}}
Counted == ~Dead => /\ IsFiniteSet(Holders)
                    /\ outstanding = Cardinality(Holders)
Idles == ~Dead /\ idleTimer => queue = <<>> /\ Holders = {}

IInv == /\ Types /\ Silent /\ Handshaking /\ Serving /\ Queued /\ Counted
        /\ Idles /\ OwnAnswer

\* Nobody waits without a deadline (secure-fs-windows.ts:637-643, 673-675).
DeadlineArmed == \A c \in Callers : Waiting(c) => ~Dead /\ opTimer

-----------------------------------------------------------------------------

LEMMA RequestsAreAddresses ==
  /\ Requests \subseteq Addresses
  /\ \A c \in Callers : /\ NoRequest(c) \in Addresses
                        /\ \A op \in Ops : Request(c, op) \in Requests
  /\ NoRequest("helper") \in Addresses
  BY DEF Requests, Addresses, NoRequest, Request

LEMMA SessionStarts == SessionStart => IInv
  <1> SUFFICES ASSUME SessionStart PROVE IInv
    OBVIOUS
  <1>1. Types
    <2>1. /\ wants \in [Callers -> Addresses]
          /\ got \in [Callers -> Addresses]
      BY RequestsAreAddresses DEF SessionStart
    <2>2. <<>> \in Seq(Requests) /\ <<>> \in Seq(Replies)
      BY EmptySeq
    <2>3. pc \in [Callers -> Points]
      BY DEF SessionStart, Points
    <2> QED BY <2>1, <2>2, <2>3 DEF SessionStart, Types
  <1>2. Silent /\ Handshaking /\ Serving /\ Idles /\ OwnAnswer
    BY DEF SessionStart, Silent, Handshaking, Serving, Idles, OwnAnswer, Dead,
           Holders
  <1>3. Queued
    BY DEF SessionStart, Queued, Waiting
  <1>4. Holders = {}
    BY DEF SessionStart, Holders
  <1>5. Counted
    BY <1>4, FS_EmptySet DEF SessionStart, Counted
  <1> QED BY <1>1, <1>2, <1>3, <1>5 DEF IInv

\* After a refusal a caller waits no more and keeps what it held.
LEMMA RefusedKeeps ==
  ASSUME Types, NEW c \in Callers, Waiting(c)
  PROVE  After(c, "refused") \in {"held", "free"}
  BY DEF After, Waiting, Points

\* The end of a session.
LEMMA FailKeeps ==
  ASSUME IInv, NEW reason, Fail(reason), reason \notin {"new", "live"}, ~Dead
  PROVE  IInv'
  <1>1. Dead'
    BY DEF Fail, Dead
  <1>2. \A c \in Callers : /\ pc'[c] \in Points
                           /\ pc'[c] \notin {"opening", "using", "returning"}
    <2> TAKE c \in Callers
    <2>1. pc'[c] = IF \E i \in DOMAIN queue : queue[i].who = c
                   THEN After(c, "refused") ELSE pc[c]
      BY DEF Fail, Drained
    <2>2. CASE Waiting(c)
      <3>1. \E i \in DOMAIN queue : queue[i].who = c
        BY <2>2 DEF IInv, Queued
      <3>2. pc'[c] \in {"held", "free"}
        BY <2>1, <3>1, <2>2, RefusedKeeps DEF IInv
      <3> QED BY <3>2 DEF Points
    <2>3. CASE ~Waiting(c)
      <3>1. ASSUME NEW i \in DOMAIN queue, queue[i].who = c PROVE FALSE
        BY <2>3, <3>1 DEF IInv, Queued, Fits, Waiting
      <3> QED BY <2>1, <2>3, <3>1 DEF IInv, Types, Waiting
    <2> QED BY <2>2, <2>3
  <1>3. Types'
    <2>1. pc' \in [Callers -> Points]
      BY <1>2 DEF Fail, Drained
    <2>2. got' \in [Callers -> Addresses]
      BY RequestsAreAddresses DEF Fail, IInv, Types
    <2>3. queue' \in Seq(Requests)
      BY EmptySeq DEF Fail
    <2> QED BY <2>1, <2>2, <2>3 DEF Fail, IInv, Types
  <1>4. Silent'
    BY <1>2 DEF Fail, Silent, Waiting, IInv, Types
  <1>5. Queued'
    BY <1>1 DEF Fail, Queued
  <1>6. OwnAnswer'
    BY DEF Fail, IInv, OwnAnswer, NoRequest
  <1> QED BY <1>1, <1>3, <1>4, <1>5, <1>6
          DEF IInv, Handshaking, Serving, Counted, Idles

\* A step that only the helper and the pipe see.
LEMMA CallersUntouched ==
  ASSUME IInv,
         UNCHANGED <<life, queue, pc, wants, got, outstanding, idleTimer>>
  PROVE  (Queued /\ Counted /\ Idles /\ OwnAnswer)'
  BY DEF IInv, Queued, Counted, Idles, OwnAnswer, Dead, Waiting, Holders

LEMMA HandshakeKeeps ==
  ASSUME IInv, NEW good \in BOOLEAN, Handshake(good)
  PROVE  IInv'
  <1> DEFINE word == [to |-> NoRequest("helper"),
                      says |-> IF good THEN "ready" ELSE "garbage"]
  <1>1. word \in Replies
    BY RequestsAreAddresses DEF Replies
  <1>2. /\ Append(pipe, word) \in Seq(Replies)
        /\ Len(Append(pipe, word)) = Len(pipe) + 1
    BY <1>1, AppendProperties DEF IInv, Types
  <1>3. (Queued /\ Counted /\ Idles /\ OwnAnswer)'
    BY CallersUntouched DEF Handshake
  <1>4. ~Dead /\ ~ready
    BY DEF IInv, Silent, Serving, Handshake
  <1>5. Types'
    BY <1>2 DEF IInv, Types, Handshake
  <1>6. Silent' /\ Serving'
    BY <1>4 DEF Silent, Serving, Dead, Handshake
  <1>7. Handshaking'
    <2>1. pipe = <<>> /\ Len(pipe) = 0
      BY <1>4 DEF IInv, Handshaking, Handshake
    <2> QED BY <1>2, <1>4, <2>1 DEF IInv, Handshaking, Dead, Handshake
  <1> QED BY <1>3, <1>5, <1>6, <1>7 DEF IInv

LEMMA ServeKeeps ==
  ASSUME IInv, NEW says \in OpenReplies \cup {"done", "garbage"}, Serve(says)
  PROVE  IInv'
  <1> DEFINE word == [to |-> Head(inbox), says |-> says]
  <1>1. ~Dead /\ ready
    BY DEF IInv, Silent, Handshaking, Serve
  <1>2. inbox = <<Head(queue)>> /\ pipe = <<>> /\ out
    BY <1>1 DEF IInv, Serving, Serve
  <1>3. Head(inbox) \in Requests /\ Tail(inbox) \in Seq(Requests)
    BY HeadTailProperties DEF IInv, Types, Serve
  <1>4. /\ Head(inbox) = Head(queue)
        /\ Tail(inbox) = <<>>
    BY <1>2
  <1>5. word \in Replies
    BY <1>3, RequestsAreAddresses DEF Replies
  <1>6. /\ Append(pipe, word) \in Seq(Replies)
        /\ Len(Append(pipe, word)) = 1
        /\ Head(Append(pipe, word)) = word
    BY <1>2, <1>5, AppendProperties, HeadTailAppend DEF IInv, Types
  <1>7. (Queued /\ Counted /\ Idles /\ OwnAnswer)'
    BY CallersUntouched DEF Serve
  <1>8. Types'
    BY <1>3, <1>6 DEF IInv, Types, Serve
  <1>9. Silent' /\ Handshaking'
    BY <1>1 DEF Silent, Handshaking, Dead, Serve
  <1>10. Serving'
    BY <1>1, <1>2, <1>4, <1>6 DEF IInv, Serving, Dead, Serve
  <1> QED BY <1>7, <1>8, <1>9, <1>10 DEF IInv

LEMMA IgnoreKeeps == ASSUME IInv, Ignore PROVE IInv'
  <1>1. Dead
    BY DEF IInv, Serving, Ignore
  <1>2. Tail(pipe) \in Seq(Replies)
    BY HeadTailProperties DEF IInv, Types, Ignore
  <1>3. (Queued /\ Counted /\ Idles /\ OwnAnswer)'
    BY CallersUntouched DEF Ignore
  <1>4. Types'
    BY <1>2 DEF IInv, Types, Ignore, Read
  <1>5. Silent'
    BY DEF IInv, Silent, Dead, Waiting, Ignore
  <1>6. Handshaking' /\ Serving'
    BY <1>1 DEF Handshaking, Serving, Dead, Ignore
  <1> QED BY <1>3, <1>4, <1>5, <1>6 DEF IInv

LEMMA ShakeKeeps == ASSUME IInv, Shake PROVE IInv'
  <1>1. /\ ~out /\ inbox = <<>> /\ life = "live" /\ child = "serving"
        /\ Len(pipe) = 1 /\ opTimer
    BY DEF IInv, Types, Handshaking, Dead, Shake
  <1>2. Tail(pipe) \in Seq(Replies) /\ Tail(pipe) = <<>>
    <2>1. Tail(pipe) \in Seq(Replies) /\ Len(Tail(pipe)) = 0
      BY <1>1, HeadTailProperties DEF IInv, Types, Shake
    <2> QED BY <2>1, EmptySeq
  <1>3. CASE queue = <<>>
    <2>1. Types'
      BY <1>1, <1>2, <1>3 DEF IInv, Types, Shake, Pump, Read
    <2>2. (Silent /\ Handshaking /\ Serving)'
      BY <1>1, <1>2, <1>3 DEF Silent, Handshaking, Serving, Dead, Shake, Pump,
                              Read
    <2>3. UNCHANGED <<life, queue, pc, wants, got, outstanding, idleTimer>>
      BY <1>3 DEF Shake, Pump
    <2> QED BY <2>1, <2>2, <2>3, CallersUntouched DEF IInv
  <1>4. CASE queue # <<>>
    <2>1. /\ Head(queue) \in Requests
          /\ inbox' = <<Head(queue)>>
      BY <1>1, <1>4, HeadTailProperties DEF IInv, Types, Shake, Pump
    <2>2. inbox' \in Seq(Requests)
      BY <1>4, <2>1, AppendProperties DEF IInv, Types, Shake, Pump
    <2>3. Types'
      BY <1>2, <1>4, <2>2 DEF IInv, Types, Shake, Pump, Read
    <2>4. (Silent /\ Handshaking /\ Serving)'
      BY <1>1, <1>2, <1>4, <2>1 DEF Silent, Handshaking, Serving, Dead, Shake,
                                    Pump, Read
    <2>5. UNCHANGED <<life, queue, pc, wants, got, outstanding, idleTimer>>
      BY <1>4 DEF Shake, Pump
    <2> QED BY <2>3, <2>4, <2>5, CallersUntouched DEF IInv
  <1> QED BY <1>3, <1>4

\* A refusal at once: the session is dead and the caller waits for nothing.
LEMMA RefuseKeeps ==
  ASSUME IInv, NEW c \in Callers, NEW op \in Ops, NEW reason,
         reason \notin {"new", "live"}, Dead \/ life = "new",
         NEW point \in {"held", "free"}, pc' = [pc EXCEPT ![c] = point],
         Refuse(c, op, reason)
  PROVE  IInv'
  <1>1. queue = <<>> /\ child \in {"none", "killed"}
    BY DEF IInv, Silent, Handshaking, Serving, Dead
  <1>2. \A d \in Callers : ~Waiting(d)
    BY <1>1 DEF IInv, Silent, Queued
  <1>3. Dead'
    BY DEF Dead, Refuse
  <1>4. Types'
    <2>1. point \in Points
      BY DEF Points
    <2>2. Request(c, op) \in Addresses /\ NoRequest(c) \in Addresses
      BY RequestsAreAddresses
    <2>3. pc' \in [Callers -> Points]
      BY <2>1 DEF IInv, Types
    <2>4. wants' \in [Callers -> Addresses] /\ got' \in [Callers -> Addresses]
      BY <2>2 DEF IInv, Types, Refuse
    <2> QED BY <2>3, <2>4 DEF IInv, Types, Refuse
  <1>5. Silent'
    BY <1>1, <1>2 DEF IInv, Types, Silent, Waiting, Refuse
  <1>6. Queued'
    BY <1>1, <1>3 DEF Queued, Refuse
  <1>7. OwnAnswer'
    BY DEF IInv, Types, OwnAnswer, Refuse, NoRequest
  <1> QED BY <1>3, <1>4, <1>5, <1>6, <1>7
          DEF IInv, Handshaking, Serving, Counted, Idles

\* A request is queued; it goes out at once when nothing else is.
LEMMA AskKeeps ==
  ASSUME IInv, NEW c \in Callers, NEW op \in Ops, NEW then, Fits(then, op),
         ~Waiting(c), then = "opening" <=> c \notin Holders,
         Ask(c, op, then)
  PROVE  IInv'
  <1> DEFINE request == Request(c, op)
  <1>1. CASE Dead /\ pc' = [pc EXCEPT ![c] = IF op \in Uses THEN "held"
                                             ELSE "free"]
             /\ Refuse(c, op, life)
    BY <1>1, RefuseKeeps DEF Dead
  <1>2. CASE /\ life = "new" /\ pc' = [pc EXCEPT ![c] = "free"]
             /\ \E reason \in {"digest", "spawn"} : Refuse(c, op, reason)
    BY <1>2, RefuseKeeps
  <1>3. CASE /\ ~Dead
             /\ life' = "live"
             /\ child' = IF life = "new" THEN "starting" ELSE child
             /\ idleTimer' = FALSE
             /\ pc' = [pc EXCEPT ![c] = then]
             /\ wants' = [wants EXCEPT ![c] = request]
             /\ got' = [got EXCEPT ![c] = NoRequest(c)]
             /\ queue' = Append(queue, request)
             /\ out' = (out \/ ready)
             /\ opTimer' = Deadline
             /\ inbox' = IF ready /\ ~out THEN Append(inbox, request) ELSE inbox
             /\ UNCHANGED <<ready, outstanding, pipe>>
    <2>1. /\ request \in Requests /\ request \in Addresses
          /\ NoRequest(c) \in Addresses
      BY RequestsAreAddresses
    <2>2. then \in Points
      BY DEF Fits, Points
    <2>3. queue' \in Seq(Requests) /\ queue' # <<>>
      BY <1>3, <2>1, AppendProperties DEF IInv, Types
    <2>4. inbox' \in Seq(Requests)
      BY <1>3, <2>1, AppendProperties DEF IInv, Types
    <2>5. Types'
      <3>1. pc' \in [Callers -> Points]
        BY <1>3, <2>2 DEF IInv, Types
      <3>2. wants' \in [Callers -> Addresses] /\ got' \in [Callers -> Addresses]
        BY <1>3, <2>1 DEF IInv, Types
      <3>3. child' \in {"none", "starting", "serving", "killed"}
        BY <1>3 DEF IInv, Types
      <3>4. ready' \in BOOLEAN /\ out' \in BOOLEAN
            /\ opTimer' \in BOOLEAN /\ idleTimer' \in BOOLEAN
        BY <1>3 DEF IInv, Types, Deadline
      <3> QED BY <1>3, <2>3, <2>4, <3>1, <3>2, <3>3, <3>4 DEF IInv, Types
    <2>6. ~Dead' /\ Silent'
      BY <1>3 DEF Silent, Dead
    <2>7. Handshaking'
      BY <1>3, <2>3 DEF IInv, Handshaking, Dead, Deadline
    <2>8. Serving'
      <3> SUFFICES ASSUME ready PROVE Serving'
        BY <1>3 DEF Serving
      <3>1. /\ life = "live" /\ child = "serving"
            /\ (out <=> queue # <<>>) /\ (out => opTimer)
        BY <1>3 DEF IInv, Serving
      <3>2. CASE out
        <4>1. Head(queue') = Head(queue)
          BY <1>3, <2>1, <3>1, <3>2, HeadTailAppend DEF IInv, Types
        <4> QED BY <1>3, <2>3, <3>1, <3>2, <4>1
                DEF IInv, Serving, Deadline, Dead
      <3>3. CASE ~out
        <4>1. inbox = <<>> /\ pipe = <<>> /\ queue = <<>>
          BY <1>3, <3>1, <3>3 DEF IInv, Serving
        <4>2. inbox' = <<request>> /\ Head(queue') = request
          BY <1>3, <3>3, <4>1
        <4> QED BY <1>3, <2>3, <3>1, <3>3, <4>1, <4>2
                DEF Serving, Deadline, Dead
      <3> QED BY <3>2, <3>3
    <2>9. Queued'
      <3> DEFINE n == Len(queue)
      <3>1. /\ n \in Nat /\ DOMAIN queue = 1 .. n
            /\ DOMAIN queue' = 1 .. n + 1
            /\ \A i \in 1 .. n : queue'[i] = queue[i]
            /\ queue'[n + 1] = request
        BY <1>3, <2>1, <2>3, AppendProperties, LenProperties DEF IInv, Types
      <3>2. \A i \in 1 .. n : queue[i] \in Requests /\ queue[i].who \in Callers
        <4>1. queue \in Seq(Requests)
          BY DEF IInv, Types
        <4>2. \A i \in 1 .. n : queue[i] \in Requests
          BY <4>1, ElementOfSeq
        <4> QED BY <4>2 DEF Requests
      <3>3. \A i \in 1 .. n : queue[i].who # c
        BY <3>1 DEF IInv, Queued, Fits, Waiting
      <3>4. request.who = c /\ request.op = op
        BY DEF Request
      <3>5. pc'[c] = then /\ wants'[c] = request
        BY <1>3 DEF IInv, Types
      <3>6. \A d \in Callers : d # c => pc'[d] = pc[d] /\ wants'[d] = wants[d]
        BY <1>3 DEF IInv, Types
      <3>7. \A i \in DOMAIN queue' : /\ Fits(pc'[queue'[i].who], queue'[i].op)
                                     /\ wants'[queue'[i].who] = queue'[i]
        <4> TAKE i \in DOMAIN queue'
        <4>1. CASE i \in 1 .. n
          BY <3>1, <3>2, <3>3, <3>6, <4>1 DEF IInv, Queued
        <4>2. CASE i = n + 1
          BY <3>1, <3>4, <3>5, <4>2
        <4> QED BY <3>1, <4>1, <4>2
      <3>8. \A i, j \in DOMAIN queue' :
              queue'[i].who = queue'[j].who => i = j
        <4> TAKE i, j \in DOMAIN queue'
        <4>1. i \in 1 .. n \/ i = n + 1
          BY <3>1
        <4>2. j \in 1 .. n \/ j = n + 1
          BY <3>1
        <4> QED BY <3>1, <3>3, <3>4, <4>1, <4>2 DEF IInv, Queued
      <3>9. ASSUME NEW d \in Callers, Waiting(d)'
            PROVE  \E i \in DOMAIN queue' : queue'[i].who = d
        <4>1. CASE d = c
          BY <3>1, <3>4, <4>1
        <4>2. CASE d # c
          <5>1. PICK i \in DOMAIN queue : queue[i].who = d
            BY <1>3, <3>6, <3>9, <4>2 DEF IInv, Queued, Waiting
          <5> QED BY <3>1, <5>1
        <4> QED BY <4>1, <4>2
      <3> QED BY <3>7, <3>8, <3>9 DEF Queued, Waiting
    <2>10. Holders' = Holders
      BY <1>3 DEF IInv, Types, Holders, Fits
    <2>11. Counted' /\ Idles'
      BY <1>3, <2>10 DEF IInv, Counted, Idles
    <2>12. OwnAnswer'
      BY <1>3 DEF IInv, Types, OwnAnswer, NoRequest
    <2> QED BY <2>5, <2>6, <2>7, <2>8, <2>9, <2>11, <2>12 DEF IInv
  <1> QED BY <1>1, <1>2, <1>3 DEF Ask

\* A frame answers the request that is out; the next one is sent.
LEMMA AnswerKeeps == ASSUME IInv, Answer PROVE IInv'
  <1> DEFINE item == Head(queue)
             who == Head(queue).who
             says == Head(pipe).says
             rest == Tail(queue)
             n == Len(queue)
             new == After(who, says)
  <1>1. /\ life = "live" /\ child = "serving" /\ queue # <<>> /\ opTimer
        /\ inbox = <<>> /\ Len(pipe) = 1 /\ Head(pipe).to = item
    <2>1. pipe # <<>> /\ ~Dead /\ ready /\ out
      BY DEF Answer
    <2> QED BY <2>1 DEF IInv, Serving
  <1>2. /\ queue \in Seq(Requests) /\ pipe \in Seq(Replies)
        /\ n \in Nat /\ n > 0 /\ DOMAIN queue = 1 .. n /\ item = queue[1]
    <2>1. queue \in Seq(Requests) /\ pipe \in Seq(Replies)
      BY DEF IInv, Types
    <2>2. n \in Nat /\ DOMAIN queue = 1 .. n
      BY <2>1, LenProperties
    <2>3. n > 0
      BY <1>1, <2>1, <2>2, EmptySeq
    <2> QED BY <2>1, <2>2, <2>3
  <1>3. item \in Requests /\ who \in Callers /\ item.op \in Ops
    <2>1. item \in Requests
      BY <1>1, <1>2, HeadTailProperties
    <2> QED BY <2>1 DEF Requests
  <1>4. /\ rest \in Seq(Requests) /\ DOMAIN rest = 1 .. n - 1
        /\ \A i \in 1 .. n - 1 : rest[i] = queue[i + 1]
    <2>1. /\ rest \in Seq(Requests) /\ Len(rest) = n - 1
          /\ \A i \in 1 .. Len(rest) : rest[i] = queue[i + 1]
      BY <1>1, <1>2, HeadTailProperties
    <2>2. DOMAIN rest = 1 .. Len(rest)
      BY <2>1, LenProperties
    <2> QED BY <2>1, <2>2
  <1>5. Tail(pipe) = <<>>
    <2>1. pipe # <<>>
      BY DEF Answer
    <2>2. Tail(pipe) \in Seq(Replies) /\ Len(Tail(pipe)) = 0
      BY <1>1, <1>2, <2>1, HeadTailProperties
    <2> QED BY <2>2, EmptySeq
  <1>6. /\ queue' = rest /\ out' = (rest # <<>>) /\ opTimer' = (rest # <<>>)
        /\ inbox' = (IF rest = <<>> THEN inbox ELSE Append(inbox, Head(rest)))
        /\ pipe' = <<>>
        /\ pc' = [pc EXCEPT ![who] = new]
        /\ got' = [got EXCEPT ![who] = item]
        /\ outstanding' = HandlesAfter(item, says)
        /\ idleTimer' = (idleTimer \/ (rest = <<>> /\ outstanding' = 0))
        /\ UNCHANGED <<life, child, ready, wants>>
    BY <1>1, <1>5 DEF Answer, Pump, Read
  <1>7. inbox' = IF rest = <<>> THEN <<>> ELSE <<Head(rest)>>
    BY <1>1, <1>6
  <1>8. inbox' \in Seq(Requests)
    <2>1. <<>> \in Seq(Requests)
      BY EmptySeq
    <2>2. CASE rest # <<>>
      <3>1. Head(rest) \in Requests
        BY <1>4, <2>2, HeadTailProperties
      <3> QED BY <1>1, <1>6, <2>1, <2>2, <3>1, AppendProperties
    <2> QED BY <1>7, <2>1, <2>2
  <1>9. Fits(pc[who], item.op) /\ wants[who] = item
    BY <1>2 DEF IInv, Queued
  <1>10. /\ new \in {"held", "useless", "free"} /\ new \in Points
         /\ pc[who] = "opening" =>
              new = (IF says = "directory" THEN "held"
                     ELSE IF says = "unusable" THEN "useless" ELSE "free")
         /\ pc[who] = "using" => new = "held"
         /\ pc[who] = "returning" => new = "free"
    BY <1>9 DEF Fits, After, Points
  <1>11. /\ pc'[who] = new /\ got'[who] = item
         /\ \A d \in Callers : d # who => pc'[d] = pc[d] /\ got'[d] = got[d]
    BY <1>3, <1>6 DEF IInv, Types
  <1>12. outstanding \in Nat
    BY DEF IInv, Types
  <1>13. IsFiniteSet(Holders) /\ outstanding = Cardinality(Holders)
    BY DEF IInv, Counted, Answer
  <1>14. /\ IsFiniteSet(Holders') /\ outstanding' = Cardinality(Holders')
         /\ outstanding' \in Nat
    <2>1. CASE pc[who] = "opening" /\ says \in {"directory", "unusable"}
      <3>1. Holders' = Holders \cup {who} /\ who \notin Holders
        BY <1>3, <1>10, <1>11, <2>1 DEF Holders
      <3>2. outstanding' = outstanding + 1
        BY <1>6, <1>9, <2>1 DEF Fits, HandlesAfter, Opens
      <3>3. /\ IsFiniteSet(Holders \cup {who})
            /\ Cardinality(Holders \cup {who}) = Cardinality(Holders) + 1
        BY <1>13, <3>1, FS_AddElement
      <3> QED BY <1>12, <1>13, <3>1, <3>2, <3>3
    <2>2. CASE pc[who] = "opening" /\ says \notin {"directory", "unusable"}
      <3>1. Holders' = Holders
        BY <1>3, <1>10, <1>11, <2>2 DEF Holders
      <3>2. outstanding' = outstanding
        BY <1>6, <1>9, <2>2 DEF Fits, HandlesAfter, Opens, Uses
      <3> QED BY <1>12, <1>13, <3>1, <3>2
    <2>3. CASE pc[who] = "using"
      <3>1. Holders' = Holders
        BY <1>3, <1>10, <1>11, <2>3 DEF Holders
      <3>2. outstanding' = outstanding
        BY <1>6, <1>9, <2>3 DEF Fits, HandlesAfter, Opens, Uses
      <3> QED BY <1>12, <1>13, <3>1, <3>2
    <2>4. CASE pc[who] = "returning"
      <3>1. Holders' = Holders \ {who} /\ who \in Holders
        BY <1>3, <1>10, <1>11, <2>4 DEF Holders
      <3>2. outstanding > 0
        BY <1>12, <1>13, <3>1, FS_EmptySet
      <3>3. outstanding' = outstanding - 1
        BY <1>6, <1>9, <2>4, <3>2 DEF Fits, HandlesAfter, Opens
      <3>4. /\ IsFiniteSet(Holders \ {who})
            /\ Cardinality(Holders \ {who}) = Cardinality(Holders) - 1
        BY <1>13, <3>1, FS_RemoveElement
      <3>5. outstanding' \in Nat
        BY <1>12, <3>2, <3>3
      <3> QED BY <1>13, <3>1, <3>3, <3>4, <3>5
    <2> QED BY <1>9, <2>1, <2>2, <2>3, <2>4 DEF Fits
  <1>15. Types'
    <2>1. pc' \in [Callers -> Points] /\ got' \in [Callers -> Addresses]
      BY <1>3, <1>6, <1>10, RequestsAreAddresses DEF IInv, Types
    <2>2. /\ child' \in {"none", "starting", "serving", "killed"}
          /\ ready' \in BOOLEAN /\ wants' \in [Callers -> Addresses]
          /\ idleTimer' \in BOOLEAN
      BY <1>6 DEF IInv, Types
    <2>3. pipe' \in Seq(Replies)
      BY <1>6, EmptySeq
    <2> QED BY <1>4, <1>6, <1>8, <1>14, <2>1, <2>2, <2>3 DEF Types
  <1>16. ready /\ ~Dead
    BY DEF Answer
  <1>17. Silent' /\ Handshaking'
    BY <1>6, <1>16 DEF Silent, Handshaking, Dead
  <1>18. Serving'
    BY <1>1, <1>6, <1>7 DEF Serving
  <1>19. Queued'
    <2>1. \A i \in 1 .. n : queue[i].who \in Callers
      <3>1. \A i \in 1 .. n : queue[i] \in Requests
        BY <1>2, ElementOfSeq
      <3> QED BY <3>1 DEF Requests
    <2>2. \A i \in 1 .. n : queue[i].who = who => i = 1
      BY <1>2 DEF IInv, Queued
    <2>3. /\ DOMAIN queue' = 1 .. n - 1
          /\ \A i \in 1 .. n - 1 : /\ queue'[i] = queue[i + 1]
                                   /\ i + 1 \in 1 .. n /\ i + 1 # 1
      <3>1. queue' = rest
        BY <1>6
      <3>2. \A i \in 1 .. n - 1 : i + 1 \in 1 .. n /\ i + 1 # 1
        BY <1>2
      <3> QED BY <1>4, <3>1, <3>2
    <2>4. \A i \in DOMAIN queue' : /\ Fits(pc'[queue'[i].who], queue'[i].op)
                                   /\ wants'[queue'[i].who] = queue'[i]
      <3> TAKE i \in DOMAIN queue'
      <3>1. queue'[i].who \in Callers /\ queue'[i].who # who
        BY <2>1, <2>2, <2>3
      <3>2. /\ i + 1 \in DOMAIN queue
            /\ queue'[i] = queue[i + 1]
        BY <1>2, <2>3
      <3>3. /\ Fits(pc[queue[i + 1].who], queue[i + 1].op)
            /\ wants[queue[i + 1].who] = queue[i + 1]
        BY <3>2 DEF IInv, Queued
      <3>4. pc'[queue'[i].who] = pc[queue'[i].who] /\ wants' = wants
        BY <1>6, <1>11, <3>1
      <3> QED BY <3>2, <3>3, <3>4
    <2>5. \A i, j \in DOMAIN queue' : queue'[i].who = queue'[j].who => i = j
      <3> TAKE i, j \in DOMAIN queue'
      <3>1. queue[i + 1].who = queue[j + 1].who => i + 1 = j + 1
        BY <1>2, <2>3 DEF IInv, Queued
      <3>2. i \in Nat /\ j \in Nat
        BY <1>2, <2>3
      <3> QED BY <2>3, <3>1, <3>2
    <2>6. ASSUME NEW d \in Callers, Waiting(d)'
          PROVE  \E i \in DOMAIN queue' : queue'[i].who = d
      <3>1. d # who
        BY <1>10, <1>11, <2>6 DEF Waiting
      <3>2. PICK i \in 1 .. n : queue[i].who = d
        BY <1>2, <1>11, <1>16, <2>6, <3>1 DEF IInv, Queued, Waiting
      <3>3. i # 1
        BY <1>2, <3>1, <3>2
      <3>4. i - 1 \in DOMAIN queue' /\ queue'[i - 1] = queue[i]
        BY <1>2, <2>3, <3>3
      <3> QED BY <3>2, <3>4
    <2> QED BY <2>4, <2>5, <2>6 DEF Queued, Waiting
  <1>20. Counted' /\ Idles'
    <2>1. Counted'
      BY <1>14 DEF Counted
    <2>2. idleTimer' => rest = <<>> /\ outstanding' = 0
      BY <1>1, <1>6, <1>16 DEF IInv, Idles
    <2> QED BY <1>6, <1>14, <2>1, <2>2, FS_EmptySet DEF Idles
  <1>21. OwnAnswer'
    BY <1>6, <1>9, <1>11 DEF IInv, OwnAnswer, NoRequest, Request
  <1> QED BY <1>15, <1>17, <1>18, <1>19, <1>20, <1>21 DEF IInv

\* Every step, one lemma an action.
LEMMA SessionSteps == IInv /\ [SessionNext]_sessionVars => IInv'
  <1> SUFFICES ASSUME IInv, [SessionNext]_sessionVars PROVE IInv'
    OBVIOUS
  <1>1. ASSUME NEW c \in Callers, Open(c) PROVE IInv'
    <2>1. PICK op \in Opens : Ask(c, op, "opening") /\ pc[c] = "free"
      BY <1>1 DEF Open
    <2>2. op \in Ops /\ Fits("opening", op) /\ ~Waiting(c) /\ c \notin Holders
      BY <2>1 DEF Ops, Fits, Waiting, Holders
    <2> QED BY <2>1, <2>2, AskKeeps
  <1>2. ASSUME NEW c \in Callers, Use(c) PROVE IInv'
    <2>1. PICK op \in Uses : Ask(c, op, "using") /\ pc[c] = "held"
      BY <1>2 DEF Use
    <2>2. op \in Ops /\ Fits("using", op) /\ ~Waiting(c) /\ c \in Holders
      BY <2>1 DEF Ops, Fits, Waiting, Holders
    <2> QED BY <2>1, <2>2, AskKeeps
  <1>3. ASSUME NEW c \in Callers, Release(c) PROVE IInv'
    <2>1. /\ Ask(c, "releaseHandle", "returning")
          /\ pc[c] \in {"held", "useless"}
      BY <1>3 DEF Release
    <2>2. /\ "releaseHandle" \in Ops /\ Fits("returning", "releaseHandle")
          /\ ~Waiting(c) /\ c \in Holders
      BY <2>1 DEF Ops, Fits, Waiting, Holders
    <2> QED BY <2>1, <2>2, AskKeeps
  <1>4. CASE Exit \/ Garbage \/ OpTimeout \/ IdleTimeout \/ Close
    BY <1>4, FailKeeps DEF Exit, Garbage, OpTimeout, Timeout, IdleTimeout,
                           Close, Dead
  <1>5. CASE UNCHANGED sessionVars
    BY <1>5 DEF sessionVars, IInv, Types, Silent, Handshaking, Serving, Queued,
                Counted, Idles, OwnAnswer, Dead, Waiting, Holders
  <1> QED BY <1>1, <1>2, <1>3, <1>4, <1>5, HandshakeKeeps, ServeKeeps,
             IgnoreKeeps, ShakeKeeps, AnswerKeeps DEF SessionNext

-----------------------------------------------------------------------------

\* No caller takes another reply for its own: the frames carry no numbers
\* (secure-fs-windows.ts:731-753).
THEOREM AnswersAreOwn == SessionSpec => []OwnAnswer
  <1>1. IInv => OwnAnswer
    BY DEF IInv
  <1> QED BY SessionStarts, SessionSteps, <1>1, PTL DEF SessionSpec

\* Whoever waits has a deadline running (:637-643 and 673-675).
THEOREM NobodyWaitsUntimed == SessionSpec => []DeadlineArmed
  <1>1. IInv => DeadlineArmed
    <2> SUFFICES ASSUME IInv, NEW c \in Callers, Waiting(c)
                 PROVE  ~Dead /\ opTimer
      BY DEF DeadlineArmed
    <2>1. ~Dead
      BY DEF IInv, Silent
    <2>2. queue # <<>>
      BY <2>1 DEF IInv, Queued
    <2>3. CASE ready
      BY <2>1, <2>2, <2>3 DEF IInv, Serving
    <2>4. CASE ~ready
      BY <2>1, <2>2, <2>4 DEF IInv, Handshaking, Dead
    <2> QED BY <2>1, <2>3, <2>4
  <1> QED BY SessionStarts, SessionSteps, <1>1, PTL DEF SessionSpec

\* The watchdog ends only a session nobody is using (:546-547).
THEOREM WatchdogSparesWork == SessionSpec => IdleSparesWork
  <1> DEFINE Spared == life' = "idle" /\ life # "idle" =>
                         \A c \in Callers : pc[c] = "free"
  <1>1. IInv /\ [SessionNext]_sessionVars => [Spared]_sessionVars
    <2> SUFFICES ASSUME IInv, SessionNext, life' = "idle", life # "idle",
                        NEW c \in Callers
                 PROVE  pc[c] = "free"
      BY DEF sessionVars
    <2>1. ASSUME NEW d \in Callers, Open(d) \/ Use(d) \/ Release(d) PROVE FALSE
      BY <2>1 DEF Open, Use, Release, Ask, Refuse
    <2>2. IdleTimeout
      BY <2>1 DEF SessionNext, Handshake, Serve, Exit, Ignore, Garbage, Shake,
                  Answer, OpTimeout, Timeout, Close, Fail
    <2>3. queue = <<>> /\ Holders = {} /\ ~Dead
      BY <2>2 DEF IInv, Idles, IdleTimeout
    <2>4. ~Waiting(c)
      BY <2>3 DEF IInv, Queued
    <2> QED BY <2>3, <2>4 DEF IInv, Types, Points, Holders, Waiting
  <1> QED BY SessionStarts, SessionSteps, <1>1, PTL
          DEF SessionSpec, IdleSparesWork

\* For any number of callers, and whatever the helper writes or leaves out: who
\* asked is given the answer to that request, and the watchdog ends no session
\* in use (:546-547, 637-643 and 731-753).
THEOREM SessionIsSound == SessionSpec => SessionServes
  BY AnswersAreOwn, WatchdogSparesWork DEF SessionServes
=============================================================================
