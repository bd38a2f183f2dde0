---------------------------- MODULE HelperSession ----------------------------
(***************************************************************************)
(* The PowerShell helper of the Windows adapter: one child process that    *)
(* serves the requests of the callers one at a time over a pipe of frames  *)
(* without numbers (src/src/lib/secure-fs-windows.ts, createPs1Session),   *)
(* and what the adapter makes of its replies (createWindowsSecureFs).      *)
(***************************************************************************)
EXTENDS Integers, Sequences

CONSTANTS Callers

Opens == {"openDir", "createDir"}
Uses == {"capture", "rename"}
\* What the helper says to an open: a directory, an object that is not a
\* directory or without an identity or a handle, nothing there, or a refusal.
OpenReplies == {"directory", "unusable", "absent", "refused"}

VARIABLES
  life,         \* "new", "live", or why the session is dead
  child,        \* "none", "starting", "serving" or "killed"
  ready,        \* the handshake has arrived
  queue,        \* requests in order; the first is `current` when one is out
  out,          \* current is set
  outstanding,  \* live directory handles, as the session counts them
  opTimer, idleTimer,
  inbox, pipe,  \* requests at the helper, and its replies under way
  pc,           \* what each caller is doing
  wants,        \* the request each caller waits for, or the last one
  got           \* history: the request whose reply each caller was given

sessionVars == <<life, child, ready, queue, out, outstanding, opTimer,
                 idleTimer, inbox, pipe, pc, wants, got>>

Dead == life \notin {"new", "live"}
Waiting(c) == pc[c] \in {"opening", "using", "returning"}
Request(c, op) == [who |-> c, op |-> op]
NoRequest(c) == Request(c, "none")

SessionStart == /\ life = "new"
                /\ child = "none"
                /\ ready = FALSE
                /\ queue = <<>>
                /\ out = FALSE
                /\ outstanding = 0
                /\ opTimer = FALSE
                /\ idleTimer = FALSE
                /\ inbox = <<>>
                /\ pipe = <<>>
                /\ pc = [c \in Callers |-> "free"]
                /\ wants = [c \in Callers |-> NoRequest(c)]
                /\ got = [c \in Callers |-> NoRequest(c)]

-----------------------------------------------------------------------------

\* call and mapVoid: after a refusal a caller keeps what it held; toHandle
\* gives an unusable reply back before it refuses.
After(c, verdict) ==
  CASE pc[c] = "opening" /\ verdict = "directory" -> "held"
    [] pc[c] = "opening" /\ verdict = "unusable" -> "useless"
    [] pc[c] = "using" -> "held"
    [] OTHER -> "free"

\* drainPending: every request still queued is refused.
Drained == [c \in Callers |->
              IF \E i \in DOMAIN queue : queue[i].who = c
              THEN After(c, "refused") ELSE pc[c]]

\* fail and close: dead for good, the child killed, nobody left waiting.
Fail(reason) ==
  /\ life' = reason
  /\ child' = IF child = "none" THEN child ELSE "killed"
  /\ idleTimer' = FALSE
  /\ opTimer' = FALSE
  /\ queue' = <<>>
  /\ out' = FALSE
  /\ pc' = Drained
  /\ got' = [c \in Callers |->
               IF Drained[c] # pc[c] THEN NoRequest(c) ELSE got[c]]
  /\ UNCHANGED <<ready, outstanding, inbox, pipe, wants>>

\* pump: the next request, if there is one, is written with a deadline.
Pump(rest) == /\ queue' = rest
              /\ out' = (rest # <<>>)
              /\ opTimer' = (rest # <<>>)
              /\ inbox' = IF rest = <<>> THEN inbox
                          ELSE Append(inbox, Head(rest))

\* Slip: the directories the session itself made are not counted.
SlipHandlesAfter(request, verdict) ==
  CASE request.op = "openDir" /\ verdict \in {"directory", "unusable"} ->
         outstanding + 1
    [] request.op = "releaseHandle" /\ outstanding > 0 -> outstanding - 1
    [] OTHER -> outstanding
\* adjustHandles counts every open that was acknowledged, usable or not.
HandlesAfter(request, verdict) ==
  CASE request.op \in Opens /\ verdict \in {"directory", "unusable"} ->
         outstanding + 1
    [] request.op = "releaseHandle" /\ outstanding > 0 -> outstanding - 1
    [] OTHER -> outstanding

-----------------------------------------------------------------------------

\* init: the digest of the script is compared before it is started.
Refuse(c, op, reason) ==
  /\ life' = reason
  /\ wants' = [wants EXCEPT ![c] = Request(c, op)]
  /\ got' = [got EXCEPT ![c] = NoRequest(c)]
  /\ UNCHANGED <<child, ready, queue, out, outstanding, opTimer, idleTimer,
                 inbox, pipe>>
\* armOpTimer: at the start for the handshake, and with every frame.
Deadline == out' \/ life = "new" \/ opTimer

\* request: started by the first, refused at once by a dead session.
Ask(c, op, then) ==
  \/ /\ Dead
     /\ pc' = [pc EXCEPT ![c] = IF op \in Uses THEN "held" ELSE "free"]
     /\ Refuse(c, op, life)
  \/ /\ life = "new"
     /\ pc' = [pc EXCEPT ![c] = "free"]
     /\ \E reason \in {"digest", "spawn"} : Refuse(c, op, reason)
  \/ /\ ~Dead
     /\ life' = "live"
     /\ child' = IF life = "new" THEN "starting" ELSE child
     /\ idleTimer' = FALSE
     /\ pc' = [pc EXCEPT ![c] = then]
     /\ wants' = [wants EXCEPT ![c] = Request(c, op)]
     /\ got' = [got EXCEPT ![c] = NoRequest(c)]
     /\ queue' = Append(queue, Request(c, op))
     /\ out' = (out \/ ready)
     /\ opTimer' = Deadline
     /\ inbox' = IF ready /\ ~out THEN Append(inbox, Request(c, op))
                 ELSE inbox
     /\ UNCHANGED <<ready, outstanding, pipe>>

\* openDirNoFollow and createDirExclusive; the operations between; and the
\* close of the handle, which is sent for an unusable reply too.
Open(c) == pc[c] = "free" /\ \E op \in Opens : Ask(c, op, "opening")
Use(c) == pc[c] = "held" /\ \E op \in Uses : Ask(c, op, "using")
Release(c) ==
  pc[c] \in {"held", "useless"} /\ Ask(c, "releaseHandle", "returning")

\* The helper: shakes hands, answers what it reads in order, may stop
\* answering, write something that is no frame, or exit.
Handshake(good) ==
  /\ child = "starting"
  /\ child' = "serving"
  /\ pipe' = Append(pipe, [to |-> NoRequest("helper"),
                           says |-> IF good THEN "ready" ELSE "garbage"])
  /\ UNCHANGED <<life, ready, queue, out, outstanding, opTimer, idleTimer,
                 inbox, pc, wants, got>>
Serve(says) ==
  /\ child = "serving" /\ inbox # <<>>
  /\ says \in {"garbage"} \cup (IF Head(inbox).op \in Opens THEN OpenReplies
                               ELSE {"done", "refused"})
  /\ inbox' = Tail(inbox)
  /\ pipe' = Append(pipe, [to |-> Head(inbox), says |-> says])
  /\ UNCHANGED <<life, child, ready, queue, out, outstanding, opTimer,
                 idleTimer, pc, wants, got>>
Exit == child \in {"starting", "serving"} /\ ~Dead /\ Fail("exited")

Read == pipe' = Tail(pipe)
\* onData on a frame of a session that is dead, or with nothing to answer.
Ignore == /\ pipe # <<>>
          /\ Dead \/ (ready /\ ~out /\ Head(pipe).says # "garbage")
          /\ Read
          /\ UNCHANGED <<life, child, ready, queue, out, outstanding,
                         opTimer, idleTimer, inbox, pc, wants, got>>
\* decodeFrames and the handshake: what cannot be a reply ends the session.
Garbage == /\ pipe # <<>> /\ ~Dead
           /\ Head(pipe).says = "garbage"
           /\ Fail("bad-frame")
Shake == /\ pipe # <<>> /\ ~Dead
         /\ ~ready /\ Head(pipe).says = "ready"
         /\ ready' = TRUE
         /\ Pump(queue)
         /\ Read
         /\ UNCHANGED <<life, child, outstanding, idleTimer, pc, wants, got>>
\* handleFrame: the frame answers whatever is out.
Answer ==
  /\ pipe # <<>> /\ ~Dead /\ ready /\ out
  /\ Head(pipe).says # "garbage"
  /\ LET item == Head(queue)
         reply == Head(pipe)
     IN /\ outstanding' = HandlesAfter(item, reply.says)
        /\ pc' = [pc EXCEPT ![item.who] = After(item.who, reply.says)]
        /\ got' = [got EXCEPT ![item.who] = reply.to]
  /\ Pump(Tail(queue))
  /\ idleTimer' = (idleTimer \/ (Tail(queue) = <<>> /\ outstanding' = 0))
  /\ Read
  /\ UNCHANGED <<life, child, ready, wants>>

\* Slip: the deadline refuses the request it is for and the next one is sent.
SlipTimeout ==
  LET late == Head(queue).who
  IN IF ~out THEN Fail("timeout")
     ELSE /\ Pump(Tail(queue))
          /\ pc' = [pc EXCEPT ![late] = After(late, "refused")]
          /\ got' = [got EXCEPT ![late] = NoRequest(late)]
          /\ UNCHANGED <<life, child, ready, outstanding, idleTimer, pipe,
                         wants>>
Timeout == Fail("timeout")
OpTimeout == opTimer /\ ~Dead /\ Timeout
IdleTimeout == idleTimer /\ ~Dead /\ Fail("idle")
Close == life = "live" /\ Fail("closed")

SessionNext == \/ \E c \in Callers : Open(c) \/ Use(c) \/ Release(c)
               \/ \E good \in BOOLEAN : Handshake(good)
               \/ \E says \in OpenReplies \cup {"done", "garbage"} : Serve(says)
               \/ Exit \/ Ignore \/ Garbage \/ Shake \/ Answer
               \/ OpTimeout \/ IdleTimeout \/ Close
SessionSpec == SessionStart /\ [][SessionNext]_sessionVars

-----------------------------------------------------------------------------

\* No caller takes the reply to another request, or to an earlier one of its
\* own, for the reply to this one: the frames carry no numbers
\* (secure-fs-windows.ts:637-643 and 731-753).
OwnAnswer == \A c \in Callers : got[c] \in {NoRequest(c), wants[c]}

\* The idle watchdog never kills the helper under a caller that holds a
\* directory or waits for a reply
\* (:546-547 "so it never kills a live transaction").
IdleSparesWork ==
  [][life' = "idle" /\ life # "idle" =>
       \A c \in Callers : pc[c] = "free"]_sessionVars

\* The session serves its callers: with their own answers, and as long as they
\* need it.
SessionServes == []OwnAnswer /\ IdleSparesWork

\* Nobody waits for ever, whatever the helper does or leaves undone: the
\* deadline is armed whenever somebody waits
\* (:637-643, 673-675 and 678-694).
Settles == \A c \in Callers : Waiting(c) ~> ~Waiting(c)
=============================================================================
