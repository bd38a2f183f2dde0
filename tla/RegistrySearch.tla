--------------------------- MODULE RegistrySearch ---------------------------
(***************************************************************************)
(* searchRegistry (plugin.ts): one request for the registry under a limit  *)
(* of time, which the caller may cancel. fetch and the reading of its body *)
(* are raced with the deadline, because either may ignore the signal.      *)
(***************************************************************************)

VARIABLES
  asked,      \* where the search is: start, fetch, body, done
  settled,    \* how the race it awaits was won, "no" while it is not
  cancelled,  \* the caller has aborted
  late,       \* the timer has fired
  listening,  \* the timer and the listener are armed
  reply       \* what the search resolved to

searchVars == <<asked, settled, cancelled, late, listening, reply>>

\* Slip: the await of the body is not raced with the deadline.
SlipRaced == asked = "fetch"
Raced == asked \in {"fetch", "body"}

\* A caller that has aborted before gets its answer without a request.
SearchAsk ==
  /\ asked = "start"
  /\ IF cancelled THEN asked' = "done" /\ reply' = "cancelled"
                       /\ UNCHANGED listening
     ELSE asked' = "fetch" /\ listening' = TRUE /\ UNCHANGED reply
  /\ UNCHANGED <<settled, cancelled, late>>
Racing == asked \in {"fetch", "body"} /\ settled = "no"
\* The network answers: well, with an error or a body that is not a registry.
RegistryAnswers ==
  /\ Racing
  /\ settled' \in {"good", "bad", "threw"}
  /\ UNCHANGED <<asked, cancelled, late, listening, reply>>
Won == IF settled = "no" /\ Raced THEN "deadline" ELSE settled
SearchDeadline ==
  /\ listening /\ ~late
  /\ late' = TRUE
  /\ settled' = Won
  /\ UNCHANGED <<asked, cancelled, listening, reply>>
Cancel ==
  /\ asked # "done" /\ ~cancelled
  /\ cancelled' = TRUE
  /\ settled' = IF listening THEN Won ELSE settled
  /\ UNCHANGED <<asked, late, listening, reply>>

\* After each await: who cancelled is told so, whatever won the race.
\* Slip: the deadline is looked at before the caller's cancellation.
SlipOutcome == IF late \/ settled # "good" THEN "unavailable"
               ELSE IF cancelled THEN "cancelled"
               ELSE "success"
Outcome == IF cancelled THEN "cancelled"
           ELSE IF late \/ settled # "good" THEN "unavailable"
           ELSE "success"
Continue ==
  /\ settled # "no"
  /\ IF asked = "fetch" /\ Outcome = "success"
     THEN asked' = "body" /\ settled' = "no" /\ UNCHANGED <<listening, reply>>
     ELSE /\ asked' = "done" /\ reply' = Outcome /\ listening' = FALSE
          /\ settled' = "no"
  /\ UNCHANGED <<cancelled, late>>
SearchHost == SearchAsk \/ SearchDeadline \/ Continue
SearchNext == SearchHost \/ RegistryAnswers \/ Cancel

SearchStill ==
  /\ asked = "done" /\ settled = "no" /\ late = FALSE /\ listening = FALSE
  /\ cancelled = FALSE /\ reply = "none"
SearchStart ==
  /\ asked = "start" /\ settled = "no" /\ late = FALSE /\ listening = FALSE
  /\ cancelled \in BOOLEAN /\ reply = "none"
SearchSpec == SearchStart /\ [][SearchNext]_searchVars

\* A search its caller cancelled says so, at whichever await it was: it is
\* never shown as an unreachable registry or as a result
\* (plugin.ts:386-402).
CancelIsTold == reply # "none" => (reply = "cancelled" <=> cancelled)

\* A search ends, though the request or its body may ignore the signal
\* (plugin.ts:360-383).
SearchEnds == asked = "fetch" ~> asked = "done"
=============================================================================
