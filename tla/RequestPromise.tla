--------------------------- MODULE RequestPromise ---------------------------
(***************************************************************************)
(* What Kino promises about one request, whatever happens inside: the app  *)
(* is handed it at most once, the client gets at most one response, an     *)
(* application response only ever comes from an app that was handed the    *)
(* request, and a request refused for its size never reaches the app.      *)
(***************************************************************************)
EXTENDS Naturals

CONSTANT Requests

VARIABLES
  stage,   \* "new", "pending", "answered" or "lost" (no response completes)
  reply,   \* the response chosen for the client
  runs     \* how often the app was handed the request

vars == <<stage, reply, runs>>

Replies == {"app", "500", "503", "504", "413"}

Init ==
  /\ stage = [r \in Requests |-> "new"]
  /\ reply = [r \in Requests |-> "none"]
  /\ runs = [r \in Requests |-> 0]

Submit(r) ==
  /\ stage[r] = "new"
  /\ stage' = [stage EXCEPT ![r] = "pending"]
  /\ UNCHANGED <<reply, runs>>

\* The app may run for a client that is gone or was already told 503 or 504,
\* but never twice and never for a request refused with 413.
HandOver(r) ==
  /\ stage[r] # "new" /\ reply[r] # "413" /\ runs[r] = 0
  /\ runs' = [runs EXCEPT ![r] = 1]
  /\ UNCHANGED <<stage, reply>>

Answer(r, what) ==
  /\ \/ stage[r] = "pending"
     \/ stage[r] = "new" /\ what \in {"503", "413"}
  /\ what = "app" => runs[r] = 1
  /\ what = "413" => runs[r] = 0
  /\ stage' = [stage EXCEPT ![r] = "answered"]
  /\ reply' = [reply EXCEPT ![r] = what]
  /\ UNCHANGED runs

\* Clients hang up; a runtime teardown loses several connections at once.
Lose(rs) ==
  /\ rs # {} /\ \A r \in rs : stage[r] \in {"pending", "answered"}
  /\ stage' = [r \in Requests |-> IF r \in rs THEN "lost" ELSE stage[r]]
  /\ UNCHANGED <<reply, runs>>

Next ==
  \/ \E r \in Requests : Submit(r) \/ HandOver(r) \/ \E what \in Replies : Answer(r, what)
  \/ \E rs \in SUBSET Requests : Lose(rs)

Spec == Init /\ [][Next]_vars
=============================================================================
