------------------------------ MODULE Requests ------------------------------
(***************************************************************************)
(* What all API requests of scrape-server go through: the route that       *)
(* InitMux gives them, the authorization middleware in front, and one      *)
(* status at the end.  Requests run concurrently; each of them is served   *)
(* by a goroutine of its own.                                              *)
(***************************************************************************)
EXTENDS Tokens

CONSTANTS
  Request, \* requests, each made once
  Config   \* configurations of the server to consider

ConfigType == [key : Key \union {NoKey}, headless : BOOLEAN, settings : BOOLEAN]

ASSUME ConfigAssumption == Config \subseteq ConfigType

PageRoute == {"extract", "headless", "batch", "feed", "delete"}
SettingsRoute == {"settings.get", "settings.put", "settings.delete", "settings.search"}
Route == PageRoute \union SettingsRoute \union {"health"}

VARIABLES
  config, \* signing key; headless client; settings, which need sqlite
  pc,     \* where each request is
  route,  \* the route it came by
  bearer, \* history: the request had a token that verifies, wherever it was
  status  \* its HTTP status; 0 as long as there is none

requestVars == <<config, pc, route, bearer, status>>

Ended == {"done", "died"}
Unanswered == 0

RequestsInit ==
  /\ config \in Config
  /\ pc = [r \in Request |-> "idle"]
  /\ route = [r \in Request |-> "health"]
  /\ bearer = [r \in Request |-> FALSE]
  /\ status = [r \in Request |-> Unanswered]

Goto(r, stage) ==
  /\ pc' = [pc EXCEPT ![r] = stage]
  /\ UNCHANGED <<config, route, bearer, status>>

\* The handler answers and returns.
Reply(r, code) ==
  /\ pc' = [pc EXCEPT ![r] = "done"]
  /\ status' = [status EXCEPT ![r] = code]
  /\ UNCHANGED <<config, route, bearer>>

\* The middleware in front of the handler, without the authorization.
FirstStage(rt) ==
  CASE rt \in PageRoute -> "payload"
    [] rt = "settings.search" -> "query"
    [] OTHER -> "domain"

\* Mutant: the chain of DELETE /extract is built without withAuthIfEnabled.
EntryDeleteOpen(rt) ==
  CASE rt = "health" -> "health"
    [] rt \in SettingsRoute /\ ~config.settings -> "unavailable"
    [] rt = "delete" -> FirstStage(rt)
    [] OTHER -> IF config.key # NoKey THEN "auth" ELSE FirstStage(rt)

\* InitMux and withAuthIfEnabled: health checks are open; without sqlite all
\* settings routes lead to serviceUnavailable, which asks for no token either.
Entry(rt) ==
  CASE rt = "health" -> "health"
    [] rt \in SettingsRoute /\ ~config.settings -> "unavailable"
    [] OTHER -> IF config.key # NoKey THEN "auth" ELSE FirstStage(rt)

Arrive(r, rt) ==
  /\ pc[r] = "idle"
  /\ pc' = [pc EXCEPT ![r] = Entry(rt)]
  /\ route' = [route EXCEPT ![r] = rt]
  /\ UNCHANGED <<config, bearer, status>>

\* What header and cookie can hold: nothing, no token, and tokens by each key
\* that are valid and expired at time 0, at which all requests are made.
Presented ==
  {NoToken, Garbage}
    \union {Sign(NewClaims("home", 0, exp), k) : k \in Key, exp \in {1, -Leeway}}

\* JWTAuthzMiddleware: 401, or on to the rest of the chain.
Authorize(r, header, cookie) ==
  /\ pc[r] = "auth"
  /\ bearer' = [bearer EXCEPT ![r] = \E t \in {header, cookie} : Verify(config.key, t, 0)]
  /\ IF Authorized(config.key, header, cookie, 0)
     THEN /\ pc' = [pc EXCEPT ![r] = FirstStage(route[r])]
          /\ UNCHANGED status
     ELSE /\ pc' = [pc EXCEPT ![r] = "done"]
          /\ status' = [status EXCEPT ![r] = 401]
  /\ UNCHANGED <<config, route>>

\* The two handlers that are not behind the authorization.
Health(r) == pc[r] = "health" /\ Reply(r, 200)
Unavailable(r) == pc[r] = "unavailable" /\ Reply(r, 503)

RequestStep(r) ==
  \/ \E header, cookie \in Presented : Authorize(r, header, cookie)
  \/ Health(r)
  \/ Unavailable(r)
=============================================================================
