------------------------------ MODULE Sessions ------------------------------
(***************************************************************************)
(* How a browser and API clients come to be authorized: tokens made by     *)
(* scrape-jwt-encode, the token that a public home page carries, the login *)
(* that turns a header's token into a cookie, restarts of the server with  *)
(* another key, and time.                                                  *)
(***************************************************************************)
EXTENDS Tokens, FiniteSets

CONSTANTS
  HomeLife, \* lifetime of the home page's token: 60 minutes
  MaxSkew,  \* bound: how far the clock of the token maker is ahead or behind
  MaxTime,  \* bound on the clock
  MaxMade   \* bound on the tokens made by hand

ASSUME SessionAssumption ==
  /\ {HomeLife, MaxSkew, MaxTime, MaxMade} \subseteq Nat
  /\ MaxSkew <= Leeway

VARIABLES
  now,      \* the server's clock, and the browser's
  key,      \* Server.signingKey
  openHome, \* -public-home
  made,     \* tokens that scrape-jwt-encode printed
  page,     \* the token in the home page that the browser shows
  jar,      \* the browser's cookie named "token"
  homeAt    \* history: when a home page with a token was last served, per key

sessionVars == <<now, key, openHome, made, page, jar, homeAt>>

SessionInit ==
  /\ now = 0
  /\ key \in Key \union {NoKey}
  /\ openHome \in BOOLEAN
  /\ made = {}
  /\ page = NoToken
  /\ jar = NoToken
  /\ homeAt = [k \in Key |-> 0]

\* What an Authorization header can hold: nothing usable, text that is no
\* token, a token made by hand, or the one that the page's script sends.
Headers == {NoToken, Garbage, page} \union made

\* The browser sends the cookie until it expires, to the second.
Cookie == IF jar # NoToken /\ now < jar.claims.exp THEN jar ELSE NoToken

\* What the server would say of a request now; asking changes nothing.
Admitted(header, cookie) == Authorized(key, header, cookie, now)

\* scrape-jwt-encode: an empty subject, a past expiry or a missing key end it
\* without a token.  Its clock may differ from the server's.
MakeToken(sub, k, skew, exp) ==
  LET claims == NewClaims(sub, now + skew, exp)
  IN /\ Cardinality(made) < MaxMade
     /\ k # NoKey
     /\ ClaimsAccepted(claims, now + skew)
     /\ made' = made \union {Sign(claims, k)}
     /\ UNCHANGED <<now, key, openHome, page, jar, homeAt>>

\* The home page is always served; it carries a token of its own only when it
\* is public and authorization is enabled.
HomePage ==
  /\ IF key # NoKey /\ openHome
     THEN /\ page' = Sign(NewClaims("home", now, now + HomeLife), key)
          /\ homeAt' = [homeAt EXCEPT ![key] = now]
     ELSE page' = NoToken /\ UNCHANGED homeAt
  /\ UNCHANGED <<now, key, openHome, made, jar>>

\* Mutant: the cookie's claims are made afresh, with a lifetime of their own.
LoginRenews(header) ==
  /\ IF key # NoKey /\ Verify(key, header, now)
     THEN jar' = Sign(NewClaims(header.claims.sub, now, now + HomeLife), key)
     ELSE UNCHANGED jar
  /\ UNCHANGED <<now, key, openHome, made, page, homeAt>>

\* GET /admin/login: only the header counts.  The claims are signed again; a
\* cookie that is set with a past expiry deletes the one the browser has.
Login(header) ==
  /\ IF key # NoKey /\ Verify(key, header, now)
     THEN LET token == Sign(header.claims, key)
          IN jar' = IF now < token.claims.exp THEN token ELSE NoToken
     ELSE UNCHANGED jar
  /\ UNCHANGED <<now, key, openHome, made, page, homeAt>>

\* The server is restarted, with the same or another configuration.
Restart(k, open) ==
  /\ key' = k
  /\ openHome' = open
  /\ UNCHANGED <<now, made, page, jar, homeAt>>

Tick ==
  /\ now < MaxTime
  /\ now' = now + 1
  /\ UNCHANGED <<key, openHome, made, page, jar, homeAt>>

SessionNext ==
  \/ \E sub \in Subject \union {NoSubject}, k \in Key \union {NoKey},
        skew \in -MaxSkew .. MaxSkew, exp \in 0 .. MaxTime : MakeToken(sub, k, skew, exp)
  \/ HomePage
  \/ \E header \in Headers : Login(header)
  \/ \E k \in Key \union {NoKey}, open \in BOOLEAN : Restart(k, open)
  \/ Tick

SessionSpec == SessionInit /\ [][SessionNext]_sessionVars

-----------------------------------------------------------------------------
\* Every variable keeps its type.
SessionTypeOK ==
  /\ now \in Nat
  /\ key \in Key \union {NoKey}
  /\ openHome \in BOOLEAN
  /\ made \subseteq Token
  /\ page \in Token \union {NoToken}
  /\ jar \in Token \union {NoToken}
  /\ homeAt \in [Key -> Nat]

\* What the browser holds was issued: by hand, or with the home page, whose
\* tokens end HomeLife after the page was last served under that key.
IssuedInv ==
  /\ \A k \in Key : homeAt[k] <= now
  /\ \A t \in {page, jar} \ {NoToken} :
       \/ t \in made
       \/ /\ t.claims.sub = "home"
          /\ t.claims.exp <= homeAt[t.key] + HomeLife

\* A visitor of a public home page who logs in with the page's token gets a
\* cookie, but no chain of logins, reloads and restarts lets the visitor in
\* once the last home token would have ended (with the leeway), or with
\* anything else that was not made by hand.
HomeSessionsEnd ==
  key # NoKey =>
    \A header \in Headers, cookie \in {NoToken, Cookie} :
      Admitted(header, cookie) =>
        LET token == FirstToken(header, cookie)
        IN \/ token \in made
           \/ /\ token.claims.sub = "home"
              /\ now < homeAt[key] + HomeLife + Leeway

\* A token made for the server's key works from the moment it is made until
\* it expires: the leeway covers the difference of the clocks.
MadeTokensWork ==
  \A t \in made : t.key = key /\ now < t.claims.exp => Admitted(t, Cookie)

\* Claims that were accepted once: a clock ahead of the server's by no more
\* than the leeway made them.
ClaimsInv ==
  \A t \in made \union ({page, jar} \ {NoToken}) :
    t.claims.iss = "scrape" /\ t.claims.sub # NoSubject /\ t.claims.iat <= now + Leeway
=============================================================================
