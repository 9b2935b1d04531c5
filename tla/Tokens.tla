------------------------------- MODULE Tokens -------------------------------
(***************************************************************************)
(* internal/auth: claims, the tokens made from them, and the decision of   *)
(* the authorization middleware.  A token is its claims and the key that   *)
(* signed it; signing the same claims again gives the same token.  Times   *)
(* are in units of the leeway's scale.  The parser is golang-jwt's: it     *)
(* checks algorithm, signature, issuer, exp and iat.                       *)
(***************************************************************************)
EXTENDS Integers

CONSTANTS
  Key,       \* signing keys
  NoKey,     \* no signing key: authorization is disabled
  Subject,   \* non-empty subjects, "home" among them
  NoSubject, \* the empty subject
  NoToken,   \* a source has no token for the middleware: "" in the code
  Garbage,   \* text in the header that is no token
  Leeway     \* jwt.WithLeeway

Claims == [iss : {"scrape", "other"}, sub : Subject \union {NoSubject}, iat : Int, exp : Int]

Token == [key : Key, claims : Claims]

ASSUME TokenAssumption ==
  /\ Leeway \in Nat
  /\ "home" \in Subject /\ NoSubject \notin Subject
  /\ NoKey \notin Key
  /\ NoToken \notin Token /\ Garbage \notin Token /\ NoToken # Garbage

\* NewClaims fails on an empty subject, and ExpiresAt on a time that is past.
NewClaims(sub, now, exp) == [iss |-> "scrape", sub |-> sub, iat |-> now, exp |-> exp]

ClaimsAccepted(claims, now) == claims.sub # NoSubject /\ claims.exp >= now

Sign(claims, key) == [key |-> key, claims |-> claims]

\* VerifyToken, for the text a source gave.
Verify(key, token, now) ==
  /\ token \in Token
  /\ token.key = key
  /\ token.claims.iss = "scrape"
  /\ token.claims.sub # NoSubject
  /\ now < token.claims.exp + Leeway
  /\ now >= token.claims.iat - Leeway

\* Mutant: the cookie is asked first.
CookieFirst(header, cookie) == IF cookie # NoToken THEN cookie ELSE header

\* The middleware takes the first source that is not empty, and no other:
\* a bad token in the header is not rescued by a good cookie.
FirstToken(header, cookie) == IF header # NoToken THEN header ELSE cookie

\* JWTAuthzMiddleware, which is not installed when there is no key.
Authorized(key, header, cookie, now) ==
  key = NoKey \/ Verify(key, FirstToken(header, cookie), now)
=============================================================================
