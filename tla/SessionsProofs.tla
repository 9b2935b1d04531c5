--------------------------- MODULE SessionsProofs ---------------------------
(***************************************************************************)
(* Proofs about Sessions, for any keys, subjects, lifetimes and bounds.    *)
(***************************************************************************)
EXTENDS Sessions, TLAPS

\* What is inductive: the types, where tokens come from, what their claims say.
Tokenful == SessionTypeOK /\ IssuedInv /\ ClaimsInv

\* Signed claims are a token.
LEMMA SignedIsToken ==
  ASSUME NEW k \in Key, NEW sub \in Subject, NEW at \in Int, NEW exp \in Int
  PROVE  /\ Sign(NewClaims(sub, at, exp), k) \in Token
         /\ Sign(NewClaims(sub, at, exp), k) # NoToken
<1>1. NewClaims(sub, at, exp) \in Claims
  BY DEF NewClaims, Claims
<1>2. Sign(NewClaims(sub, at, exp), k) \in Token
  BY <1>1 DEF Sign, Token
<1> QED
  BY <1>2, TokenAssumption

\* The initial state has no token at all.
LEMMA SessionInitOK == SessionInit => Tokenful
<1> SUFFICES ASSUME SessionInit PROVE Tokenful
  OBVIOUS
<1>1. SessionTypeOK
  BY DEF SessionInit, SessionTypeOK
<1>2. IssuedInv
  BY DEF SessionInit, IssuedInv
<1>3. ClaimsInv
  BY DEF SessionInit, ClaimsInv
<1> QED
  BY <1>1, <1>2, <1>3 DEF Tokenful

\* A token made by hand has a subject and a clock within the leeway.
LEMMA MakeTokenOK ==
  ASSUME Tokenful, NEW sub \in Subject \union {NoSubject}, NEW k \in Key \union {NoKey},
         NEW skew \in -MaxSkew .. MaxSkew, NEW exp \in 0 .. MaxTime,
         MakeToken(sub, k, skew, exp)
  PROVE  Tokenful'
<1> DEFINE token == Sign(NewClaims(sub, now + skew, exp), k)
<1>1. {HomeLife, MaxSkew, MaxTime, MaxMade} \subseteq Nat /\ MaxSkew <= Leeway /\ Leeway \in Nat
  BY SessionAssumption, TokenAssumption
<1>2. sub \in Subject /\ k \in Key
  BY DEF MakeToken, ClaimsAccepted, NewClaims
<1>3. now \in Nat /\ now + skew \in Int /\ exp \in Int /\ now + skew <= now + Leeway
  BY <1>1 DEF Tokenful, SessionTypeOK
<1>4. token \in Token
  BY <1>2, <1>3, SignedIsToken
<1>5. token.claims.iss = "scrape" /\ token.claims.sub = sub /\ token.claims.iat = now + skew
  BY DEF Sign, NewClaims
<1>6. made' = made \union {token}
  BY DEF MakeToken
<1>7. UNCHANGED <<now, key, openHome, page, jar, homeAt>>
  BY DEF MakeToken
<1> HIDE DEF token
<1>8. SessionTypeOK'
  BY <1>4, <1>6, <1>7 DEF Tokenful, SessionTypeOK
<1>9. IssuedInv'
  BY <1>6, <1>7 DEF Tokenful, IssuedInv
<1>10. ClaimsInv'
  <2>1. sub # NoSubject
    BY <1>2, TokenAssumption
  <2> QED
    BY <1>3, <1>5, <1>6, <1>7, <2>1 DEF Tokenful, ClaimsInv
<1> QED
  BY <1>8, <1>9, <1>10 DEF Tokenful

\* The home page's token ends HomeLife from now, and now is the latest time.
LEMMA HomePageOK == Tokenful /\ HomePage => Tokenful'
<1> SUFFICES ASSUME Tokenful, HomePage PROVE Tokenful'
  OBVIOUS
<1> DEFINE token == Sign(NewClaims("home", now, now + HomeLife), key)
<1>1. HomeLife \in Nat /\ Leeway \in Nat /\ now \in Nat
  BY SessionAssumption, TokenAssumption DEF Tokenful, SessionTypeOK
<1>2. UNCHANGED <<now, key, openHome, made, jar>>
  BY DEF HomePage
<1>3. CASE key # NoKey /\ openHome
  <2>1. key \in Key
    BY <1>3 DEF Tokenful, SessionTypeOK
  <2>2. page' = token /\ homeAt' = [homeAt EXCEPT ![key] = now]
    BY <1>3 DEF HomePage
  <2>3. token \in Token
    BY <1>1, <2>1, TokenAssumption, SignedIsToken
  <2>4. /\ token.key = key
        /\ token.claims = NewClaims("home", now, now + HomeLife)
    BY DEF Sign
  <2>5. /\ token.claims.iss = "scrape" /\ token.claims.sub = "home"
        /\ token.claims.iat = now /\ token.claims.exp = now + HomeLife
    BY <2>4 DEF NewClaims
  <2>6. "home" # NoSubject
    BY TokenAssumption
  <2> HIDE DEF token
  <2>7. SessionTypeOK'
    BY <1>1, <1>2, <2>2, <2>3 DEF Tokenful, SessionTypeOK
  <2>8. \A k \in Key : homeAt'[k] <= now /\ homeAt[k] <= homeAt'[k]
    BY <1>1, <2>1, <2>2 DEF Tokenful, SessionTypeOK, IssuedInv
  <2>9. homeAt'[key] = now
    BY <2>1, <2>2 DEF Tokenful, SessionTypeOK
  <2>10. IssuedInv'
    <3>1. \/ page' \in made'
          \/ /\ page'.claims.sub = "home"
             /\ page'.claims.exp <= homeAt'[page'.key] + HomeLife
      BY <1>1, <2>2, <2>4, <2>5, <2>9
    <3>2. ASSUME jar # NoToken, jar \notin made
          PROVE  jar.claims.sub = "home" /\ jar.claims.exp <= homeAt'[jar.key] + HomeLife
      <4>1. jar \in Token
        BY <3>2 DEF Tokenful, SessionTypeOK
      <4>2. jar.key \in Key /\ jar.claims.exp \in Int
        BY <4>1 DEF Token, Claims
      <4>3. jar.claims.sub = "home" /\ jar.claims.exp <= homeAt[jar.key] + HomeLife
        BY <3>2 DEF Tokenful, IssuedInv
      <4>4. homeAt[jar.key] \in Nat /\ homeAt'[jar.key] \in Nat
        BY <4>2, <2>7 DEF Tokenful, SessionTypeOK
      <4> QED
        BY <1>1, <4>2, <4>3, <4>4, <2>8
    <3> QED
      BY <1>2, <2>8, <3>1, <3>2 DEF IssuedInv
  <2>11. ClaimsInv'
    BY <1>1, <1>2, <2>2, <2>5, <2>6 DEF Tokenful, ClaimsInv
  <2> QED
    BY <2>7, <2>10, <2>11 DEF Tokenful
<1>4. CASE ~(key # NoKey /\ openHome)
  <2>1. page' = NoToken /\ homeAt' = homeAt
    BY <1>4 DEF HomePage
  <2> QED
    BY <1>2, <2>1 DEF Tokenful, SessionTypeOK, IssuedInv, ClaimsInv
<1> QED
  BY <1>3, <1>4

\* Signing the claims of a verified token again gives that very token.
LEMMA SameToken ==
  ASSUME NEW k, NEW token, NEW at, Verify(k, token, at)
  PROVE  Sign(token.claims, k) = token
BY DEF Verify, Sign, Token

\* A login puts the header's own token into the jar, or changes nothing.
LEMMA LoginOK ==
  ASSUME Tokenful, NEW header \in Headers, Login(header)
  PROVE  Tokenful'
<1>1. UNCHANGED <<now, key, openHome, made, page, homeAt>>
  BY DEF Login
<1>2. CASE key # NoKey /\ Verify(key, header, now)
  <2>1. header \in Token /\ Sign(header.claims, key) = header
    BY <1>2, SameToken DEF Verify
  <2>2. jar' = header \/ jar' = NoToken
    BY <1>2, <2>1 DEF Login
  <2>3. header \in ({page} \ {NoToken}) \union made
    BY <2>1, TokenAssumption DEF Headers
  <2>4. SessionTypeOK'
    BY <1>1, <2>1, <2>2 DEF Tokenful, SessionTypeOK
  <2>5. IssuedInv'
    BY <1>1, <2>2, <2>3 DEF Tokenful, IssuedInv
  <2>6. ClaimsInv'
    BY <1>1, <2>2, <2>3 DEF Tokenful, ClaimsInv
  <2> QED
    BY <2>4, <2>5, <2>6 DEF Tokenful
<1>3. CASE ~(key # NoKey /\ Verify(key, header, now))
  <2>1. jar' = jar
    BY <1>3 DEF Login
  <2> QED
    BY <1>1, <2>1 DEF Tokenful, SessionTypeOK, IssuedInv, ClaimsInv
<1> QED
  BY <1>2, <1>3

\* A restart changes no token.
LEMMA RestartOK ==
  ASSUME Tokenful, NEW k \in Key \union {NoKey}, NEW open \in BOOLEAN, Restart(k, open)
  PROVE  Tokenful'
BY DEF Tokenful, SessionTypeOK, IssuedInv, ClaimsInv, Restart

\* Time only makes the bounds on issue times and home pages weaker.
LEMMA TickOK == Tokenful /\ Tick => Tokenful'
<1> SUFFICES ASSUME Tokenful, Tick PROVE Tokenful'
  OBVIOUS
<1>1. now \in Nat /\ now' = now + 1 /\ Leeway \in Nat
  BY TokenAssumption DEF Tokenful, SessionTypeOK, Tick
<1>2. UNCHANGED <<key, openHome, made, page, jar, homeAt>>
  BY DEF Tick
<1>3. SessionTypeOK'
  BY <1>1, <1>2 DEF Tokenful, SessionTypeOK
<1>4. IssuedInv'
  <2>1. \A k \in Key : homeAt[k] \in Nat /\ homeAt[k] <= now
    BY DEF Tokenful, SessionTypeOK, IssuedInv
  <2>2. \A k \in Key : homeAt'[k] <= now'
    BY <1>1, <1>2, <2>1
  <2> QED
    BY <1>2, <2>2 DEF Tokenful, IssuedInv
<1>5. ClaimsInv'
  <2> SUFFICES ASSUME NEW t \in made \union ({page, jar} \ {NoToken})
               PROVE  t.claims.iss = "scrape" /\ t.claims.sub # NoSubject /\ t.claims.iat <= now' + Leeway
    BY <1>2 DEF ClaimsInv
  <2>1. t.claims.iss = "scrape" /\ t.claims.sub # NoSubject /\ t.claims.iat <= now + Leeway
    BY DEF Tokenful, ClaimsInv
  <2>2. t.claims.iat \in Int
    BY DEF Tokenful, SessionTypeOK, Token, Claims
  <2> QED
    BY <1>1, <2>1, <2>2
<1> QED
  BY <1>3, <1>4, <1>5 DEF Tokenful

\* Every step keeps the invariant.
LEMMA SessionStepOK == Tokenful /\ [SessionNext]_sessionVars => Tokenful'
<1> SUFFICES ASSUME Tokenful, [SessionNext]_sessionVars PROVE Tokenful'
  OBVIOUS
<1>1. ASSUME NEW sub \in Subject \union {NoSubject}, NEW k \in Key \union {NoKey},
             NEW skew \in -MaxSkew .. MaxSkew, NEW exp \in 0 .. MaxTime, MakeToken(sub, k, skew, exp)
      PROVE  Tokenful'
  BY <1>1, MakeTokenOK
<1>2. CASE HomePage
  BY <1>2, HomePageOK
<1>3. ASSUME NEW header \in Headers, Login(header) PROVE Tokenful'
  BY <1>3, LoginOK
<1>4. ASSUME NEW k \in Key \union {NoKey}, NEW open \in BOOLEAN, Restart(k, open) PROVE Tokenful'
  BY <1>4, RestartOK
<1>5. CASE Tick
  BY <1>5, TickOK
<1>6. CASE UNCHANGED sessionVars
  BY <1>6 DEF sessionVars, Tokenful, SessionTypeOK, IssuedInv, ClaimsInv
<1> QED
  BY <1>1, <1>2, <1>3, <1>4, <1>5, <1>6 DEF SessionNext

\* The invariant holds throughout.
LEMMA SessionInvariance == SessionSpec => []Tokenful
BY SessionInitOK, SessionStepOK, PTL DEF SessionSpec

\* Every variable keeps its type.
THEOREM SessionsTypeCorrect == SessionSpec => []SessionTypeOK
<1>1. Tokenful => SessionTypeOK
  BY DEF Tokenful
<1> QED
  BY <1>1, SessionInvariance, PTL

\* What lets a request in is made by hand, or ends with the last home page.
LEMMA HomeBound == Tokenful => HomeSessionsEnd
<1> SUFFICES ASSUME Tokenful, key # NoKey,
                    NEW header \in Headers, NEW cookie \in {NoToken, Cookie},
                    Admitted(header, cookie)
             PROVE  \/ FirstToken(header, cookie) \in made
                    \/ /\ FirstToken(header, cookie).claims.sub = "home"
                       /\ now < homeAt[key] + HomeLife + Leeway
  BY DEF HomeSessionsEnd
<1> DEFINE token == FirstToken(header, cookie)
<1>1. Verify(key, token, now)
  BY DEF Admitted, Authorized
<1>2. token \in Token /\ token.key = key /\ now < token.claims.exp + Leeway
  BY <1>1 DEF Verify
<1>3. token \in {page, jar} \ {NoToken} \/ token \in made
  BY <1>2, TokenAssumption DEF FirstToken, Headers, Cookie
<1>4. CASE token \in {page, jar} \ {NoToken} /\ token \notin made
  <2>1. token.claims.sub = "home" /\ token.claims.exp <= homeAt[token.key] + HomeLife
    BY <1>4 DEF Tokenful, IssuedInv
  <2>2. token.claims.exp \in Int /\ key \in Key
    BY <1>2 DEF Token, Claims
  <2>3. homeAt[key] \in Nat /\ now \in Nat /\ HomeLife \in Nat /\ Leeway \in Nat
    BY <2>2, SessionAssumption, TokenAssumption DEF Tokenful, SessionTypeOK
  <2> QED
    BY <1>2, <2>1, <2>2, <2>3
<1> QED
  BY <1>3, <1>4

\* The public home page gives no session longer than the life of its token.
THEOREM HomeSessionsAreBounded == SessionSpec => []HomeSessionsEnd
BY HomeBound, SessionInvariance, PTL

\* A token whose claims were accepted passes until it expires.
LEMMA LivePasses ==
  ASSUME Tokenful, NEW t \in Token, t.key = key, now < t.claims.exp,
         t.claims.iss = "scrape", t.claims.sub # NoSubject, t.claims.iat <= now + Leeway
  PROVE  Verify(key, t, now)
<1>1. t.claims.iat \in Int /\ t.claims.exp \in Int
  BY DEF Token, Claims
<1>2. now \in Nat /\ Leeway \in Nat
  BY TokenAssumption DEF Tokenful, SessionTypeOK
<1>3. now < t.claims.exp + Leeway /\ now >= t.claims.iat - Leeway
  BY <1>1, <1>2
<1> QED
  BY <1>3 DEF Verify

\* A token made for the server's key works until it expires, whatever cookie
\* the browser sends with it.
THEOREM TokensWork == SessionSpec => []MadeTokensWork
<1>1. Tokenful => MadeTokensWork
  <2> SUFFICES ASSUME Tokenful, NEW t \in made, t.key = key, now < t.claims.exp
               PROVE  Admitted(t, Cookie)
    BY DEF MadeTokensWork
  <2>1. t \in Token /\ t # NoToken
    BY TokenAssumption DEF Tokenful, SessionTypeOK
  <2>2. t.claims.iss = "scrape" /\ t.claims.sub # NoSubject /\ t.claims.iat <= now + Leeway
    BY DEF Tokenful, ClaimsInv
  <2>3. Verify(key, t, now)
    BY <2>1, <2>2, LivePasses
  <2> QED
    BY <2>1, <2>3 DEF Admitted, Authorized, FirstToken
<1> QED
  BY <1>1, SessionInvariance, PTL
=============================================================================
