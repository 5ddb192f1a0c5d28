-------------------------- MODULE CredentialsProofs --------------------------
(***************************************************************************)
(* Proofs about Credentials, for any number of codes, requests, attempts   *)
(* and sweeps: authorization codes and login codes implement OneTimeCode,  *)
(* and a code scrubbed unredeemed leaves no live token behind.             *)
(***************************************************************************)
EXTENDS Credentials, TLAPS

USE CodesAssumption, BoundsAssumption

----------------------------------------------------------------------------
(* Types.                                                                  *)

\* What a statement makes of a row is a row.
LEMMA CodeUpdates ==
    ASSUME NEW x \in CodeRows
    PROVE  /\ [x EXCEPT !.aged = TRUE] \in CodeRows
           /\ [x EXCEPT !.key = FALSE] \in CodeRows
           /\ [x EXCEPT !.used = TRUE, !.key = FALSE] \in CodeRows
BY DEF CodeRows

LEMMA LoginUpdates ==
    ASSUME NEW x \in LoginRows
    PROVE  /\ [x EXCEPT !.row = TRUE] \in LoginRows
           /\ [x EXCEPT !.attempts = x.attempts + 1] \in LoginRows
           /\ [x EXCEPT !.consumed = TRUE] \in LoginRows
           /\ [x EXCEPT !.young = FALSE] \in LoginRows
           /\ [x EXCEPT !.expired = TRUE] \in LoginRows
<1>1. [x EXCEPT !.attempts = x.attempts + 1] \in LoginRows
  BY DEF LoginRows
<1>2. [x EXCEPT !.row = TRUE] \in LoginRows /\ [x EXCEPT !.consumed = TRUE] \in LoginRows
  BY DEF LoginRows
<1>3. [x EXCEPT !.young = FALSE] \in LoginRows /\ [x EXCEPT !.expired = TRUE] \in LoginRows
  BY DEF LoginRows
<1> QED
  BY <1>1, <1>2, <1>3

\* What a step makes of a request's locals are locals.
LEMMA LocalUpdates ==
    /\ Idle \in Locals
    /\ [Idle EXCEPT !.pc = "sweep"] \in Locals /\ [Idle EXCEPT !.pc = "mail"] \in Locals
    /\ \A c \in Codes : [Idle EXCEPT !.pc = "sweep", !.c = c, !.then = "issue"] \in Locals
    /\ \A c \in Codes, k \in BOOLEAN : [Idle EXCEPT !.pc = "claim", !.c = c, !.key = k] \in Locals
    /\ \A c \in LoginCodes : [Idle EXCEPT !.pc = "attempt", !.c = c] \in Locals
    /\ \A x \in Locals : /\ [x EXCEPT !.pc = x.then] \in Locals
                         /\ [x EXCEPT !.pc = "blank"] \in Locals
                         /\ [x EXCEPT !.pc = "check"] \in Locals
                         /\ [Idle EXCEPT !.pc = x.then, !.c = x.c] \in Locals
    /\ \A x \in Locals : \A old, ids \in SUBSET Codes :
          [x EXCEPT !.pc = "kill", !.old = old, !.ids = ids] \in Locals
<1>1. Idle \in Locals
  BY DEF Idle, Locals
<1>2. /\ [Idle EXCEPT !.pc = "sweep"] \in Locals /\ [Idle EXCEPT !.pc = "mail"] \in Locals
      /\ \A c \in Codes : [Idle EXCEPT !.pc = "sweep", !.c = c, !.then = "issue"] \in Locals
  BY <1>1 DEF Locals, All
<1>3. \A c \in Codes, k \in BOOLEAN : [Idle EXCEPT !.pc = "claim", !.c = c, !.key = k] \in Locals
  BY <1>1 DEF Locals, All
<1>4. \A c \in LoginCodes : [Idle EXCEPT !.pc = "attempt", !.c = c] \in Locals
  BY <1>1 DEF Locals, All
<1>5. \A x \in Locals : [x EXCEPT !.pc = x.then] \in Locals
  BY DEF Locals
<1>6. \A x \in Locals : [x EXCEPT !.pc = "blank"] \in Locals /\ [x EXCEPT !.pc = "check"] \in Locals
  BY DEF Locals
<1>7. \A x \in Locals : [Idle EXCEPT !.pc = x.then, !.c = x.c] \in Locals
  BY <1>1 DEF Locals
<1>8. \A x \in Locals : \A old, ids \in SUBSET Codes :
          [x EXCEPT !.pc = "kill", !.old = old, !.ids = ids] \in Locals
  BY DEF Locals
<1> QED
  BY <1>1, <1>2, <1>3, <1>4, <1>5, <1>6, <1>7, <1>8

\* Initially every variable has its type.
LEMMA TypeInit == Init => TypeOK
<1> SUFFICES ASSUME Init PROVE TypeOK
  OBVIOUS
<1>1. [row |-> FALSE, used |-> FALSE, key |-> FALSE, aged |-> FALSE] \in CodeRows
  BY DEF CodeRows
<1>2. [row |-> FALSE, attempts |-> 0, consumed |-> FALSE, expired |-> FALSE, young |-> TRUE]
         \in LoginRows
  BY DEF LoginRows
<1> QED
  BY <1>1, <1>2, LocalUpdates DEF Init, TypeOK

\* A request goes on, and no other one notices.
LEMMA GoTypes ==
    ASSUME TypeOK, NEW r \in Requests, NEW l \in Locals, Go(r, l)
    PROVE  /\ req' \in [Requests -> Locals] /\ req'[r] = l
           /\ \A q \in Requests : q # r => req'[q] = req[q]
BY DEF TypeOK, Go

\* A secret is handed out.
LEMMA GiveTypes ==
    ASSUME TypeOK, NEW c \in All, Give(c)
    PROVE  /\ given' \in [All -> Nat] /\ given'[c] = given[c] + 1
           /\ \A d \in All : d # c => given'[d] = given[d]
BY DEF TypeOK, Give

----------------------------------------------------------------------------
(* Each step keeps the inductive invariant.                                *)

\* Consent mints a token for a code that has none.
LEMMA AuthorizeViewKeeps ==
    ASSUME IInv, NEW r \in Requests, NEW c \in Codes, AuthorizeView(r, c)
    PROVE  IInv'
<1>1. TypeOK'
  BY CodeUpdates, LoginUpdates, LocalUpdates, GoTypes DEF IInv, TypeOK, AuthorizeView
<1>2. ScrubbedIsDead'
  BY DEF IInv, TypeOK, CodeRows, ScrubbedIsDead, CodeSane, LocalSane, Stale, All, AuthorizeView, Go
<1>3. \A k \in Codes : CodeSane(k)'
  BY DEF IInv, TypeOK, CodeRows, CodeSane, LocalSane, Minting, Stale, All, AuthorizeView, Go
<1>4. \A k \in LoginCodes : LoginSane(k)'
  BY DEF IInv, TypeOK, LoginRows, LoginSane, LocalSane, All, AuthorizeView, Go
<1>5. \A q \in Requests : LocalSane(q)'
  BY DEF IInv, TypeOK, CodeRows, LoginRows, Locals, Idle, CodeSane, LoginSane, LocalSane, ScrubbedIsDead,
         Minting, Stale, All, AuthorizeView, Go
<1>6. \A q, s \in Requests : Minting(q)' /\ Minting(s)' /\ q # s => req'[q].c # req'[s].c
  BY DEF IInv, TypeOK, CodeRows, Idle, CodeSane, LocalSane, Minting, Stale, AuthorizeView, Go
<1> QED
  BY <1>1, <1>2, <1>3, <1>4, <1>5, <1>6 DEF IInv

\* The code row is written for the token minted.
LEMMA AuthorizeIssueKeeps ==
    ASSUME IInv, NEW r \in Requests, AuthorizeIssue(r)
    PROVE  IInv'
<1>1. TypeOK'
  BY CodeUpdates, LoginUpdates, LocalUpdates, GoTypes DEF IInv, TypeOK, AuthorizeIssue, CodeRows
<1>2. ScrubbedIsDead'
  BY DEF IInv, TypeOK, CodeRows, ScrubbedIsDead, CodeSane, LocalSane, Stale, All, AuthorizeIssue, Go
<1>3. \A k \in Codes : CodeSane(k)'
  BY DEF IInv, TypeOK, CodeRows, CodeSane, LocalSane, Minting, Stale, All, AuthorizeIssue, Go
<1>4. \A k \in LoginCodes : LoginSane(k)'
  BY DEF IInv, TypeOK, LoginRows, LoginSane, LocalSane, All, AuthorizeIssue, Go
<1>5. \A q \in Requests : LocalSane(q)'
  BY DEF IInv, TypeOK, CodeRows, LoginRows, Locals, Idle, CodeSane, LoginSane, LocalSane, ScrubbedIsDead,
         Minting, Stale, All, AuthorizeIssue, Go
<1>6. \A q, s \in Requests : Minting(q)' /\ Minting(s)' /\ q # s => req'[q].c # req'[s].c
  BY DEF IInv, TypeOK, CodeRows, Idle, CodeSane, LocalSane, Minting, Stale, AuthorizeIssue, Go
<1> QED
  BY <1>1, <1>2, <1>3, <1>4, <1>5, <1>6 DEF IInv

\* A redemption reads the row.
LEMMA TokenReadKeeps ==
    ASSUME IInv, NEW r \in Requests, NEW c \in Codes, TokenRead(r, c)
    PROVE  IInv'
<1>1. TypeOK'
  <2>1. code[c].key \in BOOLEAN
    BY DEF IInv, TypeOK, CodeRows
  <2>2. PICK l \in Locals : Go(r, l)
    BY <2>1, LocalUpdates DEF TokenRead
  <2> QED
    BY <2>2, GoTypes DEF IInv, TypeOK, TokenRead
<1>2. ScrubbedIsDead'
  BY DEF IInv, TypeOK, CodeRows, ScrubbedIsDead, CodeSane, LocalSane, Stale, All, TokenRead, Go
<1>3. \A k \in Codes : CodeSane(k)'
  BY DEF IInv, TypeOK, CodeRows, CodeSane, LocalSane, Minting, Stale, All, TokenRead, Go
<1>4. \A k \in LoginCodes : LoginSane(k)'
  BY DEF IInv, TypeOK, LoginRows, LoginSane, LocalSane, All, TokenRead, Go
<1>5. \A q \in Requests : LocalSane(q)'
  BY DEF IInv, TypeOK, CodeRows, LoginRows, Locals, Idle, CodeSane, LoginSane, LocalSane, ScrubbedIsDead,
         Minting, Stale, All, TokenRead, Go
<1>6. \A q, s \in Requests : Minting(q)' /\ Minting(s)' /\ q # s => req'[q].c # req'[s].c
  BY DEF IInv, TypeOK, CodeRows, Idle, CodeSane, LocalSane, Minting, Stale, TokenRead, Go
<1> QED
  BY <1>1, <1>2, <1>3, <1>4, <1>5, <1>6 DEF IInv

\* A redemption claims the code.
LEMMA TokenClaimKeeps ==
    ASSUME IInv, NEW r \in Requests, TokenClaim(r)
    PROVE  IInv'
<1>1. TypeOK'
  <2>1. code[req[r].c] \in CodeRows /\ req[r].c \in All
    BY DEF IInv, TypeOK, LocalSane, TokenClaim, All
  <2>2. code' \in [Codes -> CodeRows]
    BY <2>1, CodeUpdates DEF IInv, TypeOK, TokenClaim
  <2>3. req' \in [Requests -> Locals] /\ given' \in [All -> Nat]
    BY <2>1, GoTypes, GiveTypes, LocalUpdates DEF IInv, TypeOK, TokenClaim
  <2> QED
    BY <2>2, <2>3 DEF IInv, TypeOK, TokenClaim
<1>2. ScrubbedIsDead'
  BY DEF IInv, TypeOK, CodeRows, ScrubbedIsDead, CodeSane, LocalSane, Stale, All, TokenClaim, Go, Give
<1>3. \A k \in Codes : CodeSane(k)'
  BY DEF IInv, TypeOK, CodeRows, CodeSane, LocalSane, Minting, Stale, All, TokenClaim, Go, Give
<1>4. \A k \in LoginCodes : LoginSane(k)'
  BY DEF IInv, TypeOK, LoginRows, LoginSane, LocalSane, All, TokenClaim, Go, Give
<1>5. \A q \in Requests : LocalSane(q)'
  <2>1. req'[r] = Idle /\ \A q \in Requests : q # r => req'[q] = req[q]
    BY GoTypes, LocalUpdates DEF IInv, TokenClaim
  <2>2. \A c \in Codes : /\ code'[c].row = code[c].row /\ code'[c].aged = code[c].aged
                         /\ code'[c].used \/ code'[c] = code[c]
    BY DEF IInv, TypeOK, TokenClaim, LocalSane, CodeRows
  <2>3. \A old \in SUBSET Codes : Stale(old)' \subseteq Stale(old)
    BY <2>2 DEF Stale
  <2>4. token' = token /\ login' = login
    BY DEF TokenClaim
  <2>5. ASSUME NEW q \in Requests, q # r PROVE LocalSane(q)'
    <3>1. LocalSane(q) /\ req'[q] = req[q] /\ req[q].old \in SUBSET Codes /\ req[q].ids \in SUBSET Codes
      BY <2>1, <2>5 DEF IInv, TypeOK, Locals
    <3> QED
      BY <2>2, <2>3, <2>4, <3>1 DEF LocalSane, Minting
  <2>6. LocalSane(r)'
    BY <2>1 DEF LocalSane, Minting, Idle
  <2> QED
    BY <2>5, <2>6
<1>6. \A q, s \in Requests : Minting(q)' /\ Minting(s)' /\ q # s => req'[q].c # req'[s].c
  BY DEF IInv, TypeOK, CodeRows, Idle, CodeSane, LocalSane, Minting, Stale, TokenClaim, Go, Give
<1> QED
  BY <1>1, <1>2, <1>3, <1>4, <1>5, <1>6 DEF IInv

\* A sweep lists the stale codes.
LEMMA SweepListKeeps ==
    ASSUME IInv, NEW r \in Requests, SweepList(r)
    PROVE  IInv'
<1>1. TypeOK'
  <2>1. {c \in Codes : code[c].aged} \in SUBSET Codes
    OBVIOUS
  <2>2. Stale({c \in Codes : code[c].aged}) \in SUBSET Codes
    BY DEF Stale
  <2>3. req[r] \in Locals
    BY DEF IInv, TypeOK
  <2>4. PICK l \in Locals : Go(r, l)
    BY <2>1, <2>2, <2>3, LocalUpdates DEF SweepList
  <2> QED
    BY <2>4, GoTypes DEF IInv, TypeOK, SweepList
<1>2. ScrubbedIsDead'
  BY DEF IInv, TypeOK, CodeRows, ScrubbedIsDead, CodeSane, LocalSane, Stale, All, SweepList, Go
<1>3. \A k \in Codes : CodeSane(k)'
  BY DEF IInv, TypeOK, CodeRows, CodeSane, LocalSane, Minting, Stale, All, SweepList, Go
<1>4. \A k \in LoginCodes : LoginSane(k)'
  BY DEF IInv, TypeOK, LoginRows, LoginSane, LocalSane, All, SweepList, Go
<1>5. \A q \in Requests : LocalSane(q)'
  BY DEF IInv, TypeOK, CodeRows, LoginRows, Locals, Idle, CodeSane, LoginSane, LocalSane, ScrubbedIsDead,
         Minting, Stale, All, SweepList, Go
<1>6. \A q, s \in Requests : Minting(q)' /\ Minting(s)' /\ q # s => req'[q].c # req'[s].c
  BY DEF IInv, TypeOK, CodeRows, Idle, CodeSane, LocalSane, Minting, Stale, SweepList, Go
<1> QED
  BY <1>1, <1>2, <1>3, <1>4, <1>5, <1>6 DEF IInv

\* It deactivates their tokens ...
LEMMA SweepTokensKeeps ==
    ASSUME IInv, NEW r \in Requests, SweepTokens(r)
    PROVE  IInv'
<1>1. TypeOK'
  BY CodeUpdates, LoginUpdates, LocalUpdates, GoTypes DEF IInv, TypeOK, SweepTokens
<1>2. ScrubbedIsDead'
  BY DEF IInv, TypeOK, CodeRows, ScrubbedIsDead, CodeSane, LocalSane, Stale, All, SweepTokens, Go
<1>3. \A k \in Codes : CodeSane(k)'
  BY DEF IInv, TypeOK, CodeRows, CodeSane, LocalSane, Minting, Stale, All, SweepTokens, Go
<1>4. \A k \in LoginCodes : LoginSane(k)'
  BY DEF IInv, TypeOK, LoginRows, LoginSane, LocalSane, All, SweepTokens, Go
<1>5. \A q \in Requests : LocalSane(q)'
  BY DEF IInv, TypeOK, CodeRows, LoginRows, Locals, Idle, CodeSane, LoginSane, LocalSane, ScrubbedIsDead,
         Minting, Stale, All, SweepTokens, Go
<1>6. \A q, s \in Requests : Minting(q)' /\ Minting(s)' /\ q # s => req'[q].c # req'[s].c
  BY DEF IInv, TypeOK, CodeRows, Idle, CodeSane, LocalSane, Minting, Stale, SweepTokens, Go
<1> QED
  BY <1>1, <1>2, <1>3, <1>4, <1>5, <1>6 DEF IInv

\* ... and blanks the keys of those still stale.
LEMMA expire_unredeemed_codesKeeps ==
    ASSUME IInv, NEW r \in Requests, expire_unredeemed_codes(r)
    PROVE  IInv'
<1>1. TypeOK'
  <2>1. code' \in [Codes -> CodeRows]
    BY CodeUpdates DEF IInv, TypeOK, expire_unredeemed_codes
  <2> QED
    BY <2>1, GoTypes, LocalUpdates DEF IInv, TypeOK, expire_unredeemed_codes
<1>2. ScrubbedIsDead'
  BY DEF IInv, TypeOK, CodeRows, ScrubbedIsDead, CodeSane, LocalSane, Stale, All, expire_unredeemed_codes, Go
<1>3. \A k \in Codes : CodeSane(k)'
  BY DEF IInv, TypeOK, CodeRows, CodeSane, LocalSane, Minting, Stale, All, expire_unredeemed_codes, Go
<1>4. \A k \in LoginCodes : LoginSane(k)'
  BY DEF IInv, TypeOK, LoginRows, LoginSane, LocalSane, All, expire_unredeemed_codes, Go
<1>5. \A q \in Requests : LocalSane(q)'
  BY DEF IInv, TypeOK, CodeRows, LoginRows, Locals, Idle, CodeSane, LoginSane, LocalSane, ScrubbedIsDead,
         Minting, Stale, All, expire_unredeemed_codes, Go
<1>6. \A q, s \in Requests : Minting(q)' /\ Minting(s)' /\ q # s => req'[q].c # req'[s].c
  BY DEF IInv, TypeOK, CodeRows, Idle, CodeSane, LocalSane, Minting, Stale, expire_unredeemed_codes, Go
<1> QED
  BY <1>1, <1>2, <1>3, <1>4, <1>5, <1>6 DEF IInv

\* A token is revoked.
LEMMA revokeKeeps ==
    ASSUME IInv, NEW c \in Codes, revoke(c)
    PROVE  IInv'
<1>1. TypeOK'
  BY CodeUpdates, LoginUpdates, LocalUpdates DEF IInv, TypeOK, revoke
<1>2. ScrubbedIsDead'
  BY DEF IInv, TypeOK, CodeRows, ScrubbedIsDead, CodeSane, LocalSane, Stale, All, revoke
<1>3. \A k \in Codes : CodeSane(k)'
  BY DEF IInv, TypeOK, CodeRows, CodeSane, LocalSane, Minting, Stale, All, revoke
<1>4. \A k \in LoginCodes : LoginSane(k)'
  BY DEF IInv, TypeOK, LoginRows, LoginSane, LocalSane, All, revoke
<1>5. \A q \in Requests : LocalSane(q)'
  BY DEF IInv, TypeOK, CodeRows, LoginRows, Locals, Idle, CodeSane, LoginSane, LocalSane, ScrubbedIsDead,
         Minting, Stale, All, revoke
<1>6. \A q, s \in Requests : Minting(q)' /\ Minting(s)' /\ q # s => req'[q].c # req'[s].c
  BY DEF IInv, TypeOK, CodeRows, Idle, CodeSane, LocalSane, Minting, Stale, revoke
<1> QED
  BY <1>1, <1>2, <1>3, <1>4, <1>5, <1>6 DEF IInv

\* A code's TTL passes.
LEMMA AgeCodeKeeps ==
    ASSUME IInv, NEW c \in Codes, AgeCode(c)
    PROVE  IInv'
<1>1. TypeOK'
  BY CodeUpdates, LoginUpdates, LocalUpdates DEF IInv, TypeOK, AgeCode
<1>2. ScrubbedIsDead'
  BY DEF IInv, TypeOK, CodeRows, ScrubbedIsDead, CodeSane, LocalSane, Stale, All, AgeCode
<1>3. \A k \in Codes : CodeSane(k)'
  BY DEF IInv, TypeOK, CodeRows, CodeSane, LocalSane, Minting, Stale, All, AgeCode
<1>4. \A k \in LoginCodes : LoginSane(k)'
  BY DEF IInv, TypeOK, LoginRows, LoginSane, LocalSane, All, AgeCode
<1>5. \A q \in Requests : LocalSane(q)'
  BY DEF IInv, TypeOK, CodeRows, LoginRows, Locals, Idle, CodeSane, LoginSane, LocalSane, ScrubbedIsDead,
         Minting, Stale, All, AgeCode
<1>6. \A q, s \in Requests : Minting(q)' /\ Minting(s)' /\ q # s => req'[q].c # req'[s].c
  BY DEF IInv, TypeOK, CodeRows, Idle, CodeSane, LocalSane, Minting, Stale, AgeCode
<1> QED
  BY <1>1, <1>2, <1>3, <1>4, <1>5, <1>6 DEF IInv

\* A login code is asked for ...
LEMMA RequestCodeKeeps ==
    ASSUME IInv, NEW r \in Requests, RequestCode(r)
    PROVE  IInv'
<1>1. TypeOK'
  BY CodeUpdates, LoginUpdates, LocalUpdates, GoTypes DEF IInv, TypeOK, RequestCode
<1>2. ScrubbedIsDead'
  BY DEF IInv, TypeOK, CodeRows, ScrubbedIsDead, CodeSane, LocalSane, Stale, All, RequestCode, Go
<1>3. \A k \in Codes : CodeSane(k)'
  BY DEF IInv, TypeOK, CodeRows, CodeSane, LocalSane, Minting, Stale, All, RequestCode, Go
<1>4. \A k \in LoginCodes : LoginSane(k)'
  BY DEF IInv, TypeOK, LoginRows, LoginSane, LocalSane, All, RequestCode, Go
<1>5. \A q \in Requests : LocalSane(q)'
  BY DEF IInv, TypeOK, CodeRows, LoginRows, Locals, Idle, CodeSane, LoginSane, LocalSane, ScrubbedIsDead,
         Minting, Stale, All, RequestCode, Go
<1>6. \A q, s \in Requests : Minting(q)' /\ Minting(s)' /\ q # s => req'[q].c # req'[s].c
  BY DEF IInv, TypeOK, CodeRows, Idle, CodeSane, LocalSane, Minting, Stale, RequestCode, Go
<1> QED
  BY <1>1, <1>2, <1>3, <1>4, <1>5, <1>6 DEF IInv

\* ... and issued.
LEMMA issueKeeps ==
    ASSUME IInv, NEW r \in Requests, issue(r)
    PROVE  IInv'
<1>1. TypeOK'
  <2>1. PICK c \in LoginCodes : login' = [login EXCEPT ![c].row = TRUE]
    BY DEF issue
  <2>2. login[c] \in LoginRows
    BY DEF IInv, TypeOK
  <2>3. login' \in [LoginCodes -> LoginRows]
    BY <2>1, <2>2, LoginUpdates DEF IInv, TypeOK
  <2> QED
    BY <2>3, GoTypes, LocalUpdates DEF IInv, TypeOK, issue
<1>2. ScrubbedIsDead'
  BY DEF IInv, TypeOK, CodeRows, ScrubbedIsDead, CodeSane, LocalSane, Stale, All, issue, Go
<1>3. \A k \in Codes : CodeSane(k)'
  BY DEF IInv, TypeOK, CodeRows, CodeSane, LocalSane, Minting, Stale, All, issue, Go
<1>4. \A k \in LoginCodes : LoginSane(k)'
  BY DEF IInv, TypeOK, LoginRows, LoginSane, LocalSane, All, issue, Go
<1>5. \A q \in Requests : LocalSane(q)'
  BY DEF IInv, TypeOK, CodeRows, LoginRows, Locals, Idle, CodeSane, LoginSane, LocalSane, ScrubbedIsDead,
         Minting, Stale, All, issue, Go
<1>6. \A q, s \in Requests : Minting(q)' /\ Minting(s)' /\ q # s => req'[q].c # req'[s].c
  BY DEF IInv, TypeOK, CodeRows, Idle, CodeSane, LocalSane, Minting, Stale, issue, Go
<1> QED
  BY <1>1, <1>2, <1>3, <1>4, <1>5, <1>6 DEF IInv

\* A verification loads the newest code ...
LEMMA VerifyLoadKeeps ==
    ASSUME IInv, NEW r \in Requests, VerifyLoad(r)
    PROVE  IInv'
<1>1. TypeOK'
  <2>1. PICK l \in Locals : Go(r, l)
    BY LocalUpdates DEF VerifyLoad, Unconsumed, Issued
  <2> QED
    BY <2>1, GoTypes DEF IInv, TypeOK, VerifyLoad
<1>2. ScrubbedIsDead'
  BY DEF IInv, TypeOK, CodeRows, ScrubbedIsDead, CodeSane, LocalSane, Stale, All, VerifyLoad, Go, Unconsumed, Issued
<1>3. \A k \in Codes : CodeSane(k)'
  BY DEF IInv, TypeOK, CodeRows, CodeSane, LocalSane, Minting, Stale, All, VerifyLoad, Go, Unconsumed, Issued
<1>4. \A k \in LoginCodes : LoginSane(k)'
  BY DEF IInv, TypeOK, LoginRows, LoginSane, LocalSane, All, VerifyLoad, Go, Unconsumed, Issued
<1>5. \A q \in Requests : LocalSane(q)'
  BY DEF IInv, TypeOK, CodeRows, LoginRows, Locals, Idle, CodeSane, LoginSane, LocalSane, ScrubbedIsDead,
         Minting, Stale, All, VerifyLoad, Go, Unconsumed, Issued
<1>6. \A q, s \in Requests : Minting(q)' /\ Minting(s)' /\ q # s => req'[q].c # req'[s].c
  BY DEF IInv, TypeOK, CodeRows, Idle, CodeSane, LocalSane, Minting, Stale, VerifyLoad, Go, Unconsumed, Issued
<1> QED
  BY <1>1, <1>2, <1>3, <1>4, <1>5, <1>6 DEF IInv

\* ... takes an attempt ...
LEMMA VerifyAttemptKeeps ==
    ASSUME IInv, NEW r \in Requests, VerifyAttempt(r)
    PROVE  IInv'
<1>1. TypeOK'
  <2>1. req[r] \in Locals /\ login[req[r].c] \in LoginRows
    BY DEF IInv, TypeOK, LocalSane, VerifyAttempt
  <2>2. login' \in [LoginCodes -> LoginRows]
    BY <2>1, LoginUpdates DEF IInv, TypeOK, VerifyAttempt
  <2>3. PICK l \in Locals : Go(r, l)
    BY <2>1, LocalUpdates DEF VerifyAttempt
  <2> QED
    BY <2>2, <2>3, GoTypes DEF IInv, TypeOK, VerifyAttempt
<1>2. ScrubbedIsDead'
  BY DEF IInv, TypeOK, CodeRows, ScrubbedIsDead, CodeSane, LocalSane, Stale, All, VerifyAttempt, Go
<1>3. \A k \in Codes : CodeSane(k)'
  BY DEF IInv, TypeOK, CodeRows, CodeSane, LocalSane, Minting, Stale, All, VerifyAttempt, Go
<1>4. \A k \in LoginCodes : LoginSane(k)'
  <2> SUFFICES ASSUME NEW k \in LoginCodes PROVE LoginSane(k)'
    OBVIOUS
  <2>1. login \in [LoginCodes -> LoginRows] /\ LoginSane(k) /\ LocalSane(r) /\ req[r].pc = "attempt"
    BY DEF IInv, TypeOK, VerifyAttempt
  <2>2. login[req[r].c].row
    BY <2>1 DEF LocalSane
  <2>3. given'[k] = given[k]
    BY DEF VerifyAttempt
  <2>4. CASE k # req[r].c
    <3>1. login'[k] = login[k]
      BY <2>1, <2>4 DEF VerifyAttempt
    <3> QED BY <2>1, <2>3, <3>1 DEF LoginSane
  <2>5. CASE k = req[r].c
    <3>1. login[k] \in LoginRows /\ login[k].row
      BY <2>1, <2>2, <2>5
    <3>2. login'[k] = login[k] \/ login'[k] = [login[k] EXCEPT !.attempts = @ + 1]
      BY <2>1, <2>5 DEF VerifyAttempt
    <3>3. (login'[k].row <=> login[k].row) /\ (login'[k].consumed <=> login[k].consumed)
      BY <3>1, <3>2 DEF LoginRows
    <3> QED BY <2>1, <2>3, <3>1, <3>3 DEF LoginSane
  <2> QED BY <2>4, <2>5
<1>5. \A q \in Requests : LocalSane(q)'
  <2>1. req[r] \in Locals /\ req[r].pc = "attempt"
    BY DEF IInv, TypeOK, VerifyAttempt
  <2>2. PICK l \in Locals : Go(r, l) /\ (l = Idle \/ l = [req[r] EXCEPT !.pc = "check"])
    BY <2>1, LocalUpdates DEF VerifyAttempt
  <2>3. req'[r] = l /\ \A q \in Requests : q # r => req'[q] = req[q]
    BY <2>2, GoTypes DEF IInv
  <2>4. (l.c = req[r].c /\ l.pc = "check") \/ l = Idle
    BY <2>1, <2>2 DEF Locals
  <2>5. \A c \in LoginCodes : (login'[c].row <=> login[c].row)
    BY DEF IInv, TypeOK, VerifyAttempt, LoginRows
  <2> QED
    BY <2>1, <2>3, <2>4, <2>5 DEF IInv, LocalSane, Minting, Idle, VerifyAttempt, Stale
<1>6. \A q, s \in Requests : Minting(q)' /\ Minting(s)' /\ q # s => req'[q].c # req'[s].c
  <2>1. req[r] \in Locals /\ req[r].pc = "attempt"
    BY DEF IInv, TypeOK, VerifyAttempt
  <2>2. PICK l \in Locals : Go(r, l) /\ (l = Idle \/ l = [req[r] EXCEPT !.pc = "check"])
    BY <2>1, LocalUpdates DEF VerifyAttempt
  <2>3. req'[r] = l /\ \A q \in Requests : q # r => req'[q] = req[q]
    BY <2>2, GoTypes DEF IInv
  <2>4. l.pc \in {"check", "idle"}
    BY <2>1, <2>2 DEF Idle, Locals
  <2> QED
    BY <2>3, <2>4 DEF IInv, Minting, Idle
<1> QED
  BY <1>1, <1>2, <1>3, <1>4, <1>5, <1>6 DEF IInv

\* ... and consumes it.
LEMMA VerifyConsumeKeeps ==
    ASSUME IInv, NEW r \in Requests, NEW right \in BOOLEAN, VerifyConsume(r, right)
    PROVE  IInv'
<1>1. TypeOK'
  <2>1. login[req[r].c] \in LoginRows /\ req[r].c \in All
    BY DEF IInv, TypeOK, LocalSane, VerifyConsume, All
  <2>2. login' \in [LoginCodes -> LoginRows]
    BY <2>1, LoginUpdates DEF IInv, TypeOK, VerifyConsume
  <2>3. req' \in [Requests -> Locals] /\ given' \in [All -> Nat]
    BY <2>1, GoTypes, GiveTypes, LocalUpdates DEF IInv, TypeOK, VerifyConsume
  <2> QED
    BY <2>2, <2>3 DEF IInv, TypeOK, VerifyConsume
<1>2. ScrubbedIsDead'
  BY DEF IInv, TypeOK, CodeRows, ScrubbedIsDead, CodeSane, LocalSane, Stale, All, VerifyConsume, Go, Give
<1>3. \A k \in Codes : CodeSane(k)'
  BY DEF IInv, TypeOK, CodeRows, CodeSane, LocalSane, Minting, Stale, All, VerifyConsume, Go, Give
<1>4. \A k \in LoginCodes : LoginSane(k)'
  BY DEF IInv, TypeOK, LoginRows, LoginSane, LocalSane, All, VerifyConsume, Go, Give
<1>5. \A q \in Requests : LocalSane(q)'
  <2>1. req'[r] = Idle /\ \A q \in Requests : q # r => req'[q] = req[q]
    BY GoTypes, LocalUpdates DEF IInv, VerifyConsume
  <2>2. \A c \in LoginCodes : (login'[c].row <=> login[c].row)
    BY DEF IInv, TypeOK, VerifyConsume, LoginRows
  <2> QED
    BY <2>1, <2>2 DEF IInv, LocalSane, Minting, Idle, VerifyConsume, Stale
<1>6. \A q, s \in Requests : Minting(q)' /\ Minting(s)' /\ q # s => req'[q].c # req'[s].c
  BY DEF IInv, TypeOK, CodeRows, Idle, CodeSane, LocalSane, Minting, Stale, VerifyConsume, Go, Give
<1> QED
  BY <1>1, <1>2, <1>3, <1>4, <1>5, <1>6 DEF IInv

\* A code is a minute old.
LEMMA MinuteKeeps ==
    ASSUME IInv, NEW c \in LoginCodes, Minute(c)
    PROVE  IInv'
<1>1. TypeOK'
  BY CodeUpdates, LoginUpdates, LocalUpdates DEF IInv, TypeOK, Minute
<1>2. ScrubbedIsDead'
  BY DEF IInv, TypeOK, CodeRows, ScrubbedIsDead, CodeSane, LocalSane, Stale, All, Minute
<1>3. \A k \in Codes : CodeSane(k)'
  BY DEF IInv, TypeOK, CodeRows, CodeSane, LocalSane, Minting, Stale, All, Minute
<1>4. \A k \in LoginCodes : LoginSane(k)'
  BY DEF IInv, TypeOK, LoginRows, LoginSane, LocalSane, All, Minute
<1>5. \A q \in Requests : LocalSane(q)'
  BY DEF IInv, TypeOK, CodeRows, LoginRows, Locals, Idle, CodeSane, LoginSane, LocalSane, ScrubbedIsDead,
         Minting, Stale, All, Minute
<1>6. \A q, s \in Requests : Minting(q)' /\ Minting(s)' /\ q # s => req'[q].c # req'[s].c
  BY DEF IInv, TypeOK, CodeRows, Idle, CodeSane, LocalSane, Minting, Stale, Minute
<1> QED
  BY <1>1, <1>2, <1>3, <1>4, <1>5, <1>6 DEF IInv

\* A code expires.
LEMMA ExpireLoginKeeps ==
    ASSUME IInv, NEW c \in LoginCodes, ExpireLogin(c)
    PROVE  IInv'
<1>1. TypeOK'
  BY CodeUpdates, LoginUpdates, LocalUpdates DEF IInv, TypeOK, ExpireLogin
<1>2. ScrubbedIsDead'
  BY DEF IInv, TypeOK, CodeRows, ScrubbedIsDead, CodeSane, LocalSane, Stale, All, ExpireLogin
<1>3. \A k \in Codes : CodeSane(k)'
  BY DEF IInv, TypeOK, CodeRows, CodeSane, LocalSane, Minting, Stale, All, ExpireLogin
<1>4. \A k \in LoginCodes : LoginSane(k)'
  BY DEF IInv, TypeOK, LoginRows, LoginSane, LocalSane, All, ExpireLogin
<1>5. \A q \in Requests : LocalSane(q)'
  BY DEF IInv, TypeOK, CodeRows, LoginRows, Locals, Idle, CodeSane, LoginSane, LocalSane, ScrubbedIsDead,
         Minting, Stale, All, ExpireLogin
<1>6. \A q, s \in Requests : Minting(q)' /\ Minting(s)' /\ q # s => req'[q].c # req'[s].c
  BY DEF IInv, TypeOK, CodeRows, Idle, CodeSane, LocalSane, Minting, Stale, ExpireLogin
<1> QED
  BY <1>1, <1>2, <1>3, <1>4, <1>5, <1>6 DEF IInv

----------------------------------------------------------------------------
(* The inductive invariant, and what follows from it.                      *)

LEMMA InitInv == Init => IInv
<1> SUFFICES ASSUME Init PROVE IInv
  OBVIOUS
<1>1. \A r \in Requests : req[r] = Idle
  BY DEF Init
<1>2. \A r \in Requests : LocalSane(r) /\ ~Minting(r)
  BY <1>1 DEF LocalSane, Minting, Idle
<1>3. ScrubbedIsDead /\ (\A c \in Codes : CodeSane(c)) /\ (\A c \in LoginCodes : LoginSane(c))
  BY DEF Init, ScrubbedIsDead, CodeSane, LoginSane, All
<1> QED
  BY <1>2, <1>3, TypeInit DEF IInv

LEMMA StepInv == IInv /\ [Next]_crVars => IInv'
<1> SUFFICES ASSUME IInv, [Next]_crVars PROVE IInv'
  OBVIOUS
<1>1. CASE CodesNext
  BY <1>1, AuthorizeViewKeeps, AuthorizeIssueKeeps, TokenReadKeeps, TokenClaimKeeps,
     SweepListKeeps, SweepTokensKeeps, expire_unredeemed_codesKeeps, revokeKeeps, AgeCodeKeeps
     DEF CodesNext
<1>2. CASE LoginNext
  BY <1>2, RequestCodeKeeps, issueKeeps, VerifyLoadKeeps, VerifyAttemptKeeps,
     VerifyConsumeKeeps, MinuteKeeps, ExpireLoginKeeps DEF LoginNext
<1>3. CASE UNCHANGED crVars
  BY <1>3 DEF crVars, IInv, TypeOK, ScrubbedIsDead, CodeSane, LoginSane, LocalSane, Minting, Stale
<1> QED
  BY <1>1, <1>2, <1>3 DEF Next

\* Whatever codes, requests and sweeps there are, the inductive invariant holds.
THEOREM InvariantHolds == Spec => []IInv
BY InitInv, StepInv, PTL DEF Spec

\* Every variable keeps its type.
THEOREM TypeCorrect == Spec => []TypeOK
<1>1. IInv => TypeOK
  BY DEF IInv
<1> QED
  BY <1>1, InvariantHolds, PTL

\* However redemptions and sweeps interleave, a key that was scrubbed unredeemed belongs
\* to a token that is dead.
THEOREM ScrubbedKeyIsDead == Spec => []ScrubbedIsDead
<1>1. IInv => ScrubbedIsDead
  BY DEF IInv
<1> QED
  BY <1>1, InvariantHolds, PTL

----------------------------------------------------------------------------
(* Refinement: what a step does to the standing of the codes.              *)

Attempts(c) == IF c \in Codes THEN 0 ELSE login[c].attempts

\* Nothing is handed out and no attempt is taken: codes keep their standing or become void.
LEMMA VoidsOrStutters ==
    ASSUME given' = given, \A c \in LoginCodes : login'[c].attempts = login[c].attempts,
           \A c \in All : \/ Standing(c)' = Standing(c)
                          \/ Standing(c) \in {"open", "granted"} /\ Standing(c)' = "void"
    PROVE  [Abstract!Next]_(Abstract!ocVars)
<1> DEFINE C == {c \in All : Standing(c)' # Standing(c)}
<1>1. [c \in All |-> IF c \in Codes THEN 0 ELSE login[c].attempts]'
        = [c \in All |-> IF c \in Codes THEN 0 ELSE login[c].attempts]
  BY DEF All
<1>2. CASE C = {}
  <2>1. [c \in All |-> Standing(c)]' = [c \in All |-> Standing(c)]
    BY <1>2
  <2> QED
    BY <1>1, <2>1 DEF Abstract!ocVars
<1>3. CASE C # {}
  <2> DEFINE st == [c \in All |-> Standing(c)]
  <2>1. \A c \in C : st[c] \in {"open", "granted"}
    OBVIOUS
  <2>2. st' = [c \in All |-> IF c \in C THEN "void" ELSE st[c]]
    OBVIOUS
  <2>3. C \in SUBSET All
    OBVIOUS
  <2>4. Abstract!Void(C)
    BY <1>1, <2>1, <2>2 DEF Abstract!Void
  <2> QED
    BY <1>3, <2>3, <2>4 DEF Abstract!Next
<1> QED
  BY <1>2, <1>3

\* A code is issued.
LEMMA Issues ==
    ASSUME NEW k \in All, given' = given,
           \A c \in LoginCodes : login'[c].attempts = login[c].attempts,
           Standing(k) = "unissued", Standing(k)' \in {"open", "void"},
           \A c \in All : c # k => Standing(c)' = Standing(c)
    PROVE  Abstract!Next
<1>1. [c \in All |-> IF c \in Codes THEN 0 ELSE login[c].attempts]'
        = [c \in All |-> IF c \in Codes THEN 0 ELSE login[c].attempts]
  BY DEF All
<1>2. PICK s \in {"open", "void"} :
         [c \in All |-> Standing(c)]' = [[c \in All |-> Standing(c)] EXCEPT ![k] = s]
  OBVIOUS
<1>3. Abstract!Issue(k)
  BY <1>1, <1>2 DEF Abstract!Issue
<1> QED
  BY <1>3 DEF Abstract!Next

\* A secret is handed out, of a code that is open or of one that is void.
LEMMA Grants ==
    ASSUME TypeOK, NEW k \in All, Give(k), given[k] = 0,
           \A c \in LoginCodes : login'[c].attempts = login[c].attempts,
           \/ Standing(k) = "open" /\ Standing(k)' = "granted"
           \/ Standing(k) = "void" /\ Standing(k)' = "void",
           \A c \in All : c # k => Standing(c)' = Standing(c)
    PROVE  Abstract!Next
<1>1. [c \in All |-> IF c \in Codes THEN 0 ELSE login[c].attempts]'
        = [c \in All |-> IF c \in Codes THEN 0 ELSE login[c].attempts]
  BY DEF All
<1>2. given' = [given EXCEPT ![k] = 1]
  BY DEF Give, TypeOK
<1>3. CASE Standing(k) = "open" /\ Standing(k)' = "granted"
  <2>1. [c \in All |-> Standing(c)]' = [[c \in All |-> Standing(c)] EXCEPT ![k] = "granted"]
    BY <1>3
  <2>2. Abstract!Grant(k)
    BY <1>1, <1>2, <1>3, <2>1 DEF Abstract!Grant
  <2> QED
    BY <2>2 DEF Abstract!Next
<1>4. CASE Standing(k) = "void" /\ Standing(k)' = "void"
  <2>1. [c \in All |-> Standing(c)]' = [c \in All |-> Standing(c)]
    BY <1>4
  <2>2. Abstract!HandDead(k)
    BY <1>1, <1>2, <1>4, <2>1 DEF Abstract!HandDead
  <2> QED
    BY <2>2 DEF Abstract!Next
<1> QED
  BY <1>3, <1>4

\* An attempt is taken at an open login code.
LEMMA Tries ==
    ASSUME TypeOK, NEW k \in LoginCodes, given' = given, Standing(k) = "open",
           login[k].attempts < MaxAttempts,
           login' = [login EXCEPT ![k].attempts = @ + 1],
           \A c \in All : Standing(c)' = Standing(c)
    PROVE  Abstract!Next
<1> DEFINE tr == [c \in All |-> IF c \in Codes THEN 0 ELSE login[c].attempts]
<1>1. k \in All /\ k \notin Codes
  BY DEF All
<1>2. \A c \in LoginCodes : login'[c].attempts = IF c = k THEN login[c].attempts + 1 ELSE login[c].attempts
  BY DEF TypeOK, LoginRows
<1>3. tr' = [tr EXCEPT ![k] = @ + 1]
  BY <1>1, <1>2 DEF All
<1>4. [c \in All |-> Standing(c)]' = [c \in All |-> Standing(c)]
  OBVIOUS
<1>5. Abstract!Try(k)
  BY <1>1, <1>3, <1>4 DEF Abstract!Try
<1> QED
  BY <1>1, <1>5 DEF Abstract!Next

----------------------------------------------------------------------------
(* Refinement: every step is a step of OneTimeCode or a stutter.           *)

\* Where the requests that start stand.
LEMMA StartingPcs ==
    /\ Idle.pc = "idle"
    /\ [Idle EXCEPT !.pc = "mail"].pc = "mail" /\ [Idle EXCEPT !.pc = "sweep"].pc = "sweep"
    /\ \A c \in Codes : [Idle EXCEPT !.pc = "sweep", !.c = c, !.then = "issue"].pc = "sweep"
    /\ \A c \in Codes, k \in BOOLEAN : [Idle EXCEPT !.pc = "claim", !.c = c, !.key = k].pc = "claim"
    /\ \A c \in LoginCodes : [Idle EXCEPT !.pc = "attempt", !.c = c].pc = "attempt"
BY DEF Idle

\* The standing of a login code.
LEMMA LoginStanding ==
    ASSUME NEW c \in LoginCodes
    PROVE  /\ ~login[c].row => Standing(c) = "unissued"
           /\ login[c].row /\ login[c].consumed => Standing(c) = "granted"
           /\ login[c].row /\ ~login[c].consumed /\ (is_live(c) \/ Admitted(c)) => Standing(c) = "open"
           /\ login[c].row /\ ~login[c].consumed /\ ~is_live(c) /\ ~Admitted(c) => Standing(c) = "void"
BY DEF Standing

LEMMA LoginStandingNext ==
    ASSUME NEW c \in LoginCodes
    PROVE  /\ ~login'[c].row => Standing(c)' = "unissued"
           /\ login'[c].row /\ login'[c].consumed => Standing(c)' = "granted"
           /\ login'[c].row /\ ~login'[c].consumed /\ (is_live(c)' \/ Admitted(c)') => Standing(c)' = "open"
           /\ login'[c].row /\ ~login'[c].consumed /\ ~is_live(c)' /\ ~Admitted(c)' => Standing(c)' = "void"
BY DEF Standing

\* A request that neither comes to an admitted attempt nor leaves one.
LEMMA NoAttempt ==
    ASSUME TypeOK, NEW r \in Requests, NEW l \in Locals, Go(r, l),
           req[r].pc # "check", l.pc # "check"
    PROVE  \A c \in LoginCodes : Admitted(c)' <=> Admitted(c)
BY GoTypes DEF Admitted

\* What a redemption or a sweep does to codes, login codes do not notice ...
LEMMA LoginCodesRest ==
    ASSUME login' = login, \A c \in LoginCodes : given'[c] = given[c],
           \A c \in LoginCodes : Admitted(c)' <=> Admitted(c)
    PROVE  /\ \A c \in LoginCodes : Standing(c)' = Standing(c)
           /\ \A c \in LoginCodes : login'[c].attempts = login[c].attempts
BY DEF Standing, is_live

\* ... nor codes what a sign-in does.
LEMMA CodesRest ==
    ASSUME code' = code, token' = token, \A c \in Codes : given'[c] = given[c]
    PROVE  \A c \in Codes : Standing(c)' = Standing(c)
BY DEF Standing

\* Consent that mints, a redemption that reads and a sweep that lists or blanks: nothing is
\* worth more or less than before.
LEMMA QuietStepsRefine ==
    ASSUME IInv, NEW r \in Requests,
           \/ \E c \in Codes : AuthorizeView(r, c) \/ TokenRead(r, c)
           \/ SweepList(r) \/ expire_unredeemed_codes(r)
    PROVE  [Abstract!Next]_(Abstract!ocVars)
<1>1. TypeOK /\ IInv' /\ TypeOK'
  BY AuthorizeViewKeeps, TokenReadKeeps, SweepListKeeps,
     expire_unredeemed_codesKeeps DEF IInv
<1>2. PICK l \in Locals : Go(r, l) /\ l.pc # "check" /\ req[r].pc # "check"
  <2>1. CASE \E c \in Codes : AuthorizeView(r, c)
    BY <2>1, LocalUpdates, StartingPcs DEF AuthorizeView
  <2>2. CASE \E c \in Codes : TokenRead(r, c)
    <3>1. PICK c \in Codes : TokenRead(r, c) /\ code[c].key \in BOOLEAN
      BY <1>1, <2>2 DEF TypeOK, CodeRows
    <3> QED
      BY <3>1, LocalUpdates, StartingPcs DEF TokenRead
  <2>3. CASE SweepList(r)
    <3>1. req[r] \in Locals /\ req[r].then # "check" /\ req[r].pc = "sweep"
      BY <1>1, <2>3 DEF TypeOK, Locals, SweepList
    <3>2. [req[r] EXCEPT !.pc = req[r].then].pc # "check"
      BY <3>1 DEF Locals
    <3>3. \A old, ids \in SUBSET Codes : [req[r] EXCEPT !.pc = "kill", !.old = old, !.ids = ids].pc # "check"
      BY <3>1 DEF Locals
    <3>4. {c \in Codes : code[c].aged} \in SUBSET Codes /\ Stale({c \in Codes : code[c].aged}) \in SUBSET Codes
      BY DEF Stale
    <3> QED
      BY <2>3, <3>1, <3>2, <3>3, <3>4, LocalUpdates DEF SweepList
  <2>4. CASE expire_unredeemed_codes(r)
    <3>1. req[r] \in Locals /\ req[r].then # "check"
      BY <1>1 DEF TypeOK, Locals
    <3> QED
      BY <2>4, <3>1, LocalUpdates DEF expire_unredeemed_codes, Idle
  <2> QED
    BY <2>1, <2>2, <2>3, <2>4
<1>3. login' = login /\ given' = given
  BY DEF AuthorizeView, TokenRead, SweepList, expire_unredeemed_codes
<1>4. \A c \in Codes : code'[c].row = code[c].row
  <2>1. CASE expire_unredeemed_codes(r)
    BY <1>1, <2>1 DEF expire_unredeemed_codes, TypeOK, CodeRows
  <2> QED
    BY <2>1 DEF AuthorizeView, TokenRead, SweepList
<1>5. \A c \in Codes : code[c].row => token'[c] = token[c]
  <2>1. CASE \E c \in Codes : AuthorizeView(r, c)
    BY <1>1, <2>1 DEF AuthorizeView, TypeOK, IInv, CodeSane
  <2> QED
    BY <2>1 DEF TokenRead, SweepList, expire_unredeemed_codes
<1>6. \A c \in Codes : Standing(c)' = Standing(c)
  BY <1>3, <1>4, <1>5 DEF Standing
<1> QED
  BY <1>1, <1>2, <1>3, <1>6, NoAttempt, LoginCodesRest, VoidsOrStutters DEF All

\* A code's TTL passes: so far that voids nothing.
LEMMA AgeCodeRefines ==
    ASSUME IInv, NEW k \in Codes, AgeCode(k)
    PROVE  [Abstract!Next]_(Abstract!ocVars)
<1>1. \A c \in Codes : code'[c].row <=> code[c].row
  BY DEF AgeCode, IInv, TypeOK, CodeRows
<1>2. \A c \in All : Standing(c)' = Standing(c)
  BY <1>1 DEF AgeCode, Standing, is_live, Admitted, All
<1> QED
  BY <1>2, VoidsOrStutters DEF AgeCode

\* The code row is written: the code is open, unless its token was revoked meanwhile.
LEMMA AuthorizeIssueRefines ==
    ASSUME IInv, NEW r \in Requests, AuthorizeIssue(r)
    PROVE  [Abstract!Next]_(Abstract!ocVars)
<1> PICK k \in All : k = req[r].c
  BY DEF IInv, LocalSane, Minting, AuthorizeIssue, All
<1>1. k \in Codes /\ k \in All /\ token[k] # "none" /\ ~code[k].row /\ given[k] = 0
  BY DEF IInv, LocalSane, Minting, CodeSane, AuthorizeIssue, All
<1>2. \A c \in LoginCodes : Admitted(c)' <=> Admitted(c)
  BY NoAttempt, LocalUpdates DEF IInv, AuthorizeIssue, Idle
<1>3. login' = login /\ given' = given /\ token' = token
  BY DEF AuthorizeIssue
<1>4. Standing(k) = "unissued" /\ Standing(k)' \in {"open", "void"}
  BY <1>1, <1>3 DEF Standing, AuthorizeIssue, IInv, TypeOK
<1>5. \A c \in Codes : c # k => Standing(c)' = Standing(c)
  BY <1>3 DEF Standing, AuthorizeIssue, IInv, TypeOK
<1> QED
  BY <1>1, <1>2, <1>3, <1>4, <1>5, LoginCodesRest, Issues DEF All

\* A claim that wins hands the key out, if it has read one; one that loses does nothing.
LEMMA TokenClaimRefines ==
    ASSUME IInv, NEW r \in Requests, TokenClaim(r)
    PROVE  [Abstract!Next]_(Abstract!ocVars)
<1> PICK k \in All : k = req[r].c
  BY DEF IInv, LocalSane, TokenClaim, All
<1>1. k \in Codes /\ k \in All /\ code[k].row /\ token[k] # "none"
  BY DEF IInv, LocalSane, CodeSane, TokenClaim, All
<1>2. \A c \in LoginCodes : Admitted(c)' <=> Admitted(c)
  BY NoAttempt, LocalUpdates DEF IInv, TokenClaim, Idle
<1>3. login' = login /\ token' = token
  BY DEF TokenClaim
<1>4. \A c \in Codes : code'[c].row <=> code[c].row
  BY DEF TokenClaim, IInv, TypeOK, CodeRows
<1>5. CASE ~code[k].used /\ req[r].key
  <2>1. Give(k) /\ given[k] = 0
    BY <1>1, <1>5 DEF TokenClaim, IInv, CodeSane
  <2>2. given'[k] = 1 /\ \A c \in All : c # k => given'[c] = given[c]
    BY <1>1, <2>1, GiveTypes DEF IInv
  <2>3. \A c \in Codes : c # k => Standing(c)' = Standing(c)
    BY <1>3, <1>4, <2>2 DEF Standing, All
  <2>4. \/ Standing(k) = "open" /\ Standing(k)' = "granted"
        \/ Standing(k) = "void" /\ Standing(k)' = "void"
    BY <1>1, <1>3, <1>4, <2>1, <2>2 DEF Standing
  <2>5. \A c \in LoginCodes : c # k
    BY <1>1
  <2> QED
    BY <1>1, <1>2, <1>3, <2>1, <2>2, <2>3, <2>4, <2>5, LoginCodesRest, Grants DEF All, IInv
<1>6. CASE code[k].used \/ ~req[r].key
  <2>1. given' = given
    BY <1>6 DEF TokenClaim
  <2>2. \A c \in Codes : Standing(c)' = Standing(c)
    BY <1>3, <1>4, <2>1 DEF Standing
  <2> QED
    BY <1>2, <1>3, <2>1, <2>2, LoginCodesRest, VoidsOrStutters DEF All
<1> QED
  BY <1>5, <1>6 DEF IInv, TypeOK, CodeRows, Locals

\* A token deactivated by a sweep or revoked voids its code.
LEMMA DeactivationsRefine ==
    ASSUME IInv, \/ \E r \in Requests : SweepTokens(r)
                 \/ \E c \in Codes : revoke(c)
    PROVE  [Abstract!Next]_(Abstract!ocVars)
<1>1. \A c \in LoginCodes : Admitted(c)' <=> Admitted(c)
  <2>1. CASE \E r \in Requests : SweepTokens(r)
    <3>1. PICK r \in Requests : SweepTokens(r)
      BY <2>1
    <3>2. req[r] \in Locals /\ req[r].pc = "kill" /\ Go(r, [req[r] EXCEPT !.pc = "blank"])
      BY <3>1 DEF SweepTokens, IInv, TypeOK
    <3>3. [req[r] EXCEPT !.pc = "blank"] \in Locals
      BY <3>2, LocalUpdates
    <3>4. [req[r] EXCEPT !.pc = "blank"].pc # "check"
      BY <3>2 DEF Locals
    <3> QED
      BY <3>2, <3>3, <3>4, NoAttempt DEF IInv
  <2>2. CASE \E c \in Codes : revoke(c)
    BY <2>2 DEF revoke, Admitted
  <2> QED BY <2>1, <2>2
<1>2. login' = login /\ given' = given /\ code' = code
  BY DEF SweepTokens, revoke
<1>3. \A c \in Codes : token'[c] = token[c] \/ (token'[c] = "inactive" /\ token[c] = "active")
  BY DEF SweepTokens, revoke, IInv, TypeOK, LocalSane
<1>4. \A c \in Codes : \/ Standing(c)' = Standing(c)
                       \/ Standing(c) \in {"open", "granted"} /\ Standing(c)' = "void"
  BY <1>2, <1>3 DEF Standing
<1> QED
  BY <1>1, <1>2, <1>4, LoginCodesRest, VoidsOrStutters DEF All

\* Asking for a login code and loading one change nothing.
LEMMA QuietSignInsRefine ==
    ASSUME IInv, NEW r \in Requests, RequestCode(r) \/ VerifyLoad(r)
    PROVE  [Abstract!Next]_(Abstract!ocVars)
<1>1. code' = code /\ token' = token /\ given' = given /\ login' = login
  BY DEF RequestCode, VerifyLoad
<1>2. PICK l \in Locals : Go(r, l) /\ l.pc # "check" /\ req[r].pc # "check"
  BY LocalUpdates, StartingPcs DEF RequestCode, VerifyLoad, Unconsumed, Issued
<1> QED
  BY <1>1, <1>2, NoAttempt, LoginCodesRest, CodesRest, VoidsOrStutters DEF All, IInv

\* A minute changes no code's standing.
LEMMA MinuteRefines ==
    ASSUME IInv, NEW k \in LoginCodes, Minute(k)
    PROVE  [Abstract!Next]_(Abstract!ocVars)
<1>1. code' = code /\ token' = token /\ given' = given /\ req' = req
  BY DEF Minute
<1>2. \A c \in LoginCodes : /\ (login'[c].row <=> login[c].row) /\ (login'[c].consumed <=> login[c].consumed)
                            /\ login'[c].attempts = login[c].attempts
                            /\ (login'[c].expired <=> login[c].expired)
  BY DEF Minute, IInv, TypeOK, LoginRows
<1>3. \A c \in LoginCodes : Standing(c)' = Standing(c)
  BY <1>1, <1>2 DEF Standing, is_live, Admitted
<1> QED
  BY <1>1, <1>2, <1>3, CodesRest, VoidsOrStutters DEF All

\* A login code is issued: it is open.
LEMMA issueRefines ==
    ASSUME IInv, NEW r \in Requests, issue(r)
    PROVE  [Abstract!Next]_(Abstract!ocVars)
<1>1. code' = code /\ token' = token /\ given' = given
  BY DEF issue
<1>2. PICK k \in LoginCodes : ~login[k].row /\ login' = [login EXCEPT ![k].row = TRUE]
  BY DEF issue
<1>3. \A c \in LoginCodes : Admitted(c)' <=> Admitted(c)
  BY NoAttempt, LocalUpdates DEF IInv, issue, Idle
<1>4. /\ login'[k].row /\ \A c \in LoginCodes : c # k => login'[c] = login[c]
      /\ \A c \in LoginCodes : /\ login'[c].attempts = login[c].attempts
                               /\ (login'[c].consumed <=> login[c].consumed)
                               /\ (login'[c].expired <=> login[c].expired)
  BY <1>2 DEF IInv, TypeOK, LoginRows
<1>5. k \in All /\ k \notin Codes
  BY DEF All
<1>6. Standing(k) = "unissued" /\ Standing(k)' = "open"
  BY <1>2, <1>4, <1>5 DEF Standing, is_live, IInv, LoginSane
<1>7. \A c \in LoginCodes : c # k => Standing(c)' = Standing(c)
  BY <1>1, <1>3, <1>4 DEF Standing, is_live
<1> QED
  BY <1>1, <1>4, <1>5, <1>6, <1>7, CodesRest, Issues DEF All

\* An attempt is taken at a live code, or none is.
LEMMA VerifyAttemptRefines ==
    ASSUME IInv, NEW r \in Requests, VerifyAttempt(r)
    PROVE  [Abstract!Next]_(Abstract!ocVars)
<1> PICK k \in LoginCodes : k = req[r].c
  BY DEF IInv, LocalSane, VerifyAttempt
<1>1. code' = code /\ token' = token /\ given' = given
  BY DEF VerifyAttempt
<1>2. k \in LoginCodes /\ k \notin Codes /\ login[k].row /\ req[r] \in Locals /\ req[r].pc = "attempt"
  BY DEF IInv, TypeOK, LocalSane, VerifyAttempt
<1>3. CASE is_live(k)
  <2> DEFINE l == [req[r] EXCEPT !.pc = "check"]
  <2>1. /\ login' = [login EXCEPT ![k].attempts = @ + 1] /\ Go(r, l)
    BY <1>3 DEF VerifyAttempt
  <2>2. l \in Locals /\ l.pc = "check" /\ l.c = k
    <3>1. l \in Locals
      BY <1>2, LocalUpdates
    <3>2. l.pc = "check" /\ l.c = k
      BY <1>2 DEF Locals
    <3> QED BY <3>1, <3>2
  <2>3. req'[r] = l /\ \A q \in Requests : q # r => req'[q] = req[q]
    <3> HIDE DEF l
    <3> QED
      BY <2>1, <2>2, GoTypes DEF IInv
  <2>4. Admitted(k)' /\ \A c \in LoginCodes : c # k => (Admitted(c)' <=> Admitted(c))
    BY <1>2, <2>2, <2>3 DEF Admitted
  <2>5. \A c \in LoginCodes : /\ (login'[c].row <=> login[c].row) /\ (login'[c].consumed <=> login[c].consumed)
                              /\ (login'[c].expired <=> login[c].expired)
                              /\ c # k => login'[c] = login[c]
    BY <2>1 DEF IInv, TypeOK, LoginRows
  <2>6. Standing(k) = "open" /\ Standing(k)' = "open"
    BY <1>2, <1>3, <2>4, <2>5, LoginStanding, LoginStandingNext DEF is_live
  <2>7. \A c \in LoginCodes : Standing(c)' = Standing(c)
    BY <1>1, <2>4, <2>5, <2>6, LoginStanding, LoginStandingNext DEF is_live
  <2>8. login[k].attempts < MaxAttempts
    BY <1>3 DEF is_live
  <2> QED
    BY <1>1, <1>2, <2>1, <2>6, <2>7, <2>8, CodesRest, Tries DEF All, IInv
<1>4. CASE ~is_live(k)
  <2>1. login' = login /\ Go(r, Idle)
    BY <1>4 DEF VerifyAttempt
  <2>2. \A c \in LoginCodes : Admitted(c)' <=> Admitted(c)
    BY <1>2, <2>1, NoAttempt, LocalUpdates DEF IInv, Idle
  <2> QED
    BY <1>1, <2>1, <2>2, LoginCodesRest, CodesRest, VoidsOrStutters DEF All
<1> QED
  BY <1>3, <1>4

\* An admitted attempt consumes the code, or gives it up.
LEMMA VerifyConsumeRefines ==
    ASSUME IInv, NEW r \in Requests, NEW right \in BOOLEAN, VerifyConsume(r, right)
    PROVE  [Abstract!Next]_(Abstract!ocVars)
<1> PICK k \in LoginCodes : k = req[r].c
  BY DEF IInv, LocalSane, VerifyConsume
<1>1. code' = code /\ token' = token /\ req'[r] = Idle /\ \A q \in Requests : q # r => req'[q] = req[q]
  BY GoTypes, LocalUpdates DEF VerifyConsume, IInv
<1>2. k \in LoginCodes /\ k \notin Codes /\ k \in All /\ login[k].row /\ Admitted(k)
  BY DEF IInv, LocalSane, VerifyConsume, Admitted, All
<1>3. \A c \in LoginCodes : c # k => (Admitted(c)' <=> Admitted(c))
  BY <1>1 DEF Admitted, Idle
<1>4. CASE right /\ ~login[k].consumed
  <2>1. login' = [login EXCEPT ![k].consumed = TRUE] /\ Give(k) /\ given[k] = 0
    BY <1>2, <1>4 DEF VerifyConsume, IInv, LoginSane
  <2>2. \A c \in All : c # k => given'[c] = given[c]
    BY <1>2, <2>1, GiveTypes DEF IInv
  <2>3. /\ login'[k].row /\ login'[k].consumed
        /\ \A c \in LoginCodes : c # k => login'[c] = login[c]
        /\ \A c \in LoginCodes : login'[c].attempts = login[c].attempts
    BY <1>2, <2>1 DEF IInv, TypeOK, LoginRows
  <2>4. Standing(k) = "open" /\ Standing(k)' = "granted"
    BY <1>2, <1>4, <2>3 DEF Standing
  <2>5. \A c \in LoginCodes : c # k => Standing(c)' = Standing(c)
    BY <1>3, <2>3 DEF Standing, is_live
  <2>6. \A c \in Codes : Standing(c)' = Standing(c)
    BY <1>1, <1>2, <2>2, CodesRest DEF All
  <2> QED
    BY <1>2, <2>1, <2>3, <2>4, <2>5, <2>6, Grants DEF All, IInv
<1>5. CASE ~(right /\ ~login[k].consumed)
  <2>1. login' = login /\ given' = given
    BY <1>5 DEF VerifyConsume
  <2>2. \A c \in LoginCodes : \/ Standing(c)' = Standing(c)
                              \/ Standing(c) = "open" /\ Standing(c)' = "void"
    BY <1>2, <1>3, <2>1, LoginStanding, LoginStandingNext DEF is_live
  <2> QED
    BY <1>1, <2>1, <2>2, CodesRest, VoidsOrStutters DEF All
<1> QED
  BY <1>4, <1>5

\* A login code that expires is void, unless it was consumed or an attempt is under way.
LEMMA ExpireLoginRefines ==
    ASSUME IInv, NEW k \in LoginCodes, ExpireLogin(k)
    PROVE  [Abstract!Next]_(Abstract!ocVars)
<1>1. code' = code /\ token' = token /\ given' = given /\ req' = req
  BY DEF ExpireLogin
<1>2. \A c \in LoginCodes : Admitted(c)' <=> Admitted(c)
  BY <1>1 DEF Admitted
<1>3. /\ login'[k].expired /\ \A c \in LoginCodes : c # k => login'[c] = login[c]
      /\ \A c \in LoginCodes : /\ (login'[c].row <=> login[c].row) /\ (login'[c].consumed <=> login[c].consumed)
                               /\ login'[c].attempts = login[c].attempts
  BY DEF ExpireLogin, IInv, TypeOK, LoginRows
<1>4. \A c \in LoginCodes : \/ Standing(c)' = Standing(c)
                            \/ Standing(c) = "open" /\ Standing(c)' = "void"
  BY <1>2, <1>3, LoginStanding, LoginStandingNext DEF is_live
<1> QED
  BY <1>1, <1>3, <1>4, CodesRest, VoidsOrStutters DEF All

LEMMA InitRefines == Init => Abstract!Init
BY DEF Init, Abstract!Init, Standing, All

LEMMA StepRefines == IInv /\ [Next]_crVars => [Abstract!Next]_(Abstract!ocVars)
<1> SUFFICES ASSUME IInv, [Next]_crVars PROVE [Abstract!Next]_(Abstract!ocVars)
  OBVIOUS
<1>1. CASE CodesNext
  <2>1. CASE \E r \in Requests : \E c \in Codes : AuthorizeView(r, c) \/ TokenRead(r, c)
    BY <2>1, QuietStepsRefine
  <2>2. CASE \E r \in Requests : SweepList(r) \/ expire_unredeemed_codes(r)
    BY <2>2, QuietStepsRefine
  <2>3. CASE \E r \in Requests : AuthorizeIssue(r) \/ TokenClaim(r)
    BY <2>3, AuthorizeIssueRefines, TokenClaimRefines
  <2>4. CASE (\E r \in Requests : SweepTokens(r)) \/ (\E c \in Codes : revoke(c))
    BY <2>4, DeactivationsRefine
  <2>5. CASE \E c \in Codes : AgeCode(c)
    BY <2>5, AgeCodeRefines
  <2> QED
    BY <1>1, <2>1, <2>2, <2>3, <2>4, <2>5 DEF CodesNext
<1>2. CASE LoginNext
  BY <1>2, QuietSignInsRefine, MinuteRefines, issueRefines, VerifyAttemptRefines, VerifyConsumeRefines,
     ExpireLoginRefines DEF LoginNext
<1>3. CASE UNCHANGED crVars
  BY <1>3 DEF crVars, Abstract!ocVars, Standing, is_live, Admitted
<1> QED
  BY <1>1, <1>2, <1>3 DEF Next

\* Authorization codes and login codes, with everything that races for them, are one-time
\* codes: every behaviour of Credentials is one of OneTimeCode.
THEOREM CodesAreOneTime == Spec => OneTime
BY InvariantHolds, InitRefines, StepRefines, PTL DEF Spec, OneTime, Abstract!Spec

=============================================================================
