---------------------------- MODULE Credentials ----------------------------
(***************************************************************************)
(* One-time secrets.  OAuth authorization codes (apps/mcp): consent mints  *)
(* a token and a code, the client redeems the code for the token's key,    *)
(* and a sweep, run by both, deactivates the tokens of codes that were     *)
(* never redeemed.  Login codes (apps/accounts): emailed, tried a bounded  *)
(* number of times, consumed by one sign-in.  No request is wrapped in a   *)
(* transaction: each SQL statement is one action.                          *)
(***************************************************************************)
EXTENDS Naturals, FiniteSets

CONSTANTS
    Codes,        \* OAuth codes, each with the token minted for it
    LoginCodes,   \* login codes of one user, in the order 1, 2, ... of issue
    Requests,     \* requests being served
    MaxAttempts,  \* LoginCode.MAX_ATTEMPTS
    HourlyCap     \* SMALLSTACK_LOGIN_CODES_PER_HOUR

ASSUME CodesAssumption == Codes \cap LoginCodes = {} /\ LoginCodes \subseteq Nat
ASSUME BoundsAssumption == MaxAttempts \in Nat \ {0} /\ HourlyCap \in Nat

VARIABLES
    code,     \* OAuthAuthorizationCode: [row, used, key, aged]
    token,    \* its APIToken: "none", "active" or "inactive"
    login,    \* LoginCode: [row, attempts, consumed, expired, young]
    req,      \* request -> program counter and what it has read
    given     \* history: code -> answers that carried its secret

crVars == <<code, token, login, req, given>>

All == Codes \cup LoginCodes
Idle == [pc |-> "idle", c |-> 0, key |-> FALSE, old |-> {}, ids |-> {}, then |-> "idle"]
CodeRows == [row : BOOLEAN, used : BOOLEAN, key : BOOLEAN, aged : BOOLEAN]
LoginRows == [row : BOOLEAN, attempts : Nat, consumed : BOOLEAN, expired : BOOLEAN,
              young : BOOLEAN]
Locals == [pc : {"idle", "sweep", "kill", "blank", "issue", "claim", "mail", "attempt", "check"},
           c : All \cup {0}, key : BOOLEAN, old : SUBSET Codes, ids : SUBSET Codes,
           then : {"idle", "issue"}]

Init ==
    /\ code = [c \in Codes |-> [row |-> FALSE, used |-> FALSE, key |-> FALSE, aged |-> FALSE]]
    /\ token = [c \in Codes |-> "none"]
    /\ login = [c \in LoginCodes |-> [row |-> FALSE, attempts |-> 0, consumed |-> FALSE,
                                      expired |-> FALSE, young |-> TRUE]]
    /\ req = [r \in Requests |-> Idle]
    /\ given = [c \in All |-> 0]

Go(r, l) == req' = [req EXCEPT ![r] = l]
Give(c) == given' = [given EXCEPT ![c] = @ + 1]

(***************************************************************************)
(* OAuth.                                                                  *)
(***************************************************************************)
\* AuthorizeView.post with decision "allow": the token is minted, then the sweep
\* runs, then the code row is written.
AuthorizeView(r, c) ==
    /\ req[r] = Idle /\ token[c] = "none"
    /\ token' = [token EXCEPT ![c] = "active"]
    /\ Go(r, [Idle EXCEPT !.pc = "sweep", !.c = c, !.then = "issue"])
    /\ UNCHANGED <<code, login, given>>

AuthorizeIssue(r) ==
    /\ req[r].pc = "issue"
    /\ code' = [code EXCEPT ![req[r].c] = [row |-> TRUE, used |-> FALSE, key |-> TRUE,
                                           aged |-> FALSE]]
    /\ Go(r, Idle)
    /\ UNCHANGED <<token, login, given>>

\* verify_pkce and the redirect check: the client proves it asked, or not.
verify_pkce == BOOLEAN

\* token(): reads the row and refuses a used code, an aged one (after a sweep) and a
\* wrong verifier; the key it will answer with is the one it has read.
TokenRead(r, c) ==
    /\ req[r] = Idle
    /\ code[c].row
    /\ \E proven \in verify_pkce :
          Go(r, IF code[c].used THEN Idle
                ELSE IF code[c].aged THEN [Idle EXCEPT !.pc = "sweep"]
                ELSE IF ~proven THEN Idle
                ELSE [Idle EXCEPT !.pc = "claim", !.c = c, !.key = code[c].key])
    /\ UNCHANGED <<code, token, login, given>>

\* Variant: the claim is not conditional.
TokenBlind(r) ==
    LET c == req[r].c IN
    /\ req[r].pc = "claim"
    /\ code' = [code EXCEPT ![c].used = TRUE, ![c].key = FALSE]
    /\ IF req[r].key THEN Give(c) ELSE UNCHANGED given
    /\ Go(r, Idle)
    /\ UNCHANGED <<token, login>>

\* ... and claims the code: one UPDATE that also blanks the key.
TokenClaim(r) ==
    LET c == req[r].c IN
    /\ req[r].pc = "claim"
    /\ IF code[c].used THEN UNCHANGED <<code, given>>
       ELSE /\ code' = [code EXCEPT ![c].used = TRUE, ![c].key = FALSE]
            /\ IF req[r].key THEN Give(c) ELSE UNCHANGED given
    /\ Go(r, Idle)
    /\ UNCHANGED <<token, login>>

\* expire_unredeemed_codes: the cutoff is fixed when the query is built.
Stale(old) == {c \in old : code[c].row /\ ~code[c].used /\ code[c].key}

SweepList(r) ==
    /\ req[r].pc = "sweep"
    /\ LET old == {c \in Codes : code[c].aged} IN
       Go(r, IF Stale(old) = {} THEN [req[r] EXCEPT !.pc = req[r].then]
             ELSE [req[r] EXCEPT !.pc = "kill", !.old = old, !.ids = Stale(old)])
    /\ UNCHANGED <<code, token, login, given>>

SweepTokens(r) ==
    /\ req[r].pc = "kill"
    /\ token' = [c \in Codes |-> IF c \in req[r].ids /\ token[c] = "active" THEN "inactive"
                                 ELSE token[c]]
    /\ Go(r, [req[r] EXCEPT !.pc = "blank"])
    /\ UNCHANGED <<code, login, given>>

expire_unredeemed_codes(r) ==
    /\ req[r].pc = "blank"
    /\ code' = [c \in Codes |-> IF c \in Stale(req[r].old) THEN [code[c] EXCEPT !.key = FALSE]
                                ELSE code[c]]
    /\ Go(r, [Idle EXCEPT !.pc = req[r].then, !.c = req[r].c])
    /\ UNCHANGED <<token, login, given>>

\* revoke(), by the client that has the key; from the token manager or a deactivation too,
\* even before the code is written.
revoke(c) ==
    /\ token[c] = "active"
    /\ token' = [token EXCEPT ![c] = "inactive"]
    /\ UNCHANGED <<code, login, req, given>>

AgeCode(c) ==
    /\ code[c].row /\ ~code[c].aged
    /\ code' = [code EXCEPT ![c].aged = TRUE]
    /\ UNCHANGED <<token, login, req, given>>

(***************************************************************************)
(* Login codes.                                                            *)
(***************************************************************************)
Issued == {c \in LoginCodes : login[c].row}
is_live(c) == ~login[c].consumed /\ login[c].attempts < MaxAttempts /\ ~login[c].expired
Unconsumed == {c \in Issued : ~login[c].consumed}

\* PasswordlessLoginView, "request": the throttle and the hourly cap are read ...
RequestCode(r) ==
    /\ req[r] = Idle
    /\ \A c \in Unconsumed : ~login[c].young
    /\ Cardinality(Issued) < HourlyCap
    /\ Go(r, [Idle EXCEPT !.pc = "mail"])
    /\ UNCHANGED <<code, token, login, given>>

\* ... and the code is issued and mailed.
issue(r) ==
    /\ req[r].pc = "mail"
    /\ \E c \in LoginCodes :
          /\ ~login[c].row
          /\ \A d \in LoginCodes : d < c => login[d].row
          /\ login' = [login EXCEPT ![c].row = TRUE]
    /\ Go(r, Idle)
    /\ UNCHANGED <<code, token, given>>

\* "verify": the newest unconsumed code is loaded ...
VerifyLoad(r) ==
    /\ req[r] = Idle
    /\ \E c \in Unconsumed :
          /\ \A d \in Unconsumed : d <= c
          /\ is_live(c)
          /\ Go(r, [Idle EXCEPT !.pc = "attempt", !.c = c])
    /\ UNCHANGED <<code, token, login, given>>

\* ... an attempt is taken by a conditional UPDATE ...
VerifyAttempt(r) ==
    LET c == req[r].c IN
    /\ req[r].pc = "attempt"
    /\ IF is_live(c)
       THEN /\ login' = [login EXCEPT ![c].attempts = @ + 1]
            /\ Go(r, [req[r] EXCEPT !.pc = "check"])
       ELSE Go(r, Idle) /\ UNCHANGED login
    /\ UNCHANGED <<code, token, given>>

\* ... and, if the code typed is right, the row is consumed by another one.
VerifyConsume(r, right) ==
    LET c == req[r].c IN
    /\ req[r].pc = "check"
    /\ IF right /\ ~login[c].consumed
       THEN login' = [login EXCEPT ![c].consumed = TRUE] /\ Give(c)
       ELSE UNCHANGED <<login, given>>
    /\ Go(r, Idle)
    /\ UNCHANGED <<code, token>>

Minute(c) ==
    /\ login[c].row /\ login[c].young
    /\ login' = [login EXCEPT ![c].young = FALSE]
    /\ UNCHANGED <<code, token, req, given>>

ExpireLogin(c) ==
    /\ login[c].row /\ ~login[c].young /\ ~login[c].expired
    /\ login' = [login EXCEPT ![c].expired = TRUE]
    /\ UNCHANGED <<code, token, req, given>>

CodesNext ==
    \/ \E r \in Requests :
          \/ \E c \in Codes : AuthorizeView(r, c) \/ TokenRead(r, c)
          \/ AuthorizeIssue(r) \/ TokenClaim(r)
          \/ SweepList(r) \/ SweepTokens(r) \/ expire_unredeemed_codes(r)
    \/ \E c \in Codes : revoke(c) \/ AgeCode(c)

LoginNext ==
    \/ \E r \in Requests :
          \/ RequestCode(r) \/ issue(r) \/ VerifyLoad(r) \/ VerifyAttempt(r)
          \/ \E right \in BOOLEAN : VerifyConsume(r, right)
    \/ \E c \in LoginCodes : Minute(c) \/ ExpireLogin(c)

Next == CodesNext \/ LoginNext

Spec == Init /\ [][Next]_crVars

(***************************************************************************)
(* Properties.                                                             *)
(***************************************************************************)
Admitted(c) == \E r \in Requests : req[r].pc = "check" /\ req[r].c = c

\* An OAuth code is worth what its token is worth; a login code is open as long as an
\* attempt could still succeed.
Standing(c) ==
    IF c \in Codes
    THEN IF ~code[c].row THEN "unissued"
         ELSE IF token[c] = "inactive" THEN "void"
         ELSE IF given[c] > 0 THEN "granted" ELSE "open"
    ELSE IF ~login[c].row THEN "unissued"
         ELSE IF login[c].consumed THEN "granted"
         ELSE IF is_live(c) \/ Admitted(c) THEN "open" ELSE "void"

Abstract == INSTANCE OneTimeCode WITH
    Code <- All, Tries <- MaxAttempts,
    st <- [c \in All |-> Standing(c)], wins <- given,
    tries <- [c \in All |-> IF c \in Codes THEN 0 ELSE login[c].attempts]

\* Authorization codes and login codes are one-time codes: with redemptions, consents
\* and verifications racing each other and the sweep, across the TTL, each secret is
\* handed out at most once, a dead one opens nothing, and no code is tried more than
\* MAX_ATTEMPTS times.
OneTime == Abstract!Spec

\* Every variable keeps its type.
TypeOK ==
    /\ code \in [Codes -> CodeRows]
    /\ token \in [Codes -> {"none", "active", "inactive"}]
    /\ login \in [LoginCodes -> LoginRows]
    /\ req \in [Requests -> Locals]
    /\ given \in [All -> Nat]

\* A code whose key was scrubbed unredeemed leaves no live token behind that nobody
\* holds the key of.
ScrubbedIsDead ==
    \A c \in Codes : code[c].row /\ ~code[c].key /\ given[c] = 0 => token[c] = "inactive"

(***************************************************************************)
(* The inductive invariant behind them.                                    *)
(***************************************************************************)
\* A secret that was not claimed was not handed out; a code that is not there yet was
\* neither used nor aged, and has a token only while consent is on its way to issue it.
CodeSane(c) ==
    /\ code[c].used \/ given[c] = 0
    /\ ~code[c].row => ~code[c].used /\ ~code[c].aged
    /\ token[c] = "none" => ~code[c].row

LoginSane(c) ==
    /\ login[c].consumed \/ given[c] = 0
    /\ ~login[c].row => login[c].attempts = 0 /\ ~login[c].consumed /\ ~login[c].expired

\* A consent that has minted its token and will issue the code.
Minting(r) ==
    \/ req[r].pc = "issue"
    \/ req[r].pc \in {"sweep", "kill", "blank"} /\ req[r].then = "issue"

\* What a request has read is still so, or can no longer matter.
LocalSane(r) ==
    LET q == req[r] IN
    /\ Minting(r) => q.c \in Codes /\ token[q.c] # "none" /\ ~code[q.c].row
    /\ q.pc \in {"kill", "blank"} =>
          /\ \A c \in q.old : code[c].aged
          /\ \A c \in q.ids : code[c].row
          /\ Stale(q.old) \subseteq q.ids
    /\ q.pc = "blank" => \A c \in q.ids : token[c] = "inactive"
    /\ q.pc = "claim" => q.c \in Codes /\ code[q.c].row /\ (q.key \/ token[q.c] = "inactive")
    /\ q.pc \in {"attempt", "check"} => q.c \in LoginCodes /\ login[q.c].row

IInv ==
    /\ TypeOK /\ ScrubbedIsDead
    /\ \A c \in Codes : CodeSane(c)
    /\ \A c \in LoginCodes : LoginSane(c)
    /\ \A r \in Requests : LocalSane(r)
    /\ \A r, s \in Requests : Minting(r) /\ Minting(s) /\ r # s => req[r].c # req[s].c
=============================================================================
