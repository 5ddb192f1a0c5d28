------------------------------ MODULE Accounts ------------------------------
(***************************************************************************)
(* Users and their API tokens (apps/accounts, apps/usermanager,            *)
(* apps/tokenmgr, the auth endpoints of apps/smallstack/api.py).  A        *)
(* request loads its own user, and the rows it will change, into memory    *)
(* first and writes them later: columns named in update_fields, or the     *)
(* whole row, the deleted row included, when a form saves its instance.    *)
(***************************************************************************)
EXTENDS Naturals, FiniteSets

CONSTANTS
    Users,      \* user rows, created or not
    Admins,     \* the superusers the site starts with
    Tokens,     \* token rows, created or not; ids are not reused
    Levels,     \* the access levels in use, of "auth", "staff" and "readonly"
    Requests    \* requests being served

VARIABLES
    user,       \* accounts.User: [row, active, staff, super, usable]; born: the id was given out
    token,      \* APIToken: [row, owner, type, level, active, expired]
    job         \* request -> program counter and the rows it has in memory

acVars == <<user, token, job>>

NoUser == [row |-> FALSE, born |-> FALSE, active |-> FALSE, staff |-> FALSE, super |-> FALSE,
           usable |-> FALSE]
NoToken == [row |-> FALSE, owner |-> CHOOSE u \in Users : TRUE, type |-> "manual",
            level |-> "readonly", active |-> FALSE, expired |-> FALSE]
NoLevel == "blank"   \* the empty access_level, which login tokens have
AtRest == [pc |-> "rest"]

Init ==
    /\ user = [u \in Users |->
          IF u \in Admins THEN [row |-> TRUE, born |-> TRUE, active |-> TRUE, staff |-> TRUE,
                                super |-> TRUE, usable |-> TRUE]
          ELSE NoUser]
    /\ token = [t \in Tokens |-> NoToken]
    /\ job = [r \in Requests |-> AtRest]

Set(r, j) == job' = [job EXCEPT ![r] = j]
Done(r) == Set(r, AtRest)

(***************************************************************************)
(* Who is asking.  The copy of the user row lives as long as the request.  *)
(***************************************************************************)
\* APIToken.rejection_reason
rejection_reason(t) ==
    IF ~token[t].active THEN "revoked"
    ELSE IF token[t].expired THEN "expired"
    ELSE IF ~user[token[t].owner].active THEN "user_inactive"
    ELSE "none"

\* APIToken.authenticate, with the key the row holds.
authenticate(t) == token[t].row /\ rejection_reason(t) = "none"

\* _authenticate_api_request: a bearer token, else the session's user.
Bearer(r, t) ==
    /\ job[r] = AtRest /\ authenticate(t)
    /\ Set(r, [pc |-> "api", t |-> t, me |-> token[t].owner, was |-> user[token[t].owner]])
    /\ UNCHANGED <<user, token>>

Session(r, u) ==
    /\ job[r] = AtRest /\ user[u].row /\ user[u].active
    /\ Set(r, [pc |-> "web", me |-> u, was |-> user[u]])
    /\ UNCHANGED <<user, token>>

\* _require_auth_token
require_auth_token(r) == token[job[r].t].type = "manual" /\ token[job[r].t].level = "auth"

(***************************************************************************)
(* Tokens.                                                                 *)
(***************************************************************************)
\* APIToken.create_token: a fresh row, active.
create_token(t, u, type, level) ==
    /\ token[t] = NoToken
    /\ token' = [token EXCEPT ![t] = [row |-> TRUE, owner |-> u, type |-> type, level |-> level,
                                      active |-> TRUE, expired |-> FALSE]]

\* APIToken.revoke writes is_active and revoked_at of the row, if it is still there.
revoke(t) == token' = [token EXCEPT ![t].active = FALSE]

\* EmailOrUsernameBackend.authenticate
backend_authenticate(u) == user[u].row /\ user[u].usable /\ user[u].active

\* api_auth_token: the credentials and the user's active login token are read ...
LoginRead(r, u) ==
    /\ job[r] = AtRest /\ backend_authenticate(u)
    /\ LET mine == {t \in Tokens : token[t].row /\ token[t].owner = u
                                   /\ token[t].type = "login" /\ token[t].active} IN
       IF mine = {} THEN Set(r, [pc |-> "login_new", me |-> u])
       ELSE \E t \in mine : Set(r, [pc |-> "rekey", t |-> t, copy |-> token[t]])
    /\ UNCHANGED <<user, token>>

\* Variant: the row is saved as it was read.
RekeyWholeRow(r) ==
    /\ job[r].pc = "rekey"
    /\ token' = [token EXCEPT ![job[r].t] = [job[r].copy EXCEPT !.expired = FALSE]]
    /\ Done(r) /\ UNCHANGED user

\* ... and the row gets a new key and expiry, those columns only.
Rekey(r) ==
    /\ job[r].pc = "rekey"
    /\ token' = IF token[job[r].t].row THEN [token EXCEPT ![job[r].t].expired = FALSE] ELSE token
    /\ Done(r) /\ UNCHANGED user

LoginCreate(r, t) ==
    /\ job[r].pc = "login_new"
    /\ IF user[job[r].me].row THEN create_token(t, job[r].me, "login", NoLevel) ELSE UNCHANGED token
    /\ Done(r) /\ UNCHANGED user

\* api_auth_token_refresh: a login token's own request replaces its key.
api_auth_token_refresh(r) ==
    /\ job[r].pc = "api" /\ token[job[r].t].type = "login"
    /\ Set(r, [pc |-> "rekey", t |-> job[r].t, copy |-> token[job[r].t]])
    /\ UNCHANGED <<user, token>>

api_auth_logout(r) == job[r].pc = "api" /\ revoke(job[r].t) /\ Done(r) /\ UNCHANGED user

\* TokenCreateForm: what a user may mint, and for whom.
clean_access_level(me) ==
    IF ~me.staff THEN {"readonly"}
    ELSE IF me.super THEN {"auth", "staff", "readonly"} ELSE {"staff", "readonly"}
clean_user(r) == IF job[r].was.staff THEN {u \in Users : user[u].row} ELSE {job[r].me}
TokenCreateForm(r, u, level) ==
    /\ level \in clean_access_level(job[r].was) /\ u \in clean_user(r)
    /\ level \in {"staff", "auth"} => user[u].staff

TokenCreateView(r, t) ==
    /\ job[r].pc = "web"
    /\ \E u \in Users, level \in Levels :
          user[u].row /\ TokenCreateForm(r, u, level) /\ create_token(t, u, "manual", level)
    /\ Done(r) /\ UNCHANGED user

\* create_api_token, the command: any user, any level.
create_api_token(t) ==
    /\ \E u \in Users, level \in Levels :
          user[u].row /\ create_token(t, u, "manual", level)
    /\ UNCHANGED <<user, job>>

is_owner_or_staff(me, was, t) == was.staff \/ token[t].owner = me

TokenRevokeView(r, t) ==
    /\ job[r].pc = "web" /\ token[t].row /\ is_owner_or_staff(job[r].me, job[r].was, t)
    /\ IF token[t].active THEN revoke(t) ELSE UNCHANGED token
    /\ Done(r) /\ UNCHANGED user

\* A login token reaches its expiry (a manual token is minted without one here).
Expire(t) ==
    /\ token[t].row /\ token[t].type = "login" /\ ~token[t].expired
    /\ token' = [token EXCEPT ![t].expired = TRUE]
    /\ UNCHANGED <<user, job>>

(***************************************************************************)
(* Users.                                                                  *)
(***************************************************************************)
NewUser(u, staff, usable) ==
    /\ ~user[u].born
    /\ user' = [user EXCEPT ![u] = [row |-> TRUE, born |-> TRUE, active |-> TRUE,
                                    staff |-> staff, super |-> FALSE, usable |-> usable]]

SignupView(u) == NewUser(u, FALSE, TRUE) /\ UNCHANGED <<token, job>>

\* InviteUserView: no usable password until the link is followed.
InviteUserView(r, u) ==
    /\ job[r].pc = "web" /\ job[r].was.staff
    /\ \E staff \in BOOLEAN : NewUser(u, staff, FALSE)
    /\ Done(r) /\ UNCHANGED token

\* UserCreateForm.save, behind the staff-only create page.
UserCreateForm(r, u) ==
    /\ job[r].pc = "web" /\ job[r].was.staff
    /\ \E staff \in BOOLEAN : NewUser(u, staff, TRUE)
    /\ Done(r) /\ UNCHANGED token

\* api_auth_register: the user, then a login token for it.
api_auth_register(r, u, t) ==
    /\ job[r].pc = "api" /\ require_auth_token(r)
    /\ NewUser(u, FALSE, TRUE) /\ create_token(t, u, "login", NoLevel)
    /\ Done(r)

\* AcceptInviteView: the link is good while the password is unset; the form saves
\* the user it was given.
AcceptLoad(r, u) ==
    /\ job[r] = AtRest /\ user[u].row /\ ~user[u].usable
    /\ Set(r, [pc |-> "save", u |-> u, copy |-> [user[u] EXCEPT !.usable = TRUE]])
    /\ UNCHANGED <<user, token>>

\* A whole instance saved: an UPDATE, or an INSERT when the row is gone.
SaveInstance(r) ==
    /\ job[r].pc = "save"
    /\ user' = [user EXCEPT ![job[r].u] = job[r].copy]
    /\ Done(r) /\ UNCHANGED token

\* _active_superuser_count(exclude_pk)
OtherActiveSuperusers(u) == {v \in Users \ {u} : user[v].row /\ user[v].super /\ user[v].active}

\* The update page: loads the target; the guardrails compare what was loaded with
\* what was submitted; then form.save().
UpdatePost(r, u) ==
    /\ job[r].pc = "web" /\ job[r].was.staff /\ user[u].row
    /\ \E staff, active \in BOOLEAN :
          LET old == user[u]
              self == job[r].me = u
              refused ==
                \/ self /\ old.staff /\ ~staff
                \/ self /\ old.active /\ ~active
                \/ old.super /\ ~job[r].was.super /\ (~active \/ ~staff)
                \/ old.super /\ old.active /\ ~active /\ OtherActiveSuperusers(u) = {}
          IN Set(r, IF refused THEN AtRest
                    ELSE [pc |-> "save", u |-> u,
                          copy |-> [old EXCEPT !.staff = staff, !.active = active]])
    /\ UNCHANGED <<user, token>>

\* The delete page: its guardrails, then the row with its tokens.
DeletePost(r, u) ==
    /\ job[r].pc = "web" /\ job[r].was.staff /\ user[u].row
    /\ Set(r, IF \/ job[r].me = u
                 \/ user[u].super /\ ~job[r].was.super
                 \/ user[u].super /\ user[u].active /\ OtherActiveSuperusers(u) = {}
              THEN AtRest ELSE [pc |-> "delete", u |-> u])
    /\ UNCHANGED <<user, token>>

DeleteRow(r) ==
    /\ job[r].pc = "delete"
    /\ user' = [user EXCEPT ![job[r].u] = [NoUser EXCEPT !.born = TRUE]]
    /\ token' = [t \in Tokens |-> IF token[t].row /\ token[t].owner = job[r].u
                                  THEN [token[t] EXCEPT !.row = FALSE, !.active = FALSE]
                                  ELSE token[t]]
    /\ Done(r)

\* api_auth_user_password: an auth-level token sets anyone's password.
api_auth_user_password(r, u) ==
    /\ job[r].pc = "api" /\ require_auth_token(r) /\ user[u].row
    /\ user' = [user EXCEPT ![u].usable = TRUE]
    /\ Done(r) /\ UNCHANGED token

\* api_auth_user_deactivate: the flag, then every active token of the user.
api_auth_user_deactivate(r, u) ==
    /\ job[r].pc = "api" /\ require_auth_token(r) /\ user[u].row
    /\ user' = [user EXCEPT ![u].active = FALSE]
    /\ Set(r, [pc |-> "sweep", u |-> u])
    /\ UNCHANGED token

DeactivateTokens(r) ==
    /\ job[r].pc = "sweep"
    /\ token' = [t \in Tokens |-> IF token[t].row /\ token[t].owner = job[r].u
                                  THEN [token[t] EXCEPT !.active = FALSE] ELSE token[t]]
    /\ Done(r) /\ UNCHANGED user

\* api_auth_user_detail, PATCH: the submitted columns only, no guardrail.
api_auth_user_detail(r, u) ==
    /\ job[r].pc = "api" /\ require_auth_token(r) /\ user[u].row
    /\ \E field \in {"staff", "active"}, b \in BOOLEAN : user' = [user EXCEPT ![u][field] = b]
    /\ Done(r) /\ UNCHANGED token

\* The user manager's pages; they alone.
PagesNext ==
    \E r \in Requests :
        \/ SaveInstance(r) \/ DeleteRow(r)
        \/ \E u \in Users : Session(r, u) \/ UpdatePost(r, u) \/ DeletePost(r, u)

SignInNext ==
    \E r \in Requests :
        \/ Rekey(r) \/ api_auth_token_refresh(r) \/ api_auth_logout(r) \/ DeactivateTokens(r)
        \/ \E u \in Users :
              \/ LoginRead(r, u) \/ InviteUserView(r, u) \/ UserCreateForm(r, u)
              \/ AcceptLoad(r, u) \/ api_auth_user_password(r, u)
              \/ api_auth_user_deactivate(r, u) \/ api_auth_user_detail(r, u)
        \/ \E t \in Tokens :
              \/ Bearer(r, t) \/ LoginCreate(r, t) \/ TokenCreateView(r, t) \/ TokenRevokeView(r, t)
              \/ \E u \in Users : api_auth_register(r, u, t)

Next ==
    \/ PagesNext \/ SignInNext
    \/ \E u \in Users : SignupView(u)
    \/ \E t \in Tokens : Expire(t) \/ create_api_token(t)

Spec == Init /\ [][Next]_acVars

(***************************************************************************)
(* Reading tokens.                                                         *)
(***************************************************************************)
Rows == {t \in Tokens : token[t].row}

\* TokenCRUDView.check_object_permission, TokenStatsView, TokenRevealView
check_object_permission(u, t) == is_owner_or_staff(u, user[u], t)

\* TokenCRUDView.get_list_queryset: active ones unless the filter is set.
get_list_queryset(u, filtered) ==
    {t \in Rows : (user[u].staff \/ token[t].owner = u) /\ (filtered \/ token[t].active)}

\* token_stat_detail, by card.
token_stat_detail(u, card) ==
    {t \in Rows : /\ user[u].staff \/ token[t].owner = u
                  /\ card = "active" => token[t].active
                  /\ card = "revoked" => ~token[t].active}

\* get_overview_stats: the numbers on the cards.
get_overview_stats(u) ==
    LET qs == IF user[u].staff THEN Rows ELSE {t \in Rows : token[t].owner = u}
    IN [total |-> Cardinality(qs),
        active |-> Cardinality({t \in qs : token[t].active}),
        revoked |-> Cardinality({t \in qs : ~token[t].active})]

-----------------------------------------------------------------------------
UserRows == [row : BOOLEAN, born : BOOLEAN, active : BOOLEAN, staff : BOOLEAN, super : BOOLEAN,
             usable : BOOLEAN]
TokenRows == [row : BOOLEAN, owner : Users, type : {"login", "manual"},
              level : Levels \cup {NoLevel, "readonly"}, active : BOOLEAN, expired : BOOLEAN]
\* What a request has in memory.
Jobs ==
    {AtRest}
    \cup [pc : {"api"}, t : Tokens, me : Users, was : UserRows]
    \cup [pc : {"web"}, me : Users, was : UserRows]
    \cup [pc : {"login_new"}, me : Users]
    \cup [pc : {"rekey"}, t : Tokens, copy : TokenRows]
    \cup [pc : {"save"}, u : Users, copy : UserRows]
    \cup [pc : {"delete", "sweep"}, u : Users]

\* Every variable keeps its type.
TypeOK ==
    /\ user \in [Users -> UserRows]
    /\ token \in [Tokens -> TokenRows]
    /\ job \in [Requests -> Jobs]

\* A revoked token stays revoked, whatever logins, refreshes and logouts have the row
\* in memory: no key they save into it authenticates again.
RevokedStaysDead == [][\A t \in Tokens : token[t].row /\ ~token[t].active => ~token'[t].active]_acVars

\* Every token a list, a card's drill-down or a count shows has a page its reader may
\* open, and each card's number is the number of rows behind it.
TokenListsSound ==
    \A u \in Users : user[u].row /\ user[u].active =>
        /\ \A t \in get_list_queryset(u, TRUE) \cup get_list_queryset(u, FALSE) :
              check_object_permission(u, t)
        /\ \A card \in {"total", "active", "revoked"} :
              /\ \A t \in token_stat_detail(u, card) : check_object_permission(u, t)
              /\ get_overview_stats(u)[card] = Cardinality(token_stat_detail(u, card))
=============================================================================
