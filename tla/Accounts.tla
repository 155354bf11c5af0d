------------------------------ MODULE Accounts ------------------------------
(* One address and the credentials behind it (server/src/auth, reset-          *)
(* password.ts): registration and sign-in by password or by provider, password *)
(* change and operator reset with the cutoff they put on browser sessions,     *)
(* sign-out, API keys and the MCP tokens exchanged for them.  A call           *)
(* authenticates, reads and writes in steps of its own; a change of the        *)
(* password holds the identity's row from the check to the commit.             *)
EXTENDS Naturals, FiniteSets

CONSTANTS
    AccountCall,    \* calls; each is made at most once, and names what it creates
    MaxTicks        \* bound on the milliseconds of a behaviour

ASSUME AccountsAssumption == AccountCall \subseteq Nat \ {0} /\ MaxTicks \in Nat

Nobody == 0

VARIABLES
    registered, \* the users row
    password,   \* the password identity: [version, tenant]; version 0: none
    oauth,      \* the tenant of the provider identity, Nobody: none
    cutoff,     \* users.sessionsNotBefore and sessionsKeptJti: [at, kept]; at 0: never
    clock,
    browser,    \* browser tokens: [jti, version, tenant, iat]; version 0: by a provider
    signedOut,  \* auth_sessions: revoked jtis
    apiKey,     \* api_key identities: [id, revoked]
    mcpToken,   \* keys an MCP token was minted from
    accountCall,\* call -> [op, pc, by, version, tenant]
    changes,    \* passwords set so far
    overtaken,  \* history: sign-ins under way while the password was changed
    crossed     \* history: a registration committed under a provider sign-in

identities == <<registered, password, oauth, cutoff>>
credentials == <<browser, signedOut, apiKey, mcpToken>>
accountPast == <<overtaken, crossed>>
accountVars == <<identities, clock, credentials, accountCall, changes, accountPast>>

Waiting == [op |-> "none", pc |-> "idle", by |-> Nobody, version |-> 0, tenant |-> Nobody]

AccountsInit ==
    /\ registered = FALSE /\ password = [version |-> 0, tenant |-> Nobody] /\ oauth = Nobody
    /\ cutoff = [at |-> 0, kept |-> Nobody] /\ clock = 1
    /\ browser = {} /\ signedOut = {} /\ apiKey = {} /\ mcpToken = {}
    /\ accountCall = [c \in AccountCall |-> Waiting]
    /\ changes = 0 /\ overtaken = {} /\ crossed = FALSE

Doing(c, pc) == accountCall[c].pc = pc
Proceeds(c, pc) == accountCall' = [accountCall EXCEPT ![c].pc = pc]
(* Calls are numbered in the order they begin.                                 *)
Begin(c, op, pc, by, version, tenant) ==
    /\ Doing(c, "idle") /\ \A o \in AccountCall: o < c => ~Doing(o, "idle")
    /\ accountCall' = [accountCall EXCEPT ![c] =
            [op |-> op, pc |-> pc, by |-> by, version |-> version, tenant |-> tenant]]

SurvivesCutoff(t) == cutoff.at = 0 \/ t.jti = cutoff.kept \/ t.iat >= cutoff.at
SignInIdentityLive(t) ==
    /\ t.tenant \in {oauth} \cup {password.tenant: v \in {password.version} \ {0}}
    /\ SurvivesCutoff(t)
SessionTokenLive(t) == t.jti \notin signedOut /\ SignInIdentityLive(t)
ApiKeyLive(id) == [id |-> id, revoked |-> FALSE] \in apiKey

(* register: the database decides who was first.                               *)
RegisterAccount(c) ==
    /\ Begin(c, "register", IF registered THEN "failed" ELSE "issue", Nobody, changes + 1, c)
    /\ IF registered THEN UNCHANGED <<registered, password, changes, crossed>>
       ELSE /\ registered' = TRUE /\ password' = [version |-> changes + 1, tenant |-> c]
            /\ changes' = changes + 1
            /\ crossed' = \E o \in AccountCall: accountCall[o].op = "oauth" /\ Doing(o, "create")
    /\ UNCHANGED <<oauth, cutoff, clock, credentials, overtaken>>

(* login: the hash that is read and checked may be another by the time the     *)
(* token is issued.                                                            *)
Login(c) ==
    /\ password.version # 0
    /\ Begin(c, "login", "issue", Nobody, password.version, password.tenant)
    /\ UNCHANGED <<identities, clock, credentials, changes, accountPast>>

(* Issue: iat is the moment of the signature.                                  *)
Issue(c) ==
    /\ Doing(c, "issue") /\ Proceeds(c, "done")
    /\ browser' = browser \cup {[jti |-> c, version |-> accountCall[c].version,
                                 tenant |-> accountCall[c].tenant, iat |-> clock]}
    /\ overtaken' = IF \E o \in AccountCall: Doing(o, "commit") THEN overtaken \cup {c} ELSE overtaken
    /\ UNCHANGED <<identities, clock, signedOut, apiKey, mcpToken, changes, crossed>>

(* resolveOAuthAccount: whichever identity the address has, either one if it   *)
(* has two, and a new account otherwise.                                       *)
ResolveOAuthAccount(c) ==
    /\ \E tenant \in {oauth} \cup {password.tenant: v \in {password.version} \ {0}}:
          /\ tenant = Nobody => password.version = 0
          /\ Begin(c, "oauth", IF tenant = Nobody THEN "create" ELSE "issue", Nobody, 0,
                   IF tenant = Nobody THEN c ELSE tenant)
    /\ UNCHANGED <<identities, clock, credentials, changes, accountPast>>

(* Its transaction; the unique key lets one provider identity in. *)
CreateOAuthIdentity(c) ==
    /\ Doing(c, "create")
    /\ IF oauth # Nobody THEN Proceeds(c, "failed") /\ UNCHANGED <<registered, oauth>>
       ELSE registered' = TRUE /\ oauth' = c /\ Proceeds(c, "issue")
    /\ UNCHANGED <<password, cutoff, clock, credentials, changes, accountPast>>

(* The guard accepts the session a change or a new key comes from.  The caller *)
(* knows the password of this moment.                                          *)
ChangePassword(c, t) ==
    /\ SessionTokenLive(t) /\ password.version # 0
    /\ Begin(c, "change", "lock", t.jti, password.version, Nobody)
    /\ UNCHANGED <<identities, clock, credentials, changes, accountPast>>
ResetPassword(c) ==
    /\ password.version # 0
    /\ Begin(c, "reset", "lock", Nobody, 0, Nobody)
    /\ UNCHANGED <<identities, clock, credentials, changes, accountPast>>

RowFree == \A o \in AccountCall: ~Doing(o, "commit")
SameMoment == {t.jti: t \in {b \in browser: b.iat = clock}}

(* The row lock, the check under it, and the moment cutSessions takes.         *)
LockIdentity(c) ==
    /\ Doing(c, "lock") /\ RowFree
    /\ IF accountCall[c].op = "change" /\ accountCall[c].version # password.version
       THEN Proceeds(c, "failed") /\ UNCHANGED overtaken
       ELSE /\ accountCall' = [accountCall EXCEPT ![c].pc = "commit", ![c].tenant = clock]
            /\ overtaken' = overtaken \cup SameMoment
    /\ UNCHANGED <<identities, clock, credentials, changes, crossed>>

(* Mutant: a change of the password ends no session. *)
CommitWithoutCut(c) ==
    /\ Doing(c, "commit") /\ Proceeds(c, "done")
    /\ password' = [password EXCEPT !.version = changes + 1] /\ changes' = changes + 1
    /\ overtaken' = overtaken \cup {o \in AccountCall: Doing(o, "issue")}
    /\ UNCHANGED <<registered, oauth, cutoff, clock, credentials, crossed>>

(* Password and cutoff change together; a reset revokes every key as well.     *)
CommitPassword(c) ==
    /\ Doing(c, "commit") /\ Proceeds(c, "done")
    /\ password' = [password EXCEPT !.version = changes + 1] /\ changes' = changes + 1
    /\ cutoff' = [at |-> accountCall[c].tenant, kept |-> accountCall[c].by]
    /\ apiKey' = IF accountCall[c].op = "reset" THEN {[k EXCEPT !.revoked = TRUE]: k \in apiKey} ELSE apiKey
    /\ overtaken' = overtaken \cup {o \in AccountCall: Doing(o, "issue")}
    /\ UNCHANGED <<registered, oauth, clock, browser, signedOut, mcpToken, crossed>>

Logout(t) ==
    /\ SessionTokenLive(t) /\ signedOut' = signedOut \cup {t.jti}
    /\ UNCHANGED <<identities, clock, browser, apiKey, mcpToken, accountCall, changes, accountPast>>

CreateApiKey(c, t) ==
    /\ SessionTokenLive(t) /\ Begin(c, "key", "key", t.jti, 0, Nobody)
    /\ UNCHANGED <<identities, clock, credentials, changes, accountPast>>
SaveApiKey(c) ==
    /\ Doing(c, "key") /\ Proceeds(c, "done")
    /\ apiKey' = apiKey \cup {[id |-> c, revoked |-> FALSE]}
    /\ UNCHANGED <<identities, clock, browser, signedOut, mcpToken, changes, accountPast>>
RevokeApiKey(k) ==
    /\ ~k.revoked /\ apiKey' = (apiKey \ {k}) \cup {[k EXCEPT !.revoked = TRUE]}
    /\ UNCHANGED <<identities, clock, browser, signedOut, mcpToken, accountCall, changes, accountPast>>

(* The handshake: the token names the key it was minted from. *)
Handshake(k) ==
    /\ ApiKeyLive(k.id) /\ k.id \notin mcpToken /\ mcpToken' = mcpToken \cup {k.id}
    /\ UNCHANGED <<identities, clock, browser, signedOut, apiKey, accountCall, changes, accountPast>>

Tick ==
    /\ clock <= MaxTicks /\ clock' = clock + 1
    /\ UNCHANGED <<identities, credentials, accountCall, changes, accountPast>>

AccountsNext ==
    \/ \E c \in AccountCall:
          \/ RegisterAccount(c) \/ Login(c) \/ ResolveOAuthAccount(c) \/ CreateOAuthIdentity(c)
          \/ Issue(c) \/ ResetPassword(c) \/ LockIdentity(c) \/ CommitPassword(c) \/ SaveApiKey(c)
          \/ \E t \in browser: ChangePassword(c, t) \/ CreateApiKey(c, t)
    \/ \E t \in browser: Logout(t)
    \/ \E k \in apiKey: RevokeApiKey(k) \/ Handshake(k)
    \/ Tick

AccountsSpec == AccountsInit /\ [][AccountsNext]_accountVars

-----------------------------------------------------------------------------
(* "ends every other browser session of the account" (password-change.ts): who *)
(* signed in with a password that was replaced is out, except the session the  *)
(* change was made from and a sign-in that was under way during the change, or *)
(* that fell into its millisecond.                                             *)
OldPasswordIsOut ==
    \A t \in browser: SessionTokenLive(t) /\ t.version \notin {0, password.version} =>
        t.jti \in overtaken \cup {cutoff.kept}

(* "One address is one person: whichever way they first arrived, they land in  *)
(* the tenant their archive is already in" (resolveOAuthAccount), unless they  *)
(* registered while the provider answered.                                     *)
OneTenantPerAddress ==
    password.version # 0 /\ oauth # Nobody => oauth = password.tenant \/ crossed

(* A session that was refused, for a sign-out or a cutoff, is never accepted   *)
(* again: of two changes racing each other the second is checked against what  *)
(* the first wrote, so that it keeps no session the first one ended.  A key    *)
(* that was revoked stays revoked.                                             *)
EndedStaysEnded ==
    [][/\ \A t \in browser: ~SessionTokenLive(t) => ~SessionTokenLive(t)'
       /\ \A k \in apiKey: k.revoked => k \in apiKey']_accountVars

(* Who is signed in, through every order of sign-ins, changes of the password  *)
(* and sign-outs (auth.service.ts, password-change.ts, session-cutoff.ts).     *)
SignInsHold == [](OldPasswordIsOut /\ OneTenantPerAddress) /\ EndedStaysEnded

-----------------------------------------------------------------------------
(* The inductive invariant.                                                    *)
CallState ==
    [op : {"none", "register", "login", "oauth", "change", "reset", "key"},
     pc : {"idle", "issue", "create", "lock", "commit", "key", "done", "failed"},
     by : AccountCall \cup {Nobody}, version : Nat, tenant : Nat]

AccountsTypeOK ==
    /\ registered \in BOOLEAN /\ oauth \in Nat /\ clock \in Nat \ {0} /\ changes \in Nat
    /\ password \in [version : Nat, tenant : Nat] /\ cutoff \in [at : Nat, kept : AccountCall \cup {Nobody}]
    /\ browser \subseteq [jti : AccountCall, version : Nat, tenant : Nat, iat : Nat]
    /\ apiKey \subseteq [id : AccountCall, revoked : BOOLEAN]
    /\ accountCall \in [AccountCall -> CallState]

(* The tenants somebody may sign in to; there is no other from then on.        *)
TenantHeld(tenant) ==
    tenant # Nobody /\ (tenant = oauth \/ (password.version # 0 /\ tenant = password.tenant))

IdentitiesAreKnown ==
    /\ oauth # Nobody \/ password.version # 0 => registered
    /\ password.version # 0 => password.tenant # Nobody
    /\ password.version <= changes /\ cutoff.at <= clock

(* A session of a password that was replaced was overtaken by the change, kept *)
(* by it, or began before the cutoff.                                          *)
TokenOf(t) ==
    /\ Doing(t.jti, "done") /\ t.iat <= clock /\ TenantHeld(t.tenant)
    /\ password.version = 0 => t.version = 0
    /\ t.version \in {0, password.version} \/ t.jti \in overtaken \cup {cutoff.kept}
          \/ (cutoff.at # 0 /\ t.iat < cutoff.at)

(* A sign-in under way is of this password, or known to be overtaken.          *)
SignInOf(c) ==
    /\ accountCall[c].by # Nobody => Doing(accountCall[c].by, "done")
    /\ Doing(c, "create") =>
          accountCall[c].op = "oauth" /\ accountCall[c].tenant = c /\ (password.version # 0 => crossed)
    /\ Doing(c, "create") => accountCall[c].version = 0
    /\ Doing(c, "issue") =>
          /\ TenantHeld(accountCall[c].tenant)
          /\ password.version = 0 => accountCall[c].version = 0
          /\ accountCall[c].version \in {0, password.version} \/ c \in overtaken

(* A change is checked against the password it began with, so that the session *)
(* it keeps is one the last cutoff left; the cutoff it brings is not before    *)
(* that one, and who signed in since is overtaken.                             *)
ChangeOf(c) ==
    /\ accountCall[c].pc \in {"lock", "commit"} =>
          /\ accountCall[c].op \in {"change", "reset"} /\ password.version # 0
          /\ accountCall[c].version <= changes
          /\ accountCall[c].op = "reset" => accountCall[c].by = Nobody
          /\ accountCall[c].op = "change" /\ accountCall[c].version = password.version =>
                \A t \in browser: t.jti = accountCall[c].by => SurvivesCutoff(t)
    /\ Doing(c, "commit") =>
          /\ accountCall[c].op = "change" => accountCall[c].version = password.version
          /\ accountCall[c].tenant > 0 /\ accountCall[c].tenant >= cutoff.at /\ accountCall[c].tenant <= clock
          /\ \A t \in browser: t.iat >= accountCall[c].tenant => t.jti \in overtaken
          /\ \A o \in AccountCall \ {c}: ~Doing(o, "commit")

AccountsInv ==
    /\ AccountsTypeOK /\ IdentitiesAreKnown /\ OneTenantPerAddress
    /\ \A t \in browser: TokenOf(t) /\ \A u \in browser: u.jti = t.jti => u = t
    /\ \A c \in AccountCall: SignInOf(c) /\ ChangeOf(c)
=============================================================================
