------------------------------ MODULE Accounts ------------------------------
(***************************************************************************)
(* The account behind one e-mail address: registration, sign-in by         *)
(* password with its lockout, by provider (OAuth, SSO) through an exchange *)
(* token, and with a second factor; verification and reset by mailed       *)
(* tokens; deletion.                                                       *)
(*                                                                         *)
(* Requests run handlers of the auth service, in any number of replicas: a *)
(* handler stands at its next await and keeps what it read.  The database  *)
(* holds at most one row for the address (email is unique); a row created  *)
(* after a deletion has a new id.  Redis holds the counters and the        *)
(* tokens.  What follows a successful sign-in is module AuthSessions.      *)
(***************************************************************************)
EXTENDS Naturals, FiniteSets

CONSTANTS Calls,        \* bound: requests in progress
          Providers,    \* github, google, sso
          MaxIds,       \* bound: rows created for the address
          MaxTokens,    \* bound: reset tokens, exchange tokens, secrets
          MaxAttempts,  \* config.security.maxFailedAttempts
          MaxBegun,     \* bound: requests begun
          MaxBroken     \* bound: calls of Redis that fail

ASSUME AccAssumption ==
    /\ MaxIds \in Nat \ {0} /\ MaxTokens \in Nat \ {0} /\ MaxAttempts \in Nat \ {0}
    /\ MaxBegun \in Nat /\ MaxBroken \in Nat

VARIABLES row,        \* the row of the address, or NoRow
          ids,        \* rows created so far
          registered, \* outbox: ids of the UserRegistered events
          mailed,     \* outbox: tokens of the verification and reset mails
          verifyKey,  \* auth:verify-email: tokens stored (one for each id)
          resetKey,   \* auth:reset-password: id of the account of each token
          exchange,   \* auth:exchange: id of the account of each token
          fails,      \* auth:fails: the counter and whether it has a time to live
          lockout,    \* auth:lockout
          call,       \* the requests
          drawn,      \* random values drawn: reset tokens, exchange tokens, secrets
          begun,
          broken,
          spent,      \* history: mailed tokens used or forgotten
          wrong,      \* history: wrong passwords counted since the counter was cleared
          opened,     \* history: sessions opened with each exchange token
          confirmed,  \* history: secrets a code of which was checked
          raced       \* history: secrets written while a code was being checked

accVars == <<row, ids, registered, mailed, verifyKey, resetKey, exchange, fails, lockout, call,
             drawn, begun, broken, spent, wrong, opened, confirmed, raced>>
keys == <<verifyKey, resetKey, exchange, fails, lockout>>
record == <<spent, wrong, opened, confirmed, raced>>
bounds == <<drawn, begun, broken>>

-----------------------------------------------------------------------------
Ids == 1 .. MaxIds
Tokens == 1 .. MaxTokens
None == 0

(* The columns of User that a handler here reads.                          *)
Row == [id : Ids, password : BOOLEAN, verified : BOOLEAN, linked : SUBSET Providers,
        secret : Tokens \cup {None}, enabled : BOOLEAN]
NoRow == [id |-> None]

Verification(id) == [kind |-> "verify", of |-> id]
ResetMail(k) == [kind |-> "reset", of |-> k]
Mails == [kind : {"verify"}, of : Ids] \cup [kind : {"reset"}, of : Tokens]

Paths == {"register", "login", "provider", "exchange", "verify", "forgot", "reset",
          "mfaSetup", "mfaVerify", "mfaLogin"}
Awaits == {"find", "create", "mail", "store", "check", "incr", "expire", "lock", "clear", "get",
           "update", "forget", "done"}

(* found: the row read; token: the token or secret in hand; id: whose it is *)
Call == [path : Paths, at : Awaits, found : Row \cup {NoRow}, token : Tokens \cup {None},
         id : Ids \cup {None}, by : Providers \cup {"password"}]
NoCall == [path |-> "none"]

Standing(c, path, step) == call[c] # NoCall /\ call[c].path = path /\ call[c].at = step
Advance(c, step) == call' = [call EXCEPT ![c].at = step]
Finish(c) == call' = [call EXCEPT ![c] = NoCall]

Exists == row # NoRow

(* Mutant: where: { email }.                                               *)
IsRowByEmail(id) == Exists

IsRow(id) == row.id = id       \* where: { id }
Working == broken < MaxBroken

AccTypeOK ==
    /\ row \in Row \cup {NoRow} /\ ids \in 0 .. MaxIds
    /\ registered \in [Ids -> Nat] /\ mailed \subseteq Mails
    /\ verifyKey \subseteq Ids
    /\ resetKey \in [Tokens -> Ids \cup {None}] /\ exchange \in [Tokens -> Ids \cup {None}]
    /\ fails \in [count : Nat, ttl : BOOLEAN] /\ lockout \in BOOLEAN
    /\ call \in [Calls -> Call \cup {NoCall}]
    /\ drawn \in 0 .. MaxTokens /\ begun \in Nat /\ broken \in Nat
    /\ spent \subseteq Mails /\ wrong \in Nat /\ opened \in [Tokens -> Nat]
    /\ confirmed \subseteq Tokens /\ raced \subseteq Tokens

NoFails == [count |-> 0, ttl |-> FALSE]

AccInit ==
    /\ row = NoRow /\ ids = 0
    /\ registered = [i \in Ids |-> 0] /\ mailed = {}
    /\ verifyKey = {} /\ resetKey = [k \in Tokens |-> None]
    /\ exchange = [k \in Tokens |-> None]
    /\ fails = NoFails /\ lockout = FALSE
    /\ call = [c \in Calls |-> NoCall]
    /\ drawn = 0 /\ begun = 0 /\ broken = 0
    /\ spent = {} /\ wrong = 0 /\ opened = [k \in Tokens |-> 0]
    /\ confirmed = {} /\ raced = {}

-----------------------------------------------------------------------------
Begin(c, path, step, token, id, by) ==
    /\ call[c] = NoCall
    /\ begun < MaxBegun /\ begun' = begun + 1
    /\ call' = [call EXCEPT ![c] = [path |-> path, at |-> step, found |-> NoRow,
                                    token |-> token, id |-> id, by |-> by]]
    /\ UNCHANGED <<row, ids, registered, mailed, keys, drawn, broken, record>>

(* Anybody may ask; the last three need a session, whose sub is the row.   *)
BeginCall(c) ==
    \/ Begin(c, "register", "find", None, None, "password")
    \/ Begin(c, "login", "check", None, None, "password")
    \/ \E p \in Providers : Begin(c, "provider", "find", None, None, p)
    \/ Begin(c, "forgot", "find", None, None, "password")
    \/ \E m \in mailed :
         \/ m.kind = "verify" /\ Begin(c, "verify", "get", None, m.of, "password")
         \/ m.kind = "reset" /\ Begin(c, "reset", "get", m.of, None, "password")
    \/ \E k \in 1 .. drawn : exchange[k] # None /\ Begin(c, "exchange", "get", k, None, "password")
    \/ Exists /\ \E path \in {"mfaSetup", "mfaVerify"} :
                   Begin(c, path, "find", None, row.id, "password")

Keep(c, step) == call' = [call EXCEPT ![c].at = step, ![c].found = row]

-----------------------------------------------------------------------------
(* /register                                                               *)

RegisterFind(c) ==
    /\ Standing(c, "register", "find")
    /\ IF Exists THEN Finish(c) ELSE Advance(c, "create")
    /\ UNCHANGED <<row, ids, registered, mailed, keys, bounds, record>>

NewRow(password, linked, verified) ==
    [id |-> ids + 1, password |-> password, verified |-> verified, linked |-> linked,
     secret |-> None, enabled |-> FALSE]

Registered(id) == [registered EXCEPT ![id] = @ + 1]

(* One transaction: the row and both events, or the unique email refuses.  *)
RegisterCreate(c) ==
    /\ Standing(c, "register", "create")
    /\ \/ /\ Exists
          /\ Finish(c)
          /\ UNCHANGED <<row, ids, registered, mailed>>
       \/ /\ ~Exists /\ ids < MaxIds
          /\ row' = NewRow(TRUE, {}, FALSE)
          /\ ids' = ids + 1
          /\ registered' = Registered(ids')
          /\ mailed' = mailed \cup {Verification(ids')}
          /\ call' = [call EXCEPT ![c].at = "store", ![c].id = ids']
    /\ UNCHANGED <<keys, bounds, record>>

RegisterStore(c) ==
    /\ Standing(c, "register", "store")
    /\ verifyKey' = verifyKey \cup {call[c].id}
    /\ Finish(c)
    /\ UNCHANGED <<row, ids, registered, mailed, resetKey, exchange, fails, lockout, bounds, record>>

-----------------------------------------------------------------------------
(* /login and the lockout                                                  *)

(* redisSafeGet: a Redis that is slow or down lets the attempt through.    *)
LoginCheck(c) ==
    /\ Standing(c, "login", "check")
    /\ \/ /\ IF lockout THEN Finish(c) ELSE Advance(c, "find")
          /\ UNCHANGED broken
       \/ /\ lockout /\ Working
          /\ broken' = broken + 1
          /\ Advance(c, "find")
    /\ UNCHANGED <<row, ids, registered, mailed, keys, drawn, begun, record>>

(* The password is right or wrong; no row, or no password, is wrong.       *)
LoginFind(c) ==
    /\ Standing(c, "login", "find")
    /\ \/ Advance(c, "incr")
       \/ Exists /\ row.password /\ Keep(c, "clear")
    /\ UNCHANGED <<row, ids, registered, mailed, keys, bounds, record>>

(* Mutant: the account is locked by one more attempt than configured.      *)
LoginIncrLate(c) ==
    /\ Standing(c, "login", "incr")
    /\ fails' = [fails EXCEPT !.count = @ + 1]
    /\ wrong' = wrong + 1
    /\ IF fails'.count = 1 THEN Advance(c, "expire")
       ELSE IF fails'.count > MaxAttempts THEN Advance(c, "lock") ELSE Finish(c)
    /\ UNCHANGED <<row, ids, registered, mailed, verifyKey, resetKey, exchange, lockout, bounds,
                   spent, opened, confirmed, raced>>

(* handleLoginFail, each call of Redis on its own.                         *)
LoginIncr(c) ==
    /\ Standing(c, "login", "incr")
    /\ fails' = [fails EXCEPT !.count = @ + 1]
    /\ wrong' = wrong + 1
    /\ IF fails'.count = 1 THEN Advance(c, "expire")
       ELSE IF fails'.count >= MaxAttempts THEN Advance(c, "lock") ELSE Finish(c)
    /\ UNCHANGED <<row, ids, registered, mailed, verifyKey, resetKey, exchange, lockout, bounds,
                   spent, opened, confirmed, raced>>

LoginExpire(c) ==
    /\ Standing(c, "login", "expire")
    /\ fails' = [fails EXCEPT !.ttl = fails.count > 0]
    /\ IF MaxAttempts = 1 THEN Advance(c, "lock") ELSE Finish(c)
    /\ UNCHANGED <<row, ids, registered, mailed, verifyKey, resetKey, exchange, lockout, bounds,
                   record>>

LoginLock(c) ==
    /\ Standing(c, "login", "lock")
    /\ lockout' = TRUE
    /\ Finish(c)
    /\ UNCHANGED <<row, ids, registered, mailed, verifyKey, resetKey, exchange, fails, bounds, record>>

(* A lockout set, or about to be, outlives the counter.                    *)
WrongAfterClear ==
    IF lockout \/ \E d \in Calls : Standing(d, "login", "lock") \/ Standing(d, "login", "expire")
    THEN wrong ELSE 0

(* The counter is deleted, the lockout is not.  With the second factor on  *)
(* the reply is a token for /login/mfa that holds the id.                  *)
LoginClear(c) ==
    /\ Standing(c, "login", "clear")
    /\ fails' = NoFails
    /\ wrong' = WrongAfterClear
    /\ IF call[c].found.enabled
       THEN call' = [call EXCEPT ![c].path = "mfaLogin", ![c].at = "find",
                                 ![c].id = call[c].found.id, ![c].found = NoRow]
       ELSE Finish(c)
    /\ UNCHANGED <<row, ids, registered, mailed, verifyKey, resetKey, exchange, lockout, bounds,
                   spent, opened, confirmed, raced>>

(* /login/mfa opens the session, or refuses; nothing is written.           *)
MfaLogin(c) ==
    /\ Standing(c, "mfaLogin", "find")
    /\ Finish(c)
    /\ UNCHANGED <<row, ids, registered, mailed, keys, bounds, record>>

(* redisSafeExecute: a failing call ends the bookkeeping, not the request. *)
BookkeepingFails(c) ==
    /\ \E step \in {"incr", "expire", "lock"} : Standing(c, "login", step)
    /\ Working /\ broken' = broken + 1
    /\ Finish(c)
    /\ UNCHANGED <<row, ids, registered, mailed, keys, drawn, begun, record>>

CounterExpires ==
    /\ fails.count > 0 /\ fails.ttl
    /\ fails' = NoFails
    /\ wrong' = WrongAfterClear
    /\ UNCHANGED <<row, ids, registered, mailed, verifyKey, resetKey, exchange, lockout, call,
                   bounds, spent, opened, confirmed, raced>>

-----------------------------------------------------------------------------
(* Providers: findOrCreateOAuthUser, createExchangeToken, /exchange        *)

(* Read committed: the rows read may be gone or new at the write.          *)
ProviderFind(c) ==
    /\ Standing(c, "provider", "find")
    /\ Keep(c, "update")
    /\ UNCHANGED <<row, ids, registered, mailed, keys, bounds, record>>

(* Known by its provider id; linked by its email; or created, with its     *)
(* event, unless the unique email refuses.                                 *)
ProviderWrite(c) ==
    /\ Standing(c, "provider", "update")
    /\ \E vouched \in BOOLEAN :
         IF call[c].found # NoRow
         THEN /\ IF IsRow(call[c].found.id)
                 THEN /\ row' = [row EXCEPT !.linked = @ \cup {call[c].by},
                                            !.verified = @ \/ vouched]
                      /\ call' = [call EXCEPT ![c].at = "store", ![c].id = row.id]
                 ELSE Finish(c) /\ UNCHANGED row
              /\ UNCHANGED <<ids, registered>>
         ELSE \/ /\ Exists
                 /\ Finish(c)
                 /\ UNCHANGED <<row, ids, registered>>
              \/ /\ ~Exists /\ ids < MaxIds
                 /\ row' = NewRow(FALSE, {call[c].by}, vouched)
                 /\ ids' = ids + 1
                 /\ registered' = Registered(ids')
                 /\ call' = [call EXCEPT ![c].at = "store", ![c].id = ids']
    /\ UNCHANGED <<mailed, keys, bounds, record>>

CreateExchangeToken(c) ==
    /\ Standing(c, "provider", "store")
    /\ drawn < MaxTokens /\ drawn' = drawn + 1
    /\ exchange' = [exchange EXCEPT ![drawn'] = call[c].id]
    /\ Finish(c)
    /\ UNCHANGED <<row, ids, registered, mailed, verifyKey, resetKey, fails, lockout, begun,
                   broken, record>>

(* GETDEL, then the user is looked up and the session opened.              *)
Exchange(c) ==
    LET k == call[c].token IN
    /\ Standing(c, "exchange", "get")
    /\ exchange' = [exchange EXCEPT ![k] = None]
    /\ IF exchange[k] = None THEN Finish(c)
       ELSE call' = [call EXCEPT ![c].at = "find", ![c].id = exchange[k]]
    /\ UNCHANGED <<row, ids, registered, mailed, verifyKey, resetKey, fails, lockout, bounds, record>>

ExchangeOpen(c) ==
    /\ Standing(c, "exchange", "find")
    /\ opened' = IF IsRow(call[c].id) THEN [opened EXCEPT ![call[c].token] = @ + 1] ELSE opened
    /\ Finish(c)
    /\ UNCHANGED <<row, ids, registered, mailed, keys, bounds, spent, wrong, confirmed, raced>>

-----------------------------------------------------------------------------
(* /verify-email, /forgot-password, /reset-password                        *)

VerifyGet(c) ==
    /\ Standing(c, "verify", "get")
    /\ IF call[c].id \in verifyKey THEN Advance(c, "update") ELSE Finish(c)
    /\ UNCHANGED <<row, ids, registered, mailed, keys, bounds, record>>

(* The update is by id: it throws once that row is gone, and the token     *)
(* stays.                                                                  *)
VerifyUpdate(c) ==
    /\ Standing(c, "verify", "update")
    /\ IF IsRow(call[c].id)
       THEN row' = [row EXCEPT !.verified = TRUE] /\ Advance(c, "forget")
       ELSE UNCHANGED row /\ Finish(c)
    /\ UNCHANGED <<ids, registered, mailed, keys, bounds, record>>

VerifyForget(c) ==
    /\ Standing(c, "verify", "forget")
    /\ verifyKey' = verifyKey \ {call[c].id}
    /\ spent' = spent \cup {Verification(call[c].id)}
    /\ Finish(c)
    /\ UNCHANGED <<row, ids, registered, mailed, resetKey, exchange, fails, lockout, bounds,
                   wrong, opened, confirmed, raced>>

ForgotFind(c) ==
    /\ Standing(c, "forgot", "find")
    /\ IF Exists THEN call' = [call EXCEPT ![c].at = "mail", ![c].id = row.id] ELSE Finish(c)
    /\ UNCHANGED <<row, ids, registered, mailed, keys, bounds, record>>

(* The event first, the key after it.                                      *)
ForgotMail(c) ==
    /\ Standing(c, "forgot", "mail")
    /\ drawn < MaxTokens /\ drawn' = drawn + 1
    /\ mailed' = mailed \cup {ResetMail(drawn')}
    /\ call' = [call EXCEPT ![c].at = "store", ![c].token = drawn']
    /\ UNCHANGED <<row, ids, registered, keys, begun, broken, record>>

ForgotStore(c) ==
    /\ Standing(c, "forgot", "store")
    /\ resetKey' = [resetKey EXCEPT ![call[c].token] = call[c].id]
    /\ Finish(c)
    /\ UNCHANGED <<row, ids, registered, mailed, verifyKey, exchange, fails, lockout, bounds, record>>

(* Redis fails where nothing catches it: the reply is a 500.               *)
StoreFails(c) ==
    /\ \/ \E path \in {"register", "forgot", "provider"} : Standing(c, path, "store")
       \/ \E path \in {"verify", "reset"} : Standing(c, path, "forget")
    /\ Working /\ broken' = broken + 1
    /\ Finish(c)
    /\ UNCHANGED <<row, ids, registered, mailed, keys, drawn, begun, record>>

ResetGet(c) ==
    LET k == call[c].token IN
    /\ Standing(c, "reset", "get")
    /\ IF resetKey[k] = None THEN Finish(c)
       ELSE call' = [call EXCEPT ![c].at = "update", ![c].id = resetKey[k]]
    /\ UNCHANGED <<row, ids, registered, mailed, keys, bounds, record>>

ResetUpdate(c) ==
    /\ Standing(c, "reset", "update")
    /\ IF IsRow(call[c].id)
       THEN row' = [row EXCEPT !.password = TRUE] /\ Advance(c, "forget")
       ELSE UNCHANGED row /\ Finish(c)
    /\ UNCHANGED <<ids, registered, mailed, keys, bounds, record>>

ResetForget(c) ==
    /\ Standing(c, "reset", "forget")
    /\ resetKey' = [resetKey EXCEPT ![call[c].token] = None]
    /\ spent' = spent \cup {ResetMail(call[c].token)}
    /\ Finish(c)
    /\ UNCHANGED <<row, ids, registered, mailed, verifyKey, exchange, fails, lockout, bounds,
                   wrong, opened, confirmed, raced>>

(* Mutant: a factor in use may be set up again.                            *)
MfaSetupAgain(c) ==
    /\ Standing(c, "mfaSetup", "find")
    /\ IF IsRow(call[c].id) THEN Keep(c, "update") ELSE Finish(c)
    /\ UNCHANGED <<row, ids, registered, mailed, keys, bounds, record>>

-----------------------------------------------------------------------------
(* The second factor                                                       *)

MfaSetupFind(c) ==
    /\ Standing(c, "mfaSetup", "find")
    /\ IF IsRow(call[c].id) /\ ~row.enabled THEN Keep(c, "update") ELSE Finish(c)
    /\ UNCHANGED <<row, ids, registered, mailed, keys, bounds, record>>

MfaSetupUpdate(c) ==
    /\ Standing(c, "mfaSetup", "update")
    /\ drawn < MaxTokens /\ drawn' = drawn + 1
    /\ row' = IF IsRow(call[c].id) THEN [row EXCEPT !.secret = drawn'] ELSE row
    /\ raced' = IF \/ Exists /\ row.enabled /\ ~call[c].found.enabled
                   \/ \E d \in Calls : Standing(d, "mfaVerify", "update")
                THEN raced \cup {drawn'} ELSE raced
    /\ Finish(c)
    /\ UNCHANGED <<ids, registered, mailed, keys, begun, broken, spent, wrong, opened, confirmed>>

(* The code is right or wrong for the secret that was read.                *)
MfaVerifyFind(c) ==
    /\ Standing(c, "mfaVerify", "find")
    /\ \/ /\ IsRow(call[c].id) /\ row.secret # None /\ ~row.enabled
          /\ confirmed' = confirmed \cup {row.secret}
          /\ Advance(c, "update")
       \/ /\ Finish(c)
          /\ UNCHANGED confirmed
    /\ UNCHANGED <<row, ids, registered, mailed, keys, bounds, spent, wrong, opened, raced>>

MfaVerifyUpdate(c) ==
    /\ Standing(c, "mfaVerify", "update")
    /\ row' = IF IsRow(call[c].id) THEN [row EXCEPT !.enabled = TRUE] ELSE row
    /\ Finish(c)
    /\ UNCHANGED <<ids, registered, mailed, keys, bounds, record>>

(* DELETE /me: the row goes, what Redis holds of it stays.                 *)
Delete ==
    /\ Exists
    /\ begun < MaxBegun /\ begun' = begun + 1
    /\ row' = NoRow
    /\ UNCHANGED <<ids, registered, mailed, keys, call, drawn, broken, record>>

-----------------------------------------------------------------------------
AccHandler(c) ==
    \/ RegisterFind(c) \/ RegisterCreate(c) \/ RegisterStore(c)
    \/ LoginCheck(c) \/ LoginFind(c) \/ LoginIncr(c) \/ LoginExpire(c) \/ LoginLock(c)
    \/ LoginClear(c) \/ MfaLogin(c) \/ BookkeepingFails(c)
    \/ ProviderFind(c) \/ ProviderWrite(c) \/ CreateExchangeToken(c)
    \/ Exchange(c) \/ ExchangeOpen(c)
    \/ VerifyGet(c) \/ VerifyUpdate(c) \/ VerifyForget(c)
    \/ ForgotFind(c) \/ ForgotMail(c) \/ ForgotStore(c) \/ StoreFails(c)
    \/ ResetGet(c) \/ ResetUpdate(c) \/ ResetForget(c)
    \/ MfaSetupFind(c) \/ MfaSetupUpdate(c) \/ MfaVerifyFind(c) \/ MfaVerifyUpdate(c)

AccNext == (\E c \in Calls : BeginCall(c) \/ AccHandler(c)) \/ CounterExpires \/ Delete

AccSpec == AccInit /\ [][AccNext]_accVars

-----------------------------------------------------------------------------
(* Every row ever created for the address has one UserRegistered event,    *)
(* whoever of /register and the providers won the race for the address     *)
(* (account.ts:145, oauth.ts:286).                                         *)
RegisteredOnce == \A i \in Ids : registered[i] = IF i <= ids THEN 1 ELSE 0

(* A mailed token is in Redis until it has been used, unless the request   *)
(* that mailed it has yet to store it or Redis failed (account.ts:358).    *)
MailedTokenWorks ==
    \A m \in mailed \ spent :
        \/ m.kind = "verify" /\ m.of \in verifyKey
        \/ m.kind = "reset" /\ resetKey[m.of] # None
        \/ \E c \in Calls : \/ Standing(c, "register", "store") /\ m = Verification(call[c].id)
                            \/ Standing(c, "forgot", "store") /\ m = ResetMail(call[c].token)
        \/ broken > 0

(* An address is verified for a cause of its present row: the mail of that *)
(* row was followed, or a provider is linked to it.  A token of a deleted  *)
(* account does nothing for its successor (account.ts:328).                *)
VerifiedForCause ==
    Exists /\ row.verified =>
        \/ row.linked # {}
        \/ Verification(row.id) \in spent
        \/ \E c \in Calls : Standing(c, "verify", "forget") /\ call[c].id = row.id
        \/ broken > 0

(* The address is locked only after MaxAttempts wrong passwords, and       *)
(* always after them: the count is not lost when attempts run at once      *)
(* (account.ts:81).                                                        *)
LockedAfterAttempts ==
    /\ lockout => wrong >= MaxAttempts
    /\ fails.count >= MaxAttempts /\ broken = 0 =>
          lockout \/ \E c \in Calls : Standing(c, "login", "lock") \/ Standing(c, "login", "expire")

(* A counter that counts has a time to live: nobody is locked by the wrong *)
(* passwords of a whole year.                                              *)
CounterWillExpire ==
    fails.count > 0 /\ broken = 0 =>
        fails.ttl \/ \E c \in Calls : Standing(c, "login", "expire")

(* An exchange token opens at most one session (account.ts:524).           *)
ExchangedOnce == \A k \in Tokens : opened[k] <= 1

(* A second factor that is asked for was shown to work: a code of its      *)
(* secret was checked, unless a setup in another tab replaced the secret   *)
(* between the check of the code and the update (mfa.ts:48, 61).           *)
EnabledWasConfirmed ==
    Exists /\ row.enabled => row.secret \in confirmed \cup raced

(* One-time tokens: a mailed one works until it is used and for its own    *)
(* account only, and one of a provider's sign-in opens one session.        *)
TokensHonoured == MailedTokenWorks /\ VerifiedForCause /\ ExchangedOnce

(* The lockout comes after MaxAttempts wrong passwords, not before, not    *)
(* never, and what has been counted towards it is forgotten in time.       *)
LockoutHolds == LockedAfterAttempts /\ CounterWillExpire

(* The account's row: its columns, one registration for every row, and no  *)
(* second factor that was not confirmed.                                   *)
AccountSound == AccTypeOK /\ RegisteredOnce /\ EnabledWasConfirmed
=============================================================================
