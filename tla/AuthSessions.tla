---------------------------- MODULE AuthSessions ----------------------------
(***************************************************************************)
(* The sessions of one user of the auth service: the pairs of tokens it    *)
(* hands out, their rotation, and the ways of ending them.                 *)
(*                                                                         *)
(* A pair is an access token (a JWT, valid for Life seconds after the      *)
(* second it was issued in) and a refresh token, of which Redis keeps a    *)
(* key that is live, rotated (within or after the grace period of ten      *)
(* seconds) or gone.  Both are cookies of a browser, whose tabs share      *)
(* them: a request carries the cookies as they were when it was sent and   *)
(* its reply sets or clears them when it arrives.  A handler is a request  *)
(* that stands at its next await; between two awaits another request may   *)
(* run.  Sign-in stands for /login, /login/mfa, /register and /exchange    *)
(* after their own checks (module Accounts).                               *)
(***************************************************************************)
EXTENDS Naturals, FiniteSets

CONSTANTS Tabs,        \* bound: requests in flight, each from a tab of some browser
          Browsers,
          MaxPairs,    \* bound: pairs of tokens issued
          Life,        \* accessToken: lifetime of a JWT and of both marks
          MaxSecond,   \* bound: the clock
          MaxSent,     \* bound: requests sent
          MaxLost      \* bound: replies lost and calls that throw

ASSUME AuthAssumption ==
    /\ MaxPairs \in Nat /\ Life \in Nat \ {0} /\ MaxSecond \in Nat
    /\ MaxSent \in Nat /\ MaxLost \in Nat

VARIABLES user,      \* the row of the user exists
          key,       \* auth:refresh:<user>:<hash> of each pair
          issued,    \* second each access token was signed in
          last,      \* pairs issued so far
          rows,      \* UserSession row with the hash of each pair
          denied,    \* auth:denylist:jti: the second each mark lasts until
          revoked,   \* auth:revoked:user: its value and the second it lasts until
          jar,       \* the cookies of each browser
          req,       \* the request of each tab
          now,
          sent,
          ended,     \* history: pairs signed out
          crossed,   \* history: ended while a refresh was about to rotate them
          excused,   \* history: refreshed by two tabs at once, or a reply was lost
          out,       \* history: pairs whose access token was revoked
          lost

authVars == <<user, key, issued, last, rows, denied, revoked, jar, req, now, sent,
              ended, crossed, excused, out, lost>>
redis == <<key, denied, revoked>>
history == <<ended, crossed, excused, out>>

-----------------------------------------------------------------------------
Pairs == 1 .. MaxPairs
NoPair == 0

KeyStates == {"none", "live", "rotated", "stale", "gone"}
Present == {n \in Pairs : key[n] \in {"live", "rotated", "stale"}}

Ops == {"signIn", "refresh", "logout", "logoutAll", "reset", "delete", "revoke"}
Steps == {"get", "rotate", "user", "store", "track", "del", "deny", "erase", "mark",
          "scan", "sweep", "find", "revokeRow", "reply"}
Status == {"pending", "ok", "expired", "compromised", "noUser", "error"}

(* pair: the refresh token the request carries; new: the pair it makes;    *)
(* tracked: trackLogin follows; scanned: keys the SCAN must still return.  *)
Request == [op : Ops, by : Browsers, at : Steps,
            pair : Pairs \cup {NoPair}, new : Pairs \cup {NoPair}, tracked : BOOLEAN,
            scanned : SUBSET Pairs, status : Status]
Idle == [op |-> "none"]

At(t, step) == req[t] # Idle /\ req[t].at = step
Goto(t, step) == req' = [req EXCEPT ![t].at = step]
Done(t) == req' = [req EXCEPT ![t] = Idle]     \* a reply without cookies
Answer(t, status) == req' = [req EXCEPT ![t].at = "reply", ![t].status = status]

(* jwtVerify: the signature is ours and the token has not expired.         *)
Verified(n) == n # NoPair /\ now < issued[n] + Life

(* Mutant: a token issued in the second of the revocation passes.          *)
DenylistedStrictly(n) ==
    \/ now < denied[n]
    \/ now < revoked.until /\ issued[n] < revoked.at

(* isTokenDenylisted: by its jti, or issued no later than the revocation.  *)
Denylisted(n) ==
    \/ now < denied[n]
    \/ now < revoked.until /\ issued[n] <= revoked.at

Accepted(n) == Verified(n) /\ ~Denylisted(n)

AuthTypeOK ==
    /\ user \in BOOLEAN
    /\ key \in [Pairs -> KeyStates]
    /\ issued \in [Pairs -> Nat]
    /\ last \in Nat /\ last <= MaxPairs
    /\ rows \in [Pairs -> {"none", "active", "revoked"}]
    /\ denied \in [Pairs -> Nat]
    /\ revoked \in [at : Nat, until : Nat]
    /\ jar \in [Browsers -> Pairs \cup {NoPair}]
    /\ req \in [Tabs -> Request \cup {Idle}]
    /\ now \in Nat /\ sent \in Nat /\ lost \in Nat
    /\ ended \subseteq Pairs /\ crossed \subseteq Pairs
    /\ excused \subseteq Pairs /\ out \subseteq Pairs

(* Some browsers signed in a second ago.                                   *)
AuthInit ==
    /\ user = TRUE
    /\ jar \in [Browsers -> Pairs \cup {NoPair}]
    /\ \A b, c \in Browsers : b # c => jar[b] # jar[c] \/ jar[b] = NoPair
    /\ last \in 0 .. MaxPairs
    /\ {jar[b] : b \in Browsers} \ {NoPair} = 1 .. last
    /\ key = [n \in Pairs |-> IF n <= last THEN "live" ELSE "none"]
    /\ issued = [n \in Pairs |-> 0]
    /\ rows = [n \in Pairs |-> IF n <= last THEN "active" ELSE "none"]
    /\ denied = [n \in Pairs |-> 0]
    /\ revoked = [at |-> 0, until |-> 0]
    /\ req = [t \in Tabs |-> Idle]
    /\ now = 1 /\ sent = 0 /\ lost = 0
    /\ ended = {} /\ crossed = {} /\ excused = {} /\ out = {}

-----------------------------------------------------------------------------
(* Requests leave the browser.                                             *)

Open(t, b, op, step, tracked) ==
    /\ req[t] = Idle
    /\ sent < MaxSent /\ sent' = sent + 1
    /\ req' = [req EXCEPT ![t] = [op |-> op, by |-> b, at |-> step, pair |-> jar[b],
                                  new |-> NoPair, tracked |-> tracked, scanned |-> {},
                                  status |-> "pending"]]

(* Of the sign-ins only /login records a UserSession row.                  *)
SendSignIn(t, b) ==
    /\ last < MaxPairs
    /\ \E tracked \in BOOLEAN : Open(t, b, "signIn", "user", tracked)
    /\ UNCHANGED <<user, redis, issued, last, rows, jar, now, history, lost>>

SendRefresh(t, b) ==
    /\ jar[b] # NoPair
    /\ Open(t, b, "refresh", "get", FALSE)
    /\ excused' = IF \E u \in Tabs : /\ req[u] # Idle /\ req[u].op = "refresh"
                                    /\ req[u].pair = jar[b]
                  THEN excused \cup {jar[b]} ELSE excused
    /\ UNCHANGED <<user, redis, issued, last, rows, jar, now, ended, crossed, out, lost>>

SendLogout(t, b) ==
    /\ jar[b] # NoPair
    /\ Open(t, b, "logout", "del", FALSE)
    /\ UNCHANGED <<user, redis, issued, last, rows, jar, now, history, lost>>

(* The onRequest and preHandler hooks let the request through; Redis may   *)
(* be too slow to answer, and then a revoked token passes.                 *)
Admitted(b) ==
    \/ /\ jar[b] # NoPair /\ Accepted(jar[b]) /\ UNCHANGED lost
    \/ /\ jar[b] # NoPair /\ Verified(jar[b]) /\ ~Accepted(jar[b])
       /\ lost < MaxLost /\ lost' = lost + 1

SendLogoutAll(t, b) ==
    /\ Admitted(b)
    /\ Open(t, b, "logoutAll", "mark", FALSE)
    /\ UNCHANGED <<user, redis, issued, last, rows, jar, now, history>>

SendDelete(t, b) ==
    /\ Admitted(b)
    /\ Open(t, b, "delete", "erase", FALSE)
    /\ UNCHANGED <<user, redis, issued, last, rows, jar, now, history>>

SendRevoke(t, b) ==
    /\ Admitted(b)
    /\ Open(t, b, "revoke", "find", FALSE)
    /\ UNCHANGED <<user, redis, issued, last, rows, jar, now, history>>

(* /reset-password needs the mailed token only; the password is written.   *)
SendReset(t, b) ==
    /\ user
    /\ Open(t, b, "reset", "mark", FALSE)
    /\ UNCHANGED <<user, redis, issued, last, rows, jar, now, history, lost>>

-----------------------------------------------------------------------------
(* /refresh                                                                *)

GetKey(t) ==
    LET n == req[t].pair IN
    /\ At(t, "get")
    /\ \/ /\ n \notin Present
          /\ Answer(t, "expired")
       \/ /\ key[n] = "live"
          /\ Goto(t, "rotate")
       \/ /\ key[n] = "rotated"          \* within the grace period
          /\ Goto(t, "user")
       \/ /\ key[n] = "stale"            \* breach: invalidateAllSessions
          /\ Goto(t, "mark")
    /\ UNCHANGED <<user, redis, issued, last, rows, jar, now, history, lost, sent>>

(* SET without a condition: it also recreates a key deleted meanwhile.     *)
Rotate(t) ==
    /\ At(t, "rotate")
    /\ key' = [key EXCEPT ![req[t].pair] = "rotated"]
    /\ Goto(t, "user")
    /\ UNCHANGED <<user, denied, revoked, issued, last, rows, jar, now, history, lost, sent>>

(* findUnique, then signAccessToken.                                       *)
FindUser(t) ==
    /\ At(t, "user")
    /\ \/ /\ ~user
          /\ Answer(t, "noUser")
          /\ UNCHANGED <<issued, last>>
       \/ /\ user
          /\ last < MaxPairs
          /\ last' = last + 1
          /\ issued' = [issued EXCEPT ![last'] = now]
          /\ req' = [req EXCEPT ![t].at = "store", ![t].new = last']
    /\ UNCHANGED <<user, redis, rows, jar, now, history, lost, sent>>

(* setSessionCookies stores the refresh key, then sets both cookies.       *)
Store(t) ==
    /\ At(t, "store")
    /\ key' = [key EXCEPT ![req[t].new] = "live"]
    /\ req' = [req EXCEPT ![t].at = IF req[t].tracked THEN "track" ELSE "reply",
                          ![t].status = IF req[t].tracked THEN "pending" ELSE "ok"]
    /\ UNCHANGED <<user, denied, revoked, issued, last, rows, jar, now, history, lost, sent>>

(* trackLogin: the update throws when the user has been deleted.           *)
TrackLogin(t) ==
    /\ At(t, "track")
    /\ rows' = IF user THEN [rows EXCEPT ![req[t].new] = "active"] ELSE rows
    /\ Answer(t, IF user THEN "ok" ELSE "error")
    /\ UNCHANGED <<user, redis, issued, last, jar, now, history, lost, sent>>

-----------------------------------------------------------------------------
(* Ending sessions                                                         *)

AboutToRotate(S) == {n \in S : \E u \in Tabs : At(u, "rotate") /\ req[u].pair = n}

(* Mutant: /logout looks at the access token and leaves the refresh key.   *)
LogoutKeepsKey(t) ==
    /\ At(t, "del") /\ req[t].op = "logout"
    /\ ended' = ended \cup {req[t].pair}
    /\ IF Verified(req[t].pair) THEN Goto(t, "deny") ELSE Answer(t, "ok")
    /\ UNCHANGED <<user, redis, issued, last, rows, jar, now, crossed, excused, out, lost, sent>>

(* DEL of one refresh key.                                                 *)
DeleteKey(n) ==
    /\ key' = [key EXCEPT ![n] = IF @ = "none" THEN @ ELSE "gone"]
    /\ ended' = ended \cup {n}
    /\ crossed' = crossed \cup AboutToRotate({n})

LogoutDel(t) ==
    /\ At(t, "del") /\ req[t].op = "logout"
    /\ DeleteKey(req[t].pair)
    /\ IF Verified(req[t].pair) THEN Goto(t, "deny") ELSE Answer(t, "ok")
    /\ UNCHANGED <<user, denied, revoked, issued, last, rows, jar, now, excused, out, lost, sent>>

(* denylistAccessToken: the mark lasts as long as any access token.        *)
Deny(t) ==
    /\ At(t, "deny")
    /\ denied' = [denied EXCEPT ![req[t].pair] = now + Life]
    /\ out' = out \cup {req[t].pair}
    /\ Answer(t, "ok")
    /\ UNCHANGED <<user, key, revoked, issued, last, rows, jar, now, ended, crossed,
                   excused, lost, sent>>

(* DELETE /me: one transaction, the rows of the user go with it.           *)
Erase(t) ==
    /\ At(t, "erase")
    /\ IF user THEN Goto(t, "mark") ELSE Done(t)
    /\ user' = FALSE
    /\ rows' = [n \in Pairs |-> "none"]
    /\ UNCHANGED <<redis, issued, last, jar, now, history, lost, sent>>

(* invalidateAllSessions: the mark, the SCAN loop, the rows.               *)
Mark(t) ==
    /\ At(t, "mark")
    /\ revoked' = [at |-> now, until |-> now + Life]
    /\ out' = out \cup (1 .. last)
    /\ Goto(t, "scan")
    /\ UNCHANGED <<user, key, denied, issued, last, rows, jar, now, ended, crossed,
                   excused, lost, sent>>

Scan(t) ==
    /\ At(t, "scan")
    /\ req' = [req EXCEPT ![t].at = "sweep", ![t].scanned = Present]
    /\ UNCHANGED <<user, redis, issued, last, rows, jar, now, history, lost, sent>>

(* The pages of SCAN are deleted, here key by key.  The cursor is back at  *)
(* 0 once every key that was there from the start has been returned; one   *)
(* added since may have been.                                              *)
Sweep(t, n) ==
    /\ At(t, "sweep")
    /\ n \in Present
    /\ DeleteKey(n)
    /\ req' = [req EXCEPT ![t].scanned = @ \ {n}]
    /\ UNCHANGED <<user, denied, revoked, issued, last, rows, jar, now, excused, out, lost, sent>>

RevokeRows(t) ==
    /\ At(t, "sweep")
    /\ req[t].scanned \cap Present = {}
    /\ ended' = ended \cup req[t].scanned
    /\ rows' = [n \in Pairs |-> IF rows[n] = "active" THEN "revoked" ELSE rows[n]]
    /\ CASE req[t].op \in {"logoutAll", "delete"} -> Goto(t, "deny")
         [] req[t].op = "reset" -> Done(t)
         [] req[t].op = "refresh" -> Answer(t, "compromised")
    /\ UNCHANGED <<user, redis, issued, last, jar, now, crossed, excused, out, lost, sent>>

(* /sessions/:id/revoke: the key deleted is the one the session began with. *)
FindRow(t) ==
    /\ At(t, "find")
    /\ \/ \E n \in Pairs :
            /\ rows[n] = "active"
            /\ req' = [req EXCEPT ![t].at = "revokeRow", ![t].new = n]
       \/ /\ \A n \in Pairs : rows[n] # "active"
          /\ Done(t)
    /\ UNCHANGED <<user, redis, issued, last, rows, jar, now, history, lost, sent>>

RevokeRow(t) ==
    /\ At(t, "revokeRow")
    /\ \/ /\ user
          /\ rows' = [rows EXCEPT ![req[t].new] = "revoked"]
          /\ Goto(t, "del")
       \/ /\ ~user
          /\ Done(t)
          /\ UNCHANGED rows
    /\ UNCHANGED <<user, redis, issued, last, jar, now, history, lost, sent>>

RevokeDel(t) ==
    /\ At(t, "del") /\ req[t].op = "revoke"
    /\ DeleteKey(req[t].new)
    /\ Done(t)
    /\ UNCHANGED <<user, denied, revoked, issued, last, rows, jar, now, excused, out, lost, sent>>

-----------------------------------------------------------------------------
(* Replies, faults, time                                                   *)

(* Mutant: /refresh returns the new access token and no refresh cookie.    *)
CookiesNotRotated(t) ==
    CASE req[t].op = "signIn" /\ req[t].new # NoPair -> req[t].new
      [] req[t].op \in {"logout", "logoutAll", "delete"} /\ req[t].status = "ok" -> NoPair
      [] OTHER -> jar[req[t].by]

(* The cookies a reply leaves in the browser.                              *)
CookiesAfter(t) ==
    CASE req[t].op \in {"signIn", "refresh"} /\ req[t].new # NoPair -> req[t].new
      [] req[t].op \in {"logout", "logoutAll", "delete"} /\ req[t].status = "ok" -> NoPair
      [] OTHER -> jar[req[t].by]

Reply(t) ==
    /\ At(t, "reply")
    /\ jar' = [jar EXCEPT ![req[t].by] = CookiesAfter(t)]
    /\ req' = [req EXCEPT ![t] = Idle]
    /\ UNCHANGED <<user, redis, issued, last, rows, now, history, lost, sent>>

Undelivered(t) ==
    /\ lost < MaxLost /\ lost' = lost + 1
    /\ excused' = IF req[t].op = "refresh" THEN excused \cup {req[t].pair} ELSE excused
    /\ UNCHANGED <<user, redis, issued, last, rows, jar, now, ended, crossed, out, sent>>

LoseReply(t) ==
    /\ At(t, "reply")
    /\ Done(t)
    /\ Undelivered(t)

(* A call of Redis or of the database throws: the handler goes no further. *)
(* The cookies are set by then only when trackLogin is what fails.         *)
Throw(t) ==
    /\ req[t] # Idle /\ req[t].at # "reply"
    /\ IF req[t].at = "track" THEN Answer(t, "error") ELSE Done(t)
    /\ Undelivered(t)

GraceEnds(n) ==
    /\ key[n] = "rotated"
    /\ key' = [key EXCEPT ![n] = "stale"]
    /\ UNCHANGED <<user, denied, revoked, issued, last, rows, jar, req, now, history, lost, sent>>

Second ==
    /\ now < MaxSecond
    /\ now' = now + 1
    /\ UNCHANGED <<user, redis, issued, last, rows, jar, req, history, lost, sent>>

AuthHandler(t) ==
    \/ GetKey(t) \/ Rotate(t) \/ FindUser(t) \/ Store(t) \/ TrackLogin(t)
    \/ LogoutDel(t) \/ Deny(t) \/ Erase(t) \/ Mark(t) \/ Scan(t)
    \/ RevokeRows(t) \/ (\E n \in Pairs : Sweep(t, n)) \/ FindRow(t) \/ RevokeRow(t) \/ RevokeDel(t)

AuthTab(t, b) ==
    \/ SendSignIn(t, b) \/ SendRefresh(t, b) \/ SendLogout(t, b) \/ SendLogoutAll(t, b)
    \/ SendDelete(t, b) \/ SendRevoke(t, b) \/ SendReset(t, b)

AuthNetwork(t) == Reply(t) \/ LoseReply(t) \/ Throw(t)

(* A tab whose request is in flight sends no other.                        *)
AuthNext ==
    \/ \E t \in Tabs : \/ req[t] # Idle /\ (AuthHandler(t) \/ AuthNetwork(t))
                       \/ req[t] = Idle /\ sent < MaxSent /\ \E b \in Browsers : AuthTab(t, b)
    \/ \E n \in Pairs : GraceEnds(n)
    \/ Second

AuthSpec == AuthInit /\ [][AuthNext]_authVars

-----------------------------------------------------------------------------
(* A pair that was signed out (by /logout, by the end of a session in the  *)
(* list, by every way of ending them all) stays without a key: its refresh *)
(* token is never honoured again.  The one way back is the unconditional   *)
(* SET of a refresh that had read the key before it was deleted            *)
(* (account.ts:495).                                                       *)
SignedOutStaysOut == \A n \in ended \ crossed : key[n] \in {"none", "gone"}

(* An access token that was revoked, alone or with all the others of the   *)
(* user, is refused for the rest of its life: the marks in Redis last long *)
(* enough, and the comparison of seconds with milliseconds leaves none out *)
(* (session.ts:144, 238).                                                  *)
RevokedIsRefused == \A n \in out : ~Accepted(n)

(* Revoking everything refuses no later session, except one opened within  *)
(* the second of the revocation: iat has no milliseconds.                  *)
LaterSessionsAccepted ==
    \A n \in 1 .. last : n \notin out /\ Verified(n) /\ ~Accepted(n) => issued[n] = revoked.at

(* Revoking everything refuses exactly the tokens issued before it.        *)
RevocationExact == RevokedIsRefused /\ LaterSessionsAccepted

(* A refresh is refused as expired only if its session was ended before, and *)
(* sessions are ended for a breach only for a cause: two tabs refreshed it  *)
(* at once, a reply on its way to the browser was lost, or the account is   *)
(* deleted.  A browser that refreshes alone and gets its replies stays      *)
(* signed in.                                                               *)
RefusedForCause ==
    \A t \in Tabs : req[t] # Idle /\ req[t].op = "refresh" =>
        /\ req[t].status = "expired" => req[t].pair \in ended
        /\ req[t].at \in {"mark", "scan", "sweep"} \/ req[t].status = "compromised"
             => req[t].pair \in excused \/ ~user
=============================================================================
