----------------------------- MODULE AuthProofs -----------------------------
(***************************************************************************)
(* Theorems about the sessions of a user, for any number of tabs, browsers *)
(* and pairs of tokens, any lifetime and any number of faults.             *)
(***************************************************************************)
EXTENDS AuthSessions, TLAPS

-----------------------------------------------------------------------------
(* The inductive invariant                                                 *)

\* The marks in Redis against the tokens they are for: a revoked token is covered for the
\* rest of its life, one that is not was issued in the second of the last mark or later.
Covered(n) ==
    \/ issued[n] + Life <= denied[n]
    \/ issued[n] <= revoked.at /\ issued[n] + Life <= revoked.until

Marks ==
    /\ \A n \in Pairs : issued[n] <= now
    /\ revoked.at <= now
    /\ out \subseteq 1 .. last
    /\ \A n \in out : Covered(n)
    /\ \A n \in Pairs \ out : denied[n] = 0
    /\ \A n \in 1 .. last : n \notin out => revoked.at <= issued[n]

\* Pairs whose refresh token has had a key; only they are handed out, listed or ended.
Known(n) == n = NoPair \/ key[n] # "none"

Handed ==
    /\ \A n \in Pairs : key[n] # "none" => n <= last
    /\ \A b \in Browsers : Known(jar[b])
    /\ \A n \in Pairs : rows[n] # "none" => Known(n)
    /\ \A n \in ended : Known(n)

\* Where a handler of each operation can stand, and the pair it works on.
Placed(r) ==
    /\ r.at \in {"get", "rotate"} => r.op = "refresh"
    /\ r.at = "deny" => r.op \in {"logout", "logoutAll", "delete"}
    /\ r.at = "erase" => r.op = "delete"
    /\ r.at \in {"find", "revokeRow"} => r.op = "revoke"
    /\ r.at \in {"mark", "scan", "sweep"} => r.op \in {"refresh", "logoutAll", "reset", "delete"}
    /\ r.at = "del" => r.op \in {"logout", "revoke"}
    /\ r.op \in {"refresh", "logout", "logoutAll", "delete"} => r.pair # NoPair
    /\ r.at \in {"store", "track", "revokeRow"} => r.new # NoPair
    /\ r.at = "del" /\ r.op = "revoke" => r.new # NoPair

\* What it knows of the pairs.  A rotation that was overtaken by the end of its session
\* is on record.
Grounded(r) ==
    /\ Known(r.pair)
    /\ \A n \in r.scanned : Known(n)
    /\ r.at # "store" => Known(r.new)
    /\ r.at = "store" => r.new <= last /\ key[r.new] = "none"
    /\ r.at = "rotate" /\ (r.pair \in ended \/ key[r.pair] = "gone") => r.pair \in crossed

Requests == \A t \in Tabs : req[t] # Idle => Placed(req[t]) /\ Grounded(req[t])

\* Two handlers never store the same pair.
OwnPair ==
    \A t, u \in Tabs : At(t, "store") /\ At(u, "store") /\ t # u => req[t].new # req[u].new

AuthInv == AuthTypeOK /\ Marks /\ Handed /\ Requests /\ OwnPair /\ SignedOutStaysOut

\* The parts of the type invariant.
RedisOK ==
    /\ key \in [Pairs -> KeyStates] /\ denied \in [Pairs -> Nat]
    /\ revoked \in [at : Nat, until : Nat]
    /\ issued \in [Pairs -> Nat] /\ last \in Nat /\ last <= MaxPairs
RowsOK ==
    /\ rows \in [Pairs -> {"none", "active", "revoked"}]
    /\ jar \in [Browsers -> Pairs \cup {NoPair}]
    /\ now \in Nat /\ sent \in Nat /\ lost \in Nat
    /\ ended \subseteq Pairs /\ crossed \subseteq Pairs /\ excused \subseteq Pairs
    /\ out \subseteq Pairs
ReqOK == req \in [Tabs -> Request \cup {Idle}]

LEMMA AuthParts ==
    /\ AuthTypeOK <=> user \in BOOLEAN /\ RedisOK /\ RowsOK /\ ReqOK
    /\ AuthTypeOK' <=> (user \in BOOLEAN)' /\ RedisOK' /\ RowsOK' /\ ReqOK'
BY Zenon DEF AuthTypeOK, RedisOK, RowsOK, ReqOK

LEMMA AuthKinds ==
    ASSUME AuthInv
    PROVE  /\ user \in BOOLEAN /\ RedisOK /\ RowsOK /\ ReqOK
           /\ MaxPairs \in Nat /\ Life \in Nat \ {0} /\ MaxSecond \in Nat
           /\ MaxSent \in Nat /\ MaxLost \in Nat
           /\ Pairs = 1 .. MaxPairs /\ NoPair = 0
BY AuthParts, AuthAssumption DEF AuthInv, Pairs, NoPair

LEMMA IdleIsNone == \A r \in Request : r # Idle
BY DEF Request, Ops, Idle

\* What an invariant request is.
LEMMA RequestIs ==
    ASSUME AuthInv, NEW t \in Tabs, req[t] # Idle
    PROVE  req[t] \in Request /\ Placed(req[t]) /\ Grounded(req[t])
BY AuthKinds DEF AuthInv, Requests, ReqOK

\* One tab's request changes; the others keep theirs while no key vanishes.
LEMMA OneRequest ==
    ASSUME AuthInv, NEW t \in Tabs, NEW r \in Request \cup {Idle}, req' = [req EXCEPT ![t] = r],
           r # Idle => Placed(r) /\ Grounded(r)',
           r # Idle /\ r.at = "store" => r.new = last + 1,
           last <= last', last' \in Nat,
           \A n \in Pairs : key[n] # "none" => key'[n] # "none",
           \A u \in Tabs \ {t} : At(u, "store") => key'[req[u].new] = "none",
           \A u \in Tabs \ {t} : At(u, "rotate") /\ (req[u].pair \in ended' \/ key'[req[u].pair] = "gone")
                                   => req[u].pair \in crossed'
    PROVE  ReqOK' /\ Requests' /\ OwnPair'
<1>1. req'[t] = r /\ \A u \in Tabs \ {t} : req'[u] = req[u]
  BY AuthKinds DEF ReqOK
<1>2. ReqOK'
  BY AuthKinds DEF ReqOK
<1>3. ASSUME NEW u \in Tabs \ {t}, req[u] # Idle
      PROVE  Placed(req[u]) /\ Grounded(req[u])'
  <2>1. req[u] \in Request /\ Placed(req[u]) /\ Grounded(req[u])
    BY <1>3, RequestIs
  <2>2. \A n \in Pairs \cup {NoPair} : Known(n) => Known(n)'
    BY AuthKinds DEF Known
  <2>3. /\ req[u].pair \in Pairs \cup {NoPair} /\ req[u].new \in Pairs \cup {NoPair}
        /\ req[u].scanned \subseteq Pairs
    BY <2>1 DEF Request
  <2>4. \A n \in req[u].scanned : Known(n)'
    BY <2>1, <2>2, <2>3 DEF Grounded
  <2>5. req[u].at = "store" => req[u].new <= last' /\ key'[req[u].new] = "none"
    BY <1>3, <2>1, <2>3, AuthKinds DEF Grounded, At, RedisOK
  <2>6. req[u].at = "rotate" /\ (req[u].pair \in ended' \/ key'[req[u].pair] = "gone")
          => req[u].pair \in crossed'
    BY <1>3 DEF At
  <2>7. Known(req[u].pair)' /\ (req[u].at # "store" => Known(req[u].new)')
    BY <2>1, <2>2, <2>3, <1>1 DEF Grounded, Known
  <2> QED
    BY <2>1, <2>4, <2>5, <2>6, <2>7, <1>1 DEF Grounded, Known
<1>4. Requests'
  <2> SUFFICES ASSUME NEW u \in Tabs, req'[u] # Idle
               PROVE  Placed(req[u])' /\ Grounded(req[u])'
    BY DEF Requests, Idle
  <2>1. CASE u = t
    BY <2>1, <1>1 DEF Placed, Grounded, Known
  <2>2. CASE u # t
    BY <2>2, <1>1, <1>3 DEF Placed
  <2> QED
    BY <2>1, <2>2
<1>5. OwnPair'
  <2> SUFFICES ASSUME NEW u \in Tabs, NEW w \in Tabs, At(u, "store")', At(w, "store")', u # w
               PROVE  req'[u].new # req'[w].new
    BY DEF OwnPair
  <2>1. \A v \in Tabs \ {t} : At(v, "store")' => At(v, "store") /\ req[v].new <= last
                                                /\ req[v].new \in Nat
    <3> SUFFICES ASSUME NEW v \in Tabs \ {t}, At(v, "store")'
                 PROVE  At(v, "store") /\ req[v].new <= last /\ req[v].new \in Nat
      OBVIOUS
    <3>1. At(v, "store") /\ req[v] # Idle /\ req[v].at = "store"
      BY <1>1 DEF At
    <3>2. req[v] \in Request /\ Grounded(req[v])
      BY <3>1, RequestIs
    <3> QED
      BY <3>1, <3>2, AuthKinds DEF Request, Grounded
  <2>2. At(t, "store")' => req'[t].new = last + 1
    BY <1>1 DEF At
  <2>3. CASE u = t \/ w = t
    BY <2>1, <2>2, <2>3, <1>1, AuthKinds DEF RedisOK
  <2>4. CASE u # t /\ w # t
    BY <2>1, <2>4, <1>1 DEF AuthInv, OwnPair
  <2> QED
    BY <2>3, <2>4
<1> QED
  BY <1>2, <1>4, <1>5

\* A step that leaves the keys, the marks and the clock alone.
LEMMA QuietKeeps ==
    ASSUME AuthInv, NEW t \in Tabs, NEW r \in Request \cup {Idle}, req' = [req EXCEPT ![t] = r],
           r # Idle => Placed(r) /\ Grounded(r) /\ r.at # "store",
           UNCHANGED <<key, issued, last, denied, revoked, out, ended, crossed, now>>,
           (user \in BOOLEAN)',
           rows' \in [Pairs -> {"none", "active", "revoked"}],
           jar' \in [Browsers -> Pairs \cup {NoPair}],
           sent' \in Nat, lost' \in Nat, excused' \subseteq Pairs,
           \A b \in Browsers : Known(jar'[b]),
           \A n \in Pairs : rows'[n] # "none" => Known(n)
    PROVE  AuthInv'
<1>1. RedisOK'
  BY AuthKinds DEF RedisOK
<1>2. RowsOK'
  BY AuthKinds DEF RowsOK
<1>3. Grounded(r) => Grounded(r)'
  BY DEF Grounded, Known
<1>4. \A u \in Tabs \ {t} : At(u, "store") => key'[req[u].new] = "none"
  BY RequestIs DEF At, Grounded
<1>5. \A u \in Tabs \ {t} : At(u, "rotate") /\ (req[u].pair \in ended' \/ key'[req[u].pair] = "gone")
                              => req[u].pair \in crossed'
  BY RequestIs DEF At, Grounded
<1>6. ReqOK' /\ Requests' /\ OwnPair'
  <2>1. last <= last' /\ last' \in Nat
    BY AuthKinds DEF RedisOK
  <2> QED
    BY <1>3, <1>4, <1>5, <2>1, OneRequest
<1>7. Marks' /\ Handed' /\ SignedOutStaysOut'
  BY DEF AuthInv, Marks, Covered, Handed, Known, SignedOutStaysOut
<1> QED
  BY <1>1, <1>2, <1>6, <1>7, AuthParts DEF AuthInv

-----------------------------------------------------------------------------
(* Requests, and the steps that read                                       *)

LEMMA AuthStart == AuthInit => AuthInv
<1> SUFFICES ASSUME AuthInit PROVE AuthInv
  OBVIOUS
<1>0. user \in BOOLEAN
  BY Zenon DEF AuthInit
<1>1. /\ jar \in [Browsers -> Pairs \cup {NoPair}] /\ last \in 0 .. MaxPairs
      /\ \A b \in Browsers : jar[b] # NoPair => jar[b] \in 1 .. last
      /\ key = [n \in Pairs |-> IF n <= last THEN "live" ELSE "none"]
      /\ issued = [n \in Pairs |-> 0]
      /\ rows = [n \in Pairs |-> IF n <= last THEN "active" ELSE "none"]
      /\ denied = [n \in Pairs |-> 0]
      /\ revoked = [at |-> 0, until |-> 0]
      /\ req = [t \in Tabs |-> Idle]
      /\ now = 1 /\ sent = 0 /\ lost = 0
      /\ ended = {} /\ crossed = {} /\ excused = {} /\ out = {}
  BY DEF AuthInit
<1>2. RedisOK /\ RowsOK /\ ReqOK
  BY <1>1, AuthAssumption DEF RedisOK, RowsOK, ReqOK, KeyStates
<1>3. Marks
  BY <1>1, AuthAssumption DEF Marks, Pairs
<1>4. Handed
  BY <1>1, AuthAssumption DEF Handed, Known, Pairs
<1>5. Requests /\ OwnPair /\ SignedOutStaysOut
  BY <1>1 DEF Requests, OwnPair, At, SignedOutStaysOut
<1> QED
  BY <1>0, <1>2, <1>3, <1>4, <1>5, AuthParts DEF AuthInv

\* A tab sends a request of its browser.
LEMMA AuthSendKeeps ==
    ASSUME AuthInv, NEW t \in Tabs, NEW b \in Browsers, AuthTab(t, b)
    PROVE  AuthInv'
<1>1. PICK op \in Ops, step \in Steps, tracked \in BOOLEAN :
        /\ Open(t, b, op, step, tracked)
        /\ op \in {"refresh", "logout", "logoutAll", "delete"} => jar[b] # NoPair
        /\ \/ op = "signIn" /\ step = "user"
           \/ op = "refresh" /\ step = "get"
           \/ op = "logout" /\ step = "del"
           \/ op \in {"logoutAll", "reset"} /\ step = "mark"
           \/ op = "delete" /\ step = "erase"
           \/ op = "revoke" /\ step = "find"
  <2>1. CASE SendSignIn(t, b)
    BY <2>1 DEF SendSignIn, Ops, Steps
  <2>2. CASE SendRefresh(t, b) \/ SendLogout(t, b) \/ SendReset(t, b)
    <3>1. FALSE \in BOOLEAN
      OBVIOUS
    <3> QED
      BY <2>2, <3>1 DEF SendRefresh, SendLogout, SendReset, Ops, Steps
  <2>3. CASE SendLogoutAll(t, b) \/ SendDelete(t, b) \/ SendRevoke(t, b)
    <3>1. FALSE \in BOOLEAN
      OBVIOUS
    <3> QED
      BY <2>3, <3>1 DEF SendLogoutAll, SendDelete, SendRevoke, Admitted, Ops, Steps
  <2> QED
    BY <2>1, <2>2, <2>3 DEF AuthTab
<1>2. /\ UNCHANGED <<user, redis, issued, last, rows, jar, now, ended, crossed, out>>
      /\ excused' = excused \/ (excused' = excused \cup {jar[b]} /\ jar[b] # NoPair)
      /\ lost' = lost \/ lost' = lost + 1
  <2>1. CASE SendSignIn(t, b) \/ SendLogout(t, b) \/ SendReset(t, b)
    <3>1. UNCHANGED <<user, redis, issued, last, rows, jar, now, history, lost>>
      BY <2>1, Zenon DEF SendSignIn, SendLogout, SendReset
    <3> QED
      BY <3>1 DEF history
  <2>2. CASE SendRefresh(t, b)
    BY <2>2 DEF SendRefresh
  <2>3. CASE SendLogoutAll(t, b) \/ SendDelete(t, b) \/ SendRevoke(t, b)
    BY <2>3 DEF SendLogoutAll, SendDelete, SendRevoke, Admitted, history
  <2> QED
    BY <2>1, <2>2, <2>3 DEF AuthTab
<1> DEFINE r == [op |-> op, by |-> b, at |-> step, pair |-> jar[b], new |-> NoPair,
                 tracked |-> tracked, scanned |-> {}, status |-> "pending"]
<1>3. r \in Request /\ Placed(r) /\ r.at # "store" /\ r.at # "rotate"
  BY <1>1, AuthKinds DEF Request, Placed, RowsOK, Status
<1>4. Grounded(r)
  BY <1>3 DEF Grounded, Known, AuthInv, Handed
<1>5. req' = [req EXCEPT ![t] = r] /\ sent' = sent + 1
  BY <1>1 DEF Open
<1> HIDE DEF r
<1>6. (user \in BOOLEAN)'
  BY <1>2, AuthKinds, Zenon
<1>7. jar[b] \in Pairs \cup {NoPair} /\ excused \subseteq Pairs /\ sent \in Nat /\ lost \in Nat
      /\ rows \in [Pairs -> {"none", "active", "revoked"}]
      /\ jar \in [Browsers -> Pairs \cup {NoPair}]
  BY AuthKinds DEF RowsOK
<1>8. excused' \subseteq Pairs /\ sent' \in Nat /\ lost' \in Nat
  BY <1>2, <1>5, <1>7
<1>9. /\ UNCHANGED <<key, issued, last, denied, revoked, out, ended, crossed, now>>
      /\ UNCHANGED <<rows, jar>>
  BY <1>2 DEF redis
<1>10. /\ \A d \in Browsers : Known(jar[d])
       /\ \A n \in Pairs : rows[n] # "none" => Known(n)
  BY DEF AuthInv, Handed
<1> QED
  BY <1>3, <1>4, <1>5, <1>6, <1>7, <1>8, <1>9, <1>10, QuietKeeps

\* A handler that moves on without touching a pair.
LEMMA StandsElsewhere ==
    ASSUME AuthInv, NEW t \in Tabs, NEW r \in Request \cup {Idle}, req' = [req EXCEPT ![t] = r],
           r # Idle => Placed(r) /\ Grounded(r) /\ r.at # "store",
           UNCHANGED <<user, redis, issued, last, rows, jar, now, ended, crossed, out>>,
           sent' \in Nat, lost' \in Nat, excused' \subseteq Pairs
    PROVE  AuthInv'
<1>1. (user \in BOOLEAN)'
  BY AuthKinds, Zenon
<1> QED
  BY <1>1, QuietKeeps, AuthKinds DEF redis, RowsOK, AuthInv, Handed

LEMMA GotoIsStep ==
    ASSUME AuthInv, NEW t \in Tabs
    PROVE  /\ \A step : Goto(t, step) => req' = [req EXCEPT ![t] = [req[t] EXCEPT !.at = step]]
           /\ \A status : Answer(t, status) =>
                req' = [req EXCEPT ![t] = [req[t] EXCEPT !.at = "reply", !.status = status]]
           /\ Done(t) => req' = [req EXCEPT ![t] = Idle]
BY AuthKinds DEF Goto, Answer, Done, ReqOK

\* What is known of a request is known of it at another place.
LEMMA MovedRequest ==
    ASSUME AuthInv, NEW t \in Tabs, req[t] # Idle, NEW step \in Steps,
           NEW status \in Status
    PROVE  /\ [req[t] EXCEPT !.at = step] \in Request
           /\ [req[t] EXCEPT !.at = "reply", !.status = status] \in Request
           /\ Placed([req[t] EXCEPT !.at = "reply", !.status = status])
           /\ req[t].at # "store" =>
                /\ Grounded([req[t] EXCEPT !.at = "reply", !.status = status])
                /\ step \notin {"store", "rotate"} => Grounded([req[t] EXCEPT !.at = step])
<1>1. req[t] \in Request /\ Placed(req[t]) /\ Grounded(req[t])
  BY RequestIs
<1>2. /\ [req[t] EXCEPT !.at = step] \in Request
      /\ [req[t] EXCEPT !.at = "reply", !.status = status] \in Request
  BY <1>1 DEF Request, Steps
<1> QED
  BY <1>1, <1>2 DEF Placed, Grounded, Request

LEMMA GetKeyKeeps == ASSUME AuthInv, NEW t \in Tabs, GetKey(t) PROVE AuthInv'
<1> DEFINE n == req[t].pair
<1>1. /\ req[t] # Idle /\ req[t].at = "get"
      /\ UNCHANGED <<user, redis, issued, last, rows, jar, now, history, lost, sent>>
      /\ \/ Answer(t, "expired")
         \/ key[n] = "live" /\ Goto(t, "rotate")
         \/ Goto(t, "user")
         \/ Goto(t, "mark")
  BY DEF GetKey, At
<1>2. req[t] \in Request /\ Placed(req[t]) /\ Grounded(req[t]) /\ n \in Pairs
  BY <1>1, RequestIs DEF Placed, Request
<1>3. PICK r \in Request : /\ req' = [req EXCEPT ![t] = r] /\ Placed(r) /\ Grounded(r)
                           /\ r.at # "store"
  <2>1. CASE Answer(t, "expired")
    <3> DEFINE r == [req[t] EXCEPT !.at = "reply", !.status = "expired"]
    <3>1. r \in Request /\ Placed(r) /\ Grounded(r) /\ r.at # "store"
      <4>1. "get" \in Steps /\ "expired" \in Status
        BY DEF Steps, Status
      <4>2. r \in Request /\ Placed(r) /\ Grounded(r)
        BY <1>1, <4>1, MovedRequest
      <4> QED
        BY <1>2, <4>2 DEF Request
    <3>2. req' = [req EXCEPT ![t] = r]
      BY <2>1, GotoIsStep
    <3> QED
      BY <3>1, <3>2
  <2>2. ASSUME NEW step \in {"user", "mark", "rotate"}, Goto(t, step),
               step = "rotate" => key[n] = "live"
        PROVE  \E r \in Request : /\ req' = [req EXCEPT ![t] = r] /\ Placed(r) /\ Grounded(r)
                                  /\ r.at # "store"
    <3> DEFINE r == [req[t] EXCEPT !.at = step]
    <3>1. r \in Request
      BY <1>2 DEF Request, Steps
    <3>2. Placed(r) /\ r.at # "store"
      BY <1>1, <1>2 DEF Placed, Request
    <3>3. r.at = "rotate" /\ (r.pair \in ended \/ key[r.pair] = "gone") => r.pair \in crossed
      BY <2>2, <1>2 DEF AuthInv, SignedOutStaysOut, Request
    <3>4. Grounded(r)
      BY <1>1, <1>2, <3>2, <3>3 DEF Grounded, Request
    <3>5. req' = [req EXCEPT ![t] = r]
      BY <2>2, GotoIsStep
    <3> QED
      BY <3>1, <3>2, <3>4, <3>5
  <2> QED
    BY <1>1, <2>1, <2>2
<1> QED
  BY <1>1, <1>3, StandsElsewhere, AuthKinds DEF history, RowsOK

\* The steps of a handler that read, answer or fail.
LEMMA ReadKeeps ==
    ASSUME AuthInv, NEW t \in Tabs, Erase(t) \/ Scan(t) \/ FindRow(t) \/ RevokeRow(t)
    PROVE  AuthInv'
<1>1. req[t] # Idle /\ req[t].at \in {"erase", "scan", "find", "revokeRow"}
      /\ UNCHANGED <<redis, issued, last, jar, now, history, lost, sent>>
  BY DEF Erase, Scan, FindRow, RevokeRow, At
<1>2. req[t] \in Request /\ Placed(req[t]) /\ Grounded(req[t])
  BY <1>1, RequestIs
<1>3. UNCHANGED <<key, issued, last, denied, revoked, out, ended, crossed, now, jar, excused, lost,
                  sent>>
  BY <1>1 DEF redis, history
<1>4. excused' \subseteq Pairs /\ sent' \in Nat /\ lost' \in Nat
      /\ jar' \in [Browsers -> Pairs \cup {NoPair}] /\ \A b \in Browsers : Known(jar'[b])
  BY <1>3, AuthKinds DEF RowsOK, AuthInv, Handed
<1>5. /\ (user \in BOOLEAN)' /\ rows' \in [Pairs -> {"none", "active", "revoked"}]
      /\ \A n \in Pairs : rows'[n] # "none" => Known(n)
  <2>1. CASE Erase(t)
    <3>1. (user \in BOOLEAN)'
      BY <2>1, Zenon DEF Erase
    <3> QED
      BY <2>1, <3>1 DEF Erase
  <2>2. CASE RevokeRow(t)
    <3>1. (user \in BOOLEAN)'
      BY <2>2, AuthKinds, Zenon DEF RevokeRow
    <3>2. req[t].new \in Pairs /\ Known(req[t].new) /\ req[t].new # NoPair
      BY <2>2, <1>2 DEF RevokeRow, At, Placed, Grounded, Request
    <3> QED
      BY <2>2, <3>1, <3>2, AuthKinds DEF RevokeRow, RowsOK, AuthInv, Handed
  <2>3. CASE Scan(t) \/ FindRow(t)
    <3>1. UNCHANGED <<user, rows>>
      BY <2>3 DEF Scan, FindRow
    <3>2. (user \in BOOLEAN)'
      BY <3>1, AuthKinds, Zenon
    <3> QED
      BY <3>1, <3>2, AuthKinds DEF RowsOK, AuthInv, Handed
  <2> QED
    BY <2>1, <2>2, <2>3
<1>6. PICK r \in Request \cup {Idle} :
        /\ req' = [req EXCEPT ![t] = r]
        /\ r # Idle => Placed(r) /\ Grounded(r) /\ r.at # "store"
  <2>1. CASE Done(t)
    BY <2>1, GotoIsStep
  <2>2. ASSUME NEW step \in {"mark", "del"}, Goto(t, step),
               \/ Erase(t) /\ step = "mark"
               \/ RevokeRow(t) /\ step = "del"
        PROVE  \E r \in Request : /\ req' = [req EXCEPT ![t] = r]
                                  /\ Placed(r) /\ Grounded(r) /\ r.at # "store"
    <3> DEFINE r == [req[t] EXCEPT !.at = step]
    <3>1. req' = [req EXCEPT ![t] = r]
      BY <2>2, GotoIsStep
    <3>2. r \in Request
      BY <1>2 DEF Request, Steps
    <3>3. Grounded(r) /\ r.at # "store"
      BY <1>1, <1>2 DEF Grounded, Request
    <3>4. req[t].at = "revokeRow" => req[t].op = "revoke"
      BY <1>2 DEF Placed
    <3>5. Placed(r)
      BY <2>2, <1>1, <1>2, <3>4 DEF Placed, Request, Erase, RevokeRow, At
    <3> QED
      BY <3>1, <3>2, <3>3, <3>5
  <2>3. CASE Scan(t)
    <3> DEFINE r == [req[t] EXCEPT !.at = "sweep", !.scanned = Present]
    <3>1. req' = [req EXCEPT ![t] = r]
      BY <2>3, AuthKinds DEF Scan, ReqOK
    <3>2. r \in Request
      BY <1>2 DEF Request, Steps, Present
    <3>3. Grounded(r) /\ r.at # "store" /\ Placed(r)
      BY <2>3, <1>1, <1>2 DEF Grounded, Request, Placed, Scan, At, Present, Known
    <3> QED
      BY <3>1, <3>2, <3>3
  <2>4. CASE FindRow(t) /\ ~Done(t)
    <3>1. PICK n \in Pairs :
            rows[n] = "active" /\ req' = [req EXCEPT ![t].at = "revokeRow", ![t].new = n]
      BY <2>4 DEF FindRow
    <3> DEFINE r == [req[t] EXCEPT !.at = "revokeRow", !.new = n]
    <3>2. req' = [req EXCEPT ![t] = r]
      BY <3>1, AuthKinds DEF ReqOK
    <3>3. r \in Request
      BY <1>2 DEF Request, Steps
    <3>4. Known(n) /\ n # NoPair
      BY <3>1, AuthKinds DEF AuthInv, Handed
    <3>5. Grounded(r) /\ r.at # "store"
      BY <1>1, <1>2, <3>4 DEF Grounded, Request
    <3>6. Placed(r)
      BY <2>4, <1>2, <3>4 DEF Placed, Request, FindRow, At
    <3> QED
      BY <3>2, <3>3, <3>5, <3>6
  <2>5. CASE Erase(t)
    BY <2>1, <2>2, <2>5 DEF Erase
  <2>6. CASE RevokeRow(t)
    BY <2>1, <2>2, <2>6 DEF RevokeRow
  <2> QED
    BY <2>1, <2>3, <2>4, <2>5, <2>6
<1> QED
  BY <1>3, <1>4, <1>5, <1>6, QuietKeeps

LEMMA TrackKeeps == ASSUME AuthInv, NEW t \in Tabs, TrackLogin(t) PROVE AuthInv'
<1>1. /\ req[t] # Idle /\ req[t].at = "track"
      /\ rows' = rows \/ rows' = [rows EXCEPT ![req[t].new] = "active"]
      /\ UNCHANGED <<user, redis, issued, last, jar, now, history, lost, sent>>
  BY DEF TrackLogin, At
<1>2. req[t] \in Request /\ Placed(req[t]) /\ Grounded(req[t])
  BY <1>1, RequestIs
<1>3. "ok" \in Status /\ "error" \in Status /\ "reply" \in Steps
  BY DEF Status, Steps
<1>4. PICK r \in Request : /\ req' = [req EXCEPT ![t] = r]
                           /\ Placed(r) /\ Grounded(r) /\ r.at # "store"
  <2>1. PICK status \in Status : Answer(t, status)
    BY <1>3 DEF TrackLogin
  <2> DEFINE r == [req[t] EXCEPT !.at = "reply", !.status = status]
  <2>2. r \in Request /\ Placed(r) /\ Grounded(r)
    BY <1>1, <1>3, MovedRequest
  <2>3. req' = [req EXCEPT ![t] = r] /\ r.at # "store"
    BY <1>2, <2>1, GotoIsStep DEF Request
  <2> QED
    BY <2>2, <2>3
<1>5. (user \in BOOLEAN)'
  BY <1>1, AuthKinds, Zenon
<1>6. req[t].new \in Pairs /\ Known(req[t].new) /\ req[t].new # NoPair
  BY <1>1, <1>2 DEF Placed, Grounded, Request
<1>7. /\ rows' \in [Pairs -> {"none", "active", "revoked"}]
      /\ \A n \in Pairs : rows'[n] # "none" => Known(n)
  BY <1>1, <1>6, AuthKinds DEF RowsOK, AuthInv, Handed
<1>8. UNCHANGED <<key, issued, last, denied, revoked, out, ended, crossed, now, jar, excused, lost,
                  sent>>
  BY <1>1 DEF redis, history
<1>9. excused' \subseteq Pairs /\ sent' \in Nat /\ lost' \in Nat
      /\ jar' \in [Browsers -> Pairs \cup {NoPair}] /\ \A b \in Browsers : Known(jar'[b])
  BY <1>8, AuthKinds DEF RowsOK, AuthInv, Handed
<1> QED
  BY <1>4, <1>5, <1>7, <1>8, <1>9, QuietKeeps

\* The reply reaches the browser, or nobody; a call that throws ends the handler.
LEMMA NetworkKeeps == ASSUME AuthInv, NEW t \in Tabs, AuthNetwork(t) PROVE AuthInv'
<1>1. CASE Reply(t)
  <2>1. /\ req[t] # Idle /\ req[t].at = "reply"
        /\ jar' = [jar EXCEPT ![req[t].by] = CookiesAfter(t)] /\ req' = [req EXCEPT ![t] = Idle]
        /\ UNCHANGED <<user, redis, issued, last, rows, now, history, lost, sent>>
    BY <1>1 DEF Reply, At
  <2>2. req[t] \in Request /\ Grounded(req[t])
    BY <2>1, RequestIs
  <2>3. CookiesAfter(t) \in Pairs \cup {NoPair} /\ Known(CookiesAfter(t))
    BY <2>1, <2>2, AuthKinds DEF CookiesAfter, Request, RowsOK, Grounded, AuthInv, Handed, Known
  <2>4. jar' \in [Browsers -> Pairs \cup {NoPair}] /\ \A b \in Browsers : Known(jar'[b])
    BY <2>1, <2>3, AuthKinds DEF RowsOK, AuthInv, Handed
  <2>5. (user \in BOOLEAN)'
    BY <2>1, AuthKinds, Zenon
  <2>6. UNCHANGED <<key, issued, last, denied, revoked, out, ended, crossed, now, rows, excused,
                    lost, sent>>
    BY <2>1 DEF redis, history
  <2>7. excused' \subseteq Pairs /\ sent' \in Nat /\ lost' \in Nat
        /\ rows' \in [Pairs -> {"none", "active", "revoked"}]
        /\ \A n \in Pairs : rows'[n] # "none" => Known(n)
    BY <2>6, AuthKinds DEF RowsOK, AuthInv, Handed
  <2> QED
    BY <2>1, <2>4, <2>5, <2>6, <2>7, QuietKeeps
<1>2. CASE LoseReply(t) \/ Throw(t)
  <2>1. req[t] # Idle /\ Undelivered(t)
        /\ (Done(t) \/ (req[t].at = "track" /\ Answer(t, "error")))
    BY <1>2 DEF LoseReply, Throw, At
  <2>2. req[t] \in Request
    BY <2>1, RequestIs
  <2>3. PICK r \in Request \cup {Idle} :
          /\ req' = [req EXCEPT ![t] = r]
          /\ r # Idle => Placed(r) /\ Grounded(r) /\ r.at # "store"
    <3>1. CASE Done(t)
      BY <3>1, GotoIsStep
    <3>2. CASE req[t].at = "track" /\ Answer(t, "error")
      <4> DEFINE r == [req[t] EXCEPT !.at = "reply", !.status = "error"]
      <4>1. "error" \in Status /\ "reply" \in Steps
        BY DEF Status, Steps
      <4>2. r \in Request /\ Placed(r) /\ Grounded(r)
        BY <2>1, <3>2, <4>1, MovedRequest
      <4>3. req' = [req EXCEPT ![t] = r] /\ r.at # "store"
        BY <2>2, <3>2, GotoIsStep DEF Request
      <4> QED
        BY <4>2, <4>3
    <3> QED
      BY <2>1, <3>1, <3>2
  <2>4. /\ UNCHANGED <<user, redis, issued, last, rows, jar, now, ended, crossed, out>>
        /\ excused' \subseteq Pairs /\ sent' \in Nat /\ lost' \in Nat
    <3>1. req[t].op = "refresh" => req[t].pair \in Pairs
      BY <2>1, RequestIs DEF Placed, Request
    <3> QED
      BY <2>1, <3>1, AuthKinds DEF Undelivered, RowsOK
  <2> QED
    BY <2>3, <2>4, StandsElsewhere
<1> QED
  BY <1>1, <1>2 DEF AuthNetwork

-----------------------------------------------------------------------------
(* The steps that issue, rotate, revoke and end pairs                      *)

\* Marks and names, when no pair is issued or revoked.
LEMMA MarksFrame ==
    ASSUME AuthInv, UNCHANGED <<issued, last, denied, revoked, out, now>>
    PROVE  Marks'
BY DEF AuthInv, Marks, Covered

LEMMA HandedFrame ==
    ASSUME AuthInv, UNCHANGED <<last, jar, rows, ended>>,
           \A n \in Pairs : key'[n] # "none" <=> key[n] # "none"
    PROVE  Handed'
<1>1. \A n \in Pairs \cup {NoPair} : Known(n)' <=> Known(n)
  BY DEF Known
<1>2. ended \subseteq Pairs /\ \A b \in Browsers : jar[b] \in Pairs \cup {NoPair}
  BY AuthKinds DEF RowsOK
<1> QED
  BY <1>1, <1>2 DEF AuthInv, Handed, Known

LEMMA RotateKeeps == ASSUME AuthInv, NEW t \in Tabs, Rotate(t) PROVE AuthInv'
<1> DEFINE n == req[t].pair
<1>0. PICK r : r = [req[t] EXCEPT !.at = "user"]
  OBVIOUS
<1>1. /\ req[t] # Idle /\ req[t].at = "rotate" /\ key' = [key EXCEPT ![n] = "rotated"]
      /\ req' = [req EXCEPT ![t] = r]
      /\ UNCHANGED <<user, denied, revoked, issued, last, rows, jar, now, history, lost, sent>>
  BY <1>0, GotoIsStep DEF Rotate, At
<1>2. req[t] \in Request /\ Placed(req[t]) /\ Grounded(req[t])
  BY <1>1, RequestIs
<1>3. n \in Pairs /\ key[n] # "none" /\ (n \in ended => n \in crossed)
  BY <1>1, <1>2 DEF Placed, Grounded, Known, Request
<1>4. /\ key' \in [Pairs -> KeyStates] /\ key'[n] = "rotated"
      /\ \A m \in Pairs \ {n} : key'[m] = key[m]
  BY <1>1, <1>3, AuthKinds DEF RedisOK, KeyStates
<1>5. RedisOK' /\ RowsOK' /\ (user \in BOOLEAN)'
  <2>1. RedisOK' /\ RowsOK'
    BY <1>1, <1>4, AuthKinds DEF RedisOK, RowsOK, history
  <2>2. (user \in BOOLEAN)'
    BY <1>1, AuthKinds, Zenon
  <2> QED
    BY <2>1, <2>2
<1>6. r \in Request /\ Placed(r) /\ Grounded(r)' /\ r.at # "store"
  <2>1. r \in Request /\ r.at = "user"
    BY <1>0, <1>2 DEF Request, Steps
  <2>2. Grounded(r)
    BY <1>0, <1>1, <1>2 DEF Grounded, Request
  <2>3. r.scanned \subseteq Pairs /\ r.pair \in Pairs \cup {NoPair} /\ r.new \in Pairs \cup {NoPair}
    BY <2>1 DEF Request
  <2>4. Grounded(r)'
    BY <1>3, <1>4, <2>1, <2>2, <2>3 DEF Grounded, Known
  <2>5. Placed(r)
    BY <1>0, <1>1, <1>2 DEF Placed, Request
  <2> QED
    BY <2>1, <2>4, <2>5
<1>7. \A u \in Tabs \ {t} : At(u, "store") => key'[req[u].new] = "none"
  <2> SUFFICES ASSUME NEW u \in Tabs \ {t}, At(u, "store") PROVE key'[req[u].new] = "none"
    OBVIOUS
  <2>1. req[u] \in Request /\ Placed(req[u]) /\ Grounded(req[u])
    BY RequestIs DEF At
  <2> QED
    BY <2>1, <1>3, <1>4 DEF At, Placed, Grounded, Request
<1>8. \A u \in Tabs \ {t} : At(u, "rotate") /\ (req[u].pair \in ended' \/ key'[req[u].pair] = "gone")
                               => req[u].pair \in crossed'
  <2> SUFFICES ASSUME NEW u \in Tabs \ {t}, At(u, "rotate"),
                      req[u].pair \in ended' \/ key'[req[u].pair] = "gone"
               PROVE  req[u].pair \in crossed'
    OBVIOUS
  <2>1. req[u] \in Request /\ Placed(req[u]) /\ Grounded(req[u])
    BY RequestIs DEF At
  <2>2. req[u].pair \in Pairs
    BY <2>1 DEF At, Placed, Request
  <2> QED
    BY <2>1, <2>2, <1>1, <1>4 DEF At, Grounded, history
<1>9. ReqOK' /\ Requests' /\ OwnPair'
  <2>1. last <= last' /\ last' \in Nat
    BY <1>1, AuthKinds DEF RedisOK
  <2>2. \A m \in Pairs : key[m] # "none" => key'[m] # "none"
    BY <1>4
  <2> QED
    BY <1>1, <1>6, <1>7, <1>8, <2>1, <2>2, OneRequest
<1>10. Marks'
  BY <1>1, MarksFrame DEF history
<1>11. Handed'
  <2>1. \A m \in Pairs : key'[m] # "none" <=> key[m] # "none"
    BY <1>3, <1>4
  <2> QED
    BY <1>1, <2>1, HandedFrame DEF history
<1>12. SignedOutStaysOut'
  BY <1>1, <1>3, <1>4, AuthKinds DEF AuthInv, SignedOutStaysOut, history, RowsOK
<1> QED
  BY <1>5, <1>9, <1>10, <1>11, <1>12, AuthParts DEF AuthInv

LEMMA FindUserKeeps == ASSUME AuthInv, NEW t \in Tabs, FindUser(t) PROVE AuthInv'
<1>1. /\ req[t] # Idle /\ req[t].at = "user"
      /\ UNCHANGED <<user, redis, rows, jar, now, history, lost, sent>>
  BY DEF FindUser, At
<1>2. req[t] \in Request /\ Placed(req[t]) /\ Grounded(req[t])
  BY <1>1, RequestIs
<1>3. UNCHANGED <<user, key, denied, revoked, rows, jar, now, ended, crossed, excused, out, lost,
                  sent>>
  BY <1>1 DEF redis, history
<1>4. CASE Answer(t, "noUser") /\ UNCHANGED <<issued, last>>
  <2> DEFINE r == [req[t] EXCEPT !.at = "reply", !.status = "noUser"]
  <2>1. "noUser" \in Status /\ "reply" \in Steps
    BY DEF Status, Steps
  <2>2. r \in Request /\ Placed(r) /\ Grounded(r)
    BY <1>1, <2>1, MovedRequest
  <2>3. req' = [req EXCEPT ![t] = r] /\ r.at # "store"
    BY <1>2, <1>4, GotoIsStep DEF Request
  <2>4. sent' \in Nat /\ lost' \in Nat /\ excused' \subseteq Pairs
    BY <1>3, AuthKinds DEF RowsOK
  <2> HIDE DEF r
  <2> QED
    BY <1>1, <1>3, <1>4, <2>2, <2>3, <2>4, StandsElsewhere
<1>5. CASE /\ last < MaxPairs /\ last' = last + 1
           /\ issued' = [issued EXCEPT ![last'] = now]
           /\ req' = [req EXCEPT ![t].at = "store", ![t].new = last']
  <2>0. PICK m, r : m = last + 1 /\ r = [req[t] EXCEPT !.at = "store", !.new = m]
    OBVIOUS
  <2>1. m \in Pairs /\ last' = m /\ issued' = [issued EXCEPT ![m] = now] /\ key[m] = "none"
        /\ last \in Nat
    BY <1>5, <2>0, AuthKinds DEF RedisOK, AuthInv, Handed
  <2>2. req' = [req EXCEPT ![t] = r]
    BY <1>5, <2>0, AuthKinds DEF ReqOK
  <2>3. r \in Request /\ r.at = "store" /\ r.new = m
    BY <2>0, <1>2, <2>1 DEF Request, Steps
  <2>4. Placed(r)
    BY <2>0, <1>1, <1>2, <2>1, AuthKinds DEF Placed, Request
  <2>5. Grounded(r)'
    BY <2>0, <1>2, <1>3, <2>1, <2>3 DEF Grounded, Known, Request
  <2>6. \A u \in Tabs \ {t} : At(u, "store") => key'[req[u].new] = "none"
    BY <1>3, RequestIs DEF At, Grounded
  <2>7. \A u \in Tabs \ {t} :
          At(u, "rotate") /\ (req[u].pair \in ended' \/ key'[req[u].pair] = "gone")
            => req[u].pair \in crossed'
    BY <1>3, RequestIs DEF At, Grounded
  <2>8. ReqOK' /\ Requests' /\ OwnPair'
    <3>1. last <= last' /\ last' \in Nat /\ \A n \in Pairs : key[n] # "none" => key'[n] # "none"
      BY <1>3, <2>0, <2>1
    <3> QED
      BY <2>0, <2>1, <2>2, <2>3, <2>4, <2>5, <2>6, <2>7, <3>1, OneRequest
  <2>9. RedisOK' /\ RowsOK' /\ (user \in BOOLEAN)'
    <3>1. RedisOK' /\ RowsOK'
      <4>1. issued' \in [Pairs -> Nat] /\ last' \in Nat /\ last' <= MaxPairs
        BY <2>1, AuthKinds DEF RedisOK, RowsOK
      <4>2. RedisOK'
        BY <1>3, <4>1, AuthKinds DEF RedisOK
      <4>3. RowsOK'
        BY <1>3, AuthKinds DEF RowsOK
      <4> QED
        BY <4>2, <4>3
    <3>2. (user \in BOOLEAN)'
      BY <1>3, AuthKinds, Zenon
    <3> QED
      BY <3>1, <3>2
  <2>10. Marks'
    <3>1. /\ issued'[m] = now /\ \A n \in Pairs \ {m} : issued'[n] = issued[n]
          /\ m \notin out /\ now \in Nat
      BY <2>0, <2>1, AuthKinds DEF RedisOK, RowsOK, AuthInv, Marks
    <3>2. out \subseteq 1 .. last /\ out \subseteq Pairs \ {m} /\ revoked.at <= now
      BY <3>1, AuthKinds DEF AuthInv, Marks, RowsOK
    <3>3. out' \subseteq 1 .. last' /\ \A n \in out' : Covered(n)'
      BY <1>3, <2>0, <2>1, <3>1, <3>2 DEF AuthInv, Marks, Covered
    <3>4. /\ \A n \in Pairs : issued'[n] <= now'
          /\ \A n \in Pairs \ out' : denied'[n] = 0
      BY <1>3, <3>1 DEF AuthInv, Marks
    <3>5. \A n \in 1 .. last' : n \notin out' => revoked'.at <= issued'[n]
      <4> SUFFICES ASSUME NEW n \in 1 .. last', n \notin out'
                   PROVE  revoked'.at <= issued'[n]
        OBVIOUS
      <4>1. CASE n = m
        BY <1>3, <3>1, <3>2, <4>1
      <4>2. CASE n # m
        <5>1. n \in 1 .. last /\ n \in Pairs \ {m}
          BY <2>0, <2>1, <4>2, AuthKinds
        <5> QED
          BY <1>3, <3>1, <5>1 DEF AuthInv, Marks
      <4> QED
        BY <4>1, <4>2
    <3> QED
      BY <1>3, <3>2, <3>3, <3>4, <3>5 DEF Marks
  <2>11. Handed' /\ SignedOutStaysOut'
    BY <1>3, <2>0, <2>1, AuthKinds DEF AuthInv, Handed, Known, SignedOutStaysOut, RedisOK
  <2> QED
    BY <2>8, <2>9, <2>10, <2>11, AuthParts DEF AuthInv
<1> QED
  BY <1>4, <1>5 DEF FindUser

LEMMA StoreKeeps == ASSUME AuthInv, NEW t \in Tabs, Store(t) PROVE AuthInv'
<1> DEFINE n == req[t].new
<1>1. /\ req[t] # Idle /\ req[t].at = "store" /\ key' = [key EXCEPT ![n] = "live"]
      /\ UNCHANGED <<user, denied, revoked, issued, last, rows, jar, now, history, lost, sent>>
  BY DEF Store, At
<1>2. req[t] \in Request /\ Placed(req[t]) /\ Grounded(req[t])
  BY <1>1, RequestIs
<1>3. n \in Pairs /\ key[n] = "none" /\ n <= last /\ n \notin ended
  BY <1>1, <1>2, AuthKinds DEF Placed, Grounded, Request, AuthInv, Handed, Known
<1>4. /\ key' \in [Pairs -> KeyStates] /\ key'[n] = "live"
      /\ \A m \in Pairs \ {n} : key'[m] = key[m]
  BY <1>1, <1>3, AuthKinds DEF RedisOK, KeyStates
<1>5. RedisOK' /\ RowsOK' /\ (user \in BOOLEAN)'
  <2>1. RedisOK' /\ RowsOK'
    BY <1>1, <1>4, AuthKinds DEF RedisOK, RowsOK, history
  <2>2. (user \in BOOLEAN)'
    BY <1>1, AuthKinds, Zenon
  <2> QED
    BY <2>1, <2>2
<1>6. PICK r \in Request :
        /\ req' = [req EXCEPT ![t] = r] /\ Placed(r) /\ r.at \in {"track", "reply"}
        /\ r.pair = req[t].pair /\ r.new = n /\ r.scanned = req[t].scanned
  <2>1. PICK at \in {"track", "reply"}, status \in {"pending", "ok"} :
          req' = [req EXCEPT ![t].at = at, ![t].status = status]
    BY DEF Store
  <2> DEFINE r == [req[t] EXCEPT !.at = at, !.status = status]
  <2>2. r \in Request
    BY <1>2 DEF Request, Steps, Status
  <2>3. req' = [req EXCEPT ![t] = r]
    BY <2>1, AuthKinds DEF ReqOK
  <2>4. /\ Placed(r) /\ r.at \in {"track", "reply"}
        /\ r.pair = req[t].pair /\ r.new = n /\ r.scanned = req[t].scanned
    BY <1>1, <1>2 DEF Placed, Request
  <2> QED
    BY <2>2, <2>3, <2>4
<1>7. Grounded(r)' /\ r.at # "store"
  BY <1>2, <1>3, <1>4, <1>6 DEF Grounded, Known, Request
<1>8. \A u \in Tabs \ {t} : At(u, "store") => key'[req[u].new] = "none"
  <2> SUFFICES ASSUME NEW u \in Tabs \ {t}, At(u, "store") PROVE key'[req[u].new] = "none"
    OBVIOUS
  <2>1. req[u] \in Request /\ Placed(req[u]) /\ Grounded(req[u])
    BY RequestIs DEF At
  <2>2. req[u].new # n
    BY <1>1 DEF AuthInv, OwnPair, At
  <2> QED
    BY <2>1, <2>2, <1>4 DEF At, Placed, Grounded, Request
<1>9. \A u \in Tabs \ {t} : At(u, "rotate") /\ (req[u].pair \in ended' \/ key'[req[u].pair] = "gone")
                               => req[u].pair \in crossed'
  <2> SUFFICES ASSUME NEW u \in Tabs \ {t}, At(u, "rotate"),
                      req[u].pair \in ended' \/ key'[req[u].pair] = "gone"
               PROVE  req[u].pair \in crossed'
    OBVIOUS
  <2>1. req[u] \in Request /\ Placed(req[u]) /\ Grounded(req[u])
    BY RequestIs DEF At
  <2>2. req[u].pair \in Pairs
    BY <2>1 DEF At, Placed, Request
  <2> QED
    BY <2>1, <2>2, <1>1, <1>4 DEF At, Grounded, history
<1>10. ReqOK' /\ Requests' /\ OwnPair'
  <2>1. last <= last' /\ last' \in Nat
    BY <1>1, AuthKinds DEF RedisOK
  <2>2. \A m \in Pairs : key[m] # "none" => key'[m] # "none"
    BY <1>4
  <2> QED
    BY <1>1, <1>6, <1>7, <1>8, <1>9, <2>1, <2>2, OneRequest
<1>11. Marks'
  BY <1>1, MarksFrame DEF history
<1>12. Handed'
  BY <1>1, <1>3, <1>4, AuthKinds DEF AuthInv, Handed, Known, history, RowsOK
<1>13. SignedOutStaysOut'
  BY <1>1, <1>3, <1>4, AuthKinds DEF AuthInv, SignedOutStaysOut, history, RowsOK
<1> QED
  BY <1>5, <1>10, <1>11, <1>12, <1>13, AuthParts DEF AuthInv

\* The end of one pair: its key is gone, and a rotation under way is on record.
LEMMA DeleteKeyKeeps ==
    ASSUME AuthInv, NEW n \in Pairs, key[n] # "none", DeleteKey(n)
    PROVE  /\ key' \in [Pairs -> KeyStates] /\ key'[n] = "gone"
           /\ \A m \in Pairs \ {n} : key'[m] = key[m]
           /\ ended' \subseteq Pairs /\ crossed' \subseteq Pairs
           /\ \A m \in ended' : m \in ended \/ m = n
           /\ SignedOutStaysOut'
           /\ \A u \in Tabs : At(u, "rotate") /\ (req[u].pair \in ended' \/ key'[req[u].pair] = "gone")
                                => req[u].pair \in crossed'
<1>1. /\ key' \in [Pairs -> KeyStates] /\ key'[n] = "gone"
      /\ \A m \in Pairs \ {n} : key'[m] = key[m]
  BY AuthKinds DEF DeleteKey, RedisOK, KeyStates
<1>2. /\ ended' = ended \cup {n} /\ crossed' = crossed \cup AboutToRotate({n})
      /\ AboutToRotate({n}) \subseteq {n}
  BY DEF DeleteKey, AboutToRotate
<1>3. ended' \subseteq Pairs /\ crossed' \subseteq Pairs
  BY <1>2, AuthKinds DEF RowsOK
<1>4. SignedOutStaysOut'
  BY <1>1, <1>2, AuthKinds DEF AuthInv, SignedOutStaysOut, RowsOK
<1>5. ASSUME NEW u \in Tabs, At(u, "rotate"),
             req[u].pair \in ended' \/ key'[req[u].pair] = "gone"
      PROVE  req[u].pair \in crossed'
  <2>1. req[u] \in Request /\ Placed(req[u]) /\ Grounded(req[u])
    BY <1>5, RequestIs DEF At
  <2>2. req[u].pair \in Pairs
    BY <1>5, <2>1 DEF At, Placed, Request
  <2>3. CASE req[u].pair = n
    BY <1>2, <1>5, <2>3 DEF AboutToRotate
  <2>4. CASE req[u].pair # n
    BY <1>1, <1>2, <1>5, <2>1, <2>2, <2>4 DEF Grounded, At
  <2> QED
    BY <2>3, <2>4
<1> QED
  BY <1>1, <1>2, <1>3, <1>4, <1>5

\* A handler deletes one key and goes on.
LEMMA DeletingKeeps ==
    ASSUME AuthInv, NEW t \in Tabs, NEW n \in Pairs, key[n] # "none", DeleteKey(n),
           NEW r \in Request \cup {Idle}, req' = [req EXCEPT ![t] = r],
           r # Idle => Placed(r) /\ Grounded(r) /\ r.at \notin {"store", "rotate"},
           UNCHANGED <<user, denied, revoked, issued, last, rows, jar, now, excused, out, lost,
                       sent>>
    PROVE  AuthInv'
<1>1. /\ key' \in [Pairs -> KeyStates] /\ key'[n] = "gone"
      /\ \A m \in Pairs \ {n} : key'[m] = key[m]
      /\ ended' \subseteq Pairs /\ crossed' \subseteq Pairs
      /\ \A m \in ended' : m \in ended \/ m = n
      /\ SignedOutStaysOut'
      /\ \A u \in Tabs : At(u, "rotate") /\ (req[u].pair \in ended' \/ key'[req[u].pair] = "gone")
                           => req[u].pair \in crossed'
  BY DeleteKeyKeeps
<1>2. \A m \in Pairs : key'[m] # "none" <=> key[m] # "none"
  BY <1>1
<1>3. RedisOK' /\ RowsOK' /\ (user \in BOOLEAN)'
  <2>1. RedisOK' /\ RowsOK'
    BY <1>1, AuthKinds DEF RedisOK, RowsOK
  <2>2. (user \in BOOLEAN)'
    BY AuthKinds, Zenon
  <2> QED
    BY <2>1, <2>2
<1>4. r # Idle => Grounded(r)'
  <2> SUFFICES ASSUME r # Idle PROVE Grounded(r)'
    OBVIOUS
  <2>1. r \in Request /\ Grounded(r) /\ r.at \notin {"store", "rotate"}
    OBVIOUS
  <2>2. r.scanned \subseteq Pairs /\ r.pair \in Pairs \cup {NoPair} /\ r.new \in Pairs \cup {NoPair}
    BY <2>1 DEF Request
  <2> QED
    BY <1>2, <2>1, <2>2 DEF Grounded, Known
<1>5. \A u \in Tabs \ {t} : At(u, "store") => key'[req[u].new] = "none"
  <2> SUFFICES ASSUME NEW u \in Tabs \ {t}, At(u, "store") PROVE key'[req[u].new] = "none"
    OBVIOUS
  <2>1. req[u] \in Request /\ Placed(req[u]) /\ Grounded(req[u])
    BY RequestIs DEF At
  <2> QED
    BY <2>1, <1>1 DEF At, Placed, Grounded, Request
<1>6. ReqOK' /\ Requests' /\ OwnPair'
  <2>1. last <= last' /\ last' \in Nat
    BY AuthKinds DEF RedisOK
  <2> QED
    BY <1>1, <1>2, <1>4, <1>5, <2>1, OneRequest
<1>7. Marks'
  BY MarksFrame
<1>8. Handed'
  <2>1. \A m \in Pairs \cup {NoPair} : Known(m)' <=> Known(m)
    BY <1>2 DEF Known
  <2>2. \A b \in Browsers : jar[b] \in Pairs \cup {NoPair}
    BY AuthKinds DEF RowsOK
  <2>3. \A m \in ended' : Known(m)'
    BY <1>1, <2>1 DEF AuthInv, Handed, Known
  <2> QED
    BY <1>2, <2>1, <2>2, <2>3 DEF AuthInv, Handed, Known
<1> QED
  BY <1>1, <1>3, <1>6, <1>7, <1>8, AuthParts DEF AuthInv

LEMMA LogoutDelKeeps == ASSUME AuthInv, NEW t \in Tabs, LogoutDel(t) PROVE AuthInv'
<1>1. /\ req[t] # Idle /\ req[t].at = "del" /\ req[t].op = "logout" /\ DeleteKey(req[t].pair)
      /\ Goto(t, "deny") \/ Answer(t, "ok")
      /\ UNCHANGED <<user, denied, revoked, issued, last, rows, jar, now, excused, out, lost, sent>>
  BY DEF LogoutDel, At
<1>2. req[t] \in Request /\ Placed(req[t]) /\ Grounded(req[t])
  BY <1>1, RequestIs
<1>3. req[t].pair \in Pairs /\ key[req[t].pair] # "none"
  BY <1>1, <1>2 DEF Placed, Grounded, Known, Request
<1>4. PICK r \in Request : /\ req' = [req EXCEPT ![t] = r] /\ Placed(r) /\ Grounded(r)
                           /\ r.at \in {"deny", "reply"}
  <2>1. "deny" \in Steps /\ "ok" \in Status
    BY DEF Steps, Status
  <2>2. CASE Goto(t, "deny")
    <3> DEFINE r == [req[t] EXCEPT !.at = "deny"]
    <3>1. r \in Request /\ Grounded(r)
      BY <1>1, <2>1, MovedRequest
    <3>2. req' = [req EXCEPT ![t] = r]
      BY <2>2, GotoIsStep
    <3>3. Placed(r) /\ r.at = "deny"
      BY <1>1, <1>2 DEF Placed, Request
    <3> QED
      BY <3>1, <3>2, <3>3
  <2>3. CASE Answer(t, "ok")
    <3> DEFINE r == [req[t] EXCEPT !.at = "reply", !.status = "ok"]
    <3>1. r \in Request /\ Grounded(r) /\ Placed(r)
      BY <1>1, <2>1, MovedRequest
    <3>2. req' = [req EXCEPT ![t] = r] /\ r.at = "reply"
      BY <1>2, <2>3, GotoIsStep DEF Request
    <3> QED
      BY <3>1, <3>2
  <2> QED
    BY <1>1, <2>2, <2>3
<1> QED
  BY <1>1, <1>3, <1>4, DeletingKeeps

LEMMA RevokeDelKeeps == ASSUME AuthInv, NEW t \in Tabs, RevokeDel(t) PROVE AuthInv'
<1>1. /\ req[t] # Idle /\ req[t].at = "del" /\ req[t].op = "revoke" /\ DeleteKey(req[t].new)
      /\ req' = [req EXCEPT ![t] = Idle]
      /\ UNCHANGED <<user, denied, revoked, issued, last, rows, jar, now, excused, out, lost, sent>>
  BY DEF RevokeDel, At, Done
<1>2. req[t] \in Request /\ Placed(req[t]) /\ Grounded(req[t])
  BY <1>1, RequestIs
<1>3. req[t].new \in Pairs /\ key[req[t].new] # "none"
  BY <1>1, <1>2 DEF Placed, Grounded, Known, Request
<1> QED
  BY <1>1, <1>3, DeletingKeeps

LEMMA SweepKeeps == ASSUME AuthInv, NEW t \in Tabs, NEW n \in Pairs, Sweep(t, n) PROVE AuthInv'
<1>1. /\ req[t] # Idle /\ req[t].at = "sweep" /\ key[n] # "none" /\ DeleteKey(n)
      /\ UNCHANGED <<user, denied, revoked, issued, last, rows, jar, now, excused, out, lost, sent>>
  BY DEF Sweep, At, Present
<1>2. req[t] \in Request /\ Placed(req[t]) /\ Grounded(req[t])
  BY <1>1, RequestIs
<1> DEFINE r == [req[t] EXCEPT !.scanned = req[t].scanned \ {n}]
<1>3. req' = [req EXCEPT ![t] = r]
  BY AuthKinds DEF Sweep, ReqOK
<1>4. r \in Request /\ r.at = "sweep" /\ Placed(r) /\ Grounded(r)
  BY <1>1, <1>2 DEF Request, Placed, Grounded
<1> HIDE DEF r
<1> QED
  BY <1>1, <1>3, <1>4, DeletingKeeps

\* Every way of ending all sessions: the mark, then the rows.
LEMMA MarkKeeps == ASSUME AuthInv, NEW t \in Tabs, Mark(t) PROVE AuthInv'
<1>1. /\ req[t] # Idle /\ req[t].at = "mark" /\ revoked' = [at |-> now, until |-> now + Life]
      /\ out' = out \cup (1 .. last) /\ Goto(t, "scan")
      /\ UNCHANGED <<user, key, denied, issued, last, rows, jar, now, ended, crossed, excused, lost,
                     sent>>
  BY DEF Mark, At
<1>2. req[t] \in Request /\ Placed(req[t]) /\ Grounded(req[t])
  BY <1>1, RequestIs
<1>3. PICK r : r = [req[t] EXCEPT !.at = "scan"]
  OBVIOUS
<1>4. req' = [req EXCEPT ![t] = r]
  BY <1>1, <1>3, GotoIsStep
<1>5. r \in Request /\ Placed(r) /\ Grounded(r)' /\ r.at = "scan"
  <2>1. r \in Request /\ Placed(r) /\ r.at = "scan"
    BY <1>1, <1>2, <1>3 DEF Request, Placed, Steps
  <2>2. Grounded(r)'
    BY <1>1, <1>2, <1>3 DEF Request, Grounded, Known
  <2> QED
    BY <2>1, <2>2
<1>6. ReqOK' /\ Requests' /\ OwnPair'
  <2>1. last <= last' /\ last' \in Nat
    BY <1>1, AuthKinds DEF RedisOK
  <2>2. \A u \in Tabs \ {t} : At(u, "store") => key'[req[u].new] = "none"
    BY <1>1, RequestIs DEF At, Grounded
  <2>3. \A u \in Tabs \ {t} :
          At(u, "rotate") /\ (req[u].pair \in ended' \/ key'[req[u].pair] = "gone")
            => req[u].pair \in crossed'
    BY <1>1, RequestIs DEF At, Grounded
  <2> QED
    BY <1>1, <1>4, <1>5, <2>1, <2>2, <2>3, OneRequest
<1>7. 1 .. last \subseteq Pairs /\ now \in Nat /\ issued \in [Pairs -> Nat]
  BY AuthKinds DEF RedisOK, RowsOK
<1>8. RedisOK' /\ RowsOK' /\ (user \in BOOLEAN)'
  <2>1. RedisOK'
    BY <1>1, <1>7, AuthKinds DEF RedisOK
  <2>2. RowsOK'
    BY <1>1, <1>7, AuthKinds DEF RowsOK
  <2>3. (user \in BOOLEAN)'
    BY <1>1, AuthKinds, Zenon
  <2> QED
    BY <2>1, <2>2, <2>3
<1>9. Marks'
  <2>1. out' = 1 .. last /\ revoked'.at = now /\ revoked'.until = now + Life
    BY <1>1 DEF AuthInv, Marks
  <2>2. \A n \in out' : Covered(n)'
    BY <1>1, <1>7, <2>1, AuthKinds DEF AuthInv, Marks, Covered
  <2> QED
    BY <1>1, <1>7, <2>1, <2>2, AuthKinds DEF AuthInv, Marks
<1>10. Handed' /\ SignedOutStaysOut'
  BY <1>1 DEF AuthInv, Handed, Known, SignedOutStaysOut
<1> QED
  BY <1>6, <1>8, <1>9, <1>10, AuthParts DEF AuthInv

\* One access token is put on the list.
LEMMA DenyKeeps == ASSUME AuthInv, NEW t \in Tabs, Deny(t) PROVE AuthInv'
<1>1. /\ req[t] # Idle /\ req[t].at = "deny"
      /\ denied' = [denied EXCEPT ![req[t].pair] = now + Life]
      /\ out' = out \cup {req[t].pair} /\ Answer(t, "ok")
      /\ UNCHANGED <<user, key, revoked, issued, last, rows, jar, now, ended, crossed, excused, lost,
                     sent>>
  BY DEF Deny, At
<1>2. req[t] \in Request /\ Placed(req[t]) /\ Grounded(req[t])
  BY <1>1, RequestIs
<1>3. PICK n : n = req[t].pair
  OBVIOUS
<1>4. n \in Pairs /\ n <= last
  BY <1>1, <1>2, <1>3 DEF Placed, Grounded, Known, Request, AuthInv, Handed
<1>5. PICK r : r = [req[t] EXCEPT !.at = "reply", !.status = "ok"]
  OBVIOUS
<1>6. req' = [req EXCEPT ![t] = r]
  BY <1>1, <1>5, GotoIsStep
<1>7. r \in Request /\ Placed(r) /\ Grounded(r)' /\ r.at = "reply"
  <2>1. r \in Request /\ Placed(r) /\ r.at = "reply"
    BY <1>1, <1>2, <1>5 DEF Request, Placed, Steps, Status
  <2>2. Grounded(r)'
    BY <1>1, <1>2, <1>5 DEF Request, Grounded, Known
  <2> QED
    BY <2>1, <2>2
<1>8. ReqOK' /\ Requests' /\ OwnPair'
  <2>1. last <= last' /\ last' \in Nat
    BY <1>1, AuthKinds DEF RedisOK
  <2>2. \A u \in Tabs \ {t} : At(u, "store") => key'[req[u].new] = "none"
    BY <1>1, RequestIs DEF At, Grounded
  <2>3. \A u \in Tabs \ {t} :
          At(u, "rotate") /\ (req[u].pair \in ended' \/ key'[req[u].pair] = "gone")
            => req[u].pair \in crossed'
    BY <1>1, RequestIs DEF At, Grounded
  <2> QED
    BY <1>1, <1>6, <1>7, <2>1, <2>2, <2>3, OneRequest
<1>9. /\ denied' \in [Pairs -> Nat] /\ denied'[n] = now + Life
      /\ \A m \in Pairs \ {n} : denied'[m] = denied[m]
      /\ out' = out \cup {n} /\ now \in Nat /\ issued \in [Pairs -> Nat]
  BY <1>1, <1>3, <1>4, AuthKinds DEF RedisOK, RowsOK
<1>10. RedisOK' /\ RowsOK' /\ (user \in BOOLEAN)'
  <2>1. RedisOK'
    BY <1>1, <1>9, AuthKinds DEF RedisOK
  <2>2. RowsOK'
    BY <1>1, <1>4, <1>9, AuthKinds DEF RowsOK
  <2>3. (user \in BOOLEAN)'
    BY <1>1, AuthKinds, Zenon
  <2> QED
    BY <2>1, <2>2, <2>3
<1>11. Marks'
  <2>1. out' \subseteq 1 .. last' /\ out' \subseteq Pairs
    <3>1. out \subseteq 1 .. last /\ out \subseteq Pairs /\ n \in 1 .. last
      BY <1>4, AuthKinds DEF AuthInv, Marks, RowsOK, RedisOK
    <3> QED
      BY <1>1, <1>4, <1>9, <3>1
  <2>2. \A m \in out' : Covered(m)'
    <3> SUFFICES ASSUME NEW m \in out' PROVE Covered(m)'
      OBVIOUS
    <3>1. CASE m = n
      BY <1>1, <1>4, <1>9, <3>1, AuthKinds DEF AuthInv, Marks, Covered
    <3>2. CASE m # n
      BY <1>1, <1>9, <2>1, <3>2 DEF AuthInv, Marks, Covered
    <3> QED
      BY <3>1, <3>2
  <2> QED
    BY <1>1, <1>9, <2>1, <2>2 DEF AuthInv, Marks
<1>12. Handed' /\ SignedOutStaysOut'
  BY <1>1 DEF AuthInv, Handed, Known, SignedOutStaysOut
<1> QED
  BY <1>8, <1>10, <1>11, <1>12, AuthParts DEF AuthInv

\* The keys that were scanned are gone; those of a rotation are on record.
LEMMA RevokeRowsKeeps == ASSUME AuthInv, NEW t \in Tabs, RevokeRows(t) PROVE AuthInv'
<1>1. /\ req[t] # Idle /\ req[t].at = "sweep" /\ req[t].scanned \cap Present = {}
      /\ ended' = ended \cup req[t].scanned
      /\ rows' = [n \in Pairs |-> IF rows[n] = "active" THEN "revoked" ELSE rows[n]]
      /\ UNCHANGED <<user, key, denied, revoked, issued, last, jar, now, crossed, excused, out, lost,
                     sent>>
  BY DEF RevokeRows, At, redis
<1>2. req[t] \in Request /\ Placed(req[t]) /\ Grounded(req[t])
  BY <1>1, RequestIs
<1>3. \A n \in req[t].scanned : n \in Pairs /\ key[n] = "gone"
  <2> SUFFICES ASSUME NEW n \in req[t].scanned PROVE n \in Pairs /\ key[n] = "gone"
    OBVIOUS
  <2>1. n \in Pairs /\ Known(n) /\ n # NoPair
    BY <1>2, AuthKinds DEF Request, Grounded
  <2>2. n \notin Present
    BY <1>1
  <2> QED
    BY <2>1, <2>2, AuthKinds DEF Known, Present, RedisOK, KeyStates
<1>4. PICK r \in Request \cup {Idle} :
        /\ req' = [req EXCEPT ![t] = r]
        /\ r # Idle => Placed(r) /\ Grounded(r) /\ r.at \in {"deny", "reply"}
  <2>1. "deny" \in Steps /\ "compromised" \in Status
    BY DEF Steps, Status
  <2>2. CASE req[t].op \in {"logoutAll", "delete"}
    <3>1. Goto(t, "deny")
      BY <2>2 DEF RevokeRows
    <3> DEFINE r == [req[t] EXCEPT !.at = "deny"]
    <3>2. r \in Request /\ Grounded(r)
      BY <1>1, <2>1, MovedRequest
    <3>3. req' = [req EXCEPT ![t] = r]
      BY <3>1, GotoIsStep
    <3>4. Placed(r) /\ r.at = "deny"
      BY <1>1, <1>2, <2>2 DEF Placed, Request
    <3> QED
      BY <3>2, <3>3, <3>4
  <2>3. CASE req[t].op = "reset"
    <3>1. Done(t)
      BY <2>3 DEF RevokeRows
    <3> QED
      BY <3>1, GotoIsStep
  <2>4. CASE req[t].op = "refresh"
    <3>1. Answer(t, "compromised")
      BY <2>4 DEF RevokeRows
    <3> DEFINE r == [req[t] EXCEPT !.at = "reply", !.status = "compromised"]
    <3>2. r \in Request /\ Grounded(r) /\ Placed(r)
      BY <1>1, <2>1, MovedRequest
    <3>3. req' = [req EXCEPT ![t] = r] /\ r.at = "reply"
      BY <1>2, <3>1, GotoIsStep DEF Request
    <3> QED
      BY <3>2, <3>3
  <2> QED
    BY <1>1, <1>2, <2>2, <2>3, <2>4 DEF Placed
<1>5. r # Idle => Grounded(r)'
  BY <1>1, <1>4 DEF Grounded, Known
<1>6. \A u \in Tabs \ {t} : At(u, "store") => key'[req[u].new] = "none"
  BY <1>1, RequestIs DEF At, Grounded
<1>7. \A u \in Tabs \ {t} : At(u, "rotate") /\ (req[u].pair \in ended' \/ key'[req[u].pair] = "gone")
                               => req[u].pair \in crossed'
  BY <1>1, <1>3, RequestIs DEF At, Grounded
<1>8. ReqOK' /\ Requests' /\ OwnPair'
  <2>1. last <= last' /\ last' \in Nat
    BY <1>1, AuthKinds DEF RedisOK
  <2> QED
    BY <1>1, <1>4, <1>5, <1>6, <1>7, <2>1, OneRequest
<1>9. RedisOK' /\ RowsOK' /\ (user \in BOOLEAN)'
  <2>1. RedisOK'
    BY <1>1, AuthKinds DEF RedisOK
  <2>2. RowsOK'
    BY <1>1, <1>3, AuthKinds DEF RowsOK
  <2>3. (user \in BOOLEAN)'
    BY <1>1, AuthKinds, Zenon
  <2> QED
    BY <2>1, <2>2, <2>3
<1>10. Marks'
  BY <1>1, MarksFrame
<1>11. Handed'
  BY <1>1, <1>3, AuthKinds DEF AuthInv, Handed, Known
<1>12. SignedOutStaysOut'
  BY <1>1, <1>3 DEF AuthInv, SignedOutStaysOut
<1> QED
  BY <1>8, <1>9, <1>10, <1>11, <1>12, AuthParts DEF AuthInv

LEMMA GraceEndsKeeps == ASSUME AuthInv, NEW n \in Pairs, GraceEnds(n) PROVE AuthInv'
<1>1. /\ key[n] = "rotated" /\ key' = [key EXCEPT ![n] = "stale"]
      /\ UNCHANGED <<user, denied, revoked, issued, last, rows, jar, req, now, ended, crossed,
                     excused, out, lost, sent>>
  BY DEF GraceEnds, history
<1>2. /\ key' \in [Pairs -> KeyStates] /\ key'[n] = "stale"
      /\ \A m \in Pairs \ {n} : key'[m] = key[m]
  BY <1>1, AuthKinds DEF RedisOK, KeyStates
<1>3. RedisOK' /\ RowsOK' /\ ReqOK' /\ (user \in BOOLEAN)'
  <2>1. RedisOK' /\ RowsOK' /\ ReqOK'
    BY <1>1, <1>2, AuthKinds DEF RedisOK, RowsOK, ReqOK
  <2>2. (user \in BOOLEAN)'
    BY <1>1, AuthKinds, Zenon
  <2> QED
    BY <2>1, <2>2
<1>4. \A m \in Pairs : /\ key'[m] # "none" <=> key[m] # "none"
                       /\ key'[m] = "gone" <=> key[m] = "gone"
  BY <1>1, <1>2
<1>5. Requests'
  <2> SUFFICES ASSUME NEW u \in Tabs, req[u] # Idle
               PROVE  Placed(req[u])' /\ Grounded(req[u])'
    BY <1>1 DEF Requests, Idle
  <2>1. req[u] \in Request /\ Placed(req[u]) /\ Grounded(req[u])
    BY RequestIs
  <2>2. /\ req[u].scanned \subseteq Pairs /\ req[u].pair \in Pairs \cup {NoPair}
        /\ req[u].new \in Pairs \cup {NoPair}
    BY <2>1 DEF Request
  <2>3. req[u].at = "store" => req[u].new \in Pairs
    BY <2>1, <2>2 DEF Placed
  <2>4. req[u].at = "rotate" => req[u].pair \in Pairs
    BY <2>1, <2>2 DEF Placed
  <2>5. Placed(req[u])'
    BY <1>1, <2>1 DEF Placed
  <2>6. Grounded(req[u])'
    BY <1>1, <1>4, <2>1, <2>2, <2>3, <2>4 DEF Grounded, Known
  <2> QED
    BY <2>5, <2>6
<1>6. OwnPair'
  BY <1>1 DEF AuthInv, OwnPair, At
<1>7. Marks'
  BY <1>1, MarksFrame
<1>8. Handed'
  BY <1>1, <1>4, HandedFrame
<1>9. SignedOutStaysOut'
  BY <1>1, <1>4, AuthKinds DEF AuthInv, SignedOutStaysOut, RowsOK
<1> QED
  BY <1>3, <1>5, <1>6, <1>7, <1>8, <1>9, AuthParts DEF AuthInv

\* Only time passes, or nothing happens.
LEMMA TimeKeeps ==
    ASSUME AuthInv, now' = now \/ now' = now + 1,
           UNCHANGED <<user, key, denied, revoked, issued, last, rows, jar, req, ended, crossed,
                       excused, out, lost, sent>>
    PROVE  AuthInv'
<1>1. now \in Nat /\ issued \in [Pairs -> Nat] /\ revoked.at \in Nat
  BY AuthKinds DEF RowsOK, RedisOK
<1>2. RedisOK' /\ RowsOK' /\ ReqOK' /\ (user \in BOOLEAN)'
  <2>1. RedisOK' /\ RowsOK' /\ ReqOK'
    <3>1. now' \in Nat
      BY <1>1
    <3>2. RedisOK' /\ ReqOK'
      BY AuthKinds DEF RedisOK, ReqOK
    <3>3. RowsOK'
      BY <3>1, AuthKinds DEF RowsOK
    <3> QED
      BY <3>2, <3>3
  <2>2. (user \in BOOLEAN)'
    BY AuthKinds, Zenon
  <2> QED
    BY <2>1, <2>2
<1>3. Marks'
  <2>1. \A n \in Pairs : issued[n] <= now'
    BY <1>1 DEF AuthInv, Marks
  <2>2. revoked.at <= now'
    BY <1>1 DEF AuthInv, Marks
  <2> QED
    BY <2>1, <2>2 DEF AuthInv, Marks, Covered
<1>4. Requests' /\ OwnPair' /\ Handed' /\ SignedOutStaysOut'
  BY DEF AuthInv, Requests, Placed, Grounded, OwnPair, At, Handed, Known, SignedOutStaysOut
<1> QED
  BY <1>2, <1>3, <1>4, AuthParts DEF AuthInv

LEMMA AuthStep == AuthInv /\ [AuthNext]_authVars => AuthInv'
<1> SUFFICES ASSUME AuthInv, [AuthNext]_authVars
             PROVE  AuthInv'
  OBVIOUS
<1>1. ASSUME NEW t \in Tabs, AuthHandler(t)
      PROVE  AuthInv'
  BY <1>1, GetKeyKeeps, RotateKeeps, FindUserKeeps, StoreKeeps, TrackKeeps, LogoutDelKeeps,
     DenyKeeps, MarkKeeps, ReadKeeps, RevokeRowsKeeps, SweepKeeps, RevokeDelKeeps DEF AuthHandler
<1>2. ASSUME NEW t \in Tabs, AuthNetwork(t)
      PROVE  AuthInv'
  BY <1>2, NetworkKeeps
<1>3. ASSUME NEW t \in Tabs, NEW b \in Browsers, AuthTab(t, b)
      PROVE  AuthInv'
  BY <1>3, AuthSendKeeps
<1>4. ASSUME NEW n \in Pairs, GraceEnds(n)
      PROVE  AuthInv'
  BY <1>4, GraceEndsKeeps
<1>5. CASE Second
  BY <1>5, TimeKeeps DEF Second, redis, history
<1>6. CASE UNCHANGED authVars
  BY <1>6, TimeKeeps DEF authVars
<1> QED
  BY <1>1, <1>2, <1>3, <1>4, <1>5, <1>6 DEF AuthNext

\* AuthInv holds of the sessions of a user.
THEOREM AuthInvariant == AuthSpec => []AuthInv
<1> QED
  BY AuthStart, AuthStep, PTL DEF AuthSpec

\* Every variable keeps its type.
THEOREM AuthTypeCorrect == AuthSpec => []AuthTypeOK
<1>1. AuthInv => AuthTypeOK
  BY DEF AuthInv
<1> QED
  BY <1>1, AuthInvariant, PTL

\* The refresh token of a pair that was signed out has no key again, unless a rotation
\* was under way when it was deleted.
THEOREM SignedOutCorrect == AuthSpec => []SignedOutStaysOut
<1>1. AuthInv => SignedOutStaysOut
  BY DEF AuthInv
<1> QED
  BY <1>1, AuthInvariant, PTL

\* A revoked access token is refused for the rest of its life, however the requests that
\* revoke and issue tokens interleave.
THEOREM RevokedCorrect == AuthSpec => []RevokedIsRefused
<1>1. AuthInv => RevokedIsRefused
  <2> SUFFICES ASSUME AuthInv, NEW n \in out PROVE ~Accepted(n)
    BY DEF RevokedIsRefused
  <2>1. n \in Pairs /\ issued[n] \in Nat /\ denied[n] \in Nat /\ now \in Nat
        /\ revoked.at \in Nat /\ revoked.until \in Nat
    BY AuthKinds DEF RowsOK, RedisOK
  <2>2. Covered(n)
    BY DEF AuthInv, Marks
  <2> QED
    BY <2>1, <2>2, AuthKinds DEF Accepted, Verified, Denylisted, Covered
<1> QED
  BY <1>1, AuthInvariant, PTL

\* A session opened after everything was revoked is refused only if it began in the
\* second of the revocation.
THEOREM LaterCorrect == AuthSpec => []LaterSessionsAccepted
<1>1. AuthInv => LaterSessionsAccepted
  <2> SUFFICES ASSUME AuthInv, NEW n \in 1 .. last, n \notin out, Verified(n), ~Accepted(n)
               PROVE  issued[n] = revoked.at
    BY DEF LaterSessionsAccepted
  <2>1. n \in Pairs /\ issued[n] \in Nat /\ now \in Nat /\ revoked.at \in Nat
    BY AuthKinds DEF RowsOK, RedisOK
  <2>2. denied[n] = 0 /\ revoked.at <= issued[n]
    BY <2>1 DEF AuthInv, Marks
  <2> QED
    BY <2>1, <2>2 DEF Accepted, Denylisted
<1> QED
  BY <1>1, AuthInvariant, PTL

\* Revoking everything refuses exactly the tokens issued before it.
THEOREM RevocationCorrect == AuthSpec => []RevocationExact
<1>1. RevokedIsRefused /\ LaterSessionsAccepted => RevocationExact
  BY DEF RevocationExact
<1> QED
  BY <1>1, RevokedCorrect, LaterCorrect, PTL

-----------------------------------------------------------------------------
(* Why a refresh is refused                                                 *)

Refreshes(t, n) == req[t] # Idle /\ req[t].op = "refresh" /\ req[t].pair = n

\* The reply to the request of t will set the cookies of pair n.
Brings(t, n) == req[t] # Idle /\ req[t].op \in {"signIn", "refresh"} /\ req[t].new = n

\* The refresh of t has found its key, and brings a new pair unless there is no user.
Passed(t) == req[t].at \in {"user", "store", "track"} \/ (req[t].at = "reply" /\ req[t].new # NoPair)

\* A pair is the cookie of one browser, from which every request with it comes.
Homes ==
    /\ \A b, c \in Browsers : jar[b] = jar[c] /\ jar[b] # NoPair => b = c
    /\ \A t \in Tabs, b \in Browsers :
          req[t] # Idle /\ req[t].pair = jar[b] /\ jar[b] # NoPair => req[t].by = b
    /\ \A t, u \in Tabs :
          req[t] # Idle /\ req[u] # Idle /\ req[t].pair = req[u].pair /\ req[t].pair # NoPair
             => req[t].by = req[u].by

\* A pair on its way to a browser is nowhere else.
Coming ==
    \A t \in Tabs, n \in Pairs : Brings(t, n) =>
        /\ \A b \in Browsers : jar[b] # n
        /\ \A u \in Tabs : (req[u] # Idle => req[u].pair # n) /\ (Brings(u, n) => u = t)

Alone ==
    \A n \in Pairs \ excused : \A t, u \in Tabs : Refreshes(t, n) /\ Refreshes(u, n) => t = u

\* A pair that was rotated is replaced in its browser by the reply that is on its way, or
\* it was: nobody will present it again.
Replaced(n) ==
    /\ \A t \in Tabs : ~Brings(t, n)
    /\ \A b \in Browsers : jar[b] = n => \E t \in Tabs : Refreshes(t, n)
    /\ \A t \in Tabs : Refreshes(t, n) => Passed(t)

UsedUp == user => \A n \in Pairs \ excused : key[n] \in {"rotated", "stale"} => Replaced(n)

GoneIsEnded == \A n \in Pairs : key[n] = "gone" => n \in ended

Breach(r) == r.at \in {"mark", "scan", "sweep"} \/ r.status = "compromised"

Caused(r) ==
    /\ r.status = "expired" => r.pair \in ended
    /\ Breach(r) => r.pair \in excused \/ ~user

RefusalInv ==
    /\ Homes /\ Coming /\ Alone /\ UsedUp /\ GoneIsEnded
    /\ \A t \in Tabs : req[t] # Idle /\ req[t].op = "refresh" => Caused(req[t])

-----------------------------------------------------------------------------
(* What a step does to a request                                            *)

Sends(t) ==
    /\ req[t] = Idle /\ req'[t] # Idle /\ req'[t].by \in Browsers
    /\ req'[t].pair = jar[req'[t].by] /\ req'[t].new = NoPair /\ req'[t].status = "pending"
    /\ req'[t].op = "refresh" =>
          /\ req'[t].at = "get" /\ req'[t].pair \in Pairs
          /\ \A u \in Tabs : Refreshes(u, req'[t].pair) => req'[t].pair \in excused'
    /\ UNCHANGED <<user, key, jar, ended>>

Proceeds(t) ==
    /\ req'[t].status = "expired" =>
          req[t].status = "expired" \/ key[req[t].pair] \notin {"live", "rotated", "stale"}
    /\ Breach(req'[t]) => Breach(req[t]) \/ (key[req[t].pair] = "stale" /\ req[t].at = "get")
    /\ Passed(t) => Passed(t)' \/ ~user

Goes(t) ==
    /\ req[t] # Idle /\ req'[t] # Idle
    /\ req'[t].op = req[t].op /\ req'[t].by = req[t].by /\ req'[t].pair = req[t].pair
    /\ \/ req'[t].new = req[t].new \/ req[t].op = "revoke"
       \/ req'[t].new = last + 1
    /\ jar' = jar
    /\ req[t].op = "refresh" => Proceeds(t)

\* The request is over without a reply, or its reply sets, clears or leaves the cookies.
Ends(t) ==
    /\ req[t] # Idle /\ req'[t] = Idle
    /\ \/ jar' = jar /\ (req[t].op = "refresh" => req[t].pair \in excused')
       \/ /\ key' = key /\ req[t].at = "reply" /\ req[t].by \in Browsers
          /\ \E n \in Pairs \cup {NoPair} :
                /\ jar' = [jar EXCEPT ![req[t].by] = n]
                /\ n = NoPair \/ n = jar[req[t].by] \/ Brings(t, n)
                /\ req[t].op = "refresh" /\ req[t].new # NoPair => n = req[t].new

\* The refresh of t has rotated its key.
Rotates(t) == req[t].at = "rotate" /\ req'[t].at = "user" /\ req[t].op = "refresh" /\ Goes(t)

KeyMoves ==
    \A n \in Pairs :
        \/ key'[n] = key[n] \/ key'[n] = "live" \/ (key'[n] = "gone" /\ n \in ended')
        \/ key[n] = "rotated" /\ key'[n] = "stale"
        \/ key'[n] = "rotated" /\ \E t \in Tabs : Refreshes(t, n) /\ Rotates(t)

Moves(t) ==
    /\ KeyMoves
    /\ ended \subseteq ended' /\ excused \subseteq excused' /\ (user' => user)
    /\ Sends(t) \/ Goes(t) \/ Ends(t)
    /\ \A u \in Tabs \ {t} : req'[u] = req[u]

\* A request before and after a step of its handler.
LEMMA RequestSteps ==
    ASSUME AuthInv, NEW t \in Tabs, req[t] # Idle
    PROVE  /\ req[t] \in Request /\ Placed(req[t])
           /\ \A step \in Steps : Goto(t, step) =>
                 /\ req'[t] = [req[t] EXCEPT !.at = step]
                 /\ \A u \in Tabs \ {t} : req'[u] = req[u]
           /\ \A status \in Status : Answer(t, status) =>
                 /\ req'[t] = [req[t] EXCEPT !.at = "reply", !.status = status]
                 /\ \A u \in Tabs \ {t} : req'[u] = req[u]
           /\ Done(t) => req'[t] = Idle /\ \A u \in Tabs \ {t} : req'[u] = req[u]
<1>1. req \in [Tabs -> Request \cup {Idle}]
  BY AuthKinds DEF ReqOK
<1>2. req[t] \in Request /\ Placed(req[t])
  BY RequestIs
<1>3. ASSUME NEW step \in Steps, Goto(t, step)
      PROVE  /\ req'[t] = [req[t] EXCEPT !.at = step]
             /\ \A u \in Tabs \ {t} : req'[u] = req[u]
  BY <1>1, <1>3 DEF Goto
<1>4. ASSUME NEW status \in Status, Answer(t, status)
      PROVE  /\ req'[t] = [req[t] EXCEPT !.at = "reply", !.status = status]
             /\ \A u \in Tabs \ {t} : req'[u] = req[u]
  BY <1>1, <1>4 DEF Answer
<1>5. ASSUME Done(t)
      PROVE  req'[t] = Idle /\ \A u \in Tabs \ {t} : req'[u] = req[u]
  BY <1>1, <1>5 DEF Done
<1>. QED BY <1>2, <1>3, <1>4, <1>5

\* What a step of a handler does when it goes to another call, answers, or is over.
LEMMA GotoMoves ==
    ASSUME AuthInv, NEW t \in Tabs, req[t] # Idle, NEW step \in Steps, Goto(t, step), jar' = jar,
           req[t].op = "refresh" =>
              /\ step \in {"mark", "scan", "sweep"} =>
                    Breach(req[t]) \/ (key[req[t].pair] = "stale" /\ req[t].at = "get")
              /\ Passed(t) => step \in {"user", "store", "track"}
    PROVE  Goes(t) /\ \A u \in Tabs \ {t} : req'[u] = req[u]
<1>1. /\ req'[t] = [req[t] EXCEPT !.at = step] /\ req[t] \in Request
      /\ \A u \in Tabs \ {t} : req'[u] = req[u]
  BY RequestSteps
<1>2. /\ req'[t] # Idle /\ req'[t].op = req[t].op /\ req'[t].by = req[t].by
      /\ req'[t].pair = req[t].pair /\ req'[t].new = req[t].new
      /\ req'[t].at = step /\ req'[t].status = req[t].status
  BY <1>1 DEF Request, Idle, Ops
<1>3. req[t].op = "refresh" => Proceeds(t)
  BY <1>2 DEF Proceeds, Passed, Breach
<1>. QED BY <1>1, <1>2, <1>3 DEF Goes

\* A handler that answers.
LEMMA AnswerMoves ==
    ASSUME AuthInv, NEW t \in Tabs, req[t] # Idle, NEW status \in Status, Answer(t, status), jar' = jar,
           req[t].op = "refresh" =>
              /\ status = "expired" => key[req[t].pair] \notin {"live", "rotated", "stale"}
              /\ status = "compromised" => Breach(req[t])
              /\ Passed(t) => req[t].new # NoPair \/ ~user
    PROVE  Goes(t) /\ \A u \in Tabs \ {t} : req'[u] = req[u]
<1>1. /\ req'[t] = [req[t] EXCEPT !.at = "reply", !.status = status] /\ req[t] \in Request
      /\ \A u \in Tabs \ {t} : req'[u] = req[u]
  BY RequestSteps
<1>2. /\ req'[t] # Idle /\ req'[t].op = req[t].op /\ req'[t].by = req[t].by
      /\ req'[t].pair = req[t].pair /\ req'[t].new = req[t].new
      /\ req'[t].at = "reply" /\ req'[t].status = status
  BY <1>1 DEF Request, Idle, Ops
<1>3. req[t].op = "refresh" => Proceeds(t)
  BY <1>2 DEF Proceeds, Passed, Breach
<1>. QED BY <1>1, <1>2, <1>3 DEF Goes

\* A request that is over without a reply.
LEMMA DoneMoves ==
    ASSUME AuthInv, NEW t \in Tabs, req[t] # Idle, Done(t), jar' = jar,
           req[t].op = "refresh" => req[t].pair \in excused'
    PROVE  Ends(t) /\ \A u \in Tabs \ {t} : req'[u] = req[u]
BY RequestSteps DEF Ends

\* How every action moves the request that takes it.
LEMMA TabMoves ==
    ASSUME AuthInv, NEW t \in Tabs, NEW b \in Browsers, req[t] = Idle, AuthTab(t, b)
    PROVE  Moves(t)
<1>1. PICK op \in Ops, step \in Steps, tracked \in BOOLEAN :
        /\ Open(t, b, op, step, tracked)
        /\ op = "refresh" <=> SendRefresh(t, b)
        /\ op = "refresh" => step = "get"
        /\ UNCHANGED <<user, redis, issued, last, rows, jar, now, ended, crossed, out>>
        /\ op # "refresh" => excused' = excused
  <2>0. FALSE \in BOOLEAN /\ ("refresh" \in Ops /\ "get" \in Steps)
    BY DEF Ops, Steps
  <2>1. CASE SendRefresh(t, b)
    BY <2>0, <2>1 DEF SendRefresh
  <2>2. CASE ~SendRefresh(t, b)
    BY <2>0, <2>2 DEF AuthTab, SendSignIn, SendLogout, SendLogoutAll, SendDelete, SendRevoke,
                     SendReset, Ops, Steps, history
  <2>. QED BY <2>1, <2>2
<1>2. /\ req'[t] = [op |-> op, by |-> b, at |-> step, pair |-> jar[b], new |-> NoPair,
                    tracked |-> tracked, scanned |-> {}, status |-> "pending"]
      /\ \A u \in Tabs \ {t} : req'[u] = req[u]
  BY <1>1, AuthKinds DEF Open, ReqOK
<1>3. req'[t] # Idle
  BY <1>1, <1>2 DEF Idle, Ops
<1>4. ASSUME op = "refresh"
      PROVE  /\ jar[b] \in Pairs /\ excused \subseteq excused'
             /\ \A u \in Tabs : Refreshes(u, jar[b]) => jar[b] \in excused'
  BY <1>1, <1>4, AuthKinds DEF SendRefresh, RowsOK, Refreshes
<1>5. Sends(t) /\ excused \subseteq excused'
  BY <1>1, <1>2, <1>3, <1>4 DEF Sends, redis
<1>. QED BY <1>1, <1>2, <1>5 DEF Moves, KeyMoves, redis

\* The lookup of the key, which decides between a rotation, an expiry and a breach.
LEMMA GetKeyMoves == ASSUME AuthInv, NEW t \in Tabs, GetKey(t) PROVE Moves(t)
<1>1. /\ req[t] # Idle /\ req[t].at = "get" /\ req[t] \in Request
      /\ UNCHANGED <<user, key, jar, ended, excused>>
  BY RequestIs DEF GetKey, At, redis, history
<1>2. \/ req[t].pair \notin Present /\ Answer(t, "expired")
      \/ Goto(t, "rotate") \/ Goto(t, "user")
      \/ key[req[t].pair] = "stale" /\ Goto(t, "mark")
  BY DEF GetKey
<1>3. req[t].pair \in Pairs /\ ~Passed(t)
  BY <1>1, RequestIs DEF Placed, Passed, Request
<1>4. /\ {"rotate", "user", "mark"} \subseteq Steps /\ "expired" \in Status
      /\ req[t].pair \notin Present => key[req[t].pair] \notin {"live", "rotated", "stale"}
  BY <1>3 DEF Steps, Status, Present
<1>5. Goes(t) /\ \A u \in Tabs \ {t} : req'[u] = req[u]
  BY <1>1, <1>2, <1>3, <1>4, GotoMoves, AnswerMoves
<1>. QED BY <1>1, <1>5 DEF Moves, KeyMoves

\* The rotation is the one step that makes a live key rotated.
LEMMA RotateMoves == ASSUME AuthInv, NEW t \in Tabs, Rotate(t) PROVE Moves(t)
<1>1. /\ req[t] # Idle /\ req[t].at = "rotate" /\ Goto(t, "user")
      /\ UNCHANGED <<user, jar, ended, excused>>
      /\ key' = [key EXCEPT ![req[t].pair] = "rotated"]
  BY DEF Rotate, At, history
<1>2. "user" \in Steps /\ ~Passed(t) /\ req[t].op = "refresh"
  BY <1>1, RequestIs DEF Steps, Passed, Placed
<1>3. Goes(t) /\ \A u \in Tabs \ {t} : req'[u] = req[u]
  BY <1>1, <1>2, GotoMoves
<1>4. req'[t].at = "user"
  <2>1. req'[t] = [req[t] EXCEPT !.at = "user"] /\ req[t] \in Request
    BY <1>1, <1>2, RequestSteps
  <2>. QED BY <2>1 DEF Request
<1>5. KeyMoves
  BY <1>1, <1>2, <1>3, <1>4, AuthKinds DEF KeyMoves, Rotates, Refreshes, RedisOK
<1>. QED BY <1>1, <1>3, <1>5 DEF Moves

\* The row of the user is read.
LEMMA FindUserMoves == ASSUME AuthInv, NEW t \in Tabs, FindUser(t) PROVE Moves(t)
<1>1. /\ req[t] # Idle /\ req[t].at = "user" /\ UNCHANGED <<user, key, jar, ended, excused>>
      /\ req[t] \in Request
  BY RequestIs DEF FindUser, At, redis, history
<1>2. CASE ~user /\ Answer(t, "noUser")
  <2>1. "noUser" \in Status
    BY DEF Status
  <2>2. Goes(t) /\ \A u \in Tabs \ {t} : req'[u] = req[u]
    BY <1>1, <1>2, <2>1, AnswerMoves
  <2>. QED BY <1>1, <2>2 DEF Moves, KeyMoves
<1>3. CASE req' = [req EXCEPT ![t].at = "store", ![t].new = last + 1]
  <2>1. req'[t] = [req[t] EXCEPT !.at = "store", !.new = last + 1]
        /\ \A u \in Tabs \ {t} : req'[u] = req[u]
    BY <1>3, AuthKinds DEF ReqOK
  <2>2. /\ req'[t].op = req[t].op /\ req'[t].by = req[t].by /\ req'[t].pair = req[t].pair
        /\ req'[t].at = "store" /\ req'[t].new = last + 1 /\ req'[t].status = req[t].status
        /\ req'[t].op \in Ops
    BY <1>1, <2>1 DEF Request
  <2>3. req'[t] # Idle
    BY <2>2 DEF Idle, Ops
  <2>4. Proceeds(t)
    BY <2>2 DEF Proceeds, Passed, Breach
  <2>. QED BY <1>1, <2>1, <2>2, <2>3, <2>4 DEF Moves, KeyMoves, Goes
<1>. QED BY <1>2, <1>3 DEF FindUser

\* The key of a new pair is written.
LEMMA StoreMoves == ASSUME AuthInv, NEW t \in Tabs, Store(t) PROVE Moves(t)
<1>1. /\ req[t] # Idle /\ req[t].at = "store" /\ UNCHANGED <<user, jar, ended, excused>>
      /\ req[t] \in Request /\ req[t].new # NoPair
      /\ key' = [key EXCEPT ![req[t].new] = "live"]
      /\ req' = [req EXCEPT ![t].at = IF req[t].tracked THEN "track" ELSE "reply",
                            ![t].status = IF req[t].tracked THEN "pending" ELSE "ok"]
  BY RequestIs DEF Store, At, history, Placed
<1>2. PICK at \in {"track", "reply"}, status \in {"pending", "ok"} :
        /\ req'[t] = [req[t] EXCEPT !.at = at, !.status = status]
        /\ \A u \in Tabs \ {t} : req'[u] = req[u]
  BY <1>1, AuthKinds DEF ReqOK
<1>3. /\ req'[t].op = req[t].op /\ req'[t].by = req[t].by /\ req'[t].pair = req[t].pair
      /\ req'[t].new = req[t].new /\ req'[t].op \in Ops
      /\ req'[t].at \in {"track", "reply"} /\ req'[t].status \in {"pending", "ok"}
  <2>1. req[t] \in Request
    BY <1>1
  <2>. QED BY <1>2, <2>1 DEF Request
<1>4. req'[t] # Idle
  BY <1>3 DEF Idle, Ops
<1>5. req[t].op = "refresh" => Proceeds(t)
  BY <1>1, <1>3 DEF Proceeds, Passed, Breach
<1>6. KeyMoves
  BY <1>1, AuthKinds DEF KeyMoves, RedisOK
<1>7. Goes(t)
  BY <1>1, <1>3, <1>4, <1>5 DEF Goes
<1>. QED BY <1>1, <1>2, <1>6, <1>7 DEF Moves

\* The sign-in is recorded.
LEMMA TrackMoves == ASSUME AuthInv, NEW t \in Tabs, TrackLogin(t) PROVE Moves(t)
<1>1. /\ req[t] # Idle /\ req[t].at = "track" /\ UNCHANGED <<user, key, jar, ended, excused>>
      /\ req[t] \in Request /\ req[t].new # NoPair
      /\ \E status \in {"ok", "error"} : Answer(t, status)
  BY RequestIs DEF TrackLogin, At, redis, history, Placed
<1>2. {"ok", "error"} \subseteq Status
  BY DEF Status
<1>3. Goes(t) /\ \A u \in Tabs \ {t} : req'[u] = req[u]
  BY <1>1, <1>2, AnswerMoves
<1>. QED BY <1>1, <1>3 DEF Moves, KeyMoves

\* The deletion of one key.
LEMMA DeleteMoves ==
    ASSUME AuthInv, NEW n \in Pairs, DeleteKey(n)
    PROVE  KeyMoves /\ ended \subseteq ended'
BY AuthKinds DEF DeleteKey, KeyMoves, RedisOK

\* The end of one session.
LEMMA LogoutMoves == ASSUME AuthInv, NEW t \in Tabs, LogoutDel(t) PROVE Moves(t)
<1>1. /\ req[t] # Idle /\ req[t].op = "logout" /\ UNCHANGED <<user, jar, excused>>
      /\ req[t] \in Request /\ req[t].pair \in Pairs /\ DeleteKey(req[t].pair)
      /\ Goto(t, "deny") \/ Answer(t, "ok")
  BY RequestIs DEF LogoutDel, At, Placed, Request
<1>2. "ok" \in Status /\ "deny" \in Steps
  BY DEF Status, Steps
<1>3. Goes(t) /\ \A u \in Tabs \ {t} : req'[u] = req[u]
  BY <1>1, <1>2, AnswerMoves, GotoMoves
<1>. QED BY <1>1, <1>3, DeleteMoves DEF Moves

\* The end of one session by its owner, from another.
LEMMA RevokeDelMoves == ASSUME AuthInv, NEW t \in Tabs, RevokeDel(t) PROVE Moves(t)
<1>1. /\ req[t] # Idle /\ req[t].op = "revoke" /\ UNCHANGED <<user, jar, excused>>
      /\ req[t].new \in Pairs /\ DeleteKey(req[t].new) /\ Done(t)
  BY RequestIs DEF RevokeDel, At, Placed, Request
<1>2. Ends(t) /\ \A u \in Tabs \ {t} : req'[u] = req[u]
  BY <1>1, DoneMoves
<1>. QED BY <1>1, <1>2, DeleteMoves DEF Moves

\* The end of all sessions, key by key.
LEMMA SweepMoves == ASSUME AuthInv, NEW t \in Tabs, NEW n \in Pairs, Sweep(t, n) PROVE Moves(t)
<1>1. /\ req[t] # Idle /\ UNCHANGED <<user, jar, excused>> /\ DeleteKey(n) /\ req[t] \in Request
      /\ req' = [req EXCEPT ![t].scanned = @ \ {n}]
  BY RequestIs DEF Sweep, At
<1>2. /\ req'[t] = [req[t] EXCEPT !.scanned = @ \ {n}]
      /\ \A u \in Tabs \ {t} : req'[u] = req[u]
  BY <1>1, AuthKinds DEF ReqOK
<1>3. /\ req'[t].op = req[t].op /\ req'[t].by = req[t].by /\ req'[t].pair = req[t].pair
      /\ req'[t].new = req[t].new /\ req'[t].op \in Ops
      /\ req'[t].at = req[t].at /\ req'[t].status = req[t].status
  BY <1>1, <1>2 DEF Request
<1>4. req'[t] # Idle
  BY <1>3 DEF Idle, Ops
<1>5. Proceeds(t)
  BY <1>3 DEF Proceeds, Passed, Breach
<1>. QED BY <1>1, <1>2, <1>3, <1>4, <1>5, DeleteMoves DEF Moves, Goes

\* The steps of an end that leave the keys alone.
LEMMA EndMoves ==
    ASSUME AuthInv, NEW t \in Tabs, Deny(t) \/ Erase(t) \/ Mark(t) \/ FindRow(t) \/ RevokeRow(t)
    PROVE  Moves(t)
<1>1. /\ req[t] # Idle /\ UNCHANGED <<key, jar, ended, excused>> /\ (user' => user)
      /\ req[t] \in Request /\ Placed(req[t])
  <2>1. req[t] # Idle /\ UNCHANGED <<key, jar>>
    BY DEF Deny, Erase, Mark, FindRow, RevokeRow, At, redis
  <2>2. UNCHANGED <<ended, excused>> /\ (user' => user)
    <3>1. CASE Deny(t) \/ Mark(t)
      BY <3>1 DEF Deny, Mark
    <3>2. CASE FindRow(t) \/ RevokeRow(t)
      BY <3>2 DEF FindRow, RevokeRow, history
    <3>3. CASE Erase(t)
      BY <3>3 DEF Erase, history
    <3>. QED BY <3>1, <3>2, <3>3
  <2>. QED BY <2>1, <2>2, RequestIs
<1>2. CASE Deny(t)
  <2>1. Answer(t, "ok") /\ req[t].op # "refresh" /\ "ok" \in Status
    BY <1>1, <1>2 DEF Deny, At, Placed, Status
  <2>2. (Goes(t) \/ Ends(t)) /\ \A u \in Tabs \ {t} : req'[u] = req[u]
    BY <1>1, <2>1, AnswerMoves
  <2>. QED BY <1>1, <2>2 DEF Moves, KeyMoves
<1>3. CASE Erase(t)
  <2>1. (Goto(t, "mark") \/ Done(t)) /\ req[t].op # "refresh" /\ "mark" \in Steps
    BY <1>1, <1>3 DEF Erase, At, Placed, Steps
  <2>2. (Goes(t) \/ Ends(t)) /\ \A u \in Tabs \ {t} : req'[u] = req[u]
    BY <1>1, <2>1, GotoMoves, DoneMoves
  <2>. QED BY <1>1, <2>2 DEF Moves, KeyMoves
<1>4. CASE Mark(t)
  <2>1. Goto(t, "scan") /\ req[t].at = "mark" /\ "scan" \in Steps
    BY <1>1, <1>4 DEF Mark, At, Steps
  <2>2. (Goes(t) \/ Ends(t)) /\ \A u \in Tabs \ {t} : req'[u] = req[u]
    BY <1>1, <2>1, GotoMoves DEF Breach, Passed
  <2>. QED BY <1>1, <2>2 DEF Moves, KeyMoves
<1>5. CASE FindRow(t)
  <2>1. req[t].op = "revoke"
    BY <1>1, <1>5 DEF FindRow, At, Placed
  <2>2. CASE Done(t)
    <3>1. Ends(t) /\ \A u \in Tabs \ {t} : req'[u] = req[u]
      BY <1>1, <2>1, <2>2, DoneMoves
    <3>. QED BY <1>1, <3>1 DEF Moves, KeyMoves
  <2>3. ASSUME NEW n \in Pairs, req' = [req EXCEPT ![t].at = "revokeRow", ![t].new = n]
        PROVE  Moves(t)
    <3>1. req'[t] = [req[t] EXCEPT !.at = "revokeRow", !.new = n]
          /\ \A u \in Tabs \ {t} : req'[u] = req[u]
      BY <2>3, AuthKinds DEF ReqOK
    <3>2. /\ req'[t].op = req[t].op /\ req'[t].by = req[t].by /\ req'[t].pair = req[t].pair
          /\ req'[t].op \in Ops
      BY <1>1, <3>1 DEF Request
    <3>3. req'[t] # Idle
      BY <3>2 DEF Idle, Ops
    <3>. QED BY <1>1, <2>1, <3>1, <3>2, <3>3 DEF Moves, KeyMoves, Goes
  <2>. QED BY <1>5, <2>2, <2>3 DEF FindRow
<1>6. CASE RevokeRow(t)
  <2>1. (Goto(t, "del") \/ Done(t)) /\ req[t].op = "revoke" /\ "del" \in Steps
    BY <1>1, <1>6 DEF RevokeRow, At, Placed, Steps
  <2>2. (Goes(t) \/ Ends(t)) /\ \A u \in Tabs \ {t} : req'[u] = req[u]
    BY <1>1, <2>1, GotoMoves, DoneMoves
  <2>. QED BY <1>1, <2>2 DEF Moves, KeyMoves
<1>. QED BY <1>2, <1>3, <1>4, <1>5, <1>6

\* The list of the keys of the user.
LEMMA ScanMoves == ASSUME AuthInv, NEW t \in Tabs, Scan(t) PROVE Moves(t)
<1>1. /\ req[t] # Idle /\ req[t].at = "scan" /\ UNCHANGED <<user, key, jar, ended, excused>>
      /\ req[t] \in Request /\ req' = [req EXCEPT ![t].at = "sweep", ![t].scanned = Present]
  BY RequestIs DEF Scan, At, redis, history
<1>2. PICK scanned :
        /\ req'[t] = [req[t] EXCEPT !.at = "sweep", !.scanned = scanned]
        /\ \A u \in Tabs \ {t} : req'[u] = req[u]
  BY <1>1, AuthKinds DEF ReqOK
<1>3. /\ req'[t].op = req[t].op /\ req'[t].by = req[t].by /\ req'[t].pair = req[t].pair
      /\ req'[t].new = req[t].new /\ req'[t].op \in Ops
      /\ req'[t].at = "sweep" /\ req'[t].status = req[t].status
  <2>1. req[t] \in Request
    BY <1>1
  <2>. QED BY <1>2, <2>1 DEF Request
<1>4. req'[t] # Idle
  BY <1>3 DEF Idle, Ops
<1>5. Proceeds(t)
  BY <1>1, <1>3 DEF Proceeds, Passed, Breach
<1>. QED BY <1>1, <1>2, <1>3, <1>4, <1>5 DEF Moves, KeyMoves, Goes

\* The rows of the sessions are marked.
LEMMA RevokeRowsMoves == ASSUME AuthInv, NEW t \in Tabs, RevokeRows(t) PROVE Moves(t)
<1>1. /\ req[t] # Idle /\ req[t].at = "sweep" /\ UNCHANGED <<user, key, jar, excused>>
      /\ ended \subseteq ended' /\ req[t].op \in {"refresh", "logoutAll", "reset", "delete"}
      /\ "compromised" \in Status /\ "deny" \in Steps
  BY RequestIs DEF RevokeRows, At, redis, Placed, Status, Steps
<1>2. \/ req[t].op \in {"logoutAll", "delete"} /\ Goto(t, "deny")
      \/ req[t].op = "reset" /\ Done(t)
      \/ req[t].op = "refresh" /\ Answer(t, "compromised")
  BY <1>1 DEF RevokeRows
<1>3. (Goes(t) \/ Ends(t)) /\ \A u \in Tabs \ {t} : req'[u] = req[u]
  BY <1>1, <1>2, GotoMoves, AnswerMoves, DoneMoves DEF Breach, Passed
<1>. QED BY <1>1, <1>3 DEF Moves, KeyMoves

\* A reply arrives, or is lost.
LEMMA NetworkMoves == ASSUME AuthInv, NEW t \in Tabs, AuthNetwork(t), req[t] # Idle PROVE Moves(t)
<1>1. req[t] \in Request /\ Placed(req[t]) /\ excused \subseteq Pairs
  BY RequestIs, AuthKinds DEF RowsOK
<1>2. CASE Reply(t)
  <2>1. /\ UNCHANGED <<user, key, ended, excused>> /\ req[t].at = "reply"
        /\ jar' = [jar EXCEPT ![req[t].by] = CookiesAfter(t)]
        /\ req'[t] = Idle /\ \A u \in Tabs \ {t} : req'[u] = req[u]
    BY <1>2, AuthKinds DEF Reply, At, redis, history, ReqOK
  <2>2. PICK n : n = CookiesAfter(t)
    OBVIOUS
  <2>3. req[t].by \in Browsers /\ jar[req[t].by] \in Pairs \cup {NoPair} /\ req[t].new \in Pairs \cup {NoPair}
    BY <1>1, AuthKinds DEF Request, RowsOK
  <2>4. /\ n \in Pairs \cup {NoPair}
        /\ n = NoPair \/ n = jar[req[t].by] \/ Brings(t, n)
        /\ req[t].op = "refresh" /\ req[t].new # NoPair => n = req[t].new
    BY <2>2, <2>3 DEF CookiesAfter, Brings
  <2>. QED BY <2>1, <2>2, <2>3, <2>4 DEF Moves, Ends, KeyMoves
<1>3. CASE LoseReply(t) \/ Throw(t)
  <2>1. /\ UNCHANGED <<user, key, jar, ended>> /\ excused \subseteq excused'
        /\ req[t].op = "refresh" => req[t].pair \in excused'
        /\ Done(t) \/ (Answer(t, "error") /\ req[t].at = "track")
    BY <1>3, Zenon DEF LoseReply, Throw, Undelivered, redis
  <2>2. "error" \in Status /\ (req[t].at = "track" => req[t].new # NoPair)
    BY <1>1 DEF Status, Placed
  <2>. QED BY <2>1, <2>2, DoneMoves, AnswerMoves DEF Moves, KeyMoves
<1>. QED BY <1>2, <1>3 DEF AuthNetwork

\* Every step of the sessions is a step of one tab that moves its request, or none.
LEMMA AuthMoves ==
    ASSUME AuthInv, [AuthNext]_authVars
    PROVE  \/ \E t \in Tabs : Moves(t)
           \/ /\ UNCHANGED <<user, req, jar, ended, excused>> /\ KeyMoves
<1>1. ASSUME NEW t \in Tabs, AuthHandler(t)
      PROVE  Moves(t)
  BY <1>1, GetKeyMoves, RotateMoves, FindUserMoves, StoreMoves, TrackMoves, LogoutMoves, EndMoves,
     ScanMoves, RevokeRowsMoves, SweepMoves, RevokeDelMoves DEF AuthHandler
<1>2. ASSUME NEW n \in Pairs, GraceEnds(n)
      PROVE  UNCHANGED <<user, req, jar, ended, excused>> /\ KeyMoves
  BY <1>2, AuthKinds DEF GraceEnds, KeyMoves, RedisOK, history
<1>3. CASE Second \/ UNCHANGED authVars
  BY <1>3 DEF Second, authVars, redis, history, KeyMoves
<1>. QED BY <1>1, <1>2, <1>3, TabMoves, NetworkMoves DEF AuthNext

-----------------------------------------------------------------------------
(* What every step keeps                                                    *)

\* The invariant holds before the first request.
LEMMA RefusalStart == AuthInit => RefusalInv
<1>. SUFFICES ASSUME AuthInit PROVE RefusalInv
  OBVIOUS
<1>1. /\ \A t \in Tabs : req[t] = Idle
      /\ \A b, c \in Browsers : b # c => jar[b] # jar[c] \/ jar[b] = NoPair
      /\ \A n \in Pairs : key[n] \in {"live", "none"}
  BY DEF AuthInit
<1>. QED BY <1>1 DEF RefusalInv, Homes, Coming, Alone, UsedUp, GoneIsEnded, Brings, Refreshes

\* Pairs of requests and cookies have been issued.
LEMMA PairsKnown ==
    ASSUME AuthInv
    PROVE  /\ last + 1 # NoPair
           /\ \A b \in Browsers : jar[b] \in Pairs \cup {NoPair} /\ jar[b] # last + 1
           /\ \A t \in Tabs : req[t] # Idle =>
                 /\ req[t].pair \in Pairs \cup {NoPair} /\ req[t].pair # last + 1
                 /\ req[t].new # last + 1 /\ req[t].by \in Browsers
                 /\ req[t].op = "refresh" => req[t].pair \in Pairs
           /\ \A n \in Pairs : key[n] # "none" => n # last + 1
<1>1. last \in Nat /\ \A n \in Pairs : (key[n] # "none" => n <= last) /\ n \in Nat
  BY AuthKinds DEF RedisOK, AuthInv, Handed
<1>2. \A n \in Pairs \cup {NoPair} : Known(n) => n # last + 1
  BY <1>1, AuthKinds DEF Known
<1>3. \A b \in Browsers : jar[b] \in Pairs \cup {NoPair} /\ Known(jar[b])
  BY AuthKinds DEF RowsOK, AuthInv, Handed
<1>4. ASSUME NEW t \in Tabs, req[t] # Idle
      PROVE  /\ req[t].pair \in Pairs \cup {NoPair} /\ Known(req[t].pair)
             /\ req[t].new # last + 1 /\ req[t].by \in Browsers
             /\ req[t].op = "refresh" => req[t].pair \in Pairs
  <2>1. req[t] \in Request /\ Placed(req[t]) /\ Grounded(req[t])
    BY <1>4, RequestIs
  <2>2. req[t].new # last + 1
    <3>1. CASE req[t].at = "store"
      BY <1>1, <2>1, <3>1 DEF Grounded, Request
    <3>2. CASE req[t].at # "store"
      BY <1>2, <2>1, <3>2 DEF Grounded, Request
    <3>. QED BY <3>1, <3>2
  <2>. QED BY <2>1, <2>2 DEF Placed, Grounded, Request
<1>. QED BY <1>1, <1>2, <1>3, <1>4, AuthKinds

\* A pair stays the cookie of one browser.
LEMMA HomesStep ==
    ASSUME AuthInv, Homes, Coming, NEW t \in Tabs, Moves(t)
    PROVE  Homes'
<1>0. \A u \in Tabs \ {t} : req'[u] = req[u]
  BY DEF Moves
<1>1. CASE Sends(t)
  <2>1. \A b \in Browsers : jar'[b] = jar[b]
    BY <1>1 DEF Sends
  <2>2. req'[t].pair = jar[req'[t].by] /\ req'[t].by \in Browsers
    BY <1>1 DEF Sends
  <2>. QED BY <1>0, <2>1, <2>2 DEF Homes
<1>2. CASE Goes(t)
  <2>1. jar' = jar /\ req[t] # Idle /\ req'[t].by = req[t].by /\ req'[t].pair = req[t].pair
    BY <1>2 DEF Goes
  <2>. QED BY <1>0, <2>1 DEF Homes
<1>3. CASE req'[t] = Idle /\ jar' = jar
  BY <1>0, <1>3 DEF Homes
<1>4. ASSUME NEW b \in Browsers, NEW n \in Pairs \cup {NoPair}, req'[t] = Idle,
             jar' = [jar EXCEPT ![b] = n], n = NoPair \/ n = jar[b] \/ Brings(t, n)
      PROVE  Homes'
  <2>1. jar'[b] = n /\ \A c \in Browsers \ {b} : jar'[c] = jar[c]
    BY <1>4, AuthKinds DEF RowsOK
  <2>2. CASE n = NoPair
    BY <1>0, <1>4, <2>1, <2>2 DEF Homes
  <2>3. CASE n = jar[b]
    BY <1>0, <1>4, <2>1, <2>3 DEF Homes
  <2>4. CASE n \in Pairs /\ Brings(t, n)
    <3>1. /\ \A c \in Browsers : jar[c] # n
          /\ \A u \in Tabs : req[u] # Idle => req[u].pair # n
      BY <2>4 DEF Coming
    <3>. QED BY <1>0, <1>4, <2>1, <3>1 DEF Homes
  <2>. QED BY <1>4, <2>2, <2>3, <2>4
<1>. QED BY <1>1, <1>2, <1>3, <1>4 DEF Moves, Ends

\* A pair on its way to a browser stays nowhere else.
LEMMA ComingStep ==
    ASSUME AuthInv, Coming, NEW t \in Tabs, Moves(t)
    PROVE  Coming'
<1>0. \A u \in Tabs \ {t} : req'[u] = req[u]
  BY DEF Moves
<1>1. \A u \in Tabs \ {t}, n \in Pairs : Brings(u, n)' = Brings(u, n)
  BY <1>0 DEF Brings
<1>2. CASE Sends(t)
  <2>1. \A n \in Pairs : ~Brings(t, n)'
    BY <1>2, AuthKinds DEF Sends, Brings
  <2>2. jar' = jar /\ req'[t].pair = jar[req'[t].by] /\ req'[t].by \in Browsers
    BY <1>2 DEF Sends
  <2>. QED BY <1>0, <1>1, <2>1, <2>2 DEF Coming
<1>3. CASE Goes(t)
  <2>1. jar' = jar /\ req[t] # Idle /\ req'[t].pair = req[t].pair /\ req'[t].op = req[t].op
    BY <1>3 DEF Goes
  <2>2. \A n \in Pairs : Brings(t, n)' => Brings(t, n) \/ n = last + 1
    BY <1>3 DEF Goes, Brings
  <2>3. ASSUME NEW u \in Tabs, NEW n \in Pairs, Brings(u, n)'
        PROVE  /\ \A b \in Browsers : jar'[b] # n
               /\ \A v \in Tabs : (req'[v] # Idle => req'[v].pair # n) /\ (Brings(v, n)' => v = u)
    <3>1. CASE n = last + 1
      <4>1. \A v \in Tabs : ~Brings(v, n)
        BY <3>1, PairsKnown DEF Brings
      <4>. QED BY <1>0, <1>1, <2>1, <2>3, <3>1, <4>1, PairsKnown
    <3>2. CASE n # last + 1
      <4>1. Brings(u, n) /\ \A v \in Tabs : Brings(v, n)' => Brings(v, n)
        BY <1>1, <2>2, <2>3, <3>2
      <4>. QED BY <1>0, <2>1, <4>1 DEF Coming
    <3>. QED BY <3>1, <3>2
  <2>. QED BY <2>3 DEF Coming
<1>4. CASE Ends(t)
  <2>1. req'[t] = Idle /\ \A n \in Pairs : ~Brings(t, n)'
    BY <1>4 DEF Ends, Brings
  <2>2. CASE jar' = jar
    BY <1>0, <1>1, <2>1, <2>2 DEF Coming
  <2>3. ASSUME NEW b \in Browsers, NEW m \in Pairs \cup {NoPair}, jar' = [jar EXCEPT ![b] = m],
               m = NoPair \/ m = jar[b] \/ Brings(t, m)
        PROVE  Coming'
    <3>1. \A c \in Browsers : jar'[c] = jar[c] \/ jar'[c] = m
      BY <2>3, AuthKinds DEF RowsOK
    <3>2. ASSUME NEW u \in Tabs, NEW n \in Pairs, Brings(u, n)'
          PROVE  /\ \A c \in Browsers : jar'[c] # n
                 /\ \A v \in Tabs : (req'[v] # Idle => req'[v].pair # n) /\ (Brings(v, n)' => v = u)
      <4>1. u # t /\ Brings(u, n)
        BY <1>1, <2>1, <3>2
      <4>2. m # n
        BY <2>3, <4>1, AuthKinds DEF Coming
      <4>. QED BY <1>0, <1>1, <2>1, <3>1, <4>1, <4>2 DEF Coming
    <3>. QED BY <3>2 DEF Coming
  <2>. QED BY <1>4, <2>2, <2>3 DEF Ends
<1>. QED BY <1>2, <1>3, <1>4 DEF Moves

\* Two refreshes of one pair at once are on record.
LEMMA AloneStep ==
    ASSUME Alone, NEW t \in Tabs, Moves(t)
    PROVE  Alone'
<1>. SUFFICES ASSUME NEW n \in Pairs \ excused', NEW u \in Tabs, NEW v \in Tabs,
                     Refreshes(u, n)', Refreshes(v, n)'
              PROVE  u = v
  BY DEF Alone
<1>0. n \in Pairs \ excused /\ \A w \in Tabs \ {t} : req'[w] = req[w]
  BY DEF Moves
<1>1. CASE Goes(t) \/ Ends(t)
  <2>1. \A w \in Tabs : Refreshes(w, n)' => Refreshes(w, n)
    BY <1>0, <1>1 DEF Refreshes, Goes, Ends
  <2>. QED BY <1>0, <2>1 DEF Alone
<1>2. CASE Sends(t)
  <2>1. \A w \in Tabs \ {t} : Refreshes(w, n)' => Refreshes(w, n)
    BY <1>0 DEF Refreshes
  <2>2. Refreshes(t, n)' => \A w \in Tabs : ~Refreshes(w, n)
    BY <1>2 DEF Refreshes, Sends
  <2>. QED BY <1>0, <2>1, <2>2 DEF Alone
<1>. QED BY <1>1, <1>2 DEF Moves

\* A key is gone only after an end.
LEMMA GoneStep ==
    ASSUME GoneIsEnded, KeyMoves, ended \subseteq ended'
    PROVE  GoneIsEnded'
BY DEF GoneIsEnded, KeyMoves

\* The refreshes and the pairs that are on their way, before and after a step.
LEMMA RefreshesStep ==
    ASSUME AuthInv, NEW t \in Tabs, Moves(t), NEW n \in Pairs, n # last + 1
    PROVE  /\ \A u \in Tabs : Brings(u, n)' => Brings(u, n)
           /\ \A u \in Tabs : Refreshes(u, n)' => Refreshes(u, n) \/ (u = t /\ Sends(t))
<1>0. \A w \in Tabs \ {t} : req'[w] = req[w]
  BY DEF Moves
<1>1. CASE Sends(t)
  BY <1>0, <1>1, AuthKinds DEF Sends, Refreshes, Brings
<1>2. CASE Goes(t)
  BY <1>0, <1>2 DEF Goes, Refreshes, Brings
<1>3. CASE Ends(t)
  BY <1>0, <1>3 DEF Ends, Refreshes, Brings
<1>. QED BY <1>1, <1>2, <1>3 DEF Moves

\* A rotated pair stays replaced by the reply that is on its way.
LEMMA ReplacedStep ==
    ASSUME AuthInv, Homes, NEW t \in Tabs, Moves(t), NEW n \in Pairs \ excused', n # last + 1,
           user, Replaced(n)
    PROVE  Replaced(n)'
<1>0. \A w \in Tabs \ {t} : req'[w] = req[w]
  BY DEF Moves
<1>1. \A u \in Tabs : ~Brings(u, n)'
  BY RefreshesStep DEF Replaced
<1>2. ASSUME NEW b \in Browsers, jar'[b] = n
      PROVE  \E u \in Tabs : Refreshes(u, n)'
  <2>1. CASE Sends(t) \/ Goes(t)
    <3>1. jar' = jar /\ \A u \in Tabs : Refreshes(u, n) => Refreshes(u, n)'
      BY <1>0, <2>1 DEF Sends, Goes, Refreshes
    <3>. QED BY <1>2, <3>1 DEF Replaced
  <2>2. CASE Ends(t) /\ jar' = jar
    <3>1. ~Refreshes(t, n) \/ jar' # jar \/ req[t].at = "reply"
      BY <2>2 DEF Ends, Refreshes
    <3>2. CASE ~Refreshes(t, n)
      BY <1>0, <1>2, <2>2, <3>2 DEF Replaced, Refreshes
    <3>3. CASE Refreshes(t, n)
      <4>1. req[t].at = "reply" /\ req[t].new # NoPair
        BY <3>1, <3>3, <2>2 DEF Replaced, Passed
      <4>2. PICK m \in Pairs \cup {NoPair} : jar' = [jar EXCEPT ![req[t].by] = m] /\ m = req[t].new
        BY <2>2, <3>3, <4>1 DEF Ends, Refreshes
      <4>3. req[t].by \in Browsers /\ jar[req[t].by] = m
        BY <2>2, <3>3, <4>2, PairsKnown, AuthKinds DEF RowsOK, Refreshes
      <4>4. req[t].by = b
        BY <1>2, <2>2, <3>3, AuthKinds DEF Homes, Refreshes
      <4>. QED BY <1>2, <2>2, <3>3, <4>2, <4>3, <4>4 DEF Replaced, Brings, Refreshes
    <3>. QED BY <3>2, <3>3
  <2>3. ASSUME Ends(t), NEW m \in Pairs \cup {NoPair}, jar' = [jar EXCEPT ![req[t].by] = m],
               req[t].by \in Browsers, req[t].at = "reply",
               m = NoPair \/ m = jar[req[t].by] \/ Brings(t, m),
               req[t].op = "refresh" /\ req[t].new # NoPair => m = req[t].new
        PROVE  \E u \in Tabs : Refreshes(u, n)'
    <3>1. jar'[req[t].by] = m /\ \A c \in Browsers \ {req[t].by} : jar'[c] = jar[c]
      BY <2>3, AuthKinds DEF RowsOK
    <3>2. jar[b] = n
      BY <1>2, <2>3, <3>1, AuthKinds DEF Replaced
    <3>3. CASE ~Refreshes(t, n)
      BY <1>0, <3>2, <3>3 DEF Replaced, Refreshes
    <3>4. CASE Refreshes(t, n)
      <4>1. req[t].by = b
        BY <3>2, <3>4, AuthKinds DEF Homes, Refreshes
      <4>2. req[t].new # NoPair
        BY <2>3, <3>4 DEF Replaced, Passed
      <4>3. Brings(t, n)
        BY <1>2, <2>3, <3>1, <3>4, <4>1, <4>2 DEF Brings, Refreshes
      <4>. QED BY <4>3 DEF Replaced
    <3>. QED BY <3>3, <3>4
  <2>. QED BY <2>1, <2>2, <2>3 DEF Moves, Ends
<1>3. ASSUME NEW u \in Tabs, Refreshes(u, n)'
      PROVE  Passed(u)'
  <2>1. CASE u # t
    <3>1. Refreshes(u, n) /\ req'[u] = req[u]
      BY <1>0, <1>3, <2>1 DEF Refreshes
    <3>. QED BY <3>1 DEF Replaced, Passed
  <2>2. CASE u = t /\ Sends(t)
    <3>1. PICK b \in Browsers : jar[b] = n
      BY <1>3, <2>2 DEF Sends, Refreshes
    <3>2. PICK v \in Tabs : Refreshes(v, n)
      BY <3>1 DEF Replaced
    <3>. QED BY <1>3, <2>2, <3>2 DEF Sends, Refreshes
  <2>3. CASE u = t /\ ~Sends(t)
    <3>1. Refreshes(t, n) /\ ~Ends(t)
      BY <1>3, <2>3, RefreshesStep DEF Ends, Refreshes
    <3>2. Goes(t) /\ Passed(t)
      BY <2>3, <3>1 DEF Moves, Replaced
    <3>. QED BY <2>3, <3>1, <3>2 DEF Goes, Proceeds, Refreshes
  <2>. QED BY <2>1, <2>2, <2>3
<1>. QED BY <1>1, <1>2, <1>3 DEF Replaced

\* A pair is rotated by a refresh that replaces it.
LEMMA UsedUpStep ==
    ASSUME AuthInv, Homes, Coming, Alone, UsedUp, NEW t \in Tabs, Moves(t)
    PROVE  UsedUp'
<1>. SUFFICES ASSUME user', NEW n \in Pairs \ excused', key'[n] \in {"rotated", "stale"}
              PROVE  Replaced(n)'
  BY DEF UsedUp
<1>0. user /\ n \in Pairs \ excused /\ \A w \in Tabs \ {t} : req'[w] = req[w]
  BY DEF Moves
<1>1. CASE key[n] \in {"rotated", "stale"}
  <2>1. Replaced(n) /\ n # last + 1
    BY <1>0, <1>1, PairsKnown DEF UsedUp
  <2>. QED BY <1>0, <2>1, ReplacedStep
<1>2. ASSUME NEW r \in Tabs, Refreshes(r, n), Rotates(r)
      PROVE  Replaced(n)'
  <2>1. r = t /\ n # last + 1 /\ Goes(t)
    BY <1>0, <1>2, PairsKnown DEF Rotates, Refreshes
  <2>2. /\ \A u \in Tabs : Brings(u, n)' => Brings(u, n)
        /\ \A u \in Tabs : Refreshes(u, n)' => Refreshes(u, n)
    BY <2>1, RefreshesStep DEF Goes, Sends
  <2>3. \A u \in Tabs : ~Brings(u, n)
    BY <1>2 DEF Coming, Refreshes
  <2>4. Refreshes(t, n)'
    BY <1>2, <2>1 DEF Goes, Refreshes
  <2>5. \A u \in Tabs : Refreshes(u, n)' => u = t
    BY <1>0, <1>2, <2>1, <2>2 DEF Alone
  <2>6. Passed(t)'
    BY <1>2, <2>1 DEF Rotates, Passed
  <2>. QED BY <2>2, <2>3, <2>4, <2>5, <2>6 DEF Replaced
<1>. QED BY <1>1, <1>2 DEF Moves, KeyMoves

\* A refusal has its cause, the request that it answers being the one that moves.
LEMMA CausedStep ==
    ASSUME AuthInv, RefusalInv, NEW t \in Tabs, Moves(t), NEW u \in Tabs,
           req'[u] # Idle, req'[u].op = "refresh"
    PROVE  Caused(req[u])'
<1>0. /\ \A w \in Tabs \ {t} : req'[w] = req[w]
      /\ ended \subseteq ended' /\ excused \subseteq excused' /\ (user' => user)
  BY DEF Moves
<1>1. CASE u # t
  <2>1. Caused(req[u]) /\ req'[u] = req[u]
    BY <1>0, <1>1 DEF RefusalInv
  <2>. QED BY <1>0, <2>1 DEF Caused, Breach
<1>2. CASE u = t /\ Sends(t)
  BY <1>2 DEF Sends, Caused, Breach
<1>3. CASE u = t /\ Goes(t)
  <2>1. /\ req[t] # Idle /\ req[t].op = "refresh" /\ req'[t].pair = req[t].pair /\ Proceeds(t)
    BY <1>3 DEF Goes
  <2>2. /\ Caused(req[t]) /\ req[t].pair \in Pairs /\ key[req[t].pair] \in KeyStates \ {"none"}
    <3>1. Grounded(req[t]) /\ req[t].pair \in Pairs
      BY <2>1, RequestIs, PairsKnown
    <3>. QED BY <2>1, <3>1, AuthKinds DEF RefusalInv, Grounded, Known, RedisOK
  <2>3. req'[t].status = "expired" => req[t].pair \in ended
    BY <2>1, <2>2 DEF Proceeds, Caused, RefusalInv, GoneIsEnded, KeyStates
  <2>4. Breach(req'[t]) => req[t].pair \in excused \/ ~user
    <3>1. ASSUME key[req[t].pair] = "stale", req[t].at = "get", user, req[t].pair \notin excused
          PROVE  FALSE
      <4>1. Replaced(req[t].pair) /\ Refreshes(t, req[t].pair)
        BY <2>1, <2>2, <3>1 DEF RefusalInv, UsedUp, Refreshes
      <4>. QED BY <3>1, <4>1 DEF Replaced, Passed
    <3>. QED BY <2>1, <2>2, <3>1 DEF Proceeds, Caused
  <2>. QED BY <1>0, <1>3, <2>1, <2>3, <2>4 DEF Caused, Breach
<1>4. CASE u = t /\ Ends(t)
  BY <1>4 DEF Ends
<1>. QED BY <1>1, <1>2, <1>3, <1>4 DEF Moves

\* The invariant is inductive.
LEMMA RefusalStep ==
    ASSUME AuthInv, RefusalInv, [AuthNext]_authVars
    PROVE  RefusalInv'
<1>1. ASSUME NEW t \in Tabs, Moves(t)
      PROVE  RefusalInv'
  BY <1>1, HomesStep, ComingStep, AloneStep, UsedUpStep, GoneStep, CausedStep DEF RefusalInv, Moves
<1>2. CASE UNCHANGED <<user, req, jar, ended, excused>> /\ KeyMoves
  <2>1. \A t \in Tabs : ~Rotates(t)
    BY <1>2 DEF Rotates
  <2>2. \A n \in Pairs : Replaced(n) => Replaced(n)'
    BY <1>2 DEF Replaced, Brings, Refreshes, Passed
  <2>3. UsedUp'
    BY <1>2, <2>1, <2>2 DEF UsedUp, RefusalInv, KeyMoves
  <2>4. GoneIsEnded'
    BY <1>2, GoneStep DEF RefusalInv
  <2>. QED BY <1>2, <2>3, <2>4
           DEF RefusalInv, Homes, Coming, Alone, Brings, Refreshes, Caused, Breach
<1>. QED BY <1>1, <1>2, AuthMoves

\* A refresh is refused only when its session was ended, and sessions are ended for a
\* breach only when two tabs refreshed at once, a reply was lost or the account is gone.
THEOREM RefusedCorrect == AuthSpec => []RefusedForCause
<1>1. RefusalInv => RefusedForCause
  BY DEF RefusalInv, Caused, Breach, RefusedForCause
<1>2. AuthInv /\ RefusalInv /\ [AuthNext]_authVars => (AuthInv /\ RefusalInv)'
  BY AuthStep, RefusalStep
<1>3. AuthInit => AuthInv /\ RefusalInv
  BY AuthStart, RefusalStart
<1>. QED BY <1>1, <1>2, <1>3, PTL DEF AuthSpec
=============================================================================
