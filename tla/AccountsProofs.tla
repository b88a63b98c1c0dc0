--------------------------- MODULE AccountsProofs ---------------------------
(***************************************************************************)
(* Theorems about the account behind one address, for any number of        *)
(* requests, rows, tokens and failures of Redis, and any lockout limit;    *)
(* and about what users contribute, for any number of rows and requests.   *)
(***************************************************************************)
EXTENDS Accounts, Contributions, Sequences, FiniteSetTheorems, TLAPS

-----------------------------------------------------------------------------
(* The inductive invariant                                                 *)

At(v, path, step) == v.path = path /\ v.at = step

\* What a request holds at the step it stands at.
Holds(v) ==
    /\ v.path \in {"register", "provider"} /\ v.at = "store" => v.id # None
    /\ v.path = "provider" => v.by \in Providers
    /\ v.path = "forgot" /\ v.at \in {"mail", "store"} => v.id # None
    /\ At(v, "forgot", "store") => v.token # None
    /\ v.path = "exchange" => v.token \in 1 .. drawn
    /\ v.path = "reset" => v.token # None
    /\ At(v, "reset", "update") => v.id # None
    /\ v.path = "verify" => v.id # None
    /\ v.path \in {"mfaSetup", "mfaVerify"} => v.id \in 1 .. ids
    /\ At(v, "mfaSetup", "update") => v.found # NoRow /\ ~v.found.enabled

CallPart ==
    /\ call \in [Calls -> Call \cup {NoCall}]
    /\ \A c \in Calls : call[c] # NoCall => Holds(call[c])

\* The row is one of those created.  A code that was accepted is one of the secret the
\* row still has, unless a setup came between, which is on record.
CodeStands ==
    \A c \in Calls : Standing(c, "mfaVerify", "update") /\ IsRow(call[c].id)
                        => row.secret \in confirmed \cup raced

RowPart ==
    /\ row \in Row \cup {NoRow} /\ ids \in 0 .. MaxIds /\ registered \in [Ids -> Nat]
    /\ confirmed \subseteq Tokens /\ raced \subseteq Tokens
    /\ Exists => row.id <= ids
    /\ RegisteredOnce /\ EnabledWasConfirmed /\ CodeStands

MailPart ==
    /\ mailed \subseteq Mails /\ spent \subseteq Mails
    /\ verifyKey \subseteq Ids /\ resetKey \in [Tokens -> Ids \cup {None}]
    /\ MailedTokenWorks /\ VerifiedForCause

\* An exchange token is in Redis, or in the hand of one request, or has been used.
Holding(c, k) == Standing(c, "exchange", "find") /\ call[c].token = k

ExchangePart ==
    /\ exchange \in [Tokens -> Ids \cup {None}] /\ opened \in [Tokens -> Nat]
    /\ drawn \in 0 .. MaxTokens
    /\ \A k \in Tokens :
          /\ opened[k] <= 1
          /\ exchange[k] # None => opened[k] = 0
          /\ k > drawn => exchange[k] = None /\ opened[k] = 0
    /\ \A k \in Tokens, c \in Calls : Holding(c, k) => opened[k] = 0 /\ exchange[k] = None
    /\ \A k \in Tokens : \A c, d \in Calls : Holding(c, k) /\ Holding(d, k) => c = d

\* What the counter says is what was counted; who is to lock has seen enough of it, and
\* somebody is to while the counter says so.
LockPart ==
    /\ fails \in [count : Nat, ttl : BOOLEAN] /\ lockout \in BOOLEAN /\ wrong \in Nat
    /\ begun \in Nat /\ broken \in Nat
    /\ fails.count <= wrong
    /\ lockout => wrong >= MaxAttempts
    /\ \A c \in Calls : /\ Standing(c, "login", "lock") => wrong >= MaxAttempts
                        /\ Standing(c, "login", "expire") => wrong >= 1
    /\ fails.count >= MaxAttempts /\ broken = 0 =>
          \/ lockout
          \/ \E c \in Calls : \/ Standing(c, "login", "lock")
                              \/ MaxAttempts = 1 /\ Standing(c, "login", "expire")
    /\ CounterWillExpire

AccInv == CallPart /\ RowPart /\ MailPart /\ ExchangePart /\ LockPart

LEMMA AccTypes == AccInv => AccTypeOK
<1> SUFFICES ASSUME AccInv PROVE AccTypeOK
  OBVIOUS
<1>1. lockout \in BOOLEAN
  BY Zenon DEF AccInv, LockPart
<1> QED
  BY <1>1 DEF AccInv, CallPart, RowPart, MailPart, ExchangePart, LockPart, AccTypeOK

-----------------------------------------------------------------------------
(* The steps                                                               *)

LEMMA Bounds ==
    /\ MaxIds \in Nat \ {0} /\ MaxTokens \in Nat \ {0} /\ MaxAttempts \in Nat \ {0}
    /\ Ids = 1 .. MaxIds /\ Tokens = 1 .. MaxTokens /\ None = 0
BY AccAssumption DEF Ids, Tokens, None

LEMMA Absent ==
    /\ NoRow.id = None
    /\ \A r \in Row : r # NoRow /\ r.id \in Ids /\ r.id # None
    /\ \A v \in Call : v # NoCall
    /\ \A path, step : path # "none" => ~At(NoCall, path, step)
<1>1. NoRow.id = None
  BY DEF NoRow
<1>2. \A r \in Row : r # NoRow /\ r.id \in Ids /\ r.id # None
  BY <1>1, Bounds DEF Row
<1>3. NoCall.path = "none"
  BY DEF NoCall
<1>4. \A v \in Call : v # NoCall
  BY <1>3 DEF Call, Paths
<1> QED
  BY <1>1, <1>2, <1>3, <1>4 DEF At

\* One request takes a step, or ends; v is what it is then.
Turn(c, v) == call' = [call EXCEPT ![c] = v]

LEMMA TurnIs ==
    ASSUME AccInv, NEW c \in Calls, NEW v \in Call \cup {NoCall}, Turn(c, v)
    PROVE  /\ call' \in [Calls -> Call \cup {NoCall}]
           /\ call'[c] = v
           /\ \A d \in Calls : d # c => call'[d] = call[d]
BY DEF Turn, AccInv, CallPart

\* Where the requests stand after it.
LEMMA Stands ==
    ASSUME AccInv, NEW c \in Calls, NEW v \in Call \cup {NoCall}, Turn(c, v),
           NEW path \in Paths, NEW step \in Awaits
    PROVE  /\ Standing(c, path, step) <=> At(call[c], path, step)
           /\ Standing(c, path, step)' <=> At(v, path, step)
           /\ \A d \in Calls : d # c => /\ Standing(d, path, step)' <=> Standing(d, path, step)
                                        /\ call'[d] = call[d]
<1>1. call'[c] = v /\ \A d \in Calls : d # c => call'[d] = call[d]
  BY TurnIs
<1>2. path # "none"
  BY DEF Paths
<1>3. ~At(NoCall, path, step)
  BY <1>2, Absent
<1> QED
  BY <1>1, <1>3 DEF Standing, At

LEMMA CallsStay ==
    ASSUME AccInv, NEW c \in Calls, NEW v \in Call \cup {NoCall}, Turn(c, v),
           v # NoCall => Holds(v)',
           drawn' \in Nat, drawn <= drawn', ids' \in Nat, ids <= ids'
    PROVE  CallPart'
<1>1. /\ call' \in [Calls -> Call \cup {NoCall}]
      /\ call'[c] = v
      /\ \A d \in Calls : d # c => call'[d] = call[d]
  BY TurnIs
<1>2. ids \in Nat /\ drawn \in Nat
  BY Bounds DEF AccInv, RowPart, ExchangePart
<1>3. ASSUME NEW d \in Calls, d # c, call[d] # NoCall
      PROVE  Holds(call[d])'
  <2>1. Holds(call[d]) /\ call'[d] = call[d]
    BY <1>1, <1>3 DEF AccInv, CallPart
  <2> QED
    BY <1>2, <2>1 DEF Holds, At
<1> QED
  BY <1>1, <1>3 DEF CallPart

LEMMA RowStays ==
    ASSUME AccInv, NEW c \in Calls, NEW v \in Call \cup {NoCall}, Turn(c, v),
           ~At(v, "mfaVerify", "update"),
           UNCHANGED <<row, ids, registered, confirmed, raced>>
    PROVE  RowPart'
<1>1. CodeStands'
  <2>1. "mfaVerify" \in Paths /\ "update" \in Awaits
    BY DEF Paths, Awaits
  <2> QED
    BY <2>1, Stands DEF AccInv, RowPart, CodeStands, IsRow
<1> QED
  BY <1>1 DEF AccInv, RowPart, Exists, RegisteredOnce, EnabledWasConfirmed

LEMMA MailStays ==
    ASSUME AccInv, NEW c \in Calls, NEW v \in Call \cup {NoCall}, Turn(c, v),
           \/ /\ ~At(call[c], "register", "store") /\ ~At(call[c], "forgot", "store")
              /\ ~At(call[c], "verify", "forget")
           \/ broken' > 0,
           broken' \in Nat, broken <= broken',
           UNCHANGED <<row, mailed, verifyKey, resetKey, spent>>
    PROVE  MailPart'
<1>1. {"register", "forgot", "verify"} \subseteq Paths /\ {"store", "forget"} \subseteq Awaits
  BY DEF Paths, Awaits
<1>2. broken \in Nat
  BY DEF AccInv, LockPart
<1>3. MailedTokenWorks'
  BY <1>1, <1>2, Stands DEF AccInv, MailPart, MailedTokenWorks
<1>4. VerifiedForCause'
  BY <1>1, <1>2, Stands DEF AccInv, MailPart, VerifiedForCause, Exists
<1> QED
  BY <1>3, <1>4 DEF AccInv, MailPart

LEMMA ExchangeStays ==
    ASSUME AccInv, NEW c \in Calls, NEW v \in Call \cup {NoCall}, Turn(c, v),
           ~At(v, "exchange", "find"), UNCHANGED <<exchange, opened, drawn>>
    PROVE  ExchangePart'
<1>1. "exchange" \in Paths /\ "find" \in Awaits
  BY DEF Paths, Awaits
<1>2. \A d \in Calls, k \in Tokens : Holding(d, k)' => Holding(d, k)
  BY <1>1, Stands DEF Holding
<1> QED
  BY <1>2 DEF AccInv, ExchangePart

LEMMA LockStays ==
    ASSUME AccInv, NEW c \in Calls, NEW v \in Call \cup {NoCall}, Turn(c, v),
           ~At(v, "login", "lock"), ~At(v, "login", "expire"),
           \/ ~At(call[c], "login", "lock") /\ ~At(call[c], "login", "expire")
           \/ broken' > 0,
           broken' \in Nat, broken <= broken', begun' \in Nat,
           UNCHANGED <<fails, lockout, wrong>>
    PROVE  LockPart'
<1>1. "login" \in Paths /\ {"lock", "expire"} \subseteq Awaits
  BY DEF Paths, Awaits
<1>2. broken \in Nat
  BY DEF AccInv, LockPart
<1>3. \A d \in Calls : /\ Standing(d, "login", "lock")' => Standing(d, "login", "lock")
                       /\ Standing(d, "login", "expire")' => Standing(d, "login", "expire")
  BY <1>1, Stands
<1>4. \/ broken' > 0
      \/ \A d \in Calls : /\ Standing(d, "login", "lock") => Standing(d, "login", "lock")'
                          /\ Standing(d, "login", "expire") => Standing(d, "login", "expire")'
  BY <1>1, Stands
<1>5. lockout' \in BOOLEAN
  BY Zenon DEF AccInv, LockPart
<1>6. CounterWillExpire'
  BY <1>2, <1>4 DEF AccInv, LockPart, CounterWillExpire
<1> QED
  BY <1>2, <1>3, <1>4, <1>5, <1>6 DEF AccInv, LockPart

-----------------------------------------------------------------------------
(* Steps that only read                                                    *)

\* Steps at which a request has something that the others rely on.
Needed(v) ==
    \/ At(v, "register", "store") \/ At(v, "forgot", "store") \/ At(v, "verify", "forget")
    \/ At(v, "login", "lock") \/ At(v, "login", "expire")

\* Steps that are reached by writing only.
Earned(v) ==
    \/ At(v, "exchange", "find") \/ At(v, "mfaVerify", "update")
    \/ At(v, "login", "lock") \/ At(v, "login", "expire")

LEMMA ReadStep ==
    ASSUME AccInv, NEW c \in Calls, NEW v \in Call \cup {NoCall}, Turn(c, v),
           v # NoCall => Holds(v) /\ ~Earned(v),
           ~Needed(call[c]) \/ broken' > 0,
           broken' \in Nat, broken <= broken', begun' \in Nat,
           UNCHANGED <<row, ids, registered, mailed, keys, drawn, record>>
    PROVE  AccInv'
<1>1. UNCHANGED <<verifyKey, resetKey, exchange, fails, lockout, spent, wrong, opened, confirmed, raced>>
  BY DEF keys, record
<1>2. ids \in Nat /\ drawn \in Nat
  BY Bounds DEF AccInv, RowPart, ExchangePart
<1>3. ~Earned(v)
  BY Absent DEF Earned
<1>4. v # NoCall => Holds(v)'
  BY DEF Holds, At
<1>5. CallPart'
  BY <1>2, <1>4, CallsStay
<1>6. RowPart'
  BY <1>1, <1>3, RowStays DEF Earned
<1>7. MailPart'
  BY <1>1, MailStays DEF Needed
<1>8. ExchangePart'
  BY <1>1, <1>3, ExchangeStays DEF Earned
<1>9. LockPart'
  BY <1>1, <1>3, LockStays DEF Earned, Needed
<1> QED
  BY <1>5, <1>6, <1>7, <1>8, <1>9 DEF AccInv

\* Where a request that goes on stands, with what it had.
Gone(c, step) == [call[c] EXCEPT !.at = step]

LEMMA GoneIs ==
    ASSUME AccInv, NEW c \in Calls, call[c] # NoCall, NEW step \in Awaits
    PROVE  /\ Gone(c, step) \in Call /\ Gone(c, step).at = step
           /\ Gone(c, step).path = call[c].path /\ Gone(c, step).found = call[c].found
           /\ Gone(c, step).token = call[c].token /\ Gone(c, step).id = call[c].id
           /\ Gone(c, step).by = call[c].by /\ call[c] \in Call /\ Holds(call[c])
<1>1. call[c] \in Call /\ Holds(call[c])
  BY DEF AccInv, CallPart
<1> QED
  BY <1>1 DEF Gone, Call

Kept(c, step) == [call[c] EXCEPT !.at = step, !.found = row]

LEMMA KeptIs ==
    ASSUME AccInv, NEW c \in Calls, call[c] # NoCall, NEW step \in Awaits
    PROVE  /\ Kept(c, step) \in Call /\ Kept(c, step).at = step
           /\ Kept(c, step).path = call[c].path /\ Kept(c, step).found = row
           /\ Kept(c, step).token = call[c].token /\ Kept(c, step).id = call[c].id
           /\ Kept(c, step).by = call[c].by /\ call[c] \in Call /\ Holds(call[c])
<1>1. call[c] \in Call /\ Holds(call[c]) /\ row \in Row \cup {NoRow}
  BY DEF AccInv, CallPart, RowPart
<1> QED
  BY <1>1 DEF Kept, Call

Named(c, step, id) == [call[c] EXCEPT !.at = step, !.id = id]

LEMMA NamedIs ==
    ASSUME AccInv, NEW c \in Calls, call[c] # NoCall, NEW step \in Awaits, NEW id \in Ids \cup {None}
    PROVE  /\ Named(c, step, id) \in Call /\ Named(c, step, id).at = step
           /\ Named(c, step, id).path = call[c].path /\ Named(c, step, id).found = call[c].found
           /\ Named(c, step, id).token = call[c].token /\ Named(c, step, id).id = id
           /\ Named(c, step, id).by = call[c].by /\ call[c] \in Call /\ Holds(call[c])
<1>1. call[c] \in Call /\ Holds(call[c])
  BY DEF AccInv, CallPart
<1> QED
  BY <1>1 DEF Named, Call

LEMMA EndsQuietly ==
    ASSUME AccInv, NEW c \in Calls, Finish(c), ~Needed(call[c]) \/ broken' > 0,
           broken' \in Nat, broken <= broken', begun' \in Nat,
           UNCHANGED <<row, ids, registered, mailed, keys, drawn, record>>
    PROVE  AccInv'
BY ReadStep DEF Finish, Turn

\* Nothing but the requests and their bounds changes.
Reading == UNCHANGED <<row, ids, registered, mailed, keys, drawn, begun, record>>

LEMMA BeginStep ==
    ASSUME AccInv, NEW c \in Calls, NEW path \in Paths, NEW step \in Awaits,
           NEW token \in Tokens \cup {None}, NEW id \in Ids \cup {None},
           NEW by \in Providers \cup {"password"},
           Begin(c, path, step, token, id, by),
           (step \in {"find", "check"} /\ path # "exchange") \/ step = "get",
           path = "provider" => by \in Providers,
           path = "verify" => id # None,
           path = "reset" => token # None,
           path = "exchange" => token \in 1 .. drawn,
           path \in {"mfaSetup", "mfaVerify"} => id \in 1 .. ids
    PROVE  AccInv'
<1> DEFINE v == [path |-> path, at |-> step, found |-> NoRow, token |-> token, id |-> id, by |-> by]
<1>1. v \in Call /\ v.path = path /\ v.at = step /\ v.token = token /\ v.id = id /\ v.by = by
  BY DEF Call
<1>2. Turn(c, v) /\ call[c] = NoCall
  BY DEF Begin, Turn
<1> HIDE DEF v
<1>3. Holds(v) /\ ~Earned(v)
  BY <1>1 DEF Holds, Earned, At
<1>4. ~Needed(call[c])
  BY <1>2, Absent DEF Needed
<1>5. begun' \in Nat /\ broken' \in Nat /\ broken <= broken'
  BY DEF Begin, AccInv, LockPart
<1>6. UNCHANGED <<row, ids, registered, mailed, keys, drawn, record>>
  BY DEF Begin
<1> QED
  BY <1>1, <1>2, <1>3, <1>4, <1>5, <1>6, ReadStep

LEMMA BeginKeeps == ASSUME AccInv, NEW c \in Calls, BeginCall(c) PROVE AccInv'
<1> DEFINE pw == "password"
<1>1. /\ {"register", "login", "provider", "exchange", "verify", "forgot", "reset", "mfaSetup",
          "mfaVerify"} \subseteq Paths
      /\ {"find", "check", "get"} \subseteq Awaits
      /\ None \in Tokens \cup {None} /\ None \in Ids \cup {None}
      /\ pw \in Providers \cup {"password"} /\ Providers \subseteq Providers \cup {"password"}
  BY DEF Paths, Awaits
<1>2. drawn \in 0 .. MaxTokens /\ mailed \subseteq Mails
  BY DEF AccInv, ExchangePart, MailPart
<1> HIDE DEF pw
<1>3. CASE Begin(c, "register", "find", None, None, pw)
  BY <1>1, <1>3, BeginStep
<1>4. CASE Begin(c, "login", "check", None, None, pw)
  BY <1>1, <1>4, BeginStep
<1>5. ASSUME NEW p \in Providers, Begin(c, "provider", "find", None, None, p)
      PROVE  AccInv'
  BY <1>1, <1>5, BeginStep
<1>6. CASE Begin(c, "forgot", "find", None, None, pw)
  BY <1>1, <1>6, BeginStep
<1>7. ASSUME NEW m \in mailed, m.kind = "verify", Begin(c, "verify", "get", None, m.of, pw)
      PROVE  AccInv'
  <2>1. m.of \in Ids \cup {None} /\ m.of # None
    BY <1>2, <1>7, Bounds DEF Mails
  <2> QED
    BY <1>1, <1>7, <2>1, BeginStep
<1>8. ASSUME NEW m \in mailed, m.kind = "reset", Begin(c, "reset", "get", m.of, None, pw)
      PROVE  AccInv'
  <2>1. m.of \in Tokens \cup {None} /\ m.of # None
    BY <1>2, <1>8, Bounds DEF Mails
  <2> QED
    BY <1>1, <1>8, <2>1, BeginStep
<1>9. ASSUME NEW k \in 1 .. drawn, Begin(c, "exchange", "get", k, None, pw)
      PROVE  AccInv'
  <2>1. k \in Tokens \cup {None}
    BY <1>2, Bounds
  <2> QED
    BY <1>1, <1>9, <2>1, BeginStep
<1>10. ASSUME Exists, NEW path \in {"mfaSetup", "mfaVerify"}, Begin(c, path, "find", None, row.id, pw)
       PROVE  AccInv'
  <2>1. row \in Row /\ row.id <= ids /\ ids \in 0 .. MaxIds
    BY <1>10 DEF AccInv, RowPart, Exists
  <2>2. row.id \in Ids \cup {None} /\ row.id \in 1 .. ids
    BY <2>1, Absent, Bounds
  <2> QED
    BY <1>1, <1>10, <2>2, BeginStep
<1> QED
  BY <1>3, <1>4, <1>5, <1>6, <1>7, <1>8, <1>9, <1>10 DEF BeginCall, pw

\* The handlers' reads, and the failing calls of Redis.
LEMMA ReadsKeep ==
    ASSUME AccInv, NEW c \in Calls,
           \/ RegisterFind(c) \/ LoginCheck(c) \/ LoginFind(c) \/ MfaLogin(c) \/ BookkeepingFails(c)
           \/ ProviderFind(c) \/ VerifyGet(c) \/ ForgotFind(c) \/ StoreFails(c) \/ ResetGet(c)
           \/ MfaSetupFind(c)
    PROVE  AccInv'
<1>1. broken \in Nat /\ begun \in Nat /\ row \in Row \cup {NoRow}
  BY DEF AccInv, LockPart, RowPart
<1>2. UNCHANGED <<row, ids, registered, mailed, keys, drawn, begun, record>>
  BY DEF RegisterFind, LoginCheck, LoginFind, MfaLogin, BookkeepingFails, ProviderFind, VerifyGet,
         ForgotFind, StoreFails, ResetGet, MfaSetupFind, bounds
<1>3. broken' \in Nat /\ broken <= broken' /\ begun' \in Nat
  BY <1>1 DEF RegisterFind, LoginCheck, LoginFind, MfaLogin, BookkeepingFails, ProviderFind, VerifyGet,
         ForgotFind, StoreFails, ResetGet, MfaSetupFind, bounds
<1>4. call[c] # NoCall
  BY DEF RegisterFind, LoginCheck, LoginFind, MfaLogin, BookkeepingFails, ProviderFind, VerifyGet,
         ForgotFind, StoreFails, ResetGet, MfaSetupFind, Standing
<1>5. ~Needed(call[c]) \/ broken' > 0
  <2>1. CASE BookkeepingFails(c) \/ StoreFails(c)
    BY <1>1, <2>1 DEF BookkeepingFails, StoreFails
  <2>2. CASE call[c].at \notin {"store", "forget", "lock", "expire"}
    BY <2>2 DEF Needed, At
  <2> QED
    BY <2>1, <2>2 DEF RegisterFind, LoginCheck, LoginFind, MfaLogin, ProviderFind, VerifyGet,
         ForgotFind, ResetGet, MfaSetupFind, Standing
<1>6. ASSUME NEW v \in Call \cup {NoCall}, Turn(c, v), v # NoCall => Holds(v) /\ ~Earned(v)
      PROVE  AccInv'
  BY <1>2, <1>3, <1>5, <1>6, ReadStep
<1>7. Finish(c) => AccInv'
  BY <1>6 DEF Finish, Turn
<1>8. {"create", "find", "incr", "clear", "update", "mail"} \subseteq Awaits
  BY DEF Awaits
<1>9. ASSUME NEW step \in {"create", "find", "incr", "update"}, Advance(c, step),
             call[c].path \in {"register", "login", "verify"}
      PROVE  AccInv'
  <2>1. /\ Gone(c, step) \in Call /\ Gone(c, step).at = step
        /\ Gone(c, step).path = call[c].path /\ Gone(c, step).id = call[c].id /\ Holds(call[c])
    BY <1>4, <1>8, <1>9, GoneIs
  <2>2. Turn(c, Gone(c, step))
    BY <1>9 DEF Advance, Turn, Gone
  <2>3. Holds(Gone(c, step)) /\ ~Earned(Gone(c, step))
    BY <1>9, <2>1 DEF Holds, Earned, At
  <2> QED
    BY <1>6, <2>1, <2>2, <2>3
<1>10. ASSUME NEW step \in {"clear", "update"}, Keep(c, step),
              \/ call[c].path \in {"login", "provider"}
              \/ call[c].path = "mfaSetup" /\ row # NoRow /\ ~row.enabled
       PROVE  AccInv'
  <2>1. /\ Kept(c, step) \in Call /\ Kept(c, step).at = step /\ Kept(c, step).found = row
        /\ Kept(c, step).path = call[c].path /\ Kept(c, step).id = call[c].id
        /\ Kept(c, step).by = call[c].by /\ Holds(call[c])
    BY <1>4, <1>8, <1>10, KeptIs
  <2>2. Turn(c, Kept(c, step))
    BY <1>10 DEF Keep, Turn, Kept
  <2>3. Holds(Kept(c, step)) /\ ~Earned(Kept(c, step))
    BY <1>10, <2>1 DEF Holds, Earned, At
  <2> QED
    BY <1>6, <2>1, <2>2, <2>3
<1>11. ASSUME NEW step \in {"mail", "update"}, NEW id \in Ids, Turn(c, Named(c, step, id)),
              call[c].path \in {"forgot", "reset"}
       PROVE  AccInv'
  <2>1. /\ Named(c, step, id) \in Call /\ Named(c, step, id).at = step
        /\ Named(c, step, id).path = call[c].path /\ Named(c, step, id).id = id
        /\ Named(c, step, id).token = call[c].token /\ Holds(call[c])
    BY <1>4, <1>8, <1>11, NamedIs
  <2>2. id # None
    BY Bounds
  <2>3. Holds(Named(c, step, id)) /\ ~Earned(Named(c, step, id))
    BY <1>11, <2>1, <2>2 DEF Holds, Earned, At
  <2> QED
    BY <1>6, <1>11, <2>1, <2>3
<1>12. CASE RegisterFind(c)
  <2>1. call[c].path = "register" /\ (Finish(c) \/ Advance(c, "create"))
    BY <1>12, Zenon DEF RegisterFind, Standing
  <2> QED
    BY <1>7, <1>9, <2>1
<1>18. CASE LoginCheck(c)
  <2>1. call[c].path = "login" /\ (Finish(c) \/ Advance(c, "find"))
    BY <1>18, Zenon DEF LoginCheck, Standing
  <2> QED
    BY <1>7, <1>9, <2>1
<1>19. CASE LoginFind(c)
  <2>1. call[c].path = "login" /\ (Advance(c, "incr") \/ Keep(c, "clear"))
    BY <1>19, Zenon DEF LoginFind, Standing
  <2> QED
    BY <1>9, <1>10, <2>1
<1>20. CASE VerifyGet(c)
  <2>1. call[c].path = "verify" /\ (Finish(c) \/ Advance(c, "update"))
    BY <1>20, Zenon DEF VerifyGet, Standing
  <2> QED
    BY <1>7, <1>9, <2>1
<1>13. CASE MfaLogin(c) \/ BookkeepingFails(c) \/ StoreFails(c)
  BY <1>7, <1>13 DEF MfaLogin, BookkeepingFails, StoreFails
<1>14. CASE ProviderFind(c)
  BY <1>10, <1>14 DEF ProviderFind, Standing
<1>15. CASE ForgotFind(c)
  <2>1. Exists => row.id \in Ids
    BY <1>1, Absent DEF Exists
  <2>2. Finish(c) \/ (Exists /\ Turn(c, Named(c, "mail", row.id)))
    <3>1. \/ Finish(c)
          \/ Exists /\ call' = [call EXCEPT ![c].at = "mail", ![c].id = row.id]
      BY <1>15, Zenon DEF ForgotFind
    <3>2. ASSUME call' = [call EXCEPT ![c].at = "mail", ![c].id = row.id]
          PROVE  Turn(c, Named(c, "mail", row.id))
      BY <3>2 DEF Turn, Named
    <3> QED
      BY <3>1, <3>2, Zenon
  <2>3. call[c].path = "forgot"
    BY <1>15 DEF ForgotFind, Standing
  <2> QED
    BY <1>7, <1>11, <2>1, <2>2, <2>3
<1>16. CASE ResetGet(c)
  <2> DEFINE id == resetKey[call[c].token]
  <2>1. call[c].path = "reset" /\ call[c] \in Call /\ Holds(call[c])
    BY <1>4, <1>16 DEF ResetGet, Standing, AccInv, CallPart
  <2>2. call[c].token \in Tokens
    BY <2>1 DEF Holds, Call
  <2>3. id \in Ids \cup {None}
    BY <2>2 DEF AccInv, MailPart
  <2>4. Finish(c) \/ (id # None /\ Turn(c, Named(c, "update", id)))
    <3>1. \/ Finish(c)
          \/ id # None /\ call' = [call EXCEPT ![c].at = "update", ![c].id = id]
      BY <1>16, Zenon DEF ResetGet
    <3>2. ASSUME call' = [call EXCEPT ![c].at = "update", ![c].id = id]
          PROVE  Turn(c, Named(c, "update", id))
      BY <3>2 DEF Turn, Named
    <3> QED
      BY <3>1, <3>2, Zenon
  <2> HIDE DEF id
  <2> QED
    BY <1>7, <1>11, <2>1, <2>3, <2>4
<1>17. CASE MfaSetupFind(c)
  <2>1. call[c].path = "mfaSetup" /\ Holds(call[c])
    BY <1>4, <1>17 DEF MfaSetupFind, Standing, AccInv, CallPart
  <2>2. Finish(c) \/ (IsRow(call[c].id) /\ ~row.enabled /\ Keep(c, "update"))
    <3>1. CASE IsRow(call[c].id) /\ ~row.enabled
      BY <1>17, <3>1 DEF MfaSetupFind
    <3>2. CASE ~(IsRow(call[c].id) /\ ~row.enabled)
      BY <1>17, <3>2, Zenon DEF MfaSetupFind
    <3> QED
      BY <3>1, <3>2
  <2>3. IsRow(call[c].id) => row # NoRow
    BY <2>1, Absent, Bounds DEF Holds, IsRow, AccInv, RowPart
  <2> QED
    BY <1>7, <1>10, <2>1, <2>2, <2>3
<1> QED
  BY <1>12, <1>13, <1>14, <1>15, <1>16, <1>17, <1>18, <1>19, <1>20

-----------------------------------------------------------------------------
(* The lockout                                                             *)

LEMMA LoginStep ==
    ASSUME AccInv, NEW c \in Calls, NEW v \in Call \cup {NoCall}, Turn(c, v),
           v # NoCall => Holds(v),
           call[c].path = "login",
           ~At(v, "exchange", "find") /\ ~At(v, "mfaVerify", "update"),
           UNCHANGED <<row, ids, registered, mailed, verifyKey, resetKey, exchange, bounds,
                       spent, opened, confirmed, raced>>,
           LockPart'
    PROVE  AccInv'
<1>1. UNCHANGED <<drawn, broken>> /\ broken \in Nat
  BY DEF bounds, AccInv, LockPart
<1>2. ids \in Nat /\ drawn \in Nat
  BY Bounds DEF AccInv, RowPart, ExchangePart
<1>3. v # NoCall => Holds(v)'
  BY <1>1 DEF Holds, At
<1>4. CallPart'
  BY <1>1, <1>2, <1>3, CallsStay
<1>5. RowPart'
  BY RowStays
<1>6. MailPart'
  <2>1. ~At(call[c], "register", "store") /\ ~At(call[c], "forgot", "store")
        /\ ~At(call[c], "verify", "forget")
    BY DEF At
  <2> QED
    BY <1>1, <2>1, MailStays
<1>7. ExchangePart'
  BY <1>1, ExchangeStays
<1> QED
  BY <1>4, <1>5, <1>6, <1>7 DEF AccInv

\* Who is to lock, and who is to give the counter its time to live.
Locks(c) == Standing(c, "login", "lock")
Expires(c) == Standing(c, "login", "expire")

LEMMA LocksMove ==
    ASSUME AccInv, NEW c \in Calls, NEW v \in Call \cup {NoCall}, Turn(c, v)
    PROVE  /\ Locks(c)' <=> At(v, "login", "lock")
           /\ Expires(c)' <=> At(v, "login", "expire")
           /\ \A d \in Calls : d # c => (Locks(d)' <=> Locks(d)) /\ (Expires(d)' <=> Expires(d))
<1>1. "login" \in Paths /\ {"lock", "expire"} \subseteq Awaits
  BY DEF Paths, Awaits
<1> QED
  BY <1>1, Stands DEF Locks, Expires

\* LockPart in these terms.
LockIs ==
    /\ fails \in [count : Nat, ttl : BOOLEAN] /\ lockout \in BOOLEAN /\ wrong \in Nat
    /\ begun \in Nat /\ broken \in Nat
    /\ fails.count <= wrong
    /\ lockout => wrong >= MaxAttempts
    /\ \A c \in Calls : (Locks(c) => wrong >= MaxAttempts) /\ (Expires(c) => wrong >= 1)
    /\ fails.count >= MaxAttempts /\ broken = 0 =>
          lockout \/ \E c \in Calls : Locks(c) \/ (MaxAttempts = 1 /\ Expires(c))
    /\ fails.count > 0 /\ broken = 0 => fails.ttl \/ \E c \in Calls : Expires(c)

LEMMA LockParts == (LockPart <=> LockIs) /\ (LockPart' <=> LockIs')
BY Zenon DEF LockPart, LockIs, Locks, Expires, CounterWillExpire

LEMMA IncrKeeps == ASSUME AccInv, NEW c \in Calls, LoginIncr(c) PROVE AccInv'
<1> DEFINE n == fails.count + 1
           v == IF n = 1 THEN Gone(c, "expire")
                ELSE IF n >= MaxAttempts THEN Gone(c, "lock") ELSE NoCall
<1>1. LockIs
  BY LockParts DEF AccInv
<1>2. call[c] # NoCall /\ call[c].path = "login" /\ call[c].at = "incr"
  BY DEF LoginIncr, Standing
<1>3. {"expire", "lock"} \subseteq Awaits
  BY DEF Awaits
<1>4. fails' = [fails EXCEPT !.count = n] /\ wrong' = wrong + 1
  BY DEF LoginIncr
<1>5. fails'.count = n /\ fails'.ttl = fails.ttl /\ n \in Nat /\ n >= 1
  BY <1>1, <1>4 DEF LockIs
<1>6. Turn(c, v)
  BY <1>5 DEF LoginIncr, Turn, Gone, Advance, Finish
<1>7. v \in Call \cup {NoCall} /\ (v # NoCall => Holds(v))
  BY <1>2, <1>3, GoneIs DEF Holds, At
<1>8. /\ At(v, "login", "expire") <=> n = 1
      /\ At(v, "login", "lock") <=> n # 1 /\ n >= MaxAttempts
      /\ ~At(v, "exchange", "find") /\ ~At(v, "mfaVerify", "update")
  BY <1>2, <1>3, GoneIs, Absent DEF At
<1> HIDE DEF n, v
<1>9. ~Locks(c) /\ ~Expires(c)
  BY <1>2 DEF Locks, Expires, Standing
<1>10. /\ Locks(c)' <=> n # 1 /\ n >= MaxAttempts
       /\ Expires(c)' <=> n = 1
       /\ \A d \in Calls : d # c => (Locks(d)' <=> Locks(d)) /\ (Expires(d)' <=> Expires(d))
  BY <1>6, <1>7, <1>8, LocksMove
<1>11. UNCHANGED <<row, ids, registered, mailed, verifyKey, resetKey, exchange, lockout, bounds,
                   spent, opened, confirmed, raced>>
  BY DEF LoginIncr
<1>12. LockIs'
  <2>1. MaxAttempts \in Nat /\ wrong \in Nat /\ fails.count \in Nat /\ n = fails.count + 1
    BY <1>1, Bounds DEF LockIs, n
  <2>2. fails' \in [count : Nat, ttl : BOOLEAN]
    BY <1>1, <1>4, <1>5 DEF LockIs
  <2>3. lockout' \in BOOLEAN /\ lockout' = lockout
    BY <1>1, <1>11, Zenon DEF LockIs
  <2>4. UNCHANGED <<begun, broken>>
    BY <1>11 DEF bounds
  <2>5. fails'.count <= wrong' /\ (lockout' => wrong' >= MaxAttempts)
    BY <1>1, <1>4, <1>5, <2>1, <2>3 DEF LockIs
  <2>6. ASSUME NEW d \in Calls
        PROVE  (Locks(d)' => wrong' >= MaxAttempts) /\ (Expires(d)' => wrong' >= 1)
    BY <1>1, <1>4, <1>10, <2>1 DEF LockIs
  <2>7. fails'.count >= MaxAttempts =>
           \E d \in Calls : Locks(d)' \/ (MaxAttempts = 1 /\ Expires(d)')
    <3>1. MaxAttempts # 0
      BY Bounds
    <3>2. n >= MaxAttempts => Locks(c)' \/ (MaxAttempts = 1 /\ Expires(c)')
      BY <1>5, <1>10, <2>1, <3>1
    <3> QED
      BY <1>5, <3>2
  <2>8. fails'.count > 0 /\ broken' = 0 => fails'.ttl \/ \E d \in Calls : Expires(d)'
    <3>1. CASE n = 1
      BY <1>10, <3>1
    <3>2. CASE n # 1 /\ broken = 0
      <4>1. fails.ttl \/ \E d \in Calls : Expires(d)
        BY <1>1, <2>1, <3>2 DEF LockIs
      <4> QED
        BY <1>5, <1>9, <1>10, <4>1
    <3> QED
      BY <2>4, <3>1, <3>2
  <2> QED
    BY <1>1, <1>4, <2>1, <2>2, <2>3, <2>4, <2>5, <2>6, <2>7, <2>8 DEF LockIs
<1> QED
  BY <1>2, <1>6, <1>7, <1>8, <1>11, <1>12, LockParts, LoginStep

LEMMA ExpireKeeps == ASSUME AccInv, NEW c \in Calls, LoginExpire(c) PROVE AccInv'
<1> DEFINE v == IF MaxAttempts = 1 THEN Gone(c, "lock") ELSE NoCall
<1>1. LockIs
  BY LockParts DEF AccInv
<1>2. call[c] # NoCall /\ call[c].path = "login" /\ call[c].at = "expire"
  BY DEF LoginExpire, Standing
<1>3. "lock" \in Awaits
  BY DEF Awaits
<1>4. fails' = [fails EXCEPT !.ttl = fails.count > 0]
  BY DEF LoginExpire
<1>5. fails'.count = fails.count /\ fails'.ttl = (fails.count > 0) /\ fails.count \in Nat
  BY <1>1, <1>4 DEF LockIs
<1>6. Turn(c, v)
  BY DEF LoginExpire, Turn, Gone, Advance, Finish
<1>7. v \in Call \cup {NoCall} /\ (v # NoCall => Holds(v))
  BY <1>2, <1>3, GoneIs DEF Holds, At
<1>8. /\ At(v, "login", "lock") <=> MaxAttempts = 1
      /\ ~At(v, "login", "expire")
      /\ ~At(v, "exchange", "find") /\ ~At(v, "mfaVerify", "update")
  BY <1>2, <1>3, GoneIs, Absent DEF At
<1> HIDE DEF v
<1>9. ~Locks(c) /\ Expires(c)
  BY <1>2 DEF Locks, Expires, Standing
<1>10. /\ Locks(c)' <=> MaxAttempts = 1
       /\ ~Expires(c)'
       /\ \A d \in Calls : d # c => (Locks(d)' <=> Locks(d)) /\ (Expires(d)' <=> Expires(d))
  BY <1>6, <1>7, <1>8, LocksMove
<1>11. UNCHANGED <<row, ids, registered, mailed, verifyKey, resetKey, exchange, lockout, bounds,
                   spent, wrong, opened, confirmed, raced>>
  BY DEF LoginExpire, record
<1>12. LockIs'
  <2>1. MaxAttempts \in Nat /\ wrong \in Nat
    BY <1>1, Bounds DEF LockIs
  <2>2. fails' \in [count : Nat, ttl : BOOLEAN]
    <3> DEFINE counts == fails.count > 0
    <3>1. counts \in BOOLEAN
      BY <1>5
    <3>2. fails' = [fails EXCEPT !.ttl = counts]
      BY <1>4
    <3> HIDE DEF counts
    <3> QED
      BY <1>1, <3>1, <3>2 DEF LockIs
  <2>3. lockout' \in BOOLEAN /\ lockout' = lockout
    BY <1>1, <1>11, Zenon DEF LockIs
  <2>4. UNCHANGED <<begun, broken>>
    BY <1>11 DEF bounds
  <2>5. fails'.count <= wrong' /\ (lockout' => wrong' >= MaxAttempts)
    BY <1>1, <1>5, <1>11, <2>1, <2>3 DEF LockIs
  <2>6. ASSUME NEW d \in Calls
        PROVE  (Locks(d)' => wrong' >= MaxAttempts) /\ (Expires(d)' => wrong' >= 1)
    BY <1>1, <1>9, <1>10, <1>11, <2>1 DEF LockIs
  <2>7. fails'.count >= MaxAttempts /\ broken' = 0 =>
           lockout' \/ \E d \in Calls : Locks(d)' \/ (MaxAttempts = 1 /\ Expires(d)')
    <3>1. CASE MaxAttempts = 1
      BY <1>10, <3>1
    <3>2. CASE MaxAttempts # 1
      <4>1. fails.count >= MaxAttempts /\ broken = 0 => lockout \/ \E d \in Calls : Locks(d)
        BY <1>1, <3>2 DEF LockIs
      <4>2. \A d \in Calls : Locks(d) => Locks(d)'
        BY <1>9, <1>10
      <4> QED
        BY <1>5, <2>3, <2>4, <4>1, <4>2
    <3> QED
      BY <3>1, <3>2
  <2>8. fails'.count > 0 => fails'.ttl
    BY <1>5
  <2> QED
    BY <1>1, <1>11, <2>1, <2>2, <2>3, <2>4, <2>5, <2>6, <2>7, <2>8 DEF LockIs
<1> QED
  BY <1>2, <1>6, <1>7, <1>8, <1>11, <1>12, LockParts, LoginStep

LEMMA LockKeeps == ASSUME AccInv, NEW c \in Calls, LoginLock(c) PROVE AccInv'
<1> DEFINE v == NoCall
<1>1. LockIs
  BY LockParts DEF AccInv
<1>2. call[c] # NoCall /\ call[c].path = "login" /\ call[c].at = "lock"
  BY DEF LoginLock, Standing
<1>3. Turn(c, v) /\ v \in Call \cup {NoCall} /\ (v # NoCall => Holds(v))
  BY DEF LoginLock, Turn, Finish
<1>4. /\ ~At(v, "login", "lock") /\ ~At(v, "login", "expire")
      /\ ~At(v, "exchange", "find") /\ ~At(v, "mfaVerify", "update")
  BY Absent
<1> HIDE DEF v
<1>5. Locks(c)
  BY <1>2 DEF Locks, Standing
<1>6. \A d \in Calls : (Locks(d)' => Locks(d)) /\ (Expires(d)' => Expires(d))
  BY <1>3, <1>4, LocksMove
<1>7. ~Expires(c) /\ \A d \in Calls : d # c => (Expires(d)' <=> Expires(d))
  BY <1>2, <1>3, LocksMove DEF Expires, Standing
<1>8. /\ UNCHANGED <<row, ids, registered, mailed, verifyKey, resetKey, exchange, fails, bounds,
                     spent, wrong, opened, confirmed, raced>>
      /\ lockout' = TRUE
  BY DEF LoginLock, record
<1>9. LockIs'
  <2>1. UNCHANGED <<fails, wrong, begun, broken>>
    BY <1>8 DEF bounds
  <2>2. wrong' >= MaxAttempts
    BY <1>1, <1>5, <2>1 DEF LockIs
  <2>3. fails'.count > 0 /\ broken' = 0 => fails'.ttl \/ \E d \in Calls : Expires(d)'
    BY <1>1, <1>7, <2>1 DEF LockIs
  <2> QED
    BY <1>1, <1>6, <1>8, <2>1, <2>2, <2>3 DEF LockIs
<1> QED
  BY <1>2, <1>3, <1>4, <1>8, <1>9, LockParts, LoginStep

LEMMA ClearKeeps == ASSUME AccInv, NEW c \in Calls, LoginClear(c) PROVE AccInv'
<1> DEFINE u == [call[c] EXCEPT !.path = "mfaLogin", !.at = "find", !.id = call[c].found.id,
                                !.found = NoRow]
           v == IF call[c].found.enabled THEN u ELSE NoCall
<1>1. LockIs
  BY LockParts DEF AccInv
<1>2. /\ call[c] # NoCall /\ call[c].path = "login" /\ call[c].at = "clear"
      /\ call[c] \in Call
  BY DEF LoginClear, Standing, AccInv, CallPart
<1>3. u \in Call /\ u.path = "mfaLogin"
  <2>1. call[c].found.id \in Ids \cup {None}
    BY <1>2, Absent DEF Call
  <2> QED
    BY <1>2, <2>1 DEF Call, Paths, Awaits
<1>4. Turn(c, v)
  <2>1. CASE call[c].found.enabled
    BY <2>1 DEF LoginClear, Turn
  <2>2. CASE ~call[c].found.enabled
    BY <2>2 DEF LoginClear, Turn, Finish
  <2> QED
    BY <2>1, <2>2
<1> HIDE DEF u
<1>5. /\ v \in Call \cup {NoCall} /\ (v # NoCall => Holds(v))
      /\ ~At(v, "login", "lock") /\ ~At(v, "login", "expire")
      /\ ~At(v, "exchange", "find") /\ ~At(v, "mfaVerify", "update")
  BY <1>3, Absent DEF Holds, At
<1> HIDE DEF v
<1>6. ~Locks(c) /\ ~Expires(c)
  BY <1>2 DEF Locks, Expires, Standing
<1>7. \A d \in Calls : (Locks(d)' => Locks(d)) /\ (Expires(d)' => Expires(d))
  BY <1>4, <1>5, LocksMove
<1>8. /\ UNCHANGED <<row, ids, registered, mailed, verifyKey, resetKey, exchange, lockout, bounds,
                     spent, opened, confirmed, raced>>
      /\ fails' = NoFails /\ wrong' = WrongAfterClear
  BY DEF LoginClear
<1>9. LockIs'
  <2>1. UNCHANGED <<begun, broken>>
    BY <1>8 DEF bounds
  <2>2. fails' \in [count : Nat, ttl : BOOLEAN] /\ fails'.count = 0
    BY <1>8 DEF NoFails
  <2>3. lockout' \in BOOLEAN /\ lockout' = lockout
    BY <1>1, <1>8, Zenon DEF LockIs
  <2>4. wrong' \in Nat
    BY <1>1, <1>8 DEF LockIs, WrongAfterClear
  <2>5. lockout \/ (\E d \in Calls : Locks(d) \/ Expires(d)) => wrong' = wrong
    BY <1>8 DEF WrongAfterClear, Locks, Expires
  <2>6. MaxAttempts \in Nat \ {0}
    BY Bounds
  <2> QED
    BY <1>1, <1>7, <2>1, <2>2, <2>3, <2>4, <2>5, <2>6 DEF LockIs
<1> QED
  BY <1>2, <1>4, <1>5, <1>8, <1>9, LockParts, LoginStep

\* A step that no request takes.
LEMMA CounterKeeps == ASSUME AccInv, CounterExpires PROVE AccInv'
<1>1. LockIs
  BY LockParts DEF AccInv
<1>2. /\ UNCHANGED <<row, ids, registered, mailed, verifyKey, resetKey, exchange, lockout, call,
                     drawn, begun, broken, spent, opened, confirmed, raced>>
      /\ fails' = NoFails /\ wrong' = WrongAfterClear
  BY DEF CounterExpires, bounds
<1>3. CallPart' /\ RowPart'
  BY <1>2 DEF AccInv, CallPart, Holds, At, RowPart, Exists, RegisteredOnce, EnabledWasConfirmed,
              CodeStands, Standing, IsRow
<1>4. MailPart'
  <2>1. MailedTokenWorks'
    BY <1>2 DEF AccInv, MailPart, MailedTokenWorks, Standing
  <2>2. VerifiedForCause'
    BY <1>2 DEF AccInv, MailPart, VerifiedForCause, Exists, Standing
  <2> QED
    BY <1>2, <2>1, <2>2 DEF AccInv, MailPart
<1>5. ExchangePart'
  BY <1>2 DEF AccInv, ExchangePart, Holding, Standing
<1>6. \A d \in Calls : (Locks(d)' <=> Locks(d)) /\ (Expires(d)' <=> Expires(d))
  BY <1>2 DEF Locks, Expires, Standing
<1>7. LockIs'
  <2>1. fails' \in [count : Nat, ttl : BOOLEAN] /\ fails'.count = 0
    BY <1>2 DEF NoFails
  <2>2. lockout' \in BOOLEAN /\ lockout' = lockout
    BY <1>1, <1>2, Zenon DEF LockIs
  <2>3. wrong' \in Nat
    BY <1>1, <1>2 DEF LockIs, WrongAfterClear
  <2>4. lockout \/ (\E d \in Calls : Locks(d) \/ Expires(d)) => wrong' = wrong
    BY <1>2 DEF WrongAfterClear, Locks, Expires
  <2>5. MaxAttempts \in Nat \ {0}
    BY Bounds
  <2> QED
    BY <1>1, <1>2, <1>6, <2>1, <2>2, <2>3, <2>4, <2>5 DEF LockIs
<1> QED
  BY <1>3, <1>4, <1>5, <1>7, LockParts DEF AccInv

-----------------------------------------------------------------------------
(* Steps that write the row, the outbox or a token                         *)

LEMMA WriteStep ==
    ASSUME AccInv, NEW c \in Calls, NEW v \in Call \cup {NoCall}, Turn(c, v),
           v # NoCall => Holds(v)' /\ v.path = call[c].path,
           call[c].path # "login",
           drawn' \in Nat, drawn <= drawn', ids' \in Nat, ids <= ids',
           UNCHANGED <<fails, lockout, wrong, begun, broken>>,
           RowPart', MailPart', ExchangePart'
    PROVE  AccInv'
<1>1. CallPart'
  BY CallsStay
<1>2. /\ ~At(v, "login", "lock") /\ ~At(v, "login", "expire")
      /\ ~At(call[c], "login", "lock") /\ ~At(call[c], "login", "expire")
  BY Absent DEF At
<1>3. LockPart'
  BY <1>2, LockStays DEF AccInv, LockPart
<1> QED
  BY <1>1, <1>3 DEF AccInv

\* A row for the address that has none.
LEMMA NewRowKeeps ==
    ASSUME AccInv, NEW c \in Calls, NEW v \in Call \cup {NoCall}, Turn(c, v),
           ~At(v, "mfaVerify", "update"),
           ids < MaxIds, NEW password \in BOOLEAN, NEW linked \in SUBSET Providers,
           NEW verified \in BOOLEAN,
           row' = NewRow(password, linked, verified), ids' = ids + 1,
           registered' = Registered(ids'), UNCHANGED <<confirmed, raced>>
    PROVE  /\ RowPart' /\ row' \in Row /\ row'.id = ids + 1 /\ row'.id \in Ids
           /\ row'.verified = verified /\ row'.linked = linked
<1>1. ids \in Nat /\ ids + 1 \in Ids /\ ids' \in 0 .. MaxIds
  BY Bounds DEF AccInv, RowPart
<1>2. /\ row' \in Row /\ row'.id = ids + 1 /\ row'.enabled = FALSE
      /\ row'.verified = verified /\ row'.linked = linked
  BY <1>1 DEF NewRow, Row
<1>3. registered' \in [Ids -> Nat] /\ RegisteredOnce'
  <2>1. registered \in [Ids -> Nat] /\ registered[ids + 1] = 0
    BY <1>1 DEF AccInv, RowPart, RegisteredOnce
  <2>2. registered' = [registered EXCEPT ![ids + 1] = @ + 1]
    BY DEF Registered
  <2>3. registered' \in [Ids -> Nat] /\ registered'[ids + 1] = 1
    BY <1>1, <2>1, <2>2
  <2>4. \A i \in Ids : i # ids + 1 => registered'[i] = registered[i]
    BY <1>1, <2>1, <2>2
  <2>5. Ids \subseteq Nat
    BY Bounds
  <2> QED
    BY <1>1, <2>3, <2>4, <2>5 DEF AccInv, RowPart, RegisteredOnce
<1>4. CodeStands'
  <2>1. "mfaVerify" \in Paths /\ "update" \in Awaits
    BY DEF Paths, Awaits
  <2>2. ASSUME NEW d \in Calls, Standing(d, "mfaVerify", "update")'
        PROVE  ~IsRow(call[d].id)'
    <3>1. call'[d] = call[d] /\ Standing(d, "mfaVerify", "update")
      BY <2>1, <2>2, Stands
    <3>2. call[d].id \in 1 .. ids
      BY <3>1 DEF AccInv, CallPart, Standing, Holds
    <3> QED
      BY <1>1, <1>2, <3>1, <3>2 DEF IsRow
  <2> QED
    BY <2>2 DEF CodeStands
<1>5. EnabledWasConfirmed'
  BY <1>2 DEF EnabledWasConfirmed
<1>6. (Exists => row.id <= ids)'
  BY <1>1, <1>2
<1> QED
  BY <1>1, <1>2, <1>3, <1>4, <1>5, <1>6 DEF AccInv, RowPart

\* The row's other columns change.
LEMMA ColumnsKeep ==
    ASSUME AccInv, NEW c \in Calls, NEW v \in Call \cup {NoCall}, Turn(c, v),
           ~At(v, "mfaVerify", "update"),
           row \in Row, row' \in Row, row'.id = row.id, row'.secret = row.secret,
           row'.enabled = row.enabled,
           UNCHANGED <<ids, registered, confirmed, raced>>
    PROVE  RowPart'
<1>1. row # NoRow
  BY Absent
<1>2. CodeStands'
  <2>1. "mfaVerify" \in Paths /\ "update" \in Awaits
    BY DEF Paths, Awaits
  <2> QED
    BY <2>1, Stands DEF AccInv, RowPart, CodeStands, IsRow
<1>3. EnabledWasConfirmed'
  BY <1>1 DEF AccInv, RowPart, EnabledWasConfirmed, Exists
<1>4. (Exists => row.id <= ids)'
  BY <1>1 DEF AccInv, RowPart, Exists
<1> QED
  BY <1>2, <1>3, <1>4 DEF AccInv, RowPart, RegisteredOnce

\* The mails stay what they were, whatever happens to the row.
LEMMA MailedStays ==
    ASSUME AccInv, NEW c \in Calls, NEW v \in Call \cup {NoCall}, Turn(c, v),
           ~At(call[c], "register", "store"), ~At(call[c], "forgot", "store"),
           UNCHANGED <<mailed, verifyKey, resetKey, spent, broken>>
    PROVE  MailedTokenWorks'
<1>1. {"register", "forgot"} \subseteq Paths /\ "store" \in Awaits
  BY DEF Paths, Awaits
<1> QED
  BY <1>1, Stands DEF AccInv, MailPart, MailedTokenWorks

\* The row as it was is verified for the cause it was, whatever is mailed.
LEMMA VerifiedStays ==
    ASSUME AccInv, NEW c \in Calls, NEW v \in Call \cup {NoCall}, Turn(c, v),
           ~At(call[c], "verify", "forget"),
           Exists' => row \in Row /\ row'.id = row.id /\ row'.verified = row.verified,
           Exists' /\ row.linked # {} => row'.linked # {},
           spent \subseteq spent', UNCHANGED broken
    PROVE  VerifiedForCause'
<1>1. "verify" \in Paths /\ "forget" \in Awaits
  BY DEF Paths, Awaits
<1>2. \A d \in Calls : Standing(d, "verify", "forget") =>
                          Standing(d, "verify", "forget")' /\ call'[d] = call[d]
  BY <1>1, Stands
<1>3. SUFFICES ASSUME Exists', row'.verified
               PROVE  \/ row'.linked # {}
                      \/ Verification(row'.id) \in spent'
                      \/ \E d \in Calls : Standing(d, "verify", "forget")' /\ call'[d].id = row'.id
                      \/ broken' > 0
  BY DEF VerifiedForCause, Verification
<1>4. Exists /\ row.verified
  BY <1>3, Absent DEF Exists
<1>5. VerifiedForCause
  BY DEF AccInv, MailPart
<1> QED
  BY <1>2, <1>3, <1>4, <1>5 DEF VerifiedForCause

LEMMA CreateKeeps == ASSUME AccInv, NEW c \in Calls, RegisterCreate(c) PROVE AccInv'
<1>1. /\ call[c] # NoCall /\ call[c].path = "register" /\ call[c].at = "create"
      /\ UNCHANGED <<verifyKey, resetKey, exchange, fails, lockout, drawn, begun, broken,
                     spent, wrong, opened, confirmed, raced>>
  BY DEF RegisterCreate, Standing, keys, bounds, record
<1>2. CASE Exists /\ Finish(c) /\ UNCHANGED <<row, ids, registered, mailed>>
  <2>1. ~Needed(call[c])
    BY <1>1 DEF Needed, At
  <2>2. UNCHANGED <<row, ids, registered, mailed, keys, drawn, record>>
    BY <1>1, <1>2 DEF keys, record
  <2>3. broken' \in Nat /\ broken <= broken' /\ begun' \in Nat
    BY <1>1 DEF AccInv, LockPart
  <2> QED
    BY <1>2, <2>1, <2>2, <2>3, EndsQuietly
<1>3. CASE /\ ~Exists /\ ids < MaxIds /\ row' = NewRow(TRUE, {}, FALSE) /\ ids' = ids + 1
           /\ registered' = Registered(ids') /\ mailed' = mailed \cup {Verification(ids')}
           /\ call' = [call EXCEPT ![c].at = "store", ![c].id = ids']
  <2>1. ids \in Nat /\ ids + 1 \in Ids /\ drawn \in Nat /\ "store" \in Awaits
    BY <1>3, Bounds DEF AccInv, RowPart, ExchangePart, Awaits
  <2>2. PICK v \in Call : /\ v = Named(c, "store", ids + 1)
                           /\ v.path = "register" /\ v.at = "store" /\ v.id = ids + 1
    BY <1>1, <2>1, NamedIs
  <2>3. Turn(c, v)
    BY <1>3, <2>2 DEF Turn, Named
  <2>4. Holds(v)' /\ v.path = call[c].path
    BY <1>1, <2>1, <2>2, Bounds DEF Holds, At
  <2>5. RowPart' /\ row' \in Row /\ row'.verified = FALSE
    <3> DEFINE none == {}
               yes == TRUE
               no == FALSE
    <3>1. row' = NewRow(yes, none, no) /\ none \in SUBSET Providers /\ yes \in BOOLEAN /\ no \in BOOLEAN
      BY <1>3
    <3>2. ~At(v, "mfaVerify", "update")
      BY <2>2 DEF At
    <3> HIDE DEF none, yes, no
    <3>3. RowPart' /\ row' \in Row /\ row'.verified = no
      BY <1>1, <1>3, <2>2, <2>3, <3>1, <3>2, NewRowKeeps
    <3> QED
      BY <3>3 DEF no
  <2>6. ExchangePart'
    BY <1>1, <2>2, <2>3, ExchangeStays DEF At
  <2>7. MailPart'
    <3>1. Verification(ids + 1) \in Mails
      BY <2>1 DEF Verification, Mails
    <3>2. VerifiedForCause'
      BY <2>5 DEF VerifiedForCause
    <3>3. Standing(c, "register", "store")' /\ call'[c].id = ids'
      <4>1. "register" \in Paths
        BY DEF Paths
      <4> QED
        BY <1>3, <2>1, <2>2, <2>3, <4>1, Stands, TurnIs DEF At
    <3>4. \A d \in Calls : /\ Standing(d, "register", "store") => /\ Standing(d, "register", "store")'
                                                                  /\ call'[d] = call[d]
                           /\ Standing(d, "forgot", "store") => /\ Standing(d, "forgot", "store")'
                                                                /\ call'[d] = call[d]
      <4>1. {"register", "forgot"} \subseteq Paths
        BY DEF Paths
      <4>2. ~At(call[c], "register", "store") /\ ~At(call[c], "forgot", "store")
        BY <1>1 DEF At
      <4> QED
        BY <2>1, <2>2, <2>3, <4>1, <4>2, Stands
    <3>5. MailedTokenWorks'
      <4>1. ASSUME NEW m \in mailed \ spent
            PROVE  \/ m.kind = "verify" /\ m.of \in verifyKey
                   \/ m.kind = "reset" /\ resetKey[m.of] # None
                   \/ \E d \in Calls :
                        \/ Standing(d, "register", "store")' /\ m = Verification(call'[d].id)
                        \/ Standing(d, "forgot", "store")' /\ m = ResetMail(call'[d].token)
                   \/ broken > 0
        BY <3>4 DEF AccInv, MailPart, MailedTokenWorks
      <4>2. mailed' \ spent' \subseteq (mailed \ spent) \cup {Verification(ids')}
        BY <1>1, <1>3
      <4> QED
        BY <1>1, <3>3, <4>1, <4>2 DEF MailedTokenWorks, Verification, ResetMail
    <3> QED
      BY <1>1, <1>3, <3>1, <3>2, <3>5 DEF AccInv, MailPart
  <2>8. call[c].path # "login"
    BY <1>1
  <2> QED
    BY <1>1, <1>3, <2>1, <2>2, <2>3, <2>4, <2>5, <2>6, <2>7, <2>8, WriteStep
<1> QED
  BY <1>2, <1>3 DEF RegisterCreate

\* A request that ends by writing to Redis.
LEMMA EndStep ==
    ASSUME AccInv, NEW c \in Calls, Finish(c),
           call[c].path # "login", drawn' \in Nat, drawn <= drawn',
           UNCHANGED <<row, ids, registered, fails, lockout, wrong, begun, broken, confirmed, raced>>,
           MailPart', ExchangePart'
    PROVE  AccInv'
<1> DEFINE v == NoCall
<1>1. Turn(c, v) /\ v \in Call \cup {NoCall} /\ v = NoCall
  BY DEF Finish, Turn
<1>2. ~At(v, "mfaVerify", "update")
  BY Absent
<1> HIDE DEF v
<1>3. RowPart'
  BY <1>1, <1>2, RowStays
<1>4. ids' \in Nat /\ ids <= ids'
  BY Bounds DEF AccInv, RowPart
<1> QED
  BY <1>1, <1>3, <1>4, WriteStep

LEMMA RegisterStoreKeeps == ASSUME AccInv, NEW c \in Calls, RegisterStore(c) PROVE AccInv'
<1>1. /\ call[c] # NoCall /\ call[c].path = "register" /\ call[c].at = "store" /\ Finish(c)
      /\ UNCHANGED <<row, ids, registered, mailed, resetKey, exchange, fails, lockout, drawn, begun,
                     broken, spent, wrong, opened, confirmed, raced>>
      /\ verifyKey' = verifyKey \cup {call[c].id}
  BY DEF RegisterStore, Standing, bounds, record
<1>2. call[c] \in Call /\ call[c].id \in Ids
  BY <1>1 DEF AccInv, CallPart, Holds, Call
<1>3. NoCall \in Call \cup {NoCall} /\ Turn(c, NoCall)
  BY <1>1 DEF Finish, Turn
<1>4. ExchangePart'
  BY <1>1, <1>3, Absent, ExchangeStays
<1>5. VerifiedForCause'
  <2>1. ~At(call[c], "verify", "forget")
    BY <1>1 DEF At
  <2>2. Exists' => row \in Row
    BY <1>1 DEF AccInv, RowPart, Exists
  <2> QED
    BY <1>1, <1>3, <2>1, <2>2, VerifiedStays
<1>6. MailedTokenWorks'
  <2>1. {"register", "forgot"} \subseteq Paths /\ "store" \in Awaits
    BY DEF Paths, Awaits
  <2>2. \A d \in Calls : d # c =>
          /\ Standing(d, "register", "store") => Standing(d, "register", "store")' /\ call'[d] = call[d]
          /\ Standing(d, "forgot", "store") => Standing(d, "forgot", "store")' /\ call'[d] = call[d]
    BY <1>3, <2>1, Stands
  <2>3. ~Standing(c, "forgot", "store")
    BY <1>1 DEF Standing
  <2> QED
    BY <1>1, <2>2, <2>3 DEF AccInv, MailPart, MailedTokenWorks, Verification, ResetMail
<1>7. MailPart'
  BY <1>1, <1>2, <1>5, <1>6 DEF AccInv, MailPart
<1>8. drawn \in Nat
  BY Bounds DEF AccInv, ExchangePart
<1> QED
  BY <1>1, <1>4, <1>7, <1>8, EndStep

LEMMA ProviderKeeps == ASSUME AccInv, NEW c \in Calls, ProviderWrite(c) PROVE AccInv'
<1>1. /\ call[c] # NoCall /\ call[c].path = "provider" /\ call[c].at = "update"
      /\ UNCHANGED <<mailed, verifyKey, resetKey, exchange, fails, lockout, drawn, begun, broken,
                     spent, wrong, opened, confirmed, raced>>
  BY DEF ProviderWrite, Standing, keys, bounds, record
<1>2. call[c] \in Call /\ call[c].by \in Providers /\ "store" \in Awaits
  BY <1>1 DEF AccInv, CallPart, Holds, Awaits
<1>3. ids \in 0 .. MaxIds /\ drawn \in Nat /\ row \in Row \cup {NoRow}
  BY Bounds DEF AccInv, RowPart, ExchangePart
<1>4. ASSUME Finish(c), UNCHANGED <<row, ids, registered>>
      PROVE  AccInv'
  <2>1. ~Needed(call[c])
    BY <1>1 DEF Needed, At
  <2>2. UNCHANGED <<row, ids, registered, mailed, keys, drawn, record>>
    BY <1>1, <1>4 DEF keys, record
  <2>3. broken' \in Nat /\ broken <= broken' /\ begun' \in Nat
    BY <1>1 DEF AccInv, LockPart
  <2> QED
    BY <1>4, <2>1, <2>2, <2>3, EndsQuietly
\* Either way the row has a provider, and the request holds its id.
<1>5. ASSUME NEW id \in Ids, call' = [call EXCEPT ![c].at = "store", ![c].id = id],
             ids' \in Nat, ids <= ids', row' \in Row, row'.linked # {},
             \A v \in Call : /\ Turn(c, v) /\ ~At(v, "mfaVerify", "update") => RowPart'
      PROVE  AccInv'
  <2>1. PICK v \in Call : /\ v = Named(c, "store", id) /\ v.id = id /\ v.path = "provider"
                          /\ v.at = "store" /\ v.by = call[c].by
    BY <1>1, <1>2, NamedIs
  <2>2. Turn(c, v)
    BY <1>5, <2>1 DEF Turn, Named
  <2>3. Holds(v)' /\ v.path = call[c].path /\ call[c].path # "login"
    BY <1>1, <1>2, <2>1, Bounds DEF Holds, At
  <2>4. RowPart'
    BY <1>5, <2>1, <2>2 DEF At
  <2>5. ExchangePart'
    BY <1>1, <2>1, <2>2, ExchangeStays DEF At
  <2>6. ~At(call[c], "register", "store") /\ ~At(call[c], "forgot", "store")
    BY <1>1 DEF At
  <2>7. MailedTokenWorks' /\ VerifiedForCause'
    BY <1>1, <1>5, <2>1, <2>2, <2>6, MailedStays DEF VerifiedForCause
  <2>8. MailPart'
    BY <1>1, <2>7 DEF AccInv, MailPart
  <2> QED
    BY <1>1, <1>3, <1>5, <2>1, <2>2, <2>3, <2>4, <2>5, <2>8, WriteStep
<1>6. PICK vouched \in BOOLEAN :
        \/ /\ call[c].found # NoRow /\ ~IsRow(call[c].found.id)
           /\ Finish(c) /\ UNCHANGED <<row, ids, registered>>
        \/ /\ call[c].found # NoRow /\ IsRow(call[c].found.id)
           /\ row' = [row EXCEPT !.linked = @ \cup {call[c].by}, !.verified = @ \/ vouched]
           /\ call' = [call EXCEPT ![c].at = "store", ![c].id = row.id]
           /\ UNCHANGED <<ids, registered>>
        \/ Finish(c) /\ UNCHANGED <<row, ids, registered>>
        \/ /\ ~Exists /\ ids < MaxIds
           /\ row' = NewRow(FALSE, {call[c].by}, vouched)
           /\ ids' = ids + 1
           /\ registered' = Registered(ids')
           /\ call' = [call EXCEPT ![c].at = "store", ![c].id = ids']
  <2>1. CASE call[c].found # NoRow
    BY <2>1 DEF ProviderWrite
  <2>2. CASE call[c].found = NoRow
    BY <2>2 DEF ProviderWrite
  <2> QED
    BY <2>1, <2>2
<1>7. CASE /\ call[c].found # NoRow /\ IsRow(call[c].found.id)
           /\ row' = [row EXCEPT !.linked = @ \cup {call[c].by}, !.verified = @ \/ vouched]
           /\ call' = [call EXCEPT ![c].at = "store", ![c].id = row.id]
           /\ UNCHANGED <<ids, registered>>
  <2>1. row \in Row /\ row.id \in Ids
    BY <1>2, <1>3, <1>7, Absent DEF IsRow, Call
  <2>2. /\ row' \in Row /\ row'.linked # {} /\ row'.id = row.id /\ row'.secret = row.secret
        /\ row'.enabled = row.enabled
    BY <1>2, <1>7, <2>1 DEF Row
  <2>3. \A v \in Call : Turn(c, v) /\ ~At(v, "mfaVerify", "update") => RowPart'
    BY <1>1, <1>7, <2>1, <2>2, ColumnsKeep
  <2>4. PICK id \in Ids : id = row.id /\ call' = [call EXCEPT ![c].at = "store", ![c].id = id]
    BY <1>7, <2>1
  <2>5. ids' \in Nat /\ ids <= ids'
    BY <1>3, <1>7
  <2> QED
    BY <1>5, <2>2, <2>3, <2>4, <2>5
<1>8. CASE /\ ~Exists /\ ids < MaxIds
           /\ row' = NewRow(FALSE, {call[c].by}, vouched)
           /\ ids' = ids + 1
           /\ registered' = Registered(ids')
           /\ call' = [call EXCEPT ![c].at = "store", ![c].id = ids']
  <2>1. PICK no \in BOOLEAN, linked \in SUBSET Providers :
          no = FALSE /\ linked = {call[c].by} /\ linked # {} /\ row' = NewRow(no, linked, vouched)
    BY <1>2, <1>8
  <2>2. ASSUME NEW v \in Call, Turn(c, v), ~At(v, "mfaVerify", "update")
        PROVE  RowPart' /\ row' \in Row /\ row'.linked = linked
    BY <1>1, <1>8, <2>1, <2>2, NewRowKeeps
  <2>3. ids + 1 \in Ids /\ ids' \in Nat /\ ids <= ids'
    BY <1>3, <1>8, Bounds
  <2>4. PICK v \in Call : v = Named(c, "store", ids + 1) /\ v.path = "provider"
    BY <1>1, <1>2, <2>3, NamedIs
  <2>5. Turn(c, v) /\ ~At(v, "mfaVerify", "update")
    BY <1>8, <2>4 DEF Turn, Named, At
  <2>6. row' \in Row /\ row'.linked # {}
    BY <2>1, <2>2, <2>5
  <2> QED
    BY <1>5, <1>8, <2>2, <2>3, <2>6
<1> QED
  BY <1>4, <1>6, <1>7, <1>8

LEMMA TokenKeeps == ASSUME AccInv, NEW c \in Calls, CreateExchangeToken(c) PROVE AccInv'
<1>1. /\ call[c] # NoCall /\ call[c].path = "provider" /\ call[c].at = "store" /\ Finish(c)
      /\ UNCHANGED <<row, ids, registered, mailed, verifyKey, resetKey, fails, lockout, begun, broken,
                     spent, wrong, opened, confirmed, raced>>
      /\ drawn < MaxTokens /\ drawn' = drawn + 1
      /\ exchange' = [exchange EXCEPT ![drawn + 1] = call[c].id]
  BY DEF CreateExchangeToken, Standing, record
<1>2. call[c] \in Call /\ call[c].id \in Ids
  BY <1>1 DEF AccInv, CallPart, Holds, Call
<1>3. drawn \in Nat /\ drawn + 1 \in Tokens /\ drawn' \in 0 .. MaxTokens /\ drawn <= drawn'
  BY <1>1, Bounds DEF AccInv, ExchangePart
<1>4. NoCall \in Call \cup {NoCall} /\ Turn(c, NoCall)
  BY <1>1 DEF Finish, Turn
<1>5. \A d \in Calls, k \in Tokens : Holding(d, k)' => Holding(d, k) /\ k <= drawn
  <2>1. "exchange" \in Paths /\ "find" \in Awaits
    BY DEF Paths, Awaits
  <2>2. \A d \in Calls, k \in Tokens : Holding(d, k)' => Holding(d, k)
    BY <1>4, <2>1, Stands, Absent DEF Holding
  <2>3. \A d \in Calls, k \in Tokens : Holding(d, k) => k <= drawn
    BY <1>3 DEF Holding, Standing, AccInv, CallPart, Holds
  <2> QED
    BY <2>2, <2>3
<1>6. ExchangePart'
  <2>1. /\ exchange \in [Tokens -> Ids \cup {None}] /\ Tokens \subseteq Nat
        /\ exchange[drawn + 1] = None /\ opened[drawn + 1] = 0
    BY <1>3, Bounds DEF AccInv, ExchangePart
  <2>2. exchange' \in [Tokens -> Ids \cup {None}]
    BY <1>1, <1>2, <2>1
  <2>3. \A k \in Tokens : k # drawn + 1 => exchange'[k] = exchange[k]
    BY <1>1, <2>1
  <2>4. \A k \in Tokens : k <= drawn => k # drawn + 1
    BY <1>3, <2>1
  <2>5. \A k \in Tokens : k > drawn' => k # drawn + 1 /\ k > drawn
    BY <1>1, <1>3, <2>1
  <2>6. \A k \in Tokens : opened[k] <= 1 /\ (exchange[k] # None => opened[k] = 0)
    BY DEF AccInv, ExchangePart
  <2>7. \A k \in Tokens : exchange'[k] # None => opened'[k] = 0
    BY <1>1, <2>1, <2>3, <2>6
  <2>8. \A k \in Tokens : k > drawn' => exchange'[k] = None /\ opened'[k] = 0
    BY <1>1, <2>3, <2>5 DEF AccInv, ExchangePart
  <2>9. \A k \in Tokens, d \in Calls : Holding(d, k)' => opened'[k] = 0 /\ exchange'[k] = None
    BY <1>1, <1>5, <2>3, <2>4 DEF AccInv, ExchangePart
  <2>10. \A k \in Tokens : \A d, e \in Calls : Holding(d, k)' /\ Holding(e, k)' => d = e
    BY <1>5 DEF AccInv, ExchangePart
  <2> QED
    BY <1>1, <1>3, <2>2, <2>6, <2>7, <2>8, <2>9, <2>10 DEF AccInv, ExchangePart
<1>7. MailPart'
  BY <1>1, <1>4, MailStays DEF At, AccInv, LockPart
<1> QED
  BY <1>1, <1>3, <1>6, <1>7, EndStep

LEMMA ExchangeKeeps == ASSUME AccInv, NEW c \in Calls, Exchange(c) PROVE AccInv'
<1>1. PICK k : k = call[c].token
  OBVIOUS
<1>2. /\ call[c] # NoCall /\ call[c].path = "exchange" /\ call[c].at = "get"
      /\ UNCHANGED <<row, ids, registered, mailed, verifyKey, resetKey, fails, lockout, drawn, begun,
                     broken, spent, wrong, opened, confirmed, raced>>
      /\ exchange' = [exchange EXCEPT ![k] = None]
  BY <1>1 DEF Exchange, Standing, bounds, record
<1>3. call[c] \in Call /\ k \in 1 .. drawn /\ drawn \in 0 .. MaxTokens
  BY <1>1, <1>2 DEF AccInv, CallPart, Holds, ExchangePart
<1>4. k \in Tokens /\ drawn \in Nat /\ ids \in Nat
  BY <1>3, Bounds DEF AccInv, RowPart
<1>5. exchange \in [Tokens -> Ids \cup {None}]
  BY DEF AccInv, ExchangePart
<1>6. PICK v \in Call \cup {NoCall} :
        /\ Turn(c, v)
        /\ v = NoCall \/ /\ v.path = "exchange" /\ v.at = "find" /\ v.token = k /\ exchange[k] # None
                         /\ v # NoCall
  <2>1. CASE exchange[k] = None
    BY <1>1, <2>1 DEF Exchange, Finish, Turn
  <2>2. CASE exchange[k] # None
    <3>1. "find" \in Awaits /\ exchange[k] \in Ids \cup {None}
      BY <1>4, <1>5 DEF Awaits
    <3>2. /\ Named(c, "find", exchange[k]) \in Call
          /\ Named(c, "find", exchange[k]).path = "exchange"
          /\ Named(c, "find", exchange[k]).at = "find"
          /\ Named(c, "find", exchange[k]).token = k
      BY <1>1, <1>2, <3>1, NamedIs
    <3>3. call' = [call EXCEPT ![c].at = "find", ![c].id = exchange[k]]
      BY <1>1, <2>2 DEF Exchange
    <3>4. Turn(c, Named(c, "find", exchange[k]))
      BY <3>3 DEF Turn, Named
    <3> QED
      BY <2>2, <3>2, <3>4, Absent
  <2> QED
    BY <2>1, <2>2
<1>7. v # NoCall => Holds(v)' /\ v.path = call[c].path
  BY <1>2, <1>3, <1>6 DEF Holds, At
<1>8. RowPart' /\ MailPart'
  <2>1. ~At(v, "mfaVerify", "update")
    BY <1>6, Absent DEF At
  <2>2. /\ ~At(call[c], "register", "store") /\ ~At(call[c], "forgot", "store")
        /\ ~At(call[c], "verify", "forget")
    BY <1>2 DEF At
  <2>3. broken' \in Nat /\ broken <= broken'
    BY <1>2 DEF AccInv, LockPart
  <2> QED
    BY <1>2, <1>6, <2>1, <2>2, <2>3, RowStays, MailStays
<1>9. ExchangePart'
  <2>1. "exchange" \in Paths /\ "find" \in Awaits
    BY DEF Paths, Awaits
  <2>2. \A d \in Calls, j \in Tokens : Holding(d, j)' =>
           Holding(d, j) \/ (d = c /\ j = k /\ exchange[k] # None)
    BY <1>6, <2>1, Stands, TurnIs, Absent DEF Holding, At
  <2>3. exchange' \in [Tokens -> Ids \cup {None}] /\ exchange'[k] = None
        /\ \A j \in Tokens : j # k => exchange'[j] = exchange[j]
    BY <1>2, <1>4, <1>5
  <2>4. exchange[k] # None => opened[k] = 0 /\ \A d \in Calls : ~Holding(d, k)
    BY <1>4 DEF AccInv, ExchangePart
  <2>5. \A j \in Tokens, d \in Calls : Holding(d, j)' => opened'[j] = 0 /\ exchange'[j] = None
    BY <1>2, <2>2, <2>3, <2>4 DEF AccInv, ExchangePart
  <2>6. \A j \in Tokens : \A d, e \in Calls : Holding(d, j)' /\ Holding(e, j)' => d = e
    BY <2>2, <2>4 DEF AccInv, ExchangePart
  <2>7. \A j \in Tokens : /\ opened'[j] <= 1
                          /\ exchange'[j] # None => opened'[j] = 0
                          /\ j > drawn' => exchange'[j] = None /\ opened'[j] = 0
    BY <1>2, <2>3 DEF AccInv, ExchangePart
  <2> QED
    BY <1>2, <2>3, <2>5, <2>6, <2>7 DEF AccInv, ExchangePart
<1> QED
  BY <1>2, <1>4, <1>6, <1>7, <1>8, <1>9, WriteStep

LEMMA OpenKeeps == ASSUME AccInv, NEW c \in Calls, ExchangeOpen(c) PROVE AccInv'
<1>1. PICK k : k = call[c].token
  OBVIOUS
<1>2. /\ call[c] # NoCall /\ call[c].path = "exchange" /\ call[c].at = "find" /\ Finish(c)
      /\ UNCHANGED <<row, ids, registered, mailed, verifyKey, resetKey, exchange, fails, lockout,
                     drawn, begun, broken, spent, wrong, confirmed, raced>>
      /\ opened' = [opened EXCEPT ![k] = @ + 1] \/ opened' = opened
  BY <1>1 DEF ExchangeOpen, Standing, bounds, keys
<1>3. call[c] \in Call /\ k \in 1 .. drawn /\ drawn \in 0 .. MaxTokens
  BY <1>1, <1>2 DEF AccInv, CallPart, Holds, ExchangePart
<1>4. k \in Tokens /\ drawn \in Nat
  BY <1>3, Bounds
<1>5. Holding(c, k)
  BY <1>1, <1>2 DEF Holding, Standing
<1>6. NoCall \in Call \cup {NoCall} /\ Turn(c, NoCall)
  BY <1>2 DEF Finish, Turn
<1>7. MailPart'
  <2>1. /\ ~At(call[c], "register", "store") /\ ~At(call[c], "forgot", "store")
        /\ ~At(call[c], "verify", "forget")
    BY <1>2 DEF At
  <2>2. broken' \in Nat /\ broken <= broken'
    BY <1>2 DEF AccInv, LockPart
  <2> QED
    BY <1>2, <1>6, <2>1, <2>2, MailStays
<1>8. ExchangePart'
  <2>1. "exchange" \in Paths /\ "find" \in Awaits
    BY DEF Paths, Awaits
  <2>2. \A d \in Calls, j \in Tokens : Holding(d, j)' => Holding(d, j) /\ d # c
    BY <1>6, <2>1, Stands, Absent DEF Holding
  <2>3. opened[k] = 0 /\ exchange[k] = None /\ \A d \in Calls : Holding(d, k) => d = c
    BY <1>4, <1>5 DEF AccInv, ExchangePart
  <2>4. /\ opened' \in [Tokens -> Nat] /\ opened'[k] \in {0, 1}
        /\ \A j \in Tokens : j # k => opened'[j] = opened[j]
    BY <1>2, <1>4, <2>3 DEF AccInv, ExchangePart
  <2>5. \A j \in Tokens : /\ opened'[j] <= 1
                          /\ exchange'[j] # None => opened'[j] = 0
                          /\ j > drawn' => exchange'[j] = None /\ opened'[j] = 0
    BY <1>2, <1>3, <2>3, <2>4 DEF AccInv, ExchangePart
  <2>6. \A j \in Tokens, d \in Calls : Holding(d, j)' => opened'[j] = 0 /\ exchange'[j] = None
    BY <1>2, <2>2, <2>3, <2>4 DEF AccInv, ExchangePart
  <2>7. \A j \in Tokens : \A d, e \in Calls : Holding(d, j)' /\ Holding(e, j)' => d = e
    BY <2>2 DEF AccInv, ExchangePart
  <2> QED
    BY <1>2, <2>4, <2>5, <2>6, <2>7 DEF AccInv, ExchangePart
<1> QED
  BY <1>2, <1>4, <1>7, <1>8, EndStep

LEMMA VerifyKeeps == ASSUME AccInv, NEW c \in Calls, VerifyUpdate(c) PROVE AccInv'
<1>1. /\ call[c] # NoCall /\ call[c].path = "verify" /\ call[c].at = "update"
      /\ UNCHANGED <<ids, registered, mailed, verifyKey, resetKey, exchange, fails, lockout, drawn,
                     begun, broken, spent, wrong, opened, confirmed, raced>>
  BY DEF VerifyUpdate, Standing, keys, bounds, record
<1>2. call[c] \in Call /\ call[c].id # None /\ "forget" \in Awaits
  BY <1>1 DEF AccInv, CallPart, Holds, Awaits
<1>3. ids \in Nat /\ drawn \in Nat /\ row \in Row \cup {NoRow}
  BY Bounds DEF AccInv, RowPart, ExchangePart
<1>4. CASE ~IsRow(call[c].id)
  <2>1. Finish(c) /\ UNCHANGED row
    BY <1>4, Zenon DEF VerifyUpdate
  <2>2. ~Needed(call[c])
    BY <1>1 DEF Needed, At
  <2>3. UNCHANGED <<row, ids, registered, mailed, keys, drawn, record>>
    BY <1>1, <2>1 DEF keys, record
  <2>4. broken' \in Nat /\ broken <= broken' /\ begun' \in Nat
    BY <1>1 DEF AccInv, LockPart
  <2> QED
    BY <2>1, <2>2, <2>3, <2>4, EndsQuietly
<1>5. CASE IsRow(call[c].id)
  <2>1. row' = [row EXCEPT !.verified = TRUE] /\ Advance(c, "forget")
    BY <1>5, Zenon DEF VerifyUpdate
  <2>2. PICK v \in Call : /\ v = Gone(c, "forget") /\ v.path = "verify" /\ v.at = "forget"
                          /\ v.id = call[c].id
    BY <1>1, <1>2, GoneIs
  <2>3. Turn(c, v)
    BY <2>1, <2>2 DEF Turn, Gone, Advance
  <2>4. row \in Row
    BY <1>2, <1>3, <1>5, Absent DEF IsRow
  <2>5. /\ row' \in Row /\ row'.id = row.id /\ row'.secret = row.secret /\ row'.enabled = row.enabled
        /\ row'.linked = row.linked
    BY <2>1, <2>4 DEF Row
  <2>6. Holds(v)' /\ v.path = call[c].path /\ call[c].path # "login"
    BY <1>1, <1>2, <2>2 DEF Holds, At
  <2>7. RowPart'
    BY <1>1, <2>2, <2>3, <2>4, <2>5, ColumnsKeep DEF At
  <2>8. ExchangePart'
    BY <1>1, <2>2, <2>3, ExchangeStays DEF At
  <2>9. VerifiedForCause'
    <3>1. "verify" \in Paths
      BY DEF Paths
    <3>2. Standing(c, "verify", "forget")' /\ call'[c].id = row'.id
      BY <1>2, <1>5, <2>2, <2>3, <2>5, <3>1, Stands, TurnIs DEF At, IsRow
    <3> QED
      BY <3>2 DEF VerifiedForCause
  <2>10. MailedTokenWorks'
    BY <1>1, <2>3, MailedStays DEF At
  <2>11. MailPart'
    BY <1>1, <2>9, <2>10 DEF AccInv, MailPart
  <2> QED
    BY <1>1, <1>3, <2>2, <2>3, <2>6, <2>7, <2>8, <2>11, WriteStep
<1> QED
  BY <1>4, <1>5

LEMMA VerifyForgetKeeps == ASSUME AccInv, NEW c \in Calls, VerifyForget(c) PROVE AccInv'
<1>1. /\ call[c] # NoCall /\ call[c].path = "verify" /\ call[c].at = "forget" /\ Finish(c)
      /\ UNCHANGED <<row, ids, registered, mailed, resetKey, exchange, fails, lockout, drawn, begun,
                     broken, wrong, opened, confirmed, raced>>
      /\ verifyKey' = verifyKey \ {call[c].id}
      /\ spent' = spent \cup {Verification(call[c].id)}
  BY DEF VerifyForget, Standing, bounds
<1>2. call[c] \in Call /\ call[c].id \in Ids /\ drawn \in Nat
  BY <1>1, Bounds DEF AccInv, CallPart, Holds, Call, ExchangePart
<1>3. NoCall \in Call \cup {NoCall} /\ Turn(c, NoCall)
  BY <1>1 DEF Finish, Turn
<1>4. ExchangePart'
  BY <1>1, <1>3, Absent, ExchangeStays
<1>5. {"register", "forgot", "verify"} \subseteq Paths /\ {"store", "forget"} \subseteq Awaits
  BY DEF Paths, Awaits
<1>6. VerifiedForCause'
  <2>1. \A d \in Calls : d # c /\ Standing(d, "verify", "forget") =>
                            Standing(d, "verify", "forget")' /\ call'[d] = call[d]
    BY <1>3, <1>5, Stands
  <2> QED
    BY <1>1, <2>1 DEF AccInv, MailPart, VerifiedForCause, Exists, Verification
<1>7. MailedTokenWorks'
  <2>1. ~At(call[c], "register", "store") /\ ~At(call[c], "forgot", "store")
    BY <1>1 DEF At
  <2>2. \A d \in Calls : /\ Standing(d, "register", "store") => /\ Standing(d, "register", "store")'
                                                                /\ call'[d] = call[d]
                         /\ Standing(d, "forgot", "store") => /\ Standing(d, "forgot", "store")'
                                                              /\ call'[d] = call[d]
    BY <1>3, <1>5, <2>1, Stands
  <2>3. ASSUME NEW m \in mailed \ spent, m # Verification(call[c].id)
        PROVE  \/ m.kind = "verify" /\ m.of \in verifyKey'
               \/ m.kind = "reset" /\ resetKey[m.of] # None
               \/ \E d \in Calls :
                    \/ Standing(d, "register", "store")' /\ m = Verification(call'[d].id)
                    \/ Standing(d, "forgot", "store")' /\ m = ResetMail(call'[d].token)
               \/ broken > 0
    <3>1. m.kind = "verify" => m.of # call[c].id
      <4>1. m \in Mails
        BY DEF AccInv, MailPart
      <4> QED
        BY <2>3, <4>1 DEF Mails, Verification
    <3> QED
      BY <1>1, <2>2, <3>1 DEF AccInv, MailPart, MailedTokenWorks
  <2> QED
    BY <1>1, <2>3 DEF MailedTokenWorks, Verification, ResetMail
<1>8. MailPart'
  <2>1. Verification(call[c].id) \in Mails
    BY <1>2 DEF Verification, Mails
  <2> QED
    BY <1>1, <1>6, <1>7, <2>1 DEF AccInv, MailPart
<1> QED
  BY <1>1, <1>2, <1>4, <1>8, EndStep

LEMMA ForgotMailKeeps == ASSUME AccInv, NEW c \in Calls, ForgotMail(c) PROVE AccInv'
<1>1. /\ call[c] # NoCall /\ call[c].path = "forgot" /\ call[c].at = "mail"
      /\ UNCHANGED <<row, ids, registered, verifyKey, resetKey, exchange, fails, lockout, begun, broken,
                     spent, wrong, opened, confirmed, raced>>
      /\ drawn < MaxTokens /\ drawn' = drawn + 1 /\ mailed' = mailed \cup {ResetMail(drawn + 1)}
      /\ call' = [call EXCEPT ![c].at = "store", ![c].token = drawn + 1]
  BY DEF ForgotMail, Standing, keys, record
<1>2. /\ call[c] \in Call /\ call[c].id # None /\ ids \in Nat /\ drawn \in Nat
      /\ drawn + 1 \in Tokens /\ drawn' \in 0 .. MaxTokens
  BY <1>1, Bounds DEF AccInv, CallPart, Holds, RowPart, ExchangePart
<1>0. PICK k \in Tokens : k = drawn + 1
  BY <1>2
<1>3. PICK v \in Call : /\ v = [call[c] EXCEPT !.at = "store", !.token = k]
                        /\ v.path = "forgot" /\ v.at = "store" /\ v.token = k /\ v.id = call[c].id
  <2>1. "store" \in Awaits
    BY DEF Awaits
  <2>2. [call[c] EXCEPT !.at = "store", !.token = k] \in Call
    BY <1>2, <2>1 DEF Call
  <2> QED
    BY <1>1, <1>2, <2>2 DEF Call
<1>4. Turn(c, v)
  BY <1>1, <1>3, <1>0 DEF Turn
<1>5. Holds(v)' /\ v.path = call[c].path /\ call[c].path # "login"
  BY <1>1, <1>2, <1>3, <1>0, Bounds DEF Holds, At
<1>6. RowPart'
  BY <1>1, <1>3, <1>4, RowStays DEF At
<1>7. {"exchange", "register", "forgot"} \subseteq Paths /\ {"find", "store"} \subseteq Awaits
  BY DEF Paths, Awaits
<1>8. ExchangePart'
  <2>1. ~At(v, "exchange", "find")
    BY <1>3 DEF At
  <2>2. \A d \in Calls, j \in Tokens : Holding(d, j)' => Holding(d, j)
    BY <1>4, <1>7, <2>1, Stands DEF Holding
  <2>3. \A j \in Tokens : j > drawn' => j > drawn
    BY <1>1, <1>2, Bounds
  <2> QED
    BY <1>1, <1>2, <2>2, <2>3 DEF AccInv, ExchangePart
<1>9. VerifiedForCause'
  <2>1. ~At(call[c], "verify", "forget")
    BY <1>1 DEF At
  <2>2. Exists' => row \in Row
    BY <1>1 DEF AccInv, RowPart, Exists
  <2> QED
    BY <1>1, <1>4, <2>1, <2>2, VerifiedStays
<1>10. MailedTokenWorks'
  <2>1. ~At(call[c], "register", "store") /\ ~At(call[c], "forgot", "store")
    BY <1>1 DEF At
  <2>2. \A d \in Calls : /\ Standing(d, "register", "store") => /\ Standing(d, "register", "store")'
                                                                /\ call'[d] = call[d]
                         /\ Standing(d, "forgot", "store") => /\ Standing(d, "forgot", "store")'
                                                              /\ call'[d] = call[d]
    BY <1>4, <1>7, <2>1, Stands
  <2>3. Standing(c, "forgot", "store")' /\ call'[c].token = drawn + 1
    <3>1. At(v, "forgot", "store") /\ call'[c] = v
      BY <1>3, <1>4, TurnIs DEF At
    <3> QED
      BY <1>3, <1>4, <1>7, <1>0, <3>1, Stands
  <2>4. ASSUME NEW m \in mailed \ spent
        PROVE  \/ m.kind = "verify" /\ m.of \in verifyKey
               \/ m.kind = "reset" /\ resetKey[m.of] # None
               \/ \E d \in Calls :
                    \/ Standing(d, "register", "store")' /\ m = Verification(call'[d].id)
                    \/ Standing(d, "forgot", "store")' /\ m = ResetMail(call'[d].token)
               \/ broken > 0
    BY <2>2 DEF AccInv, MailPart, MailedTokenWorks
  <2>5. mailed' \ spent' \subseteq (mailed \ spent) \cup {ResetMail(drawn + 1)}
    BY <1>1
  <2> QED
    BY <1>1, <2>3, <2>4, <2>5 DEF MailedTokenWorks, Verification, ResetMail
<1>11. MailPart'
  <2>1. ResetMail(drawn + 1) \in Mails
    BY <1>2 DEF ResetMail, Mails
  <2> QED
    BY <1>1, <1>9, <1>10, <2>1 DEF AccInv, MailPart
<1>12. drawn' \in Nat /\ drawn <= drawn' /\ ids' \in Nat /\ ids <= ids'
  BY <1>1, <1>2
<1> QED
  BY <1>1, <1>3, <1>4, <1>5, <1>6, <1>8, <1>11, <1>12, WriteStep

LEMMA ForgotStoreKeeps == ASSUME AccInv, NEW c \in Calls, ForgotStore(c) PROVE AccInv'
<1>1. /\ call[c] # NoCall /\ call[c].path = "forgot" /\ call[c].at = "store" /\ Finish(c)
      /\ UNCHANGED <<row, ids, registered, mailed, verifyKey, exchange, fails, lockout, drawn, begun,
                     broken, spent, wrong, opened, confirmed, raced>>
      /\ resetKey' = [resetKey EXCEPT ![call[c].token] = call[c].id]
  BY DEF ForgotStore, Standing, bounds, record
<1>2. call[c] \in Call /\ call[c].id \in Ids /\ call[c].token \in Tokens /\ drawn \in Nat
  BY <1>1, Bounds DEF AccInv, CallPart, Holds, Call, ExchangePart, At
<1>3. NoCall \in Call \cup {NoCall} /\ Turn(c, NoCall)
  BY <1>1 DEF Finish, Turn
<1>4. ExchangePart'
  BY <1>1, <1>3, Absent, ExchangeStays
<1>5. VerifiedForCause'
  <2>1. ~At(call[c], "verify", "forget")
    BY <1>1 DEF At
  <2>2. Exists' => row \in Row
    BY <1>1 DEF AccInv, RowPart, Exists
  <2> QED
    BY <1>1, <1>3, <2>1, <2>2, VerifiedStays
<1>6. /\ resetKey' \in [Tokens -> Ids \cup {None}] /\ resetKey'[call[c].token] # None
      /\ \A k \in Tokens : resetKey[k] # None => resetKey'[k] # None
  BY <1>1, <1>2, Bounds DEF AccInv, MailPart
<1>7. MailedTokenWorks'
  <2>1. {"register", "forgot"} \subseteq Paths /\ "store" \in Awaits
    BY DEF Paths, Awaits
  <2>2. \A d \in Calls : d # c =>
          /\ Standing(d, "register", "store") => Standing(d, "register", "store")' /\ call'[d] = call[d]
          /\ Standing(d, "forgot", "store") => Standing(d, "forgot", "store")' /\ call'[d] = call[d]
    BY <1>3, <2>1, Stands
  <2>3. ~Standing(c, "register", "store")
    BY <1>1 DEF Standing
  <2>4. \A m \in mailed : m.kind = "reset" => m.of \in Tokens
    BY DEF AccInv, MailPart, Mails
  <2> QED
    BY <1>1, <1>6, <2>2, <2>3, <2>4 DEF AccInv, MailPart, MailedTokenWorks, Verification, ResetMail
<1>8. MailPart'
  BY <1>1, <1>5, <1>6, <1>7 DEF AccInv, MailPart
<1> QED
  BY <1>1, <1>2, <1>4, <1>8, EndStep

LEMMA ResetKeeps == ASSUME AccInv, NEW c \in Calls, ResetUpdate(c) PROVE AccInv'
<1>1. /\ call[c] # NoCall /\ call[c].path = "reset" /\ call[c].at = "update"
      /\ UNCHANGED <<ids, registered, mailed, verifyKey, resetKey, exchange, fails, lockout, drawn,
                     begun, broken, spent, wrong, opened, confirmed, raced>>
  BY DEF ResetUpdate, Standing, keys, bounds, record
<1>2. call[c] \in Call /\ call[c].token # None /\ call[c].id # None /\ "forget" \in Awaits
  BY <1>1 DEF AccInv, CallPart, Holds, Awaits, At
<1>3. ids \in Nat /\ drawn \in Nat /\ row \in Row \cup {NoRow}
  BY Bounds DEF AccInv, RowPart, ExchangePart
<1>4. CASE ~IsRow(call[c].id)
  <2>1. Finish(c) /\ UNCHANGED row
    BY <1>4, Zenon DEF ResetUpdate
  <2>2. ~Needed(call[c])
    BY <1>1 DEF Needed, At
  <2>3. UNCHANGED <<row, ids, registered, mailed, keys, drawn, record>>
    BY <1>1, <2>1 DEF keys, record
  <2>4. broken' \in Nat /\ broken <= broken' /\ begun' \in Nat
    BY <1>1 DEF AccInv, LockPart
  <2> QED
    BY <2>1, <2>2, <2>3, <2>4, EndsQuietly
<1>5. CASE IsRow(call[c].id)
  <2>1. row' = [row EXCEPT !.password = TRUE] /\ Advance(c, "forget")
    BY <1>5, Zenon DEF ResetUpdate
  <2>2. PICK v \in Call : /\ v = Gone(c, "forget") /\ v.path = "reset" /\ v.at = "forget"
                          /\ v.token = call[c].token
    BY <1>1, <1>2, GoneIs
  <2>3. Turn(c, v)
    BY <2>1, <2>2 DEF Turn, Gone, Advance
  <2>4. Holds(v)' /\ v.path = call[c].path /\ call[c].path # "login"
    BY <1>1, <1>2, <2>2 DEF Holds, At
  <2>5. ExchangePart'
    BY <1>1, <2>2, <2>3, ExchangeStays DEF At
  <2>6. ~At(v, "mfaVerify", "update") /\ ~At(call[c], "verify", "forget")
    BY <1>1, <2>2 DEF At
  <2>7. MailedTokenWorks'
    BY <1>1, <2>3, MailedStays DEF At
  <2>8. row \in Row
    BY <1>2, <1>3, <1>5, Absent DEF IsRow
  <2>9. /\ row' \in Row /\ row'.id = row.id /\ row'.secret = row.secret /\ row'.enabled = row.enabled
        /\ row'.linked = row.linked /\ row'.verified = row.verified
    BY <2>1, <2>8 DEF Row
  <2>10. RowPart'
    BY <1>1, <2>3, <2>6, <2>8, <2>9, ColumnsKeep
  <2>11. VerifiedForCause'
    BY <1>1, <2>3, <2>6, <2>8, <2>9, VerifiedStays
  <2>12. MailPart'
    BY <1>1, <2>7, <2>11 DEF AccInv, MailPart
  <2> QED
    BY <1>1, <1>3, <2>2, <2>3, <2>4, <2>5, <2>10, <2>12, WriteStep
<1> QED
  BY <1>4, <1>5

LEMMA ResetForgetKeeps == ASSUME AccInv, NEW c \in Calls, ResetForget(c) PROVE AccInv'
<1>1. /\ call[c] # NoCall /\ call[c].path = "reset" /\ call[c].at = "forget" /\ Finish(c)
      /\ UNCHANGED <<row, ids, registered, mailed, verifyKey, exchange, fails, lockout, drawn, begun,
                     broken, wrong, opened, confirmed, raced>>
      /\ resetKey' = [resetKey EXCEPT ![call[c].token] = None]
      /\ spent' = spent \cup {ResetMail(call[c].token)}
  BY DEF ResetForget, Standing, bounds
<1>2. call[c] \in Call /\ call[c].token \in Tokens /\ drawn \in Nat
  BY <1>1, Bounds DEF AccInv, CallPart, Holds, Call, ExchangePart
<1>3. NoCall \in Call \cup {NoCall} /\ Turn(c, NoCall)
  BY <1>1 DEF Finish, Turn
<1>4. ExchangePart'
  BY <1>1, <1>3, Absent, ExchangeStays
<1>5. VerifiedForCause'
  <2>1. ~At(call[c], "verify", "forget")
    BY <1>1 DEF At
  <2>2. Exists' => row \in Row
    BY <1>1 DEF AccInv, RowPart, Exists
  <2> QED
    BY <1>1, <1>3, <2>1, <2>2, VerifiedStays
<1>6. /\ resetKey' \in [Tokens -> Ids \cup {None}]
      /\ \A k \in Tokens : k # call[c].token => resetKey'[k] = resetKey[k]
  BY <1>1, <1>2 DEF AccInv, MailPart
<1>7. MailedTokenWorks'
  <2>1. {"register", "forgot"} \subseteq Paths /\ "store" \in Awaits
    BY DEF Paths, Awaits
  <2>2. ~At(call[c], "register", "store") /\ ~At(call[c], "forgot", "store")
    BY <1>1 DEF At
  <2>3. \A d \in Calls : /\ Standing(d, "register", "store") => /\ Standing(d, "register", "store")'
                                                                /\ call'[d] = call[d]
                         /\ Standing(d, "forgot", "store") => /\ Standing(d, "forgot", "store")'
                                                              /\ call'[d] = call[d]
    BY <1>3, <2>1, <2>2, Stands
  <2>4. ASSUME NEW m \in mailed \ spent, m # ResetMail(call[c].token)
        PROVE  \/ m.kind = "verify" /\ m.of \in verifyKey
               \/ m.kind = "reset" /\ resetKey'[m.of] # None
               \/ \E d \in Calls :
                    \/ Standing(d, "register", "store")' /\ m = Verification(call'[d].id)
                    \/ Standing(d, "forgot", "store")' /\ m = ResetMail(call'[d].token)
               \/ broken > 0
    <3>1. m.kind = "reset" => m.of # call[c].token /\ m.of \in Tokens
      <4>1. m \in Mails
        BY DEF AccInv, MailPart
      <4> QED
        BY <2>4, <4>1 DEF Mails, ResetMail
    <3> QED
      BY <1>6, <2>3, <3>1 DEF AccInv, MailPart, MailedTokenWorks
  <2> QED
    BY <1>1, <2>4 DEF MailedTokenWorks, Verification, ResetMail
<1>8. MailPart'
  <2>1. ResetMail(call[c].token) \in Mails
    BY <1>2 DEF ResetMail, Mails
  <2> QED
    BY <1>1, <1>5, <1>6, <1>7, <2>1 DEF AccInv, MailPart
<1> QED
  BY <1>1, <1>2, <1>4, <1>8, EndStep

-----------------------------------------------------------------------------
(* The second factor, and the deletion                                     *)

LEMMA SetupKeeps == ASSUME AccInv, NEW c \in Calls, MfaSetupUpdate(c) PROVE AccInv'
<1>1. PICK k : k = drawn + 1
  OBVIOUS
<1>2. /\ call[c] # NoCall /\ call[c].path = "mfaSetup" /\ call[c].at = "update" /\ Finish(c)
      /\ UNCHANGED <<ids, registered, mailed, verifyKey, resetKey, exchange, fails, lockout, begun,
                     broken, spent, wrong, opened, confirmed>>
      /\ drawn < MaxTokens /\ drawn' = k
  BY <1>1 DEF MfaSetupUpdate, Standing, keys
<1>3. /\ drawn \in Nat /\ k \in Tokens /\ k \in 0 .. MaxTokens /\ drawn <= k /\ k \in Nat
      /\ ids \in Nat /\ row \in Row \cup {NoRow} /\ raced \subseteq Tokens
  BY <1>1, <1>2, Bounds DEF AccInv, RowPart, ExchangePart
<1>4. call[c].id # None /\ ~call[c].found.enabled
  BY <1>2, Bounds DEF AccInv, CallPart, Holds, At
<1>5. NoCall \in Call \cup {NoCall} /\ Turn(c, NoCall)
  BY <1>2 DEF Finish, Turn
<1>6. ~At(call[c], "register", "store") /\ ~At(call[c], "forgot", "store")
      /\ ~At(call[c], "verify", "forget")
  BY <1>2 DEF At
<1>7. {"exchange", "mfaVerify"} \subseteq Paths /\ {"find", "update"} \subseteq Awaits
  BY DEF Paths, Awaits
<1>8. ExchangePart'
  <2>1. \A d \in Calls, j \in Tokens : Holding(d, j)' => Holding(d, j)
    BY <1>5, <1>7, Absent, Stands DEF Holding
  <2>2. \A j \in Tokens : j > drawn' => j > drawn
    BY <1>1, <1>2, <1>3, Bounds
  <2> QED
    BY <1>2, <1>3, <2>1, <2>2 DEF AccInv, ExchangePart
<1>9. MailedTokenWorks'
  BY <1>2, <1>5, <1>6, MailedStays
<1>10. \A d \in Calls : Standing(d, "mfaVerify", "update")' =>
                           Standing(d, "mfaVerify", "update") /\ call'[d] = call[d]
  BY <1>5, <1>7, Absent, Stands
<1>11. raced' \in {raced, raced \cup {k}}
  BY <1>1, <1>2 DEF MfaSetupUpdate
<1>12. CASE ~IsRow(call[c].id)
  <2>1. row' = row
    BY <1>12 DEF MfaSetupUpdate
  <2>2. RowPart'
    <3>1. CodeStands'
      BY <1>2, <1>10, <1>11, <2>1 DEF AccInv, RowPart, CodeStands, IsRow
    <3> QED
      BY <1>2, <1>3, <1>11, <2>1, <3>1
      DEF AccInv, RowPart, Exists, RegisteredOnce, EnabledWasConfirmed
  <2>3. Exists' => row \in Row
    BY <1>3, <2>1 DEF Exists
  <2>4. VerifiedForCause'
    BY <1>2, <1>5, <1>6, <2>1, <2>3, VerifiedStays
  <2>5. MailPart'
    BY <1>2, <1>9, <2>4 DEF AccInv, MailPart
  <2> QED
    BY <1>2, <1>3, <1>5, <1>8, <2>2, <2>5, WriteStep
<1>13. CASE IsRow(call[c].id)
  <2>1. row' = [row EXCEPT !.secret = k] /\ row \in Row /\ row # NoRow
    BY <1>1, <1>2, <1>3, <1>4, <1>13, Absent DEF MfaSetupUpdate, IsRow
  <2>2. /\ row' \in Row /\ row'.id = row.id /\ row'.secret = k /\ row'.enabled = row.enabled
        /\ row'.linked = row.linked /\ row'.verified = row.verified
    BY <1>3, <2>1 DEF Row
  <2>3. row.enabled \/ (\E d \in Calls : Standing(d, "mfaVerify", "update")) => k \in raced'
    BY <1>1, <1>2, <1>4, <2>1 DEF MfaSetupUpdate, Exists
  <2>4. RowPart'
    <3>1. CodeStands'
      BY <1>10, <2>2, <2>3 DEF CodeStands
    <3>2. EnabledWasConfirmed'
      BY <2>2, <2>3 DEF EnabledWasConfirmed
    <3>3. (Exists => row.id <= ids)'
      BY <1>2, <2>1, <2>2 DEF AccInv, RowPart, Exists
    <3> QED
      BY <1>2, <1>3, <1>11, <2>2, <3>1, <3>2, <3>3 DEF AccInv, RowPart, RegisteredOnce
  <2>5. VerifiedForCause'
    BY <1>2, <1>5, <1>6, <2>1, <2>2, VerifiedStays
  <2>6. MailPart'
    BY <1>2, <1>9, <2>5 DEF AccInv, MailPart
  <2> QED
    BY <1>2, <1>3, <1>5, <1>8, <2>4, <2>6, WriteStep
<1> QED
  BY <1>12, <1>13

LEMMA CodeKeeps == ASSUME AccInv, NEW c \in Calls, MfaVerifyFind(c) PROVE AccInv'
<1>1. /\ call[c] # NoCall /\ call[c].path = "mfaVerify" /\ call[c].at = "find"
      /\ UNCHANGED <<row, ids, registered, mailed, verifyKey, resetKey, exchange, fails, lockout,
                     drawn, begun, broken, spent, wrong, opened, raced>>
  BY DEF MfaVerifyFind, Standing, keys, bounds
<1>2. /\ call[c] \in Call /\ call[c].id \in 1 .. ids /\ "update" \in Awaits
      /\ ids \in Nat /\ drawn \in Nat /\ row \in Row \cup {NoRow}
  BY <1>1, Bounds DEF AccInv, CallPart, Holds, Awaits, RowPart, ExchangePart
<1>3. CASE Finish(c) /\ UNCHANGED confirmed
  <2>1. ~Needed(call[c])
    BY <1>1 DEF Needed, At
  <2>2. UNCHANGED <<row, ids, registered, mailed, keys, drawn, record>>
    BY <1>1, <1>3 DEF keys, record
  <2>3. broken' \in Nat /\ broken <= broken' /\ begun' \in Nat
    BY <1>1 DEF AccInv, LockPart
  <2> QED
    BY <1>3, <2>1, <2>2, <2>3, EndsQuietly
<1>4. CASE /\ IsRow(call[c].id) /\ row.secret # None
           /\ confirmed' = confirmed \cup {row.secret} /\ Advance(c, "update")
  <2>1. PICK v \in Call : /\ v = Gone(c, "update") /\ v.path = "mfaVerify" /\ v.at = "update"
                          /\ v.id = call[c].id
    BY <1>1, <1>2, GoneIs
  <2>2. Turn(c, v)
    BY <1>4, <2>1 DEF Turn, Gone, Advance
  <2>3. Holds(v)' /\ v.path = call[c].path /\ call[c].path # "login"
    BY <1>1, <1>2, <2>1 DEF Holds, At
  <2>4. row \in Row /\ row.secret \in Tokens
    BY <1>2, <1>4, Bounds, Absent DEF IsRow, Row
  <2>5. RowPart'
    BY <1>1, <1>4, <2>4
    DEF AccInv, RowPart, CodeStands, Exists, RegisteredOnce, EnabledWasConfirmed
  <2>6. ExchangePart'
    BY <1>1, <2>1, <2>2, ExchangeStays DEF At
  <2>7. MailPart'
    <3>1. /\ ~At(call[c], "register", "store") /\ ~At(call[c], "forgot", "store")
          /\ ~At(call[c], "verify", "forget")
      BY <1>1 DEF At
    <3>2. broken' \in Nat /\ broken <= broken'
      BY <1>1 DEF AccInv, LockPart
    <3> QED
      BY <1>1, <2>2, <3>1, <3>2, MailStays
  <2> QED
    BY <1>1, <1>2, <2>1, <2>2, <2>3, <2>5, <2>6, <2>7, WriteStep
<1> QED
  BY <1>3, <1>4, Zenon DEF MfaVerifyFind

LEMMA EnableKeeps == ASSUME AccInv, NEW c \in Calls, MfaVerifyUpdate(c) PROVE AccInv'
<1>1. /\ call[c] # NoCall /\ call[c].path = "mfaVerify" /\ call[c].at = "update" /\ Finish(c)
      /\ UNCHANGED <<ids, registered, mailed, verifyKey, resetKey, exchange, fails, lockout, drawn,
                     begun, broken, spent, wrong, opened, confirmed, raced>>
  BY DEF MfaVerifyUpdate, Standing, keys, bounds, record
<1>2. drawn \in Nat /\ call[c].id \in 1 .. ids /\ ids \in Nat /\ row \in Row \cup {NoRow}
  BY <1>1, Bounds DEF AccInv, CallPart, Holds, RowPart, ExchangePart
<1>3. NoCall \in Call \cup {NoCall} /\ Turn(c, NoCall)
  BY <1>1 DEF Finish, Turn
<1>4. ~At(call[c], "register", "store") /\ ~At(call[c], "forgot", "store")
      /\ ~At(call[c], "verify", "forget")
  BY <1>1 DEF At
<1>5. ExchangePart'
  BY <1>1, <1>3, Absent, ExchangeStays
<1>6. MailedTokenWorks'
  BY <1>1, <1>3, <1>4, MailedStays
<1>7. CASE ~IsRow(call[c].id)
  <2>1. row' = row
    BY <1>7 DEF MfaVerifyUpdate
  <2>2. UNCHANGED <<row, ids, registered, mailed, keys, drawn, record>>
    BY <1>1, <2>1 DEF keys, record
  <2>3. broken' \in Nat /\ broken <= broken' /\ begun' \in Nat
    BY <1>1 DEF AccInv, LockPart
  <2>4. ~Needed(call[c])
    BY <1>1 DEF Needed, At
  <2> QED
    BY <1>1, <2>2, <2>3, <2>4, EndsQuietly
<1>8. CASE IsRow(call[c].id)
  <2>1. row' = [row EXCEPT !.enabled = TRUE] /\ row \in Row /\ row # NoRow
    BY <1>2, <1>8, Bounds, Absent DEF MfaVerifyUpdate, IsRow
  <2>2. /\ row' \in Row /\ row'.id = row.id /\ row'.secret = row.secret
        /\ row'.linked = row.linked /\ row'.verified = row.verified
    BY <2>1 DEF Row
  <2>3. row.secret \in confirmed \cup raced
    BY <1>1, <1>8 DEF AccInv, RowPart, CodeStands, Standing
  <2>4. RowPart'
    <3>1. CodeStands'
      BY <1>1, <2>2, <2>3 DEF CodeStands
    <3>2. EnabledWasConfirmed'
      BY <1>1, <2>2, <2>3 DEF EnabledWasConfirmed
    <3>3. (Exists => row.id <= ids)'
      BY <1>1, <2>1, <2>2 DEF AccInv, RowPart, Exists
    <3> QED
      BY <1>1, <2>2, <3>1, <3>2, <3>3 DEF AccInv, RowPart, RegisteredOnce
  <2>5. VerifiedForCause'
    BY <1>1, <1>3, <1>4, <2>1, <2>2, VerifiedStays
  <2>6. MailPart'
    BY <1>1, <1>6, <2>5 DEF AccInv, MailPart
  <2> QED
    BY <1>1, <1>2, <1>3, <1>5, <2>4, <2>6, WriteStep
<1> QED
  BY <1>7, <1>8

LEMMA DeleteKeeps == ASSUME AccInv, Delete PROVE AccInv'
<1>1. /\ UNCHANGED <<ids, registered, mailed, verifyKey, resetKey, exchange, fails, lockout, call,
                     drawn, broken, spent, wrong, opened, confirmed, raced>>
      /\ row' = NoRow /\ begun' = begun + 1
  BY DEF Delete, keys, record
<1>2. CallPart'
  BY <1>1 DEF AccInv, CallPart, Holds, At
<1>3. RowPart'
  <2>1. \A d \in Calls : Standing(d, "mfaVerify", "update") => call[d].id # None
    BY Bounds DEF AccInv, CallPart, RowPart, Standing, Holds
  <2>2. CodeStands'
    BY <1>1, <2>1, Absent DEF CodeStands, Standing, IsRow
  <2> QED
    BY <1>1, <2>2 DEF AccInv, RowPart, Exists, RegisteredOnce, EnabledWasConfirmed
<1>4. MailPart'
  <2>1. MailedTokenWorks'
    BY <1>1 DEF AccInv, MailPart, MailedTokenWorks, Standing
  <2>2. VerifiedForCause'
    BY <1>1 DEF VerifiedForCause, Exists
  <2> QED
    BY <1>1, <2>1, <2>2 DEF AccInv, MailPart
<1>5. ExchangePart'
  BY <1>1 DEF AccInv, ExchangePart, Holding, Standing
<1>6. LockPart'
  <2>1. lockout' \in BOOLEAN
    BY <1>1, Zenon DEF AccInv, LockPart
  <2> QED
    BY <1>1, <2>1 DEF AccInv, LockPart, Standing, CounterWillExpire
<1> QED
  BY <1>2, <1>3, <1>4, <1>5, <1>6 DEF AccInv

-----------------------------------------------------------------------------
(* The theorems                                                            *)

LEMMA AccStart == AccInit => AccInv
<1> SUFFICES ASSUME AccInit PROVE AccInv
  OBVIOUS
<1>1. CallPart
  BY DEF AccInit, CallPart
<1>2. RowPart
  BY Bounds DEF AccInit, RowPart, Exists, RegisteredOnce, EnabledWasConfirmed, CodeStands, Standing
<1>3. MailPart
  BY Bounds DEF AccInit, MailPart, MailedTokenWorks, VerifiedForCause, Exists
<1>4. ExchangePart
  BY Bounds DEF AccInit, ExchangePart, Holding, Standing
<1>5. LockPart
  <2>1. lockout \in BOOLEAN
    BY Zenon DEF AccInit
  <2> QED
    BY <2>1, Bounds DEF AccInit, LockPart, NoFails, CounterWillExpire, Standing
<1> QED
  BY <1>1, <1>2, <1>3, <1>4, <1>5 DEF AccInv

LEMMA AccStep == AccInv /\ [AccNext]_accVars => AccInv'
<1> SUFFICES ASSUME AccInv, [AccNext]_accVars PROVE AccInv'
  OBVIOUS
<1>1. ASSUME NEW c \in Calls, BeginCall(c) PROVE AccInv'
  BY <1>1, BeginKeeps
<1>2. ASSUME NEW c \in Calls, AccHandler(c) PROVE AccInv'
  <2>1. CASE \/ RegisterFind(c) \/ LoginCheck(c) \/ LoginFind(c) \/ MfaLogin(c)
             \/ BookkeepingFails(c) \/ ProviderFind(c) \/ VerifyGet(c) \/ ForgotFind(c)
             \/ StoreFails(c) \/ ResetGet(c) \/ MfaSetupFind(c)
    BY <2>1, ReadsKeep
  <2>2. CASE RegisterCreate(c) \/ RegisterStore(c) \/ ProviderWrite(c) \/ CreateExchangeToken(c)
    BY <2>2, CreateKeeps, RegisterStoreKeeps, ProviderKeeps, TokenKeeps
  <2>3. CASE LoginIncr(c) \/ LoginExpire(c) \/ LoginLock(c) \/ LoginClear(c)
    BY <2>3, IncrKeeps, ExpireKeeps, LockKeeps, ClearKeeps
  <2>4. CASE Exchange(c) \/ ExchangeOpen(c) \/ VerifyUpdate(c) \/ VerifyForget(c)
    BY <2>4, ExchangeKeeps, OpenKeeps, VerifyKeeps, VerifyForgetKeeps
  <2>5. CASE ForgotMail(c) \/ ForgotStore(c) \/ ResetUpdate(c) \/ ResetForget(c)
    BY <2>5, ForgotMailKeeps, ForgotStoreKeeps, ResetKeeps, ResetForgetKeeps
  <2>6. CASE MfaSetupUpdate(c) \/ MfaVerifyFind(c) \/ MfaVerifyUpdate(c)
    BY <2>6, SetupKeeps, CodeKeeps, EnableKeeps
  <2> QED
    BY <1>2, <2>1, <2>2, <2>3, <2>4, <2>5, <2>6 DEF AccHandler
<1>3. CASE UNCHANGED accVars
  <2>1. UNCHANGED <<row, ids, registered, mailed, verifyKey, resetKey, exchange, fails, lockout, call,
                    drawn, begun, broken, spent, wrong, opened, confirmed, raced>>
    BY <1>3 DEF accVars
  <2>2. CallPart' /\ ExchangePart'
    BY <2>1 DEF AccInv, CallPart, Holds, At, ExchangePart, Holding, Standing
  <2>3. RowPart'
    BY <2>1 DEF AccInv, RowPart, Exists, RegisteredOnce, EnabledWasConfirmed, CodeStands, Standing,
                IsRow
  <2>4. MailPart'
    BY <2>1 DEF AccInv, MailPart, MailedTokenWorks, VerifiedForCause, Exists, Standing
  <2>5. LockPart'
    <3>1. lockout' \in BOOLEAN
      BY <2>1, Zenon DEF AccInv, LockPart
    <3> QED
      BY <2>1, <3>1 DEF AccInv, LockPart, Standing, CounterWillExpire
  <2> QED
    BY <2>2, <2>3, <2>4, <2>5 DEF AccInv
<1> QED
  BY <1>1, <1>2, <1>3, CounterKeeps, DeleteKeeps DEF AccNext

LEMMA AccInvariant == AccSpec => []AccInv
BY AccStart, AccStep, PTL DEF AccSpec

\* The account's row is well formed; every row had one UserRegistered event, whoever won
\* the race for the address (account.ts:145, oauth.ts:286); and a second factor that is
\* asked for was confirmed, or replaced in a race that is on record (mfa.ts:48, 61).
THEOREM AccountCorrect == AccSpec => []AccountSound
<1>1. AccInv => AccountSound
  BY AccTypes DEF AccInv, RowPart, AccountSound
<1> QED
  BY <1>1, AccInvariant, PTL

\* A mailed token works until it is used, and for its own account only; an exchange token
\* opens at most one session, however many requests present it (account.ts:328, 358, 524).
THEOREM TokensCorrect == AccSpec => []TokensHonoured
<1>1. AccInv => TokensHonoured
  BY DEF AccInv, MailPart, ExchangePart, TokensHonoured, ExchangedOnce
<1> QED
  BY <1>1, AccInvariant, PTL

\* The lockout comes after MaxAttempts wrong passwords, and always after them unless Redis
\* failed; what is counted towards it has a time to live (account.ts:81).
THEOREM LockoutCorrect == AccSpec => []LockoutHolds
<1>1. AccInv => LockoutHolds
  BY DEF AccInv, LockPart, LockoutHolds, LockedAfterAttempts
<1> QED
  BY <1>1, AccInvariant, PTL

-----------------------------------------------------------------------------
(* The contributions: the invariant                                         *)

Rec == [kind: RowKind, by: Id \cup {Null}, on: Id \cup {Null}, in: Id \cup {Null}, val: -1 .. 1]

\* An id has one kind of row for good, and what requests insert has a new one.
Work == [pc: {"idle", "insert", "vote", "delete", "role", "home"}, row: Rec, id: Id \cup {Null}]
Given == {"comment", "vote", "share", "list", "item", "scenario", "assignment", "session"}

KindsPart ==
    /\ \A i \in Id : table[i].kind # "none" =>
          /\ i \in Account => table[i].kind = "user"
          /\ i \in Lab => table[i].kind = "challenge"
          /\ i = Tenant => table[i].kind = "org"
          /\ i = Membership => table[i].kind = "member" /\ table[i].by = Someone /\ table[i].in = Tenant
          /\ i \in Extra => table[i].kind \in Given
    /\ \A i \in Id : table[i].kind = "none" => table[i].in = Null
    /\ \A i \in fresh : table[i].kind = "none"

\* A parent that was there is of the same challenge, or gone for good; a list too.
Parent(p, c) == p \in Extra \ fresh /\ (There(p) => Is(p, "comment") /\ table[p].on = c)
ListGiven(l) == l \in Extra \ fresh /\ (There(l) => Is(l, "list"))

\* What a row refers to, now or when it is written.
RowGood(r) ==
    /\ r.kind = "comment" => r.on \in Lab /\ (r.in = Null \/ Parent(r.in, r.on))
    /\ r.kind = "item" => r.on \in Lab /\ ListGiven(r.in)
    /\ r.kind = "session" => r.on \in Lab /\ r.by \in Account
    /\ r.kind = "scenario" => r.by \in Account /\ r.in = Tenant

RowsPart == \A i \in Id : RowGood(table[i]) /\ Sound(table[i])

VotePart ==
    \A i, k \in Id : Is(i, "vote") /\ Is(k, "vote") /\ table[i].by = table[k].by
                        /\ table[i].on = table[k].on => i = k

\* What a request is about to write.
JobOf(v) ==
    /\ v.pc = "insert" => /\ v.row.kind \in Given /\ RowGood(v.row)
    /\ v.pc = "vote" => v.row.kind = "vote"
    /\ v.pc = "delete" => v.row.kind = "vote" \/ v.id \in Account \cup Lab \cup {Tenant} \cup Extra
    /\ v.pc \in {"role", "home"} => v.id \in Account
    /\ v.pc = "home" => v.row.kind = "user" /\ v.row.in \in {Tenant, Null}

JobPart == \A j \in Job : JobOf(job[j])

\* Whoever is of the organization is its member, or was moved.
HomePart ==
    /\ There(Secret) /\ There(Tenant) => table[Secret].in = Tenant
    /\ \A u \in Account : table[u].in = Tenant => u \in moved \/ (u = Someone /\ There(Membership))

Types ==
    /\ table \in [Id -> Rec]
    /\ admins \subseteq Account /\ moved \subseteq Account /\ fresh \subseteq Extra
    /\ job \in [Job -> Work]
    /\ jobs \in 0 .. MaxJobs

ContributionInv == Types /\ KindsPart /\ RowsPart /\ VotePart /\ JobPart /\ HomePart

-----------------------------------------------------------------------------
(* Rows and what goes with them                                             *)

\* The ids are of different rows, and none of them is null.
LEMMA IdsDiffer ==
    /\ Null \notin Id /\ Account \subseteq Id /\ Lab \subseteq Id /\ Extra \subseteq Id
    /\ Tenant \in Id /\ Membership \in Id /\ Admin \in Account /\ Someone \in Account /\ Secret \in Lab
    /\ Tenant \notin Account \cup Lab \cup Extra \cup {Membership}
    /\ Membership \notin Account \cup Lab \cup Extra \cup {Tenant}
    /\ Account \cap (Lab \cup Extra) = {} /\ Lab \cap Extra = {}
    /\ Id = Account \cup Lab \cup {Tenant, Membership} \cup Extra
    /\ Admin # Someone /\ Secret # Public
BY ContributionAssumption DEF Id, Account, Lab

\* What the schema says of the kinds.
LEMMA Policies ==
    /\ \A k \in {"user", "challenge"} : OnDelete[k] = [by |-> "-", on |-> "-", in |-> "SetNull"]
    /\ \A k \in {"none", "org"} : OnDelete[k] = [by |-> "-", on |-> "-", in |-> "-"]
    /\ OnDelete["member"]     = [by |-> "Cascade", on |-> "-", in |-> "Cascade"]
    /\ OnDelete["scenario"]   = [by |-> "Restrict", on |-> "-", in |-> "Cascade"]
    /\ OnDelete["assignment"] = [by |-> "-", on |-> "-", in |-> "Cascade"]
    /\ OnDelete["comment"]    = [by |-> "Cascade", on |-> "Cascade", in |-> "Cascade"]
    /\ OnDelete["vote"]       = [by |-> "Cascade", on |-> "Cascade", in |-> "-"]
    /\ OnDelete["share"]      = [by |-> "Cascade", on |-> "SetNull", in |-> "-"]
    /\ OnDelete["list"]       = [by |-> "Cascade", on |-> "-", in |-> "-"]
    /\ OnDelete["item"]       = [by |-> "-", on |-> "Cascade", in |-> "Cascade"]
    /\ OnDelete["session"]    = [by |-> "Cascade", on |-> "Restrict", in |-> "-"]
<1>1. \A k \in RowKind : k \in RefKind \cup {"none", "org"}
  BY DEF RowKind
<1>. QED BY <1>1 DEF OnDelete, RowKind, RefKind

\* A foreign key has a policy of deletion, or there is no such key.
LEMMA PolicyOf ==
    ASSUME NEW k \in RowKind, NEW f \in Field
    PROVE  OnDelete[k][f] \in {"-", "SetNull", "Cascade", "Restrict"}
BY Policies DEF RowKind, RefKind, Field

\* A row goes with every row it refers to by a cascading reference; and the membership goes
\* only with its user or its organization.
LEMMA CascadeIs ==
    ASSUME table \in [Id -> Rec], KindsPart, NEW id \in Id
    PROVE  /\ Cascade(id) \subseteq Id /\ id \in Cascade(id)
           /\ References("Cascade", Cascade(id)) \subseteq Cascade(id)
           /\ Membership \in Cascade(id) /\ id # Membership /\ There(Membership)
                => Someone \in Cascade(id) \/ Tenant \in Cascade(id)
<1>. DEFINE sets   == {{id} \cup S : S \in SUBSET (Extra \cup {Membership})}
            closed == {S \in sets : References("Cascade", S) \subseteq S}
            G == Cascade(id)
<1>1. G = {i \in Id : \A S \in closed : i \in S}
  BY DEF Cascade
<1>2. \A S \in closed : id \in S /\ References("Cascade", S) \subseteq S
  OBVIOUS
<1>3. \A S, R : S \subseteq R => References("Cascade", S) \subseteq References("Cascade", R)
  BY DEF References
<1>. HIDE DEF closed, G
<1>4. G \subseteq Id /\ id \in G /\ \A S \in closed : G \subseteq S
  BY <1>1, <1>2
<1>5. \A S \in closed : References("Cascade", G) \subseteq S
  BY <1>2, <1>3, <1>4
<1>6. References("Cascade", G) \subseteq Id
  BY DEF References
<1>7. References("Cascade", G) \subseteq G
  BY <1>1, <1>5, <1>6
<1>8. ASSUME Membership \in G, id # Membership, There(Membership), Someone \notin G, Tenant \notin G
      PROVE  FALSE
  <2>. DEFINE H == G \ {Membership}
              every == {id} \cup (Extra \cup {Membership})
  <2>1. References("Cascade", every) \subseteq every
    <3>. SUFFICES ASSUME NEW i \in References("Cascade", every) PROVE i \in every
      OBVIOUS
    <3>1. i \in Id /\ \E f \in Field : OnDelete[table[i].kind][f] = "Cascade"
      BY DEF References
    <3>2. table[i].kind \notin {"user", "challenge", "org", "none"}
      BY <3>1, Policies DEF Field
    <3>3. i \notin Account /\ i \notin Lab /\ i # Tenant
      BY <3>1, <3>2 DEF KindsPart
    <3>. QED BY <3>1, <3>3, IdsDiffer
  <2>2. every \in closed
    BY <2>1 DEF closed
  <2>3. H \in sets
    <3>1. H \subseteq every /\ id \in H
      BY <1>4, <1>8, <2>2
    <3>2. H = {id} \cup (H \cap (Extra \cup {Membership}))
      BY <3>1
    <3>. QED BY <3>2
  <2>4. Membership \notin References("Cascade", H)
    <3>1. table[Membership].kind = "member" /\ table[Membership].by = Someone /\ table[Membership].in = Tenant
      BY <1>8, IdsDiffer DEF KindsPart, There
    <3>2. OnDelete["member"].on = "-"
      BY Policies
    <3>3. \A f \in Field : OnDelete["member"][f] = "Cascade" => table[Membership][f] \notin H
      BY <1>8, <3>1, <3>2 DEF Field
    <3>. QED BY <3>1, <3>3 DEF References
  <2>5. References("Cascade", H) \subseteq H
    BY <1>3, <1>7, <2>4
  <2>6. H \in closed
    BY <2>3, <2>5 DEF closed
  <2>. QED BY <1>4, <1>8, <2>6
<1>. QED BY <1>4, <1>7, <1>8 DEF G

-----------------------------------------------------------------------------
(* What a step leaves as it was                                             *)

\* Rows that were there are gone for good, or of the same kind; a comment keeps its challenge.
Later ==
    /\ fresh' \subseteq fresh
    /\ \A p \in Extra \ fresh :
          There(p)' => /\ There(p) /\ table'[p].kind = table[p].kind
                       /\ Is(p, "comment") => table'[p].on = table[p].on

\* So that a row that was good to write still is.
LEMMA GoodStays ==
    ASSUME Later, NEW r, RowGood(r)
    PROVE  RowGood(r)'
<1>1. \A p \in Extra \ fresh : p \in Extra \ fresh'
  BY DEF Later
<1>2. \A p, c : Parent(p, c) => Parent(p, c)'
  BY <1>1 DEF Later, Parent, There, Is
<1>3. \A p : ListGiven(p) => ListGiven(p)'
  BY <1>1 DEF Later, ListGiven, There, Is
<1>. QED BY <1>2, <1>3 DEF RowGood

\* And what requests are about to write.
LEMMA JobsStay ==
    ASSUME Later, JobPart, job \in [Job -> Work], NEW j \in Job, NEW v \in Work,
           JobOf(v)', job' = [job EXCEPT ![j] = v]
    PROVE  job' \in [Job -> Work] /\ JobPart'
<1>1. job' \in [Job -> Work] /\ job'[j] = v /\ \A k \in Job \ {j} : job'[k] = job[k]
  OBVIOUS
<1>2. ASSUME NEW k \in Job \ {j} PROVE JobOf(job[k])'
  <2>1. PICK w : w = job[k]
    OBVIOUS
  <2>2. JobOf(w)
    BY <2>1 DEF JobPart
  <2>3. JobOf(w)'
    BY <2>2, GoodStays DEF JobOf
  <2>. QED BY <1>1, <2>1, <2>3 DEF JobOf
<1>. QED BY <1>1, <1>2 DEF JobPart, JobOf

TableHolds == /\ table \in [Id -> Rec] /\ fresh \subseteq Extra
              /\ KindsPart /\ RowsPart /\ VotePart /\ HomePart

\* Null is no id.
LEMMA NoRecordIs ==
    /\ NoRecord \in Rec /\ NoRecord.kind = "none"
    /\ NoRecord.by = Null /\ NoRecord.on = Null /\ NoRecord.in = Null
<1>1. "none" \in RowKind /\ 0 \in -1 .. 1
  BY DEF RowKind
<1>. QED BY <1>1 DEF NoRecord, Record, Rec

\* What is left of a row.
LEMMA LeftIs ==
    ASSUME NEW r \in Rec, NEW gone \in SUBSET Id
    PROVE  /\ Left(r, gone) \in Rec /\ Left(r, gone).kind = r.kind
           /\ \A f \in Field :
                 Left(r, gone)[f] = IF OnDelete[r.kind][f] = "SetNull" /\ r[f] \in gone THEN Null ELSE r[f]
<1>. DEFINE kept(f) == IF OnDelete[r.kind][f] = "SetNull" /\ r[f] \in gone THEN Null ELSE r[f]
<1>1. \A f \in Field : kept(f) \in Id \cup {Null}
  BY DEF Rec, Field
<1>2. Left(r, gone) = [kind |-> r.kind, by |-> kept("by"), on |-> kept("on"), in |-> kept("in"), val |-> r.val]
  BY DEF Left, Record
<1>. HIDE DEF kept
<1>3. /\ Left(r, gone) \in Rec /\ Left(r, gone).kind = r.kind
      /\ \A f \in Field : Left(r, gone)[f] = kept(f)
  BY <1>1, <1>2 DEF Rec, Field
<1>. QED BY <1>3 DEF kept

\* The deletion of any row but the membership, with all that goes with it.
LEMMA RemoveKeeps ==
    ASSUME TableHolds, NEW id \in Id \ {Membership}, Remove(id), UNCHANGED <<fresh, moved>>
    PROVE  TableHolds' /\ Later
<1>. DEFINE gone == Cascade(id)
<1>1. /\ table \in [Id -> Rec] /\ gone \in SUBSET Id /\ References("Cascade", gone) \subseteq gone
      /\ Membership \in gone /\ There(Membership) => Someone \in gone \/ Tenant \in gone
  BY CascadeIs DEF TableHolds
<1>2. CASE table' = table
  BY <1>2 DEF TableHolds, Later, KindsPart, RowsPart, VotePart, HomePart, RowGood, Sound, Parent,
              ListGiven, There, Is
<1>3. CASE /\ References("Restrict", gone) \subseteq gone
           /\ table' = [i \in Id |-> IF i \in gone THEN NoRecord ELSE Left(table[i], gone)]
  <2>. HIDE DEF gone
  <2>1. /\ table' \in [Id -> Rec]
        /\ \A i \in gone : table'[i] = NoRecord
        /\ \A i \in Id \ gone : table'[i] = Left(table[i], gone)
    BY <1>1, <1>3, NoRecordIs, LeftIs
  <2>2. \A i \in Id \ gone : /\ table'[i].kind = table[i].kind
                             /\ \A f \in Field : table'[i][f] =
                                   IF OnDelete[table[i].kind][f] = "SetNull" /\ table[i][f] \in gone
                                   THEN Null ELSE table[i][f]
    BY <1>1, <2>1, LeftIs
  \* A reference that remains is to a row that remains, or was set to null.
  <2>3. ASSUME NEW i \in Id \ gone, NEW f \in Field, OnDelete[table[i].kind][f] # "-"
        PROVE  table'[i][f] \notin gone
    <3>1. table[i].kind \in RowKind
      BY <1>1 DEF Rec
    <3>2. OnDelete[table[i].kind][f] \in {"SetNull", "Cascade", "Restrict"}
      BY <2>3, <3>1, PolicyOf
    <3>3. Null \notin gone
      BY <1>1, IdsDiffer
    <3>. QED BY <1>1, <1>3, <2>2, <3>2, <3>3 DEF References
  <2>4. \A i \in Id : table'[i].kind # "none" => i \notin gone /\ table[i].kind # "none"
    BY <2>1, <2>2, NoRecordIs
  <2>5. \A i \in Id \ gone : table[i].kind \in {"comment", "item", "session", "scenario", "vote", "member"} =>
           /\ table'[i].on = table[i].on /\ table'[i].by = table[i].by
           /\ table'[i].in = table[i].in
    BY <2>2, Policies DEF Field
  <2>6. Later
    BY <2>2, <2>4, <2>5, IdsDiffer DEF Later, There, Is
  <2>7. KindsPart'
    <3>1. ASSUME NEW i \in Id, table'[i].kind = "none" PROVE table'[i].in = Null
      <4>1. CASE i \in gone
        BY <2>1, <4>1, NoRecordIs
      <4>2. CASE i \notin gone
        <5>1. table[i].kind = "none"
          BY <2>2, <3>1, <4>2
        <5>2. table[i].in = Null
          BY <5>1 DEF TableHolds, KindsPart
        <5>. QED BY <2>2, <4>2, <5>2 DEF Field
      <4>. QED BY <4>1, <4>2
    <3>2. ASSUME NEW i \in Id, table'[i].kind # "none"
          PROVE  /\ table'[i].kind = table[i].kind /\ table[i].kind # "none"
                 /\ table[i].kind = "member" => table'[i].by = table[i].by /\ table'[i].in = table[i].in
      BY <2>2, <2>4, <2>5, <3>2
    <3>3. \A i \in fresh : table'[i].kind = "none"
      BY <2>4, IdsDiffer DEF TableHolds, KindsPart
    <3>. QED BY <3>1, <3>2, <3>3, IdsDiffer DEF TableHolds, KindsPart
  <2>8. RowsPart'
    <3>. SUFFICES ASSUME NEW i \in Id PROVE RowGood(table[i])' /\ Sound(table[i])'
      BY DEF RowsPart
    <3>1. RowGood(table[i]) /\ Sound(table[i])
      BY DEF TableHolds, RowsPart
    <3>2. CASE i \in gone
      <4>1. table'[i].kind = "none" /\ \A f \in Field : OnDelete["none"][f] = "-"
        BY <2>1, <3>2, NoRecordIs, Policies DEF Field
      <4>. QED BY <4>1 DEF RowGood, Sound
    <3>3. CASE i \notin gone
      <4>1. PICK r : r = table[i]
        OBVIOUS
      <4>2. RowGood(r)'
        BY <2>6, <3>1, <4>1, GoodStays
      <4>3. RowGood(table[i])'
        <5>1. table'[i].kind = r.kind
          BY <2>2, <3>3, <4>1
        <5>2. r.kind \in {"comment", "item", "session", "scenario"} =>
                 table'[i].on = r.on /\ table'[i].by = r.by /\ table'[i].in = r.in
          BY <2>5, <3>3, <4>1
        <5>. QED BY <4>2, <5>1, <5>2 DEF RowGood
      <4>4. ASSUME NEW f \in Field, table'[i][f] # Null, OnDelete[table[i].kind][f] # "-"
            PROVE  table'[table'[i][f]].kind # "none"
        <5>1. PICK p : p = table[i][f]
          OBVIOUS
        <5>2. table'[i][f] = p /\ p \in Id \ gone
          <6>1. table'[i][f] = p
            BY <2>2, <3>3, <4>4, <5>1
          <6>2. p \in Id \cup {Null}
            BY <1>1, <5>1 DEF Rec, Field
          <6>. QED BY <2>3, <3>3, <4>4, <6>1, <6>2
        <5>3. table[p].kind # "none"
          BY <3>1, <4>4, <5>1, <5>2 DEF Sound, There
        <5>. QED BY <2>2, <5>2, <5>3
      <4>5. table'[i].kind = table[i].kind
        BY <2>2, <3>3
      <4>. QED BY <4>3, <4>4, <4>5 DEF Sound, There
    <3>. QED BY <3>2, <3>3
  <2>9. VotePart'
    BY <2>2, <2>4, <2>5 DEF TableHolds, VotePart, Is
  <2>10. HomePart'
    <3>1. There(Secret)' /\ There(Tenant)' => table'[Secret].in = Tenant
      <4>. SUFFICES ASSUME There(Secret)', There(Tenant)' PROVE table'[Secret].in = Tenant
        OBVIOUS
      <4>1. Secret \notin gone /\ Tenant \notin gone /\ There(Secret) /\ There(Tenant)
        BY <2>4, IdsDiffer DEF There
      <4>. QED BY <2>2, <4>1, IdsDiffer DEF TableHolds, HomePart, Field
    <3>2. ASSUME NEW u \in Account, table'[u].in = Tenant, u \notin moved
          PROVE  u = Someone /\ There(Membership)'
      <4>1. u \notin gone
        BY <2>1, <3>2, IdsDiffer, NoRecordIs
      <4>2. table[u].in = Tenant
        BY <2>2, <3>2, <4>1, IdsDiffer DEF Field
      <4>3. u = Someone /\ There(Membership)
        BY <3>2, <4>2 DEF TableHolds, HomePart
      <4>4. Tenant \notin gone
        <5>1. table[u].kind \in {"user", "none"}
          BY IdsDiffer DEF TableHolds, KindsPart
        <5>2. CASE table[u].kind = "user"
          <6>1. OnDelete[table[u].kind]["in"] # "-" /\ "in" \in Field
            BY <5>2, Policies DEF Field
          <6>. QED BY <2>3, <3>2, <4>1, <6>1, IdsDiffer
        <5>3. CASE table[u].kind = "none"
          BY <4>2, <5>3, IdsDiffer DEF TableHolds, KindsPart
        <5>. QED BY <5>1, <5>2, <5>3
      <4>5. Membership \notin gone
        BY <1>1, <4>1, <4>3, <4>4
      <4>. QED BY <2>2, <4>3, <4>5, IdsDiffer DEF There
    <3>. QED BY <3>1, <3>2 DEF HomePart
  <2>. QED BY <2>1, <2>6, <2>7, <2>8, <2>9, <2>10 DEF TableHolds
<1>. QED BY <1>2, <1>3 DEF Remove

-----------------------------------------------------------------------------
(* The requests                                                             *)

\* A row with an id of its own.
LEMMA InsertKeeps ==
    ASSUME TableHolds, NEW r \in Rec, r.kind \in Given, RowGood(r), Insert(r), UNCHANGED moved
    PROVE  TableHolds' /\ Later
<1>1. CASE UNCHANGED <<table, fresh>>
  BY <1>1 DEF TableHolds, Later, KindsPart, RowsPart, VotePart, HomePart, RowGood, Sound, Parent,
              ListGiven, There, Is
<1>2. CASE Sound(r) /\ Unique(r) /\ \E i \in fresh : table' = [table EXCEPT ![i] = r] /\ fresh' = fresh \ {i}
  <2>1. PICK i \in fresh : table' = [table EXCEPT ![i] = r] /\ fresh' = fresh \ {i}
    BY <1>2
  <2>2. i \in Extra /\ i \in Id /\ table[i].kind = "none"
    BY IdsDiffer DEF TableHolds, KindsPart
  <2>3. table' \in [Id -> Rec] /\ table'[i] = r /\ \A k \in Id \ {i} : table'[k] = table[k]
    BY <2>1, <2>2 DEF TableHolds
  <2>4. Later
    BY <2>1, <2>2, <2>3, IdsDiffer DEF Later, There, Is
  <2>5. KindsPart'
    <3>1. /\ i \notin Account /\ i \notin Lab /\ i # Tenant /\ i # Membership
          /\ r.kind # "none"
      BY <2>2, IdsDiffer DEF Given
    <3>2. \A k \in fresh' : k \in Id \ {i} /\ k \in fresh
      BY <2>1, IdsDiffer DEF TableHolds
    <3>. QED BY <2>3, <3>1, <3>2 DEF TableHolds, KindsPart
  <2>6. ASSUME NEW k \in Id, There(k) PROVE There(k)' /\ k # i
    BY <2>2, <2>3, <2>6 DEF There
  <2>7. \A x \in Rec : Sound(x) => Sound(x)'
    <3>. SUFFICES ASSUME NEW x \in Rec, Sound(x), NEW f \in Field, x[f] # Null, OnDelete[x.kind][f] # "-"
                  PROVE  There(x[f])'
      BY DEF Sound
    <3>1. PICK p : p = x[f]
      OBVIOUS
    <3>2. p \in Id /\ There(p)
      BY <3>1 DEF Sound, Rec, Field
    <3>3. There(p)'
      BY <2>6, <3>2
    <3>. QED BY <3>1, <3>3
  <2>8. RowsPart'
    <3>. SUFFICES ASSUME NEW k \in Id PROVE RowGood(table[k])' /\ Sound(table[k])'
      BY DEF RowsPart
    <3>1. PICK x \in Rec : x = table'[k]
      BY <2>3
    <3>2. RowGood(x) /\ Sound(x)
      BY <1>2, <2>3, <3>1 DEF TableHolds, RowsPart
    <3>3. RowGood(x)' /\ Sound(x)'
      BY <2>4, <2>7, <3>2, GoodStays
    <3>. QED BY <3>1, <3>3 DEF RowGood, Sound
  <2>9. VotePart'
    <3>. SUFFICES ASSUME NEW k, NEW l, k \in Id, l \in Id, table'[k].kind = "vote", table'[l].kind = "vote",
                         table'[k].by = table'[l].by, table'[k].on = table'[l].on, k # l
                  PROVE  FALSE
      BY DEF VotePart, Is
    <3>1. \A x : x.kind = "vote" => UniqueKey(x) = <<x.kind, x.by, x.on>>
      BY DEF UniqueKey
    <3>2. k = i \/ l = i
      BY <2>3, IdsDiffer DEF TableHolds, VotePart, Is
    <3>3. PICK m \in {k, l} : m # i
      BY <3>2
    <3>4. /\ table[m].kind = "vote" /\ r.kind = "vote" /\ table[m].by = r.by /\ table[m].on = r.on /\ m \in Id
      BY <2>3, <3>2, <3>3
    <3>5. UniqueKey(table[m]) = UniqueKey(r)
      BY <3>1, <3>4
    <3>6. UniqueKey(r) # <<"not unique">>
      <4>1. UniqueKey(r) = <<r.kind, r.by, r.on>>
        BY <3>1, <3>4
      <4>2. UniqueKey(r)[1] = "vote"
        BY <3>4, <4>1
      <4>3. <<"not unique">>[1] = "not unique"
        OBVIOUS
      <4>. QED BY <4>2, <4>3
    <3>. QED BY <1>2, <3>4, <3>5, <3>6 DEF Unique
  <2>10. HomePart'
    BY <2>2, <2>3, <2>6, IdsDiffer DEF TableHolds, HomePart, There
  <2>. QED BY <2>1, <2>3, <2>4, <2>5, <2>8, <2>9, <2>10 DEF TableHolds
<1>. QED BY <1>1, <1>2 DEF Insert

\* What holds of the rows holds as long as none is written.
LEMMA SameTable ==
    ASSUME TableHolds, UNCHANGED <<table, fresh, moved>>
    PROVE  TableHolds' /\ Later
BY DEF TableHolds, Later, KindsPart, RowsPart, VotePart, HomePart, RowGood, Sound, Parent, ListGiven, There, Is

\* A request in progress has looked up what it writes.
LEMMA AcceptsKeeps ==
    ASSUME ContributionInv, NEW j \in Job, NEW v \in Work, JobOf(v), Accepts(j, v)
    PROVE  ContributionInv'
<1>1. job' = [job EXCEPT ![j] = v] /\ UNCHANGED <<table, admins, moved, fresh>> /\ jobs < MaxJobs /\ jobs' = jobs + 1
  BY DEF Accepts
<1>2. TableHolds
  BY DEF ContributionInv, Types, TableHolds
<1>3. TableHolds' /\ Later
  BY <1>1, <1>2, SameTable
<1>4. JobOf(v)'
  BY <1>3, GoodStays DEF JobOf
<1>5. job' \in [Job -> Work] /\ JobPart'
  BY <1>1, <1>3, <1>4, JobsStay DEF ContributionInv, Types
<1>6. jobs' \in 0 .. MaxJobs
  BY <1>1, ContributionAssumption DEF ContributionInv, Types
<1>. QED BY <1>1, <1>3, <1>5, <1>6 DEF ContributionInv, Types, TableHolds

\* A request that is answered.
LEMMA AnswersKeeps ==
    ASSUME ContributionInv, NEW j \in Job, Answers(j), TableHolds', Later, UNCHANGED jobs,
           admins' \subseteq Account, moved' \subseteq Account
    PROVE  ContributionInv'
<1>1. NoJob \in Work /\ NoJob.pc = "idle"
  BY NoRecordIs DEF NoJob, Work
<1>2. JobOf(NoJob)'
  BY <1>1 DEF JobOf
<1>3. job' \in [Job -> Work] /\ JobPart'
  BY <1>1, <1>2, JobsStay DEF ContributionInv, Types, Answers
<1>. QED BY <1>3 DEF ContributionInv, Types, TableHolds

\* The looking up: what each route finds is good to write.
LEMMA RequestKeeps ==
    ASSUME ContributionInv, NEW j \in Job,
           \/ \E u \in Account : Administers(j, u) \/ \E i \in Extra : DeleteOwn(j, u, i)
           \/ \E u \in Writer :
                \/ \E c \in Lab : \E p \in Extra \cup {Null} : PostComment(j, u, c, p)
                \/ \E p \in Extra, val \in -1 .. 1 : Vote(j, u, p, val)
                \/ \E c \in Lab : Share(j, u, c) \/ StartLab(j, u, c)
                \/ CreateList(j, u)
                \/ \E l \in Extra, c \in Lab : AddChallenge(j, u, l, c)
                \/ OrgWrites(j, u)
    PROVE  ContributionInv'
<1>1. /\ NoRecord \in Rec /\ NoJob.pc = "idle" /\ NoJob \in Work
  BY NoRecordIs DEF NoJob, Work
<1>3. \A r \in Rec : r.kind \in Given /\ RowGood(r) => Inserts(r) \in Work /\ JobOf(Inserts(r))
  BY <1>1 DEF Inserts, NoJob, Work, JobOf
<1>4. \A i \in Id : i # Membership => Deletes(i) \in Work /\ JobOf(Deletes(i))
  BY <1>1, IdsDiffer DEF Deletes, NoJob, Work, JobOf
<1>5. /\ \A k \in {"comment", "vote", "share", "list", "item", "session", "scenario", "assignment"} :
            k \in RowKind /\ k \in Given
      /\ "user" \in RowKind /\ 0 \in -1 .. 1 /\ Null \in Id \cup {Null}
      /\ Writer \subseteq Account /\ \A i \in Account \cup Lab \cup Extra \cup {Tenant} : i \in Id \cup {Null}
  BY ContributionAssumption, IdsDiffer DEF RowKind, RefKind, Given
<1>6. ASSUME NEW r \in Rec, r.kind \in Given, RowGood(r), Accepts(j, Inserts(r)) PROVE ContributionInv'
  BY <1>3, <1>6, AcceptsKeeps
<1>7. ASSUME NEW i \in Id, i # Membership, Accepts(j, Deletes(i)) PROVE ContributionInv'
  BY <1>4, <1>7, AcceptsKeeps
<1>8. \A i \in Extra : table[i].kind # "none" => i \notin fresh
  BY DEF ContributionInv, KindsPart
<1>9. ASSUME NEW u \in Account, Administers(j, u) PROVE ContributionInv'
  <2>1. CASE \E i \in Account \cup Lab \cup {Tenant} : Accepts(j, Deletes(i))
    BY <1>7, <2>1, IdsDiffer
  <2>2. ASSUME NEW v \in Account, Accepts(j, [NoJob EXCEPT !.pc = "role", !.id = v]) PROVE ContributionInv'
    <3>1. [NoJob EXCEPT !.pc = "role", !.id = v] \in Work /\ JobOf([NoJob EXCEPT !.pc = "role", !.id = v])
      BY <1>1, <1>5 DEF NoJob, Work, JobOf
    <3>. QED BY <2>2, <3>1, AcceptsKeeps
  <2>3. ASSUME NEW v \in Account, NEW o \in {Tenant, Null},
               Accepts(j, [NoJob EXCEPT !.pc = "home", !.id = v, !.row = Record("user", Null, Null, o, 0)])
        PROVE  ContributionInv'
    <3>. DEFINE r == Record("user", Null, Null, o, 0)
                w == [NoJob EXCEPT !.pc = "home", !.id = v, !.row = r]
    <3>1. r \in Rec /\ r.kind = "user" /\ r.in = o
      BY <1>5 DEF Record, Rec
    <3>. HIDE DEF r
    <3>2. w \in Work /\ w.pc = "home" /\ w.id = v /\ w.row = r
      BY <1>1, <1>5, <3>1 DEF NoJob, Work
    <3>. HIDE DEF w
    <3>3. JobOf(w)
      BY <3>1, <3>2 DEF JobOf
    <3>. QED BY <2>3, <3>2, <3>3, AcceptsKeeps DEF w, r
  <2>. QED BY <1>9, <2>1, <2>2, <2>3 DEF Administers
<1>10. ASSUME NEW u \in Account, NEW i \in Extra, DeleteOwn(j, u, i) PROVE ContributionInv'
  BY <1>7, <1>10, IdsDiffer DEF DeleteOwn
<1>11. ASSUME NEW u \in Writer, NEW c \in Lab, NEW p \in Extra \cup {Null}, PostComment(j, u, c, p)
       PROVE  ContributionInv'
  <2>. DEFINE r == Record("comment", u, c, p, 0)
  <2>1. r \in Rec /\ r.kind = "comment" /\ r.on = c /\ r.in = p
    BY <1>5 DEF Record, Rec
  <2>2. Accepts(j, Inserts(r)) /\ (p = Null \/ (Is(p, "comment") /\ table[p].on = c))
    BY <1>11 DEF PostComment
  <2>. HIDE DEF r
  <2>3. RowGood(r)
    BY <1>8, <1>11, <2>1, <2>2 DEF RowGood, Parent, Is
  <2>. QED BY <1>5, <1>6, <2>1, <2>2, <2>3
<1>12. ASSUME NEW u \in Writer, NEW p \in Extra, NEW val \in -1 .. 1, Vote(j, u, p, val)
       PROVE  ContributionInv'
  <2>. DEFINE r == Record("vote", u, p, Null, val)
  <2>1. r \in Rec /\ r.kind = "vote"
    BY <1>5 DEF Record, Rec
  <2>2. \/ Accepts(j, Inserts(r))
        \/ \E i \in VoteOf(u, p) : Accepts(j, [Deletes(i) EXCEPT !.row = r])
        \/ Accepts(j, [NoJob EXCEPT !.pc = "vote", !.row = r])
    BY <1>12 DEF Vote
  <2>. HIDE DEF r
  <2>3. RowGood(r)
    BY <2>1 DEF RowGood
  <2>4. ASSUME NEW i \in VoteOf(u, p), Accepts(j, [Deletes(i) EXCEPT !.row = r]) PROVE ContributionInv'
    <3>1. [Deletes(i) EXCEPT !.row = r] \in Work /\ JobOf([Deletes(i) EXCEPT !.row = r])
      BY <1>1, <2>1 DEF Deletes, NoJob, Work, JobOf, VoteOf
    <3>. QED BY <2>4, <3>1, AcceptsKeeps
  <2>5. CASE Accepts(j, [NoJob EXCEPT !.pc = "vote", !.row = r])
    <3>1. [NoJob EXCEPT !.pc = "vote", !.row = r] \in Work /\ JobOf([NoJob EXCEPT !.pc = "vote", !.row = r])
      BY <1>1, <2>1 DEF NoJob, Work, JobOf
    <3>. QED BY <2>5, <3>1, AcceptsKeeps
  <2>. QED BY <1>5, <1>6, <2>1, <2>2, <2>3, <2>4, <2>5
<1>13. ASSUME NEW u \in Writer, NEW c \in Lab, Share(j, u, c) \/ StartLab(j, u, c) PROVE ContributionInv'
  <2>. DEFINE r == Record("share", u, c, Null, 0)
              s == Record("session", u, c, Null, 0)
  <2>1. r \in Rec /\ r.kind = "share" /\ s \in Rec /\ s.kind = "session" /\ s.on = c /\ s.by = u
    BY <1>5 DEF Record, Rec
  <2>2. Accepts(j, Inserts(r)) \/ Accepts(j, Inserts(s))
    BY <1>13 DEF Share, StartLab
  <2>. HIDE DEF r, s
  <2>3. RowGood(r) /\ RowGood(s)
    BY <1>5, <2>1 DEF RowGood
  <2>. QED BY <1>5, <1>6, <2>1, <2>2, <2>3
<1>14. ASSUME NEW u \in Writer, CreateList(j, u) PROVE ContributionInv'
  <2>. DEFINE r == Record("list", u, Null, Null, 0)
  <2>1. r \in Rec /\ r.kind = "list"
    BY <1>5 DEF Record, Rec
  <2>2. Accepts(j, Inserts(r))
    BY <1>14 DEF CreateList
  <2>. HIDE DEF r
  <2>3. RowGood(r)
    BY <2>1 DEF RowGood
  <2>. QED BY <1>5, <1>6, <2>1, <2>2, <2>3
<1>15. ASSUME NEW u \in Writer, NEW l \in Extra, NEW c \in Lab, AddChallenge(j, u, l, c) PROVE ContributionInv'
  <2>. DEFINE r == Record("item", Null, c, l, 0)
  <2>1. r \in Rec /\ r.kind = "item" /\ r.on = c /\ r.in = l
    BY <1>5 DEF Record, Rec
  <2>2. Accepts(j, Inserts(r)) /\ Is(l, "list")
    BY <1>15 DEF AddChallenge
  <2>. HIDE DEF r
  <2>3. RowGood(r)
    BY <1>8, <2>1, <2>2 DEF RowGood, ListGiven, Is
  <2>. QED BY <1>5, <1>6, <2>1, <2>2, <2>3
<1>16. ASSUME NEW u \in Writer, OrgWrites(j, u) PROVE ContributionInv'
  <2>. DEFINE r == Record("scenario", u, Null, Tenant, 0)
              s(v) == Record("assignment", v, Null, Tenant, 0)
  <2>1. r \in Rec /\ r.kind = "scenario" /\ r.by = u /\ r.in = Tenant
        /\ \A v \in Account : s(v) \in Rec /\ s(v).kind = "assignment"
    BY <1>5 DEF Record, Rec
  <2>2. Accepts(j, Inserts(r)) \/ \E v \in Account : Accepts(j, Inserts(s(v)))
    BY <1>16 DEF OrgWrites
  <2>. HIDE DEF r, s
  <2>3. RowGood(r) /\ \A v \in Account : RowGood(s(v))
    BY <1>5, <2>1 DEF RowGood
  <2>. QED BY <1>5, <1>6, <2>1, <2>2, <2>3
<1>. QED BY <1>9, <1>10, <1>11, <1>12, <1>13, <1>14, <1>15, <1>16

\* The votes of one user on one comment are one row, which changes its value.
LEMMA VoteKeeps ==
    ASSUME TableHolds, NEW r \in Rec, r.kind = "vote", UNCHANGED <<fresh, moved>>,
           table' = [i \in Id |-> IF i \in VoteOf(r.by, r.on) THEN r ELSE table[i]]
    PROVE  TableHolds' /\ Later
<1>1. \A i \in VoteOf(r.by, r.on) : /\ i \in Id /\ table[i].kind = "vote"
                                    /\ table[i].by = r.by /\ table[i].on = r.on
  BY DEF VoteOf, Is
<1>2. /\ table' \in [Id -> Rec] /\ \A i \in Id : table'[i].kind = table[i].kind
      /\ \A i \in Id : table'[i] = table[i] \/ (table'[i] = r /\ i \in VoteOf(r.by, r.on))
  BY <1>1 DEF TableHolds
<1>3. \A i \in Id : /\ table'[i].by = table[i].by /\ table'[i].on = table[i].on
                    /\ table[i].kind # "vote" => table'[i] = table[i]
  BY <1>1, <1>2
<1>4. Later
  BY <1>2, <1>3, IdsDiffer DEF Later, There, Is
<1>5. KindsPart'
  BY <1>2, <1>3, IdsDiffer DEF TableHolds, KindsPart
<1>6. RowsPart'
  <2>. SUFFICES ASSUME NEW i \in Id PROVE RowGood(table[i])' /\ Sound(table[i])'
    BY DEF RowsPart
  <2>1. RowGood(table[i])'
    <3>1. PICK x : x = table'[i]
      OBVIOUS
    <3>2. RowGood(x)
      BY <1>2, <3>1 DEF TableHolds, RowsPart, RowGood
    <3>3. RowGood(x)'
      BY <1>4, <3>2, GoodStays
    <3>. QED BY <3>1, <3>3 DEF RowGood
  <2>2. ASSUME NEW f \in Field, table'[i][f] # Null, OnDelete[table'[i].kind][f] # "-"
        PROVE  table'[table'[i][f]].kind # "none"
    <3>1. PICK p : p = table[i][f]
      OBVIOUS
    <3>2. table'[i][f] = p
      <4>1. CASE table[i].kind = "vote"
        BY <1>2, <1>3, <2>2, <3>1, <4>1, Policies DEF Field
      <4>2. CASE table[i].kind # "vote"
        BY <1>3, <3>1, <4>2
      <4>. QED BY <4>1, <4>2
    <3>3. p \in Id
      BY <2>2, <3>1, <3>2 DEF TableHolds, Rec, Field
    <3>4. table[p].kind # "none"
      BY <1>2, <2>2, <3>1, <3>2 DEF TableHolds, RowsPart, Sound, There
    <3>. QED BY <1>2, <3>2, <3>3, <3>4
  <2>. QED BY <2>1, <2>2 DEF Sound, There
<1>7. VotePart'
  BY <1>2, <1>3 DEF TableHolds, VotePart, Is
<1>8. HomePart'
  <2>1. Secret \in Id /\ Tenant \in Id /\ Membership \in Id /\ Account \subseteq Id
        /\ table[Secret].kind # "vote" /\ \A u \in Account : table[u].kind # "vote"
    BY IdsDiffer DEF TableHolds, KindsPart
  <2>. QED BY <1>2, <1>3, <2>1 DEF TableHolds, HomePart, There
<1>. QED BY <1>2, <1>4, <1>5, <1>6, <1>7, <1>8 DEF TableHolds

\* A user's organization is set.
LEMMA HomeKeeps ==
    ASSUME TableHolds, NEW u \in Account, NEW r \in Rec, r.kind = "user", r.in \in {Tenant, Null},
           There(u), Sound(r), table' = [table EXCEPT ![u].in = r.in], fresh' = fresh, moved' = moved \cup {u}
    PROVE  TableHolds' /\ Later
<1>1. u \in Id /\ table[u] \in Rec /\ table[u].kind = "user" /\ u \notin Extra
  BY IdsDiffer DEF TableHolds, KindsPart, There
<1>. DEFINE x == [table[u] EXCEPT !.in = r.in]
<1>2. x \in Rec /\ x.kind = "user" /\ x.in = r.in /\ x.by = table[u].by /\ x.on = table[u].on
  BY <1>1 DEF Rec
<1>3. table' = [table EXCEPT ![u] = x]
  OBVIOUS
<1>. HIDE DEF x
<1>4. table' \in [Id -> Rec] /\ table'[u] = x /\ \A i \in Id \ {u} : table'[i] = table[i]
  BY <1>1, <1>2, <1>3 DEF TableHolds
<1>5. \A i \in Id : table'[i].kind = table[i].kind
  BY <1>1, <1>2, <1>4
<1>6. Later
  BY <1>1, <1>4, IdsDiffer DEF Later, There, Is
<1>7. KindsPart'
  BY <1>1, <1>4, <1>5, IdsDiffer DEF TableHolds, KindsPart
<1>8. RowsPart'
  <2>. SUFFICES ASSUME NEW i \in Id PROVE RowGood(table[i])' /\ Sound(table[i])'
    BY DEF RowsPart
  <2>1. PICK y \in Rec : y = table'[i]
    BY <1>4
  <2>2. RowGood(y) /\ Sound(y)
    <3>1. CASE i = u
      <4>1. y = x /\ RowGood(x)
        BY <1>2, <1>4, <2>1, <3>1 DEF RowGood
      <4>2. \A f \in Field : OnDelete["user"][f] # "-" => f = "in"
        BY Policies DEF Field
      <4>. QED BY <1>2, <4>1, <4>2 DEF Sound
    <3>2. CASE i # u
      BY <1>4, <2>1, <3>2 DEF TableHolds, RowsPart
    <3>. QED BY <3>1, <3>2
  <2>3. RowGood(y)'
    BY <1>6, <2>2, GoodStays
  <2>4. Sound(y)'
    <3>. SUFFICES ASSUME NEW f \in Field, y[f] # Null, OnDelete[y.kind][f] # "-" PROVE There(y[f])'
      BY DEF Sound
    <3>1. y[f] \in Id /\ table[y[f]].kind # "none"
      BY <2>2 DEF Sound, There, Rec, Field
    <3>2. table'[y[f]].kind # "none"
      BY <1>5, <3>1
    <3>. QED BY <3>2 DEF There
  <2>. QED BY <2>1, <2>3, <2>4 DEF RowGood, Sound
<1>9. VotePart'
  BY <1>1, <1>4, <1>5 DEF TableHolds, VotePart, Is
<1>10. HomePart'
  BY <1>4, <1>5, IdsDiffer DEF TableHolds, HomePart, There
<1>. QED BY <1>4, <1>6, <1>7, <1>8, <1>9, <1>10 DEF TableHolds

-----------------------------------------------------------------------------
(* The invariant is inductive                                               *)

\* The first rows are the users, their organization and its challenges.
LEMMA ContributionStart == ContributionInit => ContributionInv
<1>. SUFFICES ASSUME ContributionInit PROVE ContributionInv
  OBVIOUS
<1>1. /\ \A k \in {"org", "user", "challenge", "member", "none"} : k \in RowKind
      /\ 0 \in -1 .. 1 /\ Tenant \in Id \cup {Null} /\ Someone \in Id \cup {Null} /\ Null \in Id \cup {Null}
  BY IdsDiffer DEF RowKind, RefKind
<1>2. /\ DOMAIN table = Id
      /\ table[Tenant] = Record("org", Null, Null, Null, 0)
      /\ table[Admin] = Record("user", Null, Null, Null, 0)
      /\ table[Someone] = Record("user", Null, Null, Tenant, 0)
      /\ table[Secret] = Record("challenge", Null, Null, Tenant, 0)
      /\ table[Public] = Record("challenge", Null, Null, Null, 0)
      /\ table[Membership] = Record("member", Someone, Null, Tenant, 0)
      /\ \A i \in Extra : table[i] = NoRecord
  BY IdsDiffer DEF ContributionInit, Account, Lab
<1>3. /\ Record("org", Null, Null, Null, 0) \in Rec
      /\ Record("user", Null, Null, Null, 0) \in Rec /\ Record("user", Null, Null, Tenant, 0) \in Rec
      /\ Record("challenge", Null, Null, Null, 0) \in Rec /\ Record("challenge", Null, Null, Tenant, 0) \in Rec
      /\ Record("member", Someone, Null, Tenant, 0) \in Rec
  BY <1>1 DEF Record, Rec
<1>4. \A i \in Id : \/ i \in {Tenant, Admin, Someone, Secret, Public, Membership}
                    \/ i \in Extra
  BY IdsDiffer DEF Account, Lab
<1>5. \A i \in Id : table[i] \in Rec
  BY <1>2, <1>3, <1>4, NoRecordIs
<1>6. table = [i \in Id |-> table[i]]
  BY <1>2 DEF ContributionInit
<1>7. table \in [Id -> Rec]
  BY <1>5, <1>6
<1>8. NoJob \in Work /\ NoJob.pc = "idle"
  BY NoRecordIs DEF NoJob, Work
<1>9. Types
  BY <1>7, <1>8, IdsDiffer, ContributionAssumption DEF Types, ContributionInit
<1>10. /\ \A u \in Account : table[u].kind = "user" /\ table[u].in \in {Null, Tenant}
       /\ table[Admin].in = Null
       /\ \A c \in Lab : table[c].kind = "challenge" /\ table[c].in \in {Null, Tenant}
       /\ table[Secret].in = Tenant /\ table[Tenant].kind = "org"
       /\ table[Membership].kind = "member" /\ table[Membership].by = Someone /\ table[Membership].in = Tenant
       /\ \A i \in Extra : table[i].kind = "none" /\ table[i].in = Null
  BY <1>2, NoRecordIs DEF Record, Account, Lab
<1>11. KindsPart
  BY <1>10, IdsDiffer DEF KindsPart, ContributionInit
<1>12. RowsPart
  <2>. SUFFICES ASSUME NEW i \in Id PROVE RowGood(table[i]) /\ Sound(table[i])
    BY DEF RowsPart
  <2>1. table[i].kind \in {"user", "challenge", "org", "member", "none"}
    BY <1>10, IdsDiffer
  <2>2. RowGood(table[i])
    BY <2>1 DEF RowGood
  <2>3. There(Tenant) /\ There(Someone)
    BY <1>10, IdsDiffer DEF There
  <2>4. Sound(table[i])
    <3>1. CASE table[i].kind \in {"user", "challenge"}
      <4>1. table[i].in \in {Null, Tenant}
        BY <1>10, <3>1, IdsDiffer
      <4>2. \A f \in Field : OnDelete[table[i].kind][f] # "-" => f = "in"
        BY <3>1, Policies DEF Field
      <4>. QED BY <2>3, <4>1, <4>2 DEF Sound
    <3>2. CASE table[i].kind \in {"org", "none"}
      BY <3>2, Policies DEF Sound, Field
    <3>3. CASE table[i].kind = "member"
      <4>1. i = Membership
        BY <1>10, <3>3, IdsDiffer
      <4>2. \A f \in Field : OnDelete["member"][f] # "-" => f \in {"by", "in"}
        BY Policies DEF Field
      <4>. QED BY <1>10, <2>3, <3>3, <4>1, <4>2 DEF Sound
    <3>. QED BY <2>1, <3>1, <3>2, <3>3
  <2>. QED BY <2>2, <2>4
<1>13. VotePart
  BY <1>10, IdsDiffer DEF VotePart, Is
<1>14. JobPart
  BY <1>8 DEF JobPart, JobOf, ContributionInit
<1>15. HomePart
  BY <1>10, IdsDiffer DEF HomePart, There, Account
<1>. QED BY <1>9, <1>11, <1>12, <1>13, <1>14, <1>15 DEF ContributionInv

\* Every request and every deletion keeps it.
LEMMA ContributionStep == ContributionInv /\ [ContributionNext]_contributionVars => ContributionInv'
<1>. SUFFICES ASSUME ContributionInv, [ContributionNext]_contributionVars PROVE ContributionInv'
  OBVIOUS
<1>1. TableHolds /\ job \in [Job -> Work] /\ admins \subseteq Account /\ moved \subseteq Account
  BY DEF ContributionInv, Types, TableHolds
<1>2. \A j \in Job : JobOf(job[j]) /\ job[j] \in Work
  BY <1>1 DEF ContributionInv, JobPart
<1>3. ASSUME NEW j \in Job, WriteInsert(j) PROVE ContributionInv'
  <2>1. job[j].row \in Rec /\ job[j].row.kind \in Given /\ RowGood(job[j].row)
    BY <1>2, <1>3 DEF WriteInsert, JobOf, Work
  <2>2. PICK r \in Rec : r = job[j].row
    BY <2>1
  <2>3. Insert(r) /\ UNCHANGED <<admins, moved, jobs>> /\ Answers(j)
    BY <1>3, <2>2 DEF WriteInsert
  <2>4. TableHolds' /\ Later
    BY <1>1, <2>1, <2>2, <2>3, InsertKeeps
  <2>. QED BY <1>1, <2>3, <2>4, AnswersKeeps
<1>4. ASSUME NEW j \in Job, WriteVote(j) PROVE ContributionInv'
  <2>1. job[j].row \in Rec /\ job[j].row.kind = "vote"
    BY <1>2, <1>4 DEF WriteVote, JobOf, Work
  <2>2. PICK r \in Rec : r = job[j].row
    BY <2>1
  <2>3. /\ table' = [i \in Id |-> IF i \in VoteOf(r.by, r.on) THEN r ELSE table[i]]
        /\ UNCHANGED <<admins, moved, fresh, jobs>> /\ Answers(j)
    BY <1>4, <2>2 DEF WriteVote
  <2>4. TableHolds' /\ Later
    BY <1>1, <2>1, <2>2, <2>3, VoteKeeps
  <2>. QED BY <1>1, <2>3, <2>4, AnswersKeeps
<1>5. ASSUME NEW j \in Job, WriteDelete(j) PROVE ContributionInv'
  <2>1. /\ table' = table \/ \E i \in Target(j) : Remove(i)
        /\ admins' \subseteq admins /\ UNCHANGED <<moved, fresh, jobs>> /\ Answers(j)
    BY <1>5 DEF WriteDelete
  <2>2. \A i \in Target(j) : i \in Id \ {Membership}
    <3>1. CASE job[j].row.kind = "vote"
      BY <1>1, <3>1, IdsDiffer DEF Target, VoteOf, Is, TableHolds, KindsPart
    <3>2. CASE job[j].row.kind # "vote"
      BY <1>2, <1>5, <3>2, IdsDiffer DEF Target, WriteDelete, JobOf
    <3>. QED BY <3>1, <3>2
  <2>3. TableHolds' /\ Later
    BY <1>1, <2>1, <2>2, RemoveKeeps, SameTable
  <2>. QED BY <1>1, <2>1, <2>3, AnswersKeeps
<1>6. ASSUME NEW j \in Job, WriteRole(j) PROVE ContributionInv'
  <2>1. UNCHANGED <<table, moved, fresh, jobs>> /\ Answers(j) /\ admins' \subseteq Account
    BY <1>1, <1>2, <1>6 DEF WriteRole, JobOf
  <2>2. TableHolds' /\ Later
    BY <1>1, <2>1, SameTable
  <2>. QED BY <1>1, <2>1, <2>2, AnswersKeeps
<1>7. ASSUME NEW j \in Job, WriteHome(j) PROVE ContributionInv'
  <2>1. job[j].id \in Account /\ job[j].row \in Rec /\ job[j].row.kind = "user" /\ job[j].row.in \in {Tenant, Null}
    BY <1>2, <1>7 DEF WriteHome, JobOf, Work
  <2>2. PICK r \in Rec, u \in Account : r = job[j].row /\ u = job[j].id
    BY <2>1
  <2>3. /\ \/ There(u) /\ Sound(r) /\ table' = [table EXCEPT ![u].in = r.in] /\ moved' = moved \cup {u}
           \/ UNCHANGED <<table, moved>>
        /\ UNCHANGED <<admins, fresh, jobs>> /\ Answers(j)
    BY <1>7, <2>2 DEF WriteHome
  <2>4. TableHolds' /\ Later
    BY <1>1, <2>1, <2>2, <2>3, HomeKeeps, SameTable
  <2>5. moved' \subseteq Account
    BY <1>1, <2>3
  <2>. QED BY <1>1, <2>3, <2>4, <2>5, AnswersKeeps
<1>8. CASE UNCHANGED contributionVars
  <2>1. UNCHANGED <<table, fresh, moved, admins, job, jobs>>
    BY <1>8 DEF contributionVars
  <2>2. TableHolds' /\ Later
    BY <1>1, <2>1, SameTable
  <2>3. JobPart'
    <3>. SUFFICES ASSUME NEW j \in Job PROVE JobOf(job[j])'
      BY DEF JobPart
    <3>1. PICK v : v = job[j]
      OBVIOUS
    <3>2. JobOf(v)
      BY <1>2, <3>1
    <3>3. JobOf(v)'
      BY <2>2, <3>2, GoodStays DEF JobOf
    <3>. QED BY <2>1, <3>1, <3>3 DEF JobOf
  <2>. QED BY <2>1, <2>2, <2>3 DEF ContributionInv, Types, TableHolds
<1>. QED BY <1>3, <1>4, <1>5, <1>6, <1>7, <1>8, RequestKeeps DEF ContributionNext

-----------------------------------------------------------------------------
(* What follows                                                             *)

\* What is promised of contributions is part of it or follows at once.
LEMMA ContributionImplied == ContributionInv => ContributionsSound
<1>. SUFFICES ASSUME ContributionInv PROVE ContributionsSound
  OBVIOUS
<1>1. Types /\ KindsPart /\ RowsPart /\ VotePart /\ HomePart
  BY DEF ContributionInv
<1>2. ContributionTypeOK
  <2>1. \A r \in Rec : RecordOK(r)
    BY DEF Rec, RecordOK
  <2>2. \A j \in Job : job[j] \in Work
    BY <1>1 DEF Types
  <2>. QED BY <1>1, <2>1, <2>2 DEF Types, Work, ContributionTypeOK
<1>3. \A i \in Id, f \in Field : OnDelete[table[i].kind][f] # "-" => table[i][f] = Null \/ There(table[i][f])
  BY <1>1 DEF RowsPart, Sound
<1>4. \A i \in Id : RowGood(table[i])
  BY <1>1 DEF RowsPart
<1>5. \A i \in Comments : /\ i \in Id /\ table[i].kind = "comment" /\ table[i].on \in Lab
                          /\ table[i].in = Null \/ (table[i].in \in Comments /\ table[table[i].in].on = table[i].on)
  <2>. SUFFICES ASSUME NEW i \in Id, Is(i, "comment")
                PROVE  /\ table[i].kind = "comment" /\ table[i].on \in Lab
                       /\ table[i].in = Null \/ (table[i].in \in Comments /\ table[table[i].in].on = table[i].on)
    BY DEF Comments
  <2>1. table[i].kind = "comment" /\ table[i].on \in Lab /\ (table[i].in = Null \/ Parent(table[i].in, table[i].on))
    BY <1>4 DEF RowGood, Is
  <2>2. table[i].in = Null \/ There(table[i].in)
    BY <1>3, <2>1, Policies DEF Field
  <2>. QED BY <2>1, <2>2, IdsDiffer DEF Parent, Comments
<1>6. ThreadsAreWhole
  BY <1>5, IdsDiffer DEF ThreadsAreWhole, Shown
<1>7. VotedOnce
  <2>. SUFFICES ASSUME NEW p \in Comments, NEW u \in Account PROVE Cardinality(VoteOf(u, p)) <= 1
    BY DEF VotedOnce
  <2>1. \A i, k \in VoteOf(u, p) : i = k
    BY <1>1 DEF VotePart, VoteOf
  <2>2. CASE VoteOf(u, p) = {}
    BY <2>2, FS_EmptySet
  <2>3. CASE VoteOf(u, p) # {}
    <3>1. PICK i : VoteOf(u, p) = {i}
      BY <2>1, <2>3
    <3>. QED BY <3>1, FS_Singleton
  <2>. QED BY <2>2, <2>3
<1>8. SecretHolds
  <2>1. ASSUME NEW u \in Account, table[u].in = Tenant PROVE Access(u, Tenant) \/ u \in moved
    <3>1. u \in moved \/ (u = Someone /\ There(Membership))
      BY <1>1, <2>1 DEF HomePart
    <3>2. There(Membership) => Is(Membership, "member") /\ table[Membership].by = Someone
                               /\ table[Membership].in = Tenant
      BY <1>1, IdsDiffer DEF KindsPart, There, Is
    <3>. QED BY <3>1, <3>2, IdsDiffer DEF Access
  <2>. QED BY <1>1, <2>1 DEF SecretHolds, HomePart
<1>9. UsedIsKept
  <2>1. \A c \in Lab : There(c) => Is(c, "challenge")
    BY <1>1, IdsDiffer DEF KindsPart, There, Is
  <2>2. \A u \in Account : There(u) => Is(u, "user")
    BY <1>1, IdsDiffer DEF KindsPart, There, Is
  <2>3. There(Tenant) => Is(Tenant, "org")
    BY <1>1, IdsDiffer DEF KindsPart, There, Is
  <2>4. ASSUME NEW i \in Id, Is(i, "session") PROVE Is(table[i].on, "challenge") /\ Is(table[i].by, "user")
    <3>1. table[i].kind = "session" /\ table[i].on \in Lab /\ table[i].by \in Account
      BY <1>4, <2>4 DEF RowGood, Is
    <3>2. There(table[i].on) /\ There(table[i].by)
      BY <1>3, <3>1, Policies, IdsDiffer DEF Field
    <3>. QED BY <2>1, <2>2, <3>1, <3>2
  <2>5. ASSUME NEW i \in Id, Is(i, "scenario") PROVE Is(table[i].by, "user") /\ Is(table[i].in, "org")
    <3>1. table[i].kind = "scenario" /\ table[i].by \in Account /\ table[i].in = Tenant
      BY <1>4, <2>5 DEF RowGood, Is
    <3>2. There(table[i].in) /\ There(table[i].by)
      BY <1>3, <3>1, Policies, IdsDiffer DEF Field
    <3>. QED BY <2>2, <2>3, <3>1, <3>2
  <2>6. ASSUME NEW i \in Id, Is(i, "item") PROVE Is(table[i].in, "list") /\ Is(table[i].on, "challenge")
    <3>1. table[i].kind = "item" /\ table[i].on \in Lab /\ ListGiven(table[i].in)
      BY <1>4, <2>6 DEF RowGood, Is
    <3>2. There(table[i].in) /\ There(table[i].on)
      BY <1>3, <3>1, Policies, IdsDiffer DEF Field, ListGiven
    <3>. QED BY <2>1, <3>1, <3>2 DEF ListGiven
  <2>. QED BY <2>4, <2>5, <2>6 DEF UsedIsKept
<1>. QED BY <1>2, <1>6, <1>7, <1>8, <1>9 DEF ContributionsSound

\* What users contribute: threads are of one challenge, a user votes once, what an organization
\* contributed stays its own, and what was used keeps what it refers to, for any number of rows
\* and requests, whatever is deleted between the look-up of a request and its write.
THEOREM ContributionsCorrect == ContributionSpec => []ContributionsSound
BY ContributionStart, ContributionStep, ContributionImplied, PTL DEF ContributionSpec
=============================================================================
