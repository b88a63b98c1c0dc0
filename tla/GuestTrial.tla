----------------------------- MODULE GuestTrial -----------------------------
(***************************************************************************)
(* POST /challenges/:id/trial of the core service: a guest tries one       *)
(* challenge, known by a cookie, limited by the address and guarded by a   *)
(* lock per guest and challenge.  The requests of the replicas interleave  *)
(* at every call to Redis and the database.                                *)
(***************************************************************************)
EXTENDS Integers, FiniteSets, Sequences

CONSTANTS
    Guest,      \* guests that keep their cookie
    Trial,      \* challenges eligible for a trial
    Caller,     \* requests in progress at a time; all come from one address
    MaxTrials,  \* requests, and the sessions they may create
    PerHour,    \* trials of an address in an hour
    MaxTFaults  \* statements that fail, processes that die, slow handlers

TSession == 1 .. MaxTrials

ASSUME TrialAssumption == MaxTrials \in Nat /\ PerHour \in Nat \ {0} /\ MaxTFaults \in Nat

VARIABLES
    used,       \* guest:trial:used:<guest>: its session, 0 for none
    attempts,   \* the counter of the address, 0 when it is not set
    counterTTL, \* whether the counter expires
    tlock,      \* core:session:<guest>:<challenge>: its session, 0 for none
    labs,       \* LabSession rows: <<guest, challenge, session>>
    started,    \* outbox events session.started: sessions
    caller,     \* the handler of each request
    tried,      \* requests so far
    admittedIn, \* sessions that passed the limit in this hour
    answered,   \* sessions answered with 200 from the lock
    coincide,   \* guests with two requests at the same time
    tfaults

trialVars == <<used, attempts, counterTTL, tlock, labs, started, caller, tried, admittedIn,
               answered, coincide, tfaults>>

NoCall == [pc |-> "none", guest |-> 0, trial |-> 0, sid |-> 0]

TrialTypeOK ==
    /\ used \in [Guest -> {0} \cup TSession]
    /\ attempts \in 0 .. MaxTrials
    /\ counterTTL => attempts > 0
    /\ tlock \in [Guest \X Trial -> {0} \cup TSession]
    /\ labs \subseteq Guest \X Trial \X TSession
    /\ started \subseteq TSession
    /\ \A c \in Caller :
           \/ caller[c] = NoCall
           \/ caller[c] \in [pc: {"used", "incr", "expire", "user", "lock", "held", "session",
                                  "event", "unlock", "mark"},
                             guest: Guest, trial: Trial, sid: TSession]
    /\ tried \in 0 .. MaxTrials
    /\ admittedIn \subseteq TSession
    /\ answered \subseteq Guest \X Trial \X TSession
    /\ coincide \subseteq Guest
    /\ tfaults \in 0 .. MaxTFaults

TrialInit ==
    /\ used = [g \in Guest |-> 0]
    /\ attempts = 0
    /\ counterTTL = FALSE
    /\ tlock = [k \in Guest \X Trial |-> 0]
    /\ labs = {}
    /\ started = {}
    /\ caller = [c \in Caller |-> NoCall]
    /\ tried = 0
    /\ admittedIn = {}
    /\ answered = {}
    /\ coincide = {}
    /\ tfaults = 0

-----------------------------------------------------------------------------
In(c, pc) == caller[c].pc = pc
To(c, pc) == caller' = [caller EXCEPT ![c].pc = pc]
Reply4(c) == caller' = [caller EXCEPT ![c] = NoCall]
Key(c) == <<caller[c].guest, caller[c].trial>>
Sid(c) == caller[c].sid

\* A guest asks for a trial; the session's id is drawn later, but is this request's own.
Ask(c, g, t) ==
    /\ In(c, "none")
    /\ tried < MaxTrials
    /\ tried' = tried + 1
    /\ caller' = [caller EXCEPT ![c] = [pc |-> "used", guest |-> g, trial |-> t, sid |-> tried + 1]]
    /\ coincide' = IF \E d \in Caller : caller[d].guest = g THEN coincide \cup {g} ELSE coincide
    /\ UNCHANGED <<used, attempts, counterTTL, tlock, labs, started, admittedIn, answered, tfaults>>

\* 403 when the trial was used.
CheckUsed(c) ==
    /\ In(c, "used")
    /\ IF used[caller[c].guest] # 0 THEN Reply4(c) ELSE To(c, "incr")
    /\ UNCHANGED <<used, attempts, counterTTL, tlock, labs, started, tried, admittedIn, answered,
                   coincide, tfaults>>

\* 429 above the limit of the address; the first of an hour sets the hour.
CountTrial(c) ==
    /\ In(c, "incr")
    /\ attempts' = attempts + 1
    /\ IF attempts' = 1 THEN To(c, "expire") /\ UNCHANGED admittedIn
       ELSE IF attempts' > PerHour THEN Reply4(c) /\ UNCHANGED admittedIn
       ELSE To(c, "user") /\ admittedIn' = admittedIn \cup {Sid(c)}
    /\ UNCHANGED <<used, counterTTL, tlock, labs, started, tried, answered, coincide, tfaults>>

\* EXPIRE does nothing for a key that is gone.
SetHour(c) ==
    /\ In(c, "expire")
    /\ counterTTL' = (attempts > 0)
    /\ admittedIn' = admittedIn \cup {Sid(c)}
    /\ To(c, "user")
    /\ UNCHANGED <<used, attempts, tlock, labs, started, tried, answered, coincide, tfaults>>

\* The guest's user row is there before the session refers to it.
UpsertGuest(c) ==
    /\ In(c, "user")
    /\ To(c, "lock")
    /\ UNCHANGED <<used, attempts, counterTTL, tlock, labs, started, tried, admittedIn, answered,
                   coincide, tfaults>>

\* Mutant of Lock: without NX.
LockAnyway(c) ==
    /\ In(c, "lock")
    /\ tlock' = [tlock EXCEPT ![Key(c)] = Sid(c)] /\ To(c, "session")
    /\ UNCHANGED <<used, attempts, counterTTL, labs, started, tried, admittedIn, answered, coincide,
                   tfaults>>

\* SET EX 10 NX.
Lock(c) ==
    /\ In(c, "lock")
    /\ IF tlock[Key(c)] = 0
       THEN tlock' = [tlock EXCEPT ![Key(c)] = Sid(c)] /\ To(c, "session")
       ELSE To(c, "held") /\ UNCHANGED tlock
    /\ UNCHANGED <<used, attempts, counterTTL, labs, started, tried, admittedIn, answered, coincide,
                   tfaults>>

\* The session of the lock is answered, also before it is created; when the lock has
\* expired meanwhile the handler goes on without it.
Held(c) ==
    /\ In(c, "held")
    /\ IF tlock[Key(c)] = 0
       THEN To(c, "session") /\ UNCHANGED answered
       ELSE answered' = answered \cup {Key(c) \o <<tlock[Key(c)]>>} /\ Reply4(c)
    /\ UNCHANGED <<used, attempts, counterTTL, tlock, labs, started, tried, admittedIn, coincide,
                   tfaults>>

TFault == tfaults < MaxTFaults /\ tfaults' = tfaults + 1

\* The row and the event are written in transactions of their own; if either fails the
\* lock is deleted, whoever has it by now.
Create(c) ==
    /\ In(c, "session")
    /\ \E written \in SUBSET {"row", "event"} :
           /\ labs' = IF "row" \in written THEN labs \cup {Key(c) \o <<Sid(c)>>} ELSE labs
           /\ started' = IF "event" \in written THEN started \cup {Sid(c)} ELSE started
           /\ IF written = {"row", "event"} THEN To(c, "mark") /\ UNCHANGED tfaults
              ELSE TFault /\ To(c, "unlock")
    /\ UNCHANGED <<used, attempts, counterTTL, tlock, tried, admittedIn, answered, coincide>>

Unlock(c) ==
    /\ In(c, "unlock")
    /\ tlock' = [tlock EXCEPT ![Key(c)] = 0]
    /\ Reply4(c)
    /\ UNCHANGED <<used, attempts, counterTTL, labs, started, tried, admittedIn, answered, coincide,
                   tfaults>>

\* The trial is used; the brokers are told as by any start, and 201 is answered.
MarkUsed(c) ==
    /\ In(c, "mark")
    /\ used' = [used EXCEPT ![caller[c].guest] = Sid(c)]
    /\ Reply4(c)
    /\ UNCHANGED <<attempts, counterTTL, tlock, labs, started, tried, admittedIn, answered, coincide,
                   tfaults>>

\* A call to Redis or the database throws, or the process dies.
TrialFails(c) ==
    /\ ~In(c, "none")
    /\ TFault
    /\ Reply4(c)
    /\ UNCHANGED <<used, attempts, counterTTL, tlock, labs, started, tried, admittedIn, answered,
                   coincide>>

\* Ten seconds after the lock was taken; a handler of the guest that is still at work
\* then is a slow one.
LockExpires(k) ==
    /\ tlock[k] # 0
    /\ IF \E c \in Caller : caller[c].guest = k[1] THEN TFault ELSE UNCHANGED tfaults
    /\ tlock' = [tlock EXCEPT ![k] = 0]
    /\ UNCHANGED <<used, attempts, counterTTL, labs, started, caller, tried, admittedIn, answered,
                   coincide>>

HourEnds ==
    /\ counterTTL
    /\ attempts' = 0 /\ counterTTL' = FALSE /\ admittedIn' = {}
    /\ UNCHANGED <<used, tlock, labs, started, caller, tried, answered, coincide, tfaults>>

TrialNext ==
    \/ \E c \in Caller :
           \/ \E g \in Guest, t \in Trial : Ask(c, g, t)
           \/ CheckUsed(c) \/ CountTrial(c) \/ SetHour(c) \/ UpsertGuest(c) \/ Lock(c) \/ Held(c)
           \/ Create(c) \/ Unlock(c) \/ MarkUsed(c) \/ TrialFails(c)
    \/ \E k \in Guest \X Trial : LockExpires(k)
    \/ HourEnds

TrialSpec == TrialInit /\ [][TrialNext]_trialVars

-----------------------------------------------------------------------------
(* Safety                                                                  *)

\* A guest has one trial, unless requests of the guest overlap or something fails.
OneTrial ==
    tfaults = 0 => \A g \in Guest \ coincide : Cardinality({l \in labs : l[1] = g}) <= 1

\* Requests of a guest for one challenge that overlap start one session.
LockGuards ==
    tfaults = 0 => \A k \in Guest \X Trial : Cardinality({l \in labs : <<l[1], l[2]>> = k}) <= 1

\* A guest is turned away for a session that was created and is announced to the worker.
UsedWasStarted ==
    \A g \in Guest : used[g] # 0 =>
        /\ used[g] \in started
        /\ \E t \in Trial : <<g, t, used[g]>> \in labs

\* The address starts no more than its trials in an hour, however requests interleave.
AddressLimited == Cardinality(admittedIn) <= PerHour

\* The limit of an address ends, unless a process dies between INCR and EXPIRE.
LimitEnds == attempts > 0 /\ ~counterTTL => tfaults > 0 \/ \E c \in Caller : In(c, "expire")

\* The session answered from the lock is there, or being created, unless that failed.
AnsweredExists ==
    tfaults = 0 => \A a \in answered : a \in labs \/ \E c \in Caller : In(c, "session") /\ Sid(c) = a[3]

\* The trial is guarded: one for each guest, one session for each lock, no guest turned
\* away without one, and an address limited for its hour and no longer.
TrialGuarded ==
    /\ TrialTypeOK
    /\ OneTrial /\ LockGuards /\ UsedWasStarted /\ AnsweredExists
    /\ AddressLimited /\ LimitEnds
=============================================================================
