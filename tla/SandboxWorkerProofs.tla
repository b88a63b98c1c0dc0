------------------------ MODULE SandboxWorkerProofs ------------------------
(***************************************************************************)
(* What the sandbox workers guarantee for any number of workers, sessions, *)
(* containers, copies of messages and faults: every variable keeps its     *)
(* type; no record of a session ever names the container of another; a     *)
(* Create that fails leaves nothing running that no worker knows, and what *)
(* is reported does not run; a served session is in Redis; and duplicates  *)
(* of session.started leave one container of the session on a daemon.      *)
(***************************************************************************)
EXTENDS SandboxWorker, TLAPS

\* The handler of the consumer loop always has a message, and only a handler
\* that destroys has a Destroy in progress.
JobOK ==
    \A w \in Worker :
        /\ job[w].pc # "idle" => job[w].msg \in Message
        /\ destroy[w]["job"].step # "none" => job[w].pc = "destroy"

\* The record a Create is about to save and register names a container that was
\* provisioned for the session of its message.
CreateOwns ==
    \A w \in Worker :
        job[w].pc \in {"save", "register"} => Owned(job[w].msg.session, job[w].data.runtime)

\* A daemon never takes a container id back, nor gives a container another owner.
BoxesKeepOwner ==
    \A c \in Container :
        box[c].state # "free" => box'[c].state # "free" /\ box'[c].owner = box[c].owner

IInv == TypeOK /\ JobOK /\ RecordsNameOwnContainer /\ CreateOwns

-----------------------------------------------------------------------------
(* Types of the helpers                                                    *)

\* A record that is not there has the type of a record.
LEMMA EmptyRecords ==
    /\ NoData \in SessionData
    /\ FreeBox \in Box
    /\ IdleJob \in Job
    /\ NoDestroy \in Destroying
    /\ NoSweep \in Sweeping
<1>1. 0 \in Age
  BY AgeAssumption DEF Age
<1>2. NoData \in SessionData
  BY <1>1 DEF NoData, SessionData
<1>3. FreeBox \in Box
  BY <1>1 DEF FreeBox, Box
<1>4. IdleJob \in Job
  BY <1>2 DEF IdleJob, Job, JobPc
<1>5. NoDestroy \in Destroying
  BY DEF NoDestroy, Destroying
<1>6. NoSweep \in Sweeping
  BY <1>2 DEF NoSweep, Sweeping
<1> QED
  BY <1>2, <1>3, <1>4, <1>5, <1>6

\* Ageing a record keeps its type and the runtime it names.
LEMMA AgedDataType ==
    ASSUME NEW d \in SessionData
    PROVE  AgedData(d) \in SessionData /\ AgedData(d).runtime = d.runtime
BY AgeAssumption DEF AgedData, SessionData, Older, Age, Present

\* Removing a container keeps the type of the daemon's state and every owner.
LEMMA RemovedType ==
    ASSUME box \in [Container -> Box], NEW w, NEW r
    PROVE  /\ Removed(w, r) \in [Container -> Box]
           /\ \A c \in Container :
                 /\ Removed(w, r)[c].owner = box[c].owner
                 /\ box[c].state # "free" => Removed(w, r)[c].state # "free"
BY DEF Removed, Box

\* The record found by Get has the type of a record.
LEMMA GetType ==
    ASSUME TypeOK, NEW w \in Worker, NEW s \in Session
    PROVE  Get(w, s) \in SessionData
BY DEF Get, TypeOK

\* The messages of a session are messages.
LEMMA MessageType ==
    ASSUME NEW s \in Session
    PROVE  Started(s) \in Message /\ Ended(s) \in Message
BY DEF Started, Ended, Message

\* The changes the handlers make to the state of the consumer loop keep its type.
LEMMA JobUpdates ==
    ASSUME NEW j \in Job
    PROVE  /\ \A pc \in JobPc : [j EXCEPT !.pc = pc] \in Job
           /\ \A pc \in JobPc, d \in SessionData : [j EXCEPT !.pc = pc, !.data = d] \in Job
           /\ [j EXCEPT !.timedOut = TRUE] \in Job
           /\ [j EXCEPT !.unacked = FALSE] \in Job
           /\ \A old \in BOOLEAN : [j EXCEPT !.data = AgedData(@), !.old = old] \in Job
<1>1. \A pc \in JobPc : [j EXCEPT !.pc = pc] \in Job
  BY DEF Job
<1>2. \A pc \in JobPc, d \in SessionData : [j EXCEPT !.pc = pc, !.data = d] \in Job
  BY DEF Job
<1>3. [j EXCEPT !.timedOut = TRUE] \in Job /\ [j EXCEPT !.unacked = FALSE] \in Job
  BY DEF Job
<1>4. j.data \in SessionData
  BY DEF Job
<1>5. \A old \in BOOLEAN : [j EXCEPT !.data = AgedData(@), !.old = old] \in Job
  BY <1>4, AgedDataType DEF Job
<1> QED
  BY <1>1, <1>2, <1>3, <1>5

\* The job a delivery starts.
LEMMA NewJobType ==
    ASSUME NEW pc \in JobPc, NEW m \in Message
    PROVE  [IdleJob EXCEPT !.pc = pc, !.msg = m, !.unacked = TRUE] \in Job
BY EmptyRecords DEF Job

\* Taking a delivery keeps the types of the queue and of the consumer loop.
LEMMA TakeType ==
    ASSUME TypeOK, NEW w \in Worker, NEW m \in Message, NEW pc \in JobPc, Take(w, m, pc)
    PROVE  queue' \in [Message -> Nat] /\ job' \in [Worker -> Job]
<1>1. queue' \in [Message -> Nat]
  BY DEF Take, TypeOK
<1>2. job' \in [Worker -> Job]
  BY NewJobType DEF Take, TypeOK
<1> QED
  BY <1>1, <1>2

\* The steps of a Destroy keep its type.
LEMMA DestroyUpdates ==
    ASSUME TypeOK, NEW w \in Worker, NEW t \in Thread
    PROVE  /\ \A s \in Session :
                 [destroy EXCEPT ![w][t] = [step |-> "remove", session |-> s,
                                            runtime |-> Get(w, s).runtime]]
                     \in [Worker -> [Thread -> Destroying]]
           /\ [destroy EXCEPT ![w][t].step = "unlink"] \in [Worker -> [Thread -> Destroying]]
           /\ [destroy EXCEPT ![w][t].step = "forget"] \in [Worker -> [Thread -> Destroying]]
           /\ [destroy EXCEPT ![w][t] = NoDestroy] \in [Worker -> [Thread -> Destroying]]
<1>1. \A s \in Session :
          [step |-> "remove", session |-> s, runtime |-> Get(w, s).runtime] \in Destroying
  BY GetType DEF Destroying, SessionData
<1>2. \A d \in Destroying :
          [d EXCEPT !.step = "unlink"] \in Destroying /\ [d EXCEPT !.step = "forget"] \in Destroying
  BY DEF Destroying
<1> QED
  BY <1>1, <1>2, EmptyRecords DEF TypeOK

\* The record of a new container has the type of a record.
LEMMA NewRecordType ==
    ASSUME NEW c \in Container
    PROVE  [runtime |-> c, age |-> 0] \in SessionData
BY AgeAssumption DEF SessionData, Runtime, Age

\* A container is created with the type of a container, and ageing keeps it.
LEMMA BoxUpdates ==
    /\ \A w \in Worker, s \in Session :
          NewBox(w, s) \in Box /\ [NewBox(w, s) EXCEPT !.state = "dead"] \in Box
    /\ \A b \in Box : [b EXCEPT !.age = Older(@)] \in Box
<1>1. \A w \in Worker, s \in Session :
          NewBox(w, s) \in Box /\ [NewBox(w, s) EXCEPT !.state = "dead"] \in Box
  BY AgeAssumption DEF NewBox, ProvisionLabel, Box, Age
<1>2. \A b \in Box : [b EXCEPT !.age = Older(@)] \in Box
  BY AgeAssumption DEF Box, Older, Age
<1> QED
  BY <1>1, <1>2

\* A message that comes back to its queue, and a job without one, keep the type of the queue.
LEMMA RequeueType ==
    ASSUME TypeOK, NEW m
    PROVE  [queue EXCEPT ![m] = @ + 1] \in [Message -> Nat]
<1>1. \A x \in Message : queue[x] + 1 \in Nat
  BY DEF TypeOK
<1> QED
  BY <1>1 DEF TypeOK

\* Every step keeps the types.
LEMMA TypeStep ==
    ASSUME TypeOK, JobOK, Next
    PROVE  TypeOK'
<1>1. ASSUME NEW s \in Session, PublishStarted(s)
      PROVE  TypeOK'
  <2>1. queue' \in [Message -> Nat]
    BY <1>1, MessageType DEF TypeOK, PublishStarted, Publish
  <2>2. sent' \in [Message -> Nat]
    BY <1>1, MessageType DEF TypeOK, PublishStarted, Publish
  <2> QED
    BY <1>1, <2>1, <2>2 DEF TypeOK, PublishStarted, Publish
<1>2. ASSUME NEW s \in Session, PublishEnded(s)
      PROVE  TypeOK'
  <2>1. queue' \in [Message -> Nat]
    BY <1>2, MessageType DEF TypeOK, PublishEnded, Publish
  <2>2. sent' \in [Message -> Nat]
    BY <1>2, MessageType DEF TypeOK, PublishEnded, Publish
  <2> QED
    BY <1>2, <2>1, <2>2 DEF TypeOK, PublishEnded, Publish
<1>3. ASSUME NEW w \in Worker, NEW s \in Session, CreateExisting(w, s)
      PROVE  TypeOK'
  <2>1. queue' \in [Message -> Nat] /\ job' \in [Worker -> Job]
    BY <1>3, TakeType, MessageType DEF TypeOK, CreateExisting, JobPc
  <2> QED
    BY <1>3, <2>1 DEF TypeOK, CreateExisting, Take
<1>4. ASSUME NEW w \in Worker, NEW s \in Session, CreateBegin(w, s)
      PROVE  TypeOK'
  <2>1. queue' \in [Message -> Nat] /\ job' \in [Worker -> Job]
    BY <1>4, TakeType, MessageType DEF TypeOK, CreateBegin, JobPc
  <2>2. redis' \in [Session -> SessionData]
    <3>1. [runtime |-> Provisioning, age |-> 0] \in SessionData
      BY AgeAssumption DEF SessionData, Runtime, Age
    <3>2. redis' = [redis EXCEPT ![s] = [runtime |-> Provisioning, age |-> 0]] \/ redis' = redis
      BY <1>4 DEF CreateBegin
    <3>. QED BY <3>1, <3>2 DEF TypeOK
  <2>3. faults' \in Happened
    BY <1>4 DEF TypeOK, CreateBegin, Fault, Happened
  <2> QED
    BY <1>4, <2>1, <2>2, <2>3 DEF TypeOK, CreateBegin, Take
<1>5. ASSUME NEW w \in Worker, Provision(w)
      PROVE  TypeOK'
  <2>1. job[w].msg.session \in Session
    BY <1>5 DEF Provision, JobOK, Message
  <2>2. PICK c \in Container :
          /\ box' = [box EXCEPT ![c] = NewBox(w, job[w].msg.session)]
          /\ job' = [job EXCEPT ![w] = [@ EXCEPT !.pc = "save", !.data = [runtime |-> c, age |-> 0]]]
    BY <1>5 DEF Provision
  <2>3. box' \in [Container -> Box]
    BY <2>1, <2>2, BoxUpdates DEF TypeOK
  <2>4. [job[w] EXCEPT !.pc = "save", !.data = [runtime |-> c, age |-> 0]] \in Job
    BY JobUpdates, NewRecordType DEF TypeOK, JobPc
  <2>5. job' \in [Worker -> Job]
    BY <2>2, <2>4 DEF TypeOK
  <2> QED
    BY <1>5, <2>3, <2>5 DEF TypeOK, Provision
<1>6. ASSUME NEW w \in Worker, ProvisionFails(w)
      PROVE  TypeOK'
  <2>1. job' \in [Worker -> Job]
    BY <1>6, JobUpdates DEF TypeOK, ProvisionFails, JobPc
  <2>2. faults' \in Happened
    BY <1>6 DEF TypeOK, ProvisionFails, Fault, Happened
  <2> QED
    BY <1>6, <2>1, <2>2 DEF TypeOK, ProvisionFails
<1>7. ASSUME NEW w \in Worker, ProvisionTimesOut(w)
      PROVE  TypeOK'
  <2>1. job[w].msg.session \in Session
    BY <1>7 DEF ProvisionTimesOut, JobOK, Message
  <2>2. \A c \in Container :
          [box EXCEPT ![c] = [NewBox(w, job[w].msg.session) EXCEPT !.state = "dead"]]
              \in [Container -> Box]
    BY <2>1, BoxUpdates DEF TypeOK
  <2>3. box' \in [Container -> Box]
    BY <1>7, <2>2 DEF TypeOK, ProvisionTimesOut
  <2>4. job' \in [Worker -> Job]
    BY <1>7, JobUpdates DEF TypeOK, ProvisionTimesOut, JobPc
  <2> QED
    BY <1>7, <2>3, <2>4 DEF TypeOK, ProvisionTimesOut
<1>8. ASSUME NEW w \in Worker, Withdraw(w)
      PROVE  TypeOK'
  <2>1. redis' \in [Session -> SessionData]
    BY <1>8, EmptyRecords DEF TypeOK, Withdraw
  <2>2. job' \in [Worker -> Job]
    BY <1>8, JobUpdates DEF TypeOK, Withdraw, JobPc
  <2>3. faults' \in Happened
    BY <1>8 DEF TypeOK, Withdraw, JobCallWorks, JobCallFails, Fault, Happened
  <2> QED
    BY <1>8, <2>1, <2>2, <2>3 DEF TypeOK, Withdraw
<1>9. ASSUME NEW w \in Worker, SaveFinal(w)
      PROVE  TypeOK'
  <2>1. redis' \in [Session -> SessionData]
    BY <1>9 DEF TypeOK, SaveFinal, Job
  <2>2. job' \in [Worker -> Job]
    BY <1>9, JobUpdates DEF TypeOK, SaveFinal, JobPc
  <2>3. faults' \in Happened
    BY <1>9 DEF TypeOK, SaveFinal, JobCallWorks
  <2> QED
    BY <1>9, <2>1, <2>2, <2>3 DEF TypeOK, SaveFinal
<1>10. ASSUME NEW w \in Worker, SaveFails(w)
       PROVE  TypeOK'
  <2>1. job' \in [Worker -> Job]
    BY <1>10, JobUpdates DEF TypeOK, SaveFails, JobPc
  <2>2. faults' \in Happened
    BY <1>10 DEF TypeOK, SaveFails, JobCallFails, Fault, Happened
  <2> QED
    BY <1>10, <2>1, <2>2 DEF TypeOK, SaveFails
<1>11. ASSUME NEW w \in Worker, Discard(w)
       PROVE  TypeOK'
  <2>1. box' \in [Container -> Box]
    BY <1>11, RemovedType DEF TypeOK, Discard
  <2>2. job' \in [Worker -> Job]
    BY <1>11, JobUpdates DEF TypeOK, Discard, JobPc
  <2>3. faults' \in Happened
    BY <1>11 DEF TypeOK, Discard, JobCallWorks, JobCallFails, Fault, Happened
  <2> QED
    BY <1>11, <2>1, <2>2, <2>3 DEF TypeOK, Discard
<1>12. ASSUME NEW w \in Worker, Register(w)
       PROVE  TypeOK'
  <2>1. mem' \in [Worker -> [Session -> SessionData]]
    BY <1>12 DEF TypeOK, Register, Job
  <2>2. job' \in [Worker -> Job]
    BY <1>12, JobUpdates DEF TypeOK, Register, JobPc
  <2> QED
    BY <1>12, <2>1, <2>2 DEF TypeOK, Register
<1>13. ASSUME NEW w \in Worker, ReportFailure(w)
       PROVE  TypeOK'
  <2>1. reported' \subseteq Session
    BY <1>13 DEF TypeOK, ReportFailure, JobOK, Message
  <2>2. job' \in [Worker -> Job]
    BY <1>13, JobUpdates DEF TypeOK, ReportFailure, JobPc
  <2>3. faults' \in Happened
    BY <1>13 DEF TypeOK, ReportFailure, Fault, Happened
  <2> QED
    BY <1>13, <2>1, <2>2, <2>3 DEF TypeOK, ReportFailure
<1>14. ASSUME NEW w \in Worker, Settle(w)
       PROVE  TypeOK'
  <2>1. dlq' \subseteq Message
    BY <1>14 DEF TypeOK, Settle, JobOK
  <2>2. job' \in [Worker -> Job]
    BY <1>14, EmptyRecords DEF TypeOK, Settle
  <2> QED
    BY <1>14, <2>1, <2>2 DEF TypeOK, Settle
<1>15. ASSUME NEW w \in Worker, NEW s \in Session, EndUnknown(w, s)
       PROVE  TypeOK'
  <2>1. queue' \in [Message -> Nat] /\ job' \in [Worker -> Job]
    BY <1>15, TakeType, MessageType DEF TypeOK, EndUnknown, JobPc
  <2> QED
    BY <1>15, <2>1 DEF TypeOK, EndUnknown, Take
<1>16. ASSUME NEW w \in Worker, NEW s \in Session, EndKnown(w, s)
       PROVE  TypeOK'
  <2>1. queue' \in [Message -> Nat] /\ job' \in [Worker -> Job]
    BY <1>16, TakeType, MessageType DEF TypeOK, EndKnown, JobPc
  <2>2. destroy' \in [Worker -> [Thread -> Destroying]]
    BY <1>16, DestroyUpdates DEF TypeOK, EndKnown, BeginDestroy, Thread
  <2> QED
    BY <1>16, <2>1, <2>2 DEF TypeOK, EndKnown, Take
<1>17. ASSUME NEW w \in Worker, NEW s \in Session, EndLookupFails(w, s)
       PROVE  TypeOK'
  <2>1. queue' \in [Message -> Nat] /\ job' \in [Worker -> Job]
    BY <1>17, TakeType, MessageType DEF TypeOK, EndLookupFails, JobPc
  <2>2. faults' \in Happened
    BY <1>17 DEF TypeOK, EndLookupFails, Fault, Happened
  <2> QED
    BY <1>17, <2>1, <2>2 DEF TypeOK, EndLookupFails, Take
<1>18. ASSUME NEW w \in Worker, NEW t \in Thread, DestroyRemove(w, t)
       PROVE  TypeOK'
  <2>1. box' \in [Container -> Box]
    BY <1>18, RemovedType DEF TypeOK, DestroyRemove
  <2>2. destroy' \in [Worker -> [Thread -> Destroying]]
    BY <1>18, DestroyUpdates DEF TypeOK, DestroyRemove
  <2>3. faults' \in Happened
    BY <1>18 DEF TypeOK, DestroyRemove, CallWorks, CallFails, JobCallWorks, JobCallFails, Fault, Happened
  <2> QED
    BY <1>18, <2>1, <2>2, <2>3 DEF TypeOK, DestroyRemove
<1>19. ASSUME NEW w \in Worker, NEW t \in Thread, DestroyUnlink(w, t)
       PROVE  TypeOK'
  <2>1. redis' \in [Session -> SessionData]
    BY <1>19, EmptyRecords DEF TypeOK, DestroyUnlink
  <2>2. destroy' \in [Worker -> [Thread -> Destroying]]
    BY <1>19, DestroyUpdates DEF TypeOK, DestroyUnlink
  <2>3. faults' \in Happened
    BY <1>19 DEF TypeOK, DestroyUnlink, CallWorks, CallFails, JobCallWorks, JobCallFails, Fault, Happened
  <2> QED
    BY <1>19, <2>1, <2>2, <2>3 DEF TypeOK, DestroyUnlink
<1>20. ASSUME NEW w \in Worker, NEW t \in Thread, DestroyForget(w, t)
       PROVE  TypeOK'
  <2>1. mem' \in [Worker -> [Session -> SessionData]]
    BY <1>20, EmptyRecords DEF TypeOK, DestroyForget
  <2>2. destroy' \in [Worker -> [Thread -> Destroying]]
    BY <1>20, DestroyUpdates DEF TypeOK, DestroyForget
  <2>3. job' \in [Worker -> Job]
    BY <1>20, JobUpdates DEF TypeOK, DestroyForget, JobPc
  <2> QED
    BY <1>20, <2>1, <2>2, <2>3 DEF TypeOK, DestroyForget
<1>21. ASSUME NEW w \in Worker, SweepBegin(w)
       PROVE  TypeOK'
  <2>1. sweep' \in [Worker -> Sweeping]
    BY <1>21 DEF TypeOK, SweepBegin, Active, Sweeping
  <2> QED
    BY <1>21, <2>1 DEF TypeOK, SweepBegin
<1>22. ASSUME NEW w \in Worker, NEW s \in Session, SweepDestroy(w, s)
       PROVE  TypeOK'
  <2>1. sweep' \in [Worker -> Sweeping]
    BY <1>22 DEF TypeOK, SweepDestroy, Sweeps, Sweeping
  <2>2. UNCHANGED destroy \/ BeginDestroy(w, "reaper", s)
    BY <1>22 DEF SweepDestroy
  <2>3. destroy' \in [Worker -> [Thread -> Destroying]]
    <3>1. CASE UNCHANGED destroy
      BY <3>1 DEF TypeOK
    <3>2. CASE BeginDestroy(w, "reaper", s)
      BY <3>2, DestroyUpdates DEF BeginDestroy, Thread
    <3> QED
      BY <2>2, <3>1, <3>2
  <2> QED
    BY <1>22, <2>1, <2>3 DEF TypeOK, SweepDestroy
<1>23. ASSUME NEW w \in Worker, NEW s \in Session, SweepKeep(w, s)
       PROVE  TypeOK'
  <2>1. sweep' \in [Worker -> Sweeping]
    BY <1>23 DEF TypeOK, SweepKeep, Sweeps, Sweeping
  <2>2. faults' \in Happened
    BY <1>23 DEF TypeOK, SweepKeep, Fault, Happened
  <2> QED
    BY <1>23, <2>1, <2>2 DEF TypeOK, SweepKeep
<1>24. ASSUME NEW w \in Worker, SweepOrphans(w)
       PROVE  TypeOK'
  <2>1. PICK reaped \in SUBSET Orphans(w) :
          box' = [c \in Container |->
                    IF c \in reaped THEN [box[c] EXCEPT !.state = "gone"] ELSE box[c]]
    BY <1>24 DEF SweepOrphans
  <2>2. \A b \in Box : [b EXCEPT !.state = "gone"] \in Box
    BY DEF Box
  <2>3. box' \in [Container -> Box]
    BY <2>1, <2>2 DEF TypeOK
  <2>4. sweep' \in [Worker -> Sweeping]
    BY <1>24, EmptyRecords DEF TypeOK, SweepOrphans
  <2>5. faults' \in Happened
    BY <1>24 DEF TypeOK, SweepOrphans, Fault, Happened
  <2> QED
    BY <1>24, <2>3, <2>4, <2>5 DEF TypeOK, SweepOrphans
<1>25. ASSUME Tick
       PROVE  TypeOK'
  <2>1. mem' \in [Worker -> [Session -> SessionData]]
    BY <1>25, AgedDataType DEF TypeOK, Tick
  <2>2. redis' \in [Session -> SessionData]
    BY <1>25, AgedDataType, EmptyRecords DEF TypeOK, Tick
  <2>3. box' \in [Container -> Box]
    BY <1>25, BoxUpdates DEF TypeOK, Tick
  <2>4. job' \in [Worker -> Job]
    BY <1>25, JobUpdates DEF TypeOK, Tick
  <2> QED
    BY <1>25, <2>1, <2>2, <2>3, <2>4 DEF TypeOK, Tick
<1>26. ASSUME NEW w \in Worker, Crash(w)
       PROVE  TypeOK'
  <2>1. mem' \in [Worker -> [Session -> SessionData]]
    BY <1>26, EmptyRecords DEF TypeOK, Crash
  <2>2. queue' \in [Message -> Nat]
    BY <1>26, RequeueType DEF TypeOK, Crash
  <2>3. job' \in [Worker -> Job]
    BY <1>26, EmptyRecords DEF TypeOK, Crash
  <2>4. destroy' \in [Worker -> [Thread -> Destroying]]
    BY <1>26, EmptyRecords DEF TypeOK, Crash
  <2>5. sweep' \in [Worker -> Sweeping]
    BY <1>26, EmptyRecords DEF TypeOK, Crash
  <2>6. up' \subseteq Worker
    BY <1>26 DEF TypeOK, Crash
  <2>7. faults' \in Happened
    BY <1>26 DEF TypeOK, Crash, Fault, Happened
  <2> QED
    BY <1>26, <2>1, <2>2, <2>3, <2>4, <2>5, <2>6, <2>7 DEF TypeOK, Crash
<1>27. ASSUME NEW w \in Worker, Restart(w)
       PROVE  TypeOK'
  <2>1. mem' \in [Worker -> [Session -> SessionData]]
    BY <1>27 DEF TypeOK, Restart
  <2>2. up' \subseteq Worker
    BY <1>27 DEF TypeOK, Restart
  <2> QED
    BY <1>27, <2>1, <2>2 DEF TypeOK, Restart
<1>28. ASSUME NEW w \in Worker, ConnectionLost(w)
       PROVE  TypeOK'
  <2>1. queue' \in [Message -> Nat]
    BY <1>28, RequeueType DEF TypeOK, ConnectionLost
  <2>2. job' \in [Worker -> Job]
    BY <1>28, JobUpdates DEF TypeOK, ConnectionLost
  <2>3. faults' \in Happened
    BY <1>28 DEF TypeOK, ConnectionLost, Fault, Happened
  <2> QED
    BY <1>28, <2>1, <2>2, <2>3 DEF TypeOK, ConnectionLost
<1>29. ASSUME NEW w \in Worker, JobTimeout(w)
       PROVE  TypeOK'
  <2>1. job' \in [Worker -> Job]
    BY <1>29, JobUpdates DEF TypeOK, JobTimeout
  <2>2. faults' \in Happened
    BY <1>29 DEF TypeOK, JobTimeout, Fault, Happened
  <2> QED
    BY <1>29, <2>1, <2>2 DEF TypeOK, JobTimeout
<1>30. ASSUME NEW c \in Container, ContainerDies(c)
       PROVE  TypeOK'
  <2>1. box' \in [Container -> Box]
    BY <1>30 DEF TypeOK, ContainerDies, Box
  <2>2. faults' \in Happened
    BY <1>30 DEF TypeOK, ContainerDies, Fault, Happened
  <2> QED
    BY <1>30, <2>1, <2>2 DEF TypeOK, ContainerDies
<1>31. ASSUME NEW w \in Worker, NEW c \in Container, DiskQuotaKill(w, c)
       PROVE  TypeOK'
  <2>1. box' \in [Container -> Box]
    BY <1>31, RemovedType DEF TypeOK, DiskQuotaKill
  <2>2. faults' \in Happened
    BY <1>31 DEF TypeOK, DiskQuotaKill, Fault, Happened
  <2> QED
    BY <1>31, <2>1, <2>2 DEF TypeOK, DiskQuotaKill
<1> QED
  BY <1>1, <1>2, <1>3, <1>4, <1>5, <1>6, <1>7, <1>8, <1>9, <1>10, <1>11, <1>12, <1>13, <1>14, <1>15, <1>16,
     <1>17, <1>18, <1>19, <1>20, <1>21, <1>22, <1>23, <1>24, <1>25, <1>26, <1>27, <1>28, <1>29, <1>30, <1>31
     DEF Next, JobStep, ReaperStep, CreateStep, EndStep, DestroyStep, SweepStep, Mishap, Thread


\* Every step leaves a handler with its message and a Destroy with its handler.
LEMMA JobOKStep ==
    ASSUME TypeOK, JobOK, Next
    PROVE  JobOK'
<1> USE DEF JobOK, NoDestroy
<1>1. ASSUME NEW s \in Session, PublishStarted(s) \/ PublishEnded(s)
      PROVE  JobOK'
  BY <1>1 DEF PublishStarted, PublishEnded, Publish
<1>2. ASSUME NEW w \in Worker, NEW s \in Session,
             CreateExisting(w, s) \/ CreateBegin(w, s) \/ EndUnknown(w, s) \/ EndLookupFails(w, s)
      PROVE  JobOK'
  <2>1. PICK m \in Message, pc \in JobPc : Take(w, m, pc)
    BY <1>2, MessageType DEF CreateExisting, CreateBegin, EndUnknown, EndLookupFails, JobPc
  <2>2. UNCHANGED destroy
    BY <1>2 DEF CreateExisting, CreateBegin, EndUnknown, EndLookupFails
  <2> QED
    BY <2>1, <2>2 DEF Take, TypeOK, Job, IdleJob
<1>3. ASSUME NEW w \in Worker, NEW s \in Session, EndKnown(w, s)
      PROVE  JobOK'
  BY <1>3, MessageType DEF EndKnown, Take, BeginDestroy, TypeOK, Job, IdleJob, Thread
<1>4. ASSUME NEW w \in Worker,
             Provision(w) \/ ProvisionFails(w) \/ ProvisionTimesOut(w) \/ Withdraw(w)
                 \/ SaveFinal(w) \/ SaveFails(w) \/ Discard(w) \/ Register(w) \/ ReportFailure(w)
      PROVE  JobOK'
  <2>1. job[w].pc \notin {"idle", "destroy"} /\ UNCHANGED destroy
    BY <1>4 DEF Provision, ProvisionFails, ProvisionTimesOut, Withdraw, SaveFinal,
                SaveFails, Discard, Register, ReportFailure
  <2>2. \A v \in Worker : job'[v].msg = job[v].msg /\ (v # w => job'[v].pc = job[v].pc)
    <3>1. CASE Provision(w)
      BY <3>1 DEF Provision, TypeOK, Job
    <3>2. CASE ~Provision(w)
      <4>1. PICK pc \in JobPc : job' = [job EXCEPT ![w].pc = pc]
        BY <1>4, <3>2 DEF ProvisionFails, ProvisionTimesOut, Withdraw, SaveFinal, SaveFails,
                          Discard, Register, ReportFailure, JobPc
      <4> QED
        BY <4>1 DEF TypeOK, Job
    <3> QED
      BY <3>1, <3>2
  <2> QED
    BY <2>1, <2>2
<1>5. ASSUME NEW w \in Worker, Settle(w) \/ Crash(w)
      PROVE  JobOK'
  <2>1. job' = [job EXCEPT ![w] = IdleJob]
    BY <1>5 DEF Settle, Crash
  <2>2. destroy'[w]["job"].step = "none" /\ \A v \in Worker : v # w => destroy'[v] = destroy[v]
    BY <1>5 DEF Settle, Crash, TypeOK, Thread
  <2> QED
    BY <2>1, <2>2 DEF TypeOK, IdleJob
<1>6. ASSUME NEW w \in Worker, NEW t \in Thread,
             DestroyRemove(w, t) \/ DestroyUnlink(w, t)
      PROVE  JobOK'
  BY <1>6 DEF DestroyRemove, DestroyUnlink, TypeOK, Destroying, Thread
<1>7. ASSUME NEW w \in Worker, NEW t \in Thread, DestroyForget(w, t)
      PROVE  JobOK'
  BY <1>7 DEF DestroyForget, TypeOK, Job, Destroying, Thread
<1>8. ASSUME NEW w \in Worker, NEW s \in Session, SweepDestroy(w, s)
      PROVE  JobOK'
  BY <1>8 DEF SweepDestroy, BeginDestroy, TypeOK, Thread
<1>9. ASSUME NEW w \in Worker,
             \/ SweepBegin(w) \/ SweepOrphans(w) \/ Restart(w)
             \/ \E s \in Session : SweepKeep(w, s)
             \/ \E c \in Container : ContainerDies(c) \/ DiskQuotaKill(w, c)
      PROVE  JobOK'
  BY <1>9 DEF SweepBegin, SweepOrphans, Restart, SweepKeep, ContainerDies, DiskQuotaKill
<1>10. ASSUME Tick
       PROVE  JobOK'
  BY <1>10 DEF Tick, TypeOK, Job
<1>11. ASSUME NEW w \in Worker, ConnectionLost(w) \/ JobTimeout(w)
       PROVE  JobOK'
  <2>1. \A v \in Worker : job'[v].msg = job[v].msg /\ job'[v].pc = job[v].pc
    <3>1. CASE ConnectionLost(w)
      BY <3>1 DEF ConnectionLost, TypeOK, Job
    <3>2. CASE JobTimeout(w)
      BY <3>2 DEF JobTimeout, TypeOK, Job
    <3> QED
      BY <1>11, <3>1, <3>2
  <2>2. UNCHANGED destroy
    BY <1>11 DEF ConnectionLost, JobTimeout
  <2> QED
    BY <2>1, <2>2
<1>12. ASSUME NEW c \in Container, ContainerDies(c)
       PROVE  JobOK'
  BY <1>12 DEF ContainerDies
<1> QED
  BY <1>1, <1>2, <1>3, <1>4, <1>5, <1>6, <1>7, <1>8, <1>9, <1>10, <1>11, <1>12
     DEF Next, JobStep, ReaperStep, CreateStep, EndStep, DestroyStep, SweepStep, Mishap, Thread

\* The initial state has the types and no job.
LEMMA InitTyped == Init => TypeOK /\ JobOK
<1> SUFFICES ASSUME Init PROVE TypeOK /\ JobOK
  OBVIOUS
<1>1. TypeOK
  BY EmptyRecords DEF Init, TypeOK, Happened
<1>2. JobOK
  BY DEF Init, JobOK, IdleJob, NoDestroy, Thread
<1> QED
  BY <1>1, <1>2

\* Every variable keeps its type, in every behaviour of the workers.
THEOREM TypeCorrect == Spec => []TypeOK
<1>1. Init => TypeOK /\ JobOK
  BY InitTyped
<1>2. TypeOK /\ JobOK /\ [Next]_vars => (TypeOK /\ JobOK)'
  <2>1. CASE Next
    BY <2>1, TypeStep, JobOKStep
  <2>2. CASE UNCHANGED vars
    BY <2>2 DEF vars, TypeOK, JobOK
  <2> QED
    BY <2>1, <2>2
<1> QED
  BY <1>1, <1>2, PTL DEF Spec


-----------------------------------------------------------------------------
(* Records name containers of their own session                            *)

\* No step gives a container back or away.
LEMMA BoxesStep ==
    ASSUME TypeOK, Next
    PROVE  BoxesKeepOwner
<1> USE DEF BoxesKeepOwner
<1>1. ASSUME UNCHANGED box
      PROVE  BoxesKeepOwner
  BY <1>1
<1>2. ASSUME NEW w \in Worker, NEW r, box' = Removed(w, r)
      PROVE  BoxesKeepOwner
  BY <1>2, RemovedType DEF TypeOK
<1>3. ASSUME NEW w \in Worker, Provision(w) \/ ProvisionTimesOut(w)
      PROVE  BoxesKeepOwner
  BY <1>1, <1>3 DEF Provision, ProvisionTimesOut, TypeOK
<1>4. ASSUME NEW w \in Worker, Discard(w)
      PROVE  BoxesKeepOwner
  BY <1>1, <1>2, <1>4 DEF Discard
<1>5. ASSUME NEW w \in Worker, NEW t \in Thread, DestroyRemove(w, t)
      PROVE  BoxesKeepOwner
  BY <1>1, <1>2, <1>5 DEF DestroyRemove
<1>6. ASSUME NEW w \in Worker, SweepOrphans(w)
      PROVE  BoxesKeepOwner
  BY <1>6 DEF SweepOrphans, TypeOK, Box
<1>7. ASSUME Tick
      PROVE  BoxesKeepOwner
  BY <1>7 DEF Tick, TypeOK, Box
<1>8. ASSUME NEW c \in Container, ContainerDies(c)
      PROVE  BoxesKeepOwner
  BY <1>8 DEF ContainerDies, TypeOK, Box
<1>9. ASSUME NEW w \in Worker, NEW c \in Container, DiskQuotaKill(w, c)
      PROVE  BoxesKeepOwner
  BY <1>2, <1>9 DEF DiskQuotaKill
<1> QED
  BY <1>1, <1>3, <1>4, <1>5, <1>6, <1>7, <1>8, <1>9
     DEF Next, JobStep, ReaperStep, CreateStep, EndStep, DestroyStep, SweepStep, Mishap, Thread,
         PublishStarted, PublishEnded, Publish, CreateExisting, CreateBegin, ProvisionFails,
         Withdraw, SaveFinal, SaveFails, Register, ReportFailure, Settle, EndUnknown, EndKnown,
         EndLookupFails, DestroyUnlink, DestroyForget, SweepBegin, SweepDestroy, SweepKeep, Crash, Restart,
         ConnectionLost, JobTimeout

\* A record without a runtime, or still provisioning, names no container.
LEMMA NoContainer ==
    ASSUME NEW s
    PROVE  Owned(s, None) /\ Owned(s, Provisioning) /\ Owned(s, NoData.runtime)
BY RuntimeAssumption DEF Owned, NoData

\* A worker's memory only gains what a Create registers or what Redis held.
LEMMA MemoryStep ==
    ASSUME TypeOK, JobOK, RecordsNameOwnContainer, CreateOwns, Next,
           NEW v \in Worker, NEW x \in Session
    PROVE  Owned(x, mem'[v][x].runtime)
<1> USE DEF RecordsNameOwnContainer
<1>1. CASE UNCHANGED mem
  BY <1>1
<1>2. ASSUME NEW w \in Worker, Register(w)
      PROVE  Owned(x, mem'[v][x].runtime)
  BY <1>2 DEF Register, CreateOwns, TypeOK
<1>3. ASSUME NEW w \in Worker, NEW t \in Thread, DestroyForget(w, t)
      PROVE  Owned(x, mem'[v][x].runtime)
  BY <1>3, NoContainer DEF DestroyForget, TypeOK
<1>4. ASSUME NEW w \in Worker, Crash(w)
      PROVE  Owned(x, mem'[v][x].runtime)
  BY <1>4, NoContainer DEF Crash, TypeOK
<1>5. ASSUME NEW w \in Worker, Restart(w)
      PROVE  Owned(x, mem'[v][x].runtime)
  BY <1>5 DEF Restart, TypeOK
<1>6. CASE Tick
  BY <1>6, AgedDataType DEF Tick, TypeOK
<1> QED
  BY <1>1, <1>2, <1>3, <1>4, <1>5, <1>6
     DEF Next, JobStep, ReaperStep, CreateStep, EndStep, DestroyStep, SweepStep, Mishap, Thread,
         PublishStarted, PublishEnded, Publish, CreateExisting, CreateBegin, Provision,
         ProvisionFails, ProvisionTimesOut, Withdraw, SaveFinal, SaveFails, Discard,
         ReportFailure, Settle,
         EndUnknown, EndKnown, EndLookupFails, DestroyRemove, DestroyUnlink, SweepBegin,
         SweepDestroy, SweepKeep, SweepOrphans, ConnectionLost, JobTimeout, ContainerDies,
         DiskQuotaKill

\* Redis only gains what a Create saves.
LEMMA RedisStep ==
    ASSUME TypeOK, JobOK, RecordsNameOwnContainer, CreateOwns, Next, NEW x \in Session
    PROVE  Owned(x, redis'[x].runtime)
<1> USE DEF RecordsNameOwnContainer
<1>1. CASE UNCHANGED redis
  BY <1>1
<1>2. ASSUME NEW w \in Worker, NEW s \in Session, CreateBegin(w, s)
      PROVE  Owned(x, redis'[x].runtime)
  <2>1. redis'[x] = redis[x] \/ redis'[x] = [runtime |-> Provisioning, age |-> 0]
    BY <1>2 DEF CreateBegin, TypeOK
  <2>2. redis'[x].runtime = redis[x].runtime \/ redis'[x].runtime = Provisioning
    BY <2>1
  <2> QED
    BY <2>2, NoContainer
<1>3. ASSUME NEW w \in Worker, Withdraw(w)
      PROVE  Owned(x, redis'[x].runtime)
  BY <1>3, NoContainer DEF Withdraw, TypeOK
<1>4. ASSUME NEW w \in Worker, SaveFinal(w)
      PROVE  Owned(x, redis'[x].runtime)
  BY <1>4 DEF SaveFinal, CreateOwns, TypeOK
<1>5. ASSUME NEW w \in Worker, NEW t \in Thread, DestroyUnlink(w, t)
      PROVE  Owned(x, redis'[x].runtime)
  BY <1>5, NoContainer DEF DestroyUnlink, TypeOK
<1>6. CASE Tick
  BY <1>6, AgedDataType, NoContainer DEF Tick, TypeOK
<1> QED
  BY <1>1, <1>2, <1>3, <1>4, <1>5, <1>6
     DEF Next, JobStep, ReaperStep, CreateStep, EndStep, DestroyStep, SweepStep, Mishap, Thread,
         PublishStarted, PublishEnded, Publish, CreateExisting, Provision,
         ProvisionFails, ProvisionTimesOut, SaveFails, Discard, Register, ReportFailure, Settle,
         EndUnknown, EndKnown, EndLookupFails, DestroyRemove, DestroyForget, SweepBegin,
         SweepDestroy, SweepKeep, SweepOrphans, Crash, Restart, ConnectionLost, JobTimeout,
         ContainerDies, DiskQuotaKill

\* The reaper's snapshot is a copy of memory.
LEMMA SnapshotStep ==
    ASSUME TypeOK, RecordsNameOwnContainer, Next, NEW v \in Worker, NEW x \in Session
    PROVE  Owned(x, sweep'[v].snap[x].runtime)
<1> USE DEF RecordsNameOwnContainer
<1>1. CASE UNCHANGED sweep
  BY <1>1
<1>2. ASSUME NEW w \in Worker, SweepBegin(w)
      PROVE  Owned(x, sweep'[v].snap[x].runtime)
  BY <1>2 DEF SweepBegin, TypeOK
<1>3. ASSUME NEW w \in Worker, NEW s \in Session, SweepDestroy(w, s) \/ SweepKeep(w, s)
      PROVE  Owned(x, sweep'[v].snap[x].runtime)
  BY <1>3 DEF SweepDestroy, SweepKeep, Sweeps, TypeOK, Sweeping
<1>4. ASSUME NEW w \in Worker, SweepOrphans(w) \/ Crash(w)
      PROVE  Owned(x, sweep'[v].snap[x].runtime)
  <2>1. sweep' = [sweep EXCEPT ![w] = NoSweep]
    BY <1>4 DEF SweepOrphans, Crash
  <2>2. NoSweep.snap[x].runtime \notin Container
    BY RuntimeAssumption DEF NoSweep, NoData
  <2>3. CASE v = w
    BY <2>1, <2>2, <2>3 DEF TypeOK, Owned
  <2>4. CASE v # w
    BY <2>1, <2>4 DEF TypeOK
  <2> QED
    BY <2>3, <2>4
<1> QED
  BY <1>1, <1>2, <1>3, <1>4
     DEF Next, JobStep, ReaperStep, CreateStep, EndStep, DestroyStep, SweepStep, Mishap, Thread,
         PublishStarted, PublishEnded, Publish, CreateExisting, CreateBegin, Provision,
         ProvisionFails, ProvisionTimesOut, Withdraw, SaveFinal, SaveFails, Discard, Register,
         ReportFailure, Settle,
         EndUnknown, EndKnown, EndLookupFails, DestroyRemove, DestroyUnlink, DestroyForget,
         Restart, Tick, ConnectionLost, JobTimeout, ContainerDies, DiskQuotaKill

\* A Destroy works on the record that Get finds.
LEMMA DestroyingStep ==
    ASSUME TypeOK, RecordsNameOwnContainer, Next, NEW v \in Worker, NEW u \in Thread,
           destroy'[v][u].step # "none"
    PROVE  Owned(destroy'[v][u].session, destroy'[v][u].runtime)
<1> USE DEF RecordsNameOwnContainer
<1>1. CASE UNCHANGED destroy
  BY <1>1
<1>2. ASSUME NEW w \in Worker, NEW t \in Thread, NEW s \in Session, BeginDestroy(w, t, s)
      PROVE  Owned(destroy'[v][u].session, destroy'[v][u].runtime)
  <2>1. Owned(s, Get(w, s).runtime)
    BY DEF Get
  <2> QED
    BY <1>2, <2>1 DEF BeginDestroy, TypeOK
<1>3. ASSUME NEW w \in Worker, NEW t \in Thread, DestroyRemove(w, t) \/ DestroyUnlink(w, t)
      PROVE  Owned(destroy'[v][u].session, destroy'[v][u].runtime)
  <2>1. destroy[w][t].step # "none"
    BY <1>3 DEF DestroyRemove, DestroyUnlink
  <2>2. PICK step : destroy' = [destroy EXCEPT ![w][t].step = step]
    BY <1>3 DEF DestroyRemove, DestroyUnlink
  <2>3. /\ destroy'[v][u].session = destroy[v][u].session
        /\ destroy'[v][u].runtime = destroy[v][u].runtime
    BY <2>2 DEF TypeOK, Destroying
  <2>4. destroy[v][u].step # "none"
    BY <2>1, <2>2 DEF TypeOK
  <2> QED
    BY <2>3, <2>4
<1>4. ASSUME NEW w \in Worker, NEW t \in Thread, DestroyForget(w, t) \/ Crash(w)
      PROVE  Owned(destroy'[v][u].session, destroy'[v][u].runtime)
  <2>1. destroy'[v][u] = destroy[v][u] \/ destroy'[v][u] = NoDestroy
    <3>1. CASE DestroyForget(w, t)
      BY <3>1 DEF DestroyForget, TypeOK
    <3>2. CASE Crash(w)
      BY <3>2 DEF Crash, TypeOK
    <3> QED
      BY <1>4, <3>1, <3>2
  <2>2. NoDestroy.step = "none"
    BY DEF NoDestroy
  <2> QED
    BY <2>1, <2>2
<1>5. ASSUME NEW w \in Worker, NEW s \in Session, EndKnown(w, s) \/ SweepDestroy(w, s)
      PROVE  Owned(destroy'[v][u].session, destroy'[v][u].runtime)
  BY <1>1, <1>2, <1>5 DEF EndKnown, SweepDestroy, Thread
<1> QED
  BY <1>1, <1>3, <1>4, <1>5
     DEF Next, JobStep, ReaperStep, CreateStep, EndStep, DestroyStep, SweepStep, Mishap, Thread,
         PublishStarted, PublishEnded, Publish, CreateExisting, CreateBegin, Provision,
         ProvisionFails, ProvisionTimesOut, Withdraw, SaveFinal, SaveFails, Discard, Register,
         ReportFailure, Settle,
         EndUnknown, EndLookupFails, SweepBegin, SweepKeep, SweepOrphans,
         Restart, Tick, ConnectionLost, JobTimeout, ContainerDies, DiskQuotaKill

\* The record of a Create in progress names the container that Provision made.
LEMMA CreateOwnsStep ==
    ASSUME TypeOK, JobOK, CreateOwns, Next, BoxesKeepOwner,
           NEW v \in Worker, job'[v].pc \in {"save", "register"}
    PROVE  Owned(job[v].msg.session, job[v].data.runtime)'
<1>1. ASSUME job'[v].msg = job[v].msg, job'[v].data.runtime = job[v].data.runtime,
             job[v].pc \in {"save", "register"}
      PROVE  Owned(job[v].msg.session, job[v].data.runtime)'
  BY <1>1 DEF CreateOwns, Owned, BoxesKeepOwner
<1>2. CASE job'[v] = job[v]
  BY <1>1, <1>2
<1>3. ASSUME NEW w \in Worker, Provision(w)
      PROVE  Owned(job[v].msg.session, job[v].data.runtime)'
  <2>1. PICK c \in Container :
          /\ box' = [box EXCEPT ![c] = NewBox(w, job[w].msg.session)]
          /\ job' = [job EXCEPT ![w] = [@ EXCEPT !.pc = "save", !.data = [runtime |-> c, age |-> 0]]]
    BY <1>3 DEF Provision
  <2>2. CASE v # w
    BY <1>2, <2>1, <2>2 DEF TypeOK
  <2>3. CASE v = w
    <3>1. job'[v].msg = job[v].msg /\ job'[v].data.runtime = c
      BY <2>1, <2>3 DEF TypeOK, Job
    <3>2. box'[c].state = "running" /\ box'[c].owner = job[v].msg.session
      BY <2>1, <2>3 DEF TypeOK, NewBox
    <3> QED
      BY <3>1, <3>2 DEF Owned
  <2> QED
    BY <2>2, <2>3
<1>4. ASSUME NEW w \in Worker, SaveFinal(w)
      PROVE  Owned(job[v].msg.session, job[v].data.runtime)'
  <2>1. job[w].pc = "save" /\ job' = [job EXCEPT ![w].pc = "register"]
    BY <1>4 DEF SaveFinal
  <2>2. job'[v].msg = job[v].msg /\ job'[v].data = job[v].data
    BY <2>1 DEF TypeOK, Job
  <2>3. job[v].pc \in {"save", "register"}
    BY <2>1 DEF TypeOK
  <2> QED
    BY <1>1, <2>2, <2>3
<1>5. ASSUME NEW w \in Worker, NEW j \in Job, job' = [job EXCEPT ![w] = j],
             j.pc \notin {"save", "register"}
      PROVE  Owned(job[v].msg.session, job[v].data.runtime)'
  BY <1>2, <1>5 DEF TypeOK
<1>6. ASSUME NEW w \in Worker, NEW pc \in JobPc, job' = [job EXCEPT ![w].pc = pc],
             pc \notin {"save", "register"}
      PROVE  Owned(job[v].msg.session, job[v].data.runtime)'
  <2>1. \A j \in Job : [j EXCEPT !.pc = pc].pc = pc
    BY DEF Job
  <2>2. [job[w] EXCEPT !.pc = pc] \in Job /\ [job[w] EXCEPT !.pc = pc].pc = pc
    BY <2>1, JobUpdates DEF TypeOK
  <2> QED
    BY <1>5, <1>6, <2>2
<1>7. ASSUME NEW w \in Worker, NEW m \in Message, NEW pc \in JobPc, Take(w, m, pc),
             pc \notin {"save", "register"}
      PROVE  Owned(job[v].msg.session, job[v].data.runtime)'
  <2>1. [IdleJob EXCEPT !.pc = pc, !.msg = m, !.unacked = TRUE].pc = pc
    BY DEF IdleJob
  <2> QED
    BY <1>5, <1>7, <2>1, NewJobType DEF Take
<1>8. ASSUME NEW w \in Worker, NEW s \in Session,
             CreateExisting(w, s) \/ CreateBegin(w, s) \/ EndUnknown(w, s) \/ EndKnown(w, s)
                 \/ EndLookupFails(w, s)
      PROVE  Owned(job[v].msg.session, job[v].data.runtime)'
  BY <1>7, <1>8, MessageType
     DEF CreateExisting, CreateBegin, EndUnknown, EndKnown, EndLookupFails, JobPc
<1>9. ASSUME NEW w \in Worker, Settle(w) \/ Crash(w)
      PROVE  Owned(job[v].msg.session, job[v].data.runtime)'
  <2>1. IdleJob.pc = "idle"
    BY DEF IdleJob
  <2> QED
    BY <1>5, <1>9, <2>1, EmptyRecords DEF Settle, Crash
<1>10. ASSUME NEW w \in Worker, Register(w) \/ ProvisionFails(w) \/ ProvisionTimesOut(w)
                                   \/ Withdraw(w) \/ SaveFails(w) \/ Discard(w)
                                   \/ ReportFailure(w)
       PROVE  Owned(job[v].msg.session, job[v].data.runtime)'
  BY <1>6, <1>10
     DEF Register, ProvisionFails, ProvisionTimesOut, Withdraw, SaveFails, Discard,
         ReportFailure, JobPc
<1>11. ASSUME NEW w \in Worker, NEW t \in Thread, DestroyForget(w, t)
       PROVE  Owned(job[v].msg.session, job[v].data.runtime)'
  BY <1>2, <1>6, <1>11 DEF DestroyForget, JobPc
<1>12. CASE Tick
  <2>1. job'[v] = [job[v] EXCEPT !.data = AgedData(@), !.old = job[v].pc # "idle"]
    BY <1>12 DEF Tick
  <2>2. job[v] \in Job /\ job[v].data \in SessionData
    BY DEF TypeOK, Job
  <2>3. /\ job'[v].pc = job[v].pc /\ job'[v].msg = job[v].msg
        /\ job'[v].data.runtime = job[v].data.runtime
    BY <2>1, <2>2, AgedDataType DEF Job
  <2> QED
    BY <1>1, <2>3
<1>13. ASSUME NEW w \in Worker, ConnectionLost(w) \/ JobTimeout(w)
       PROVE  Owned(job[v].msg.session, job[v].data.runtime)'
  <2>1. job'[v].pc = job[v].pc /\ job'[v].msg = job[v].msg /\ job'[v].data = job[v].data
    <3>1. CASE ConnectionLost(w)
      BY <3>1 DEF ConnectionLost, TypeOK, Job
    <3>2. CASE JobTimeout(w)
      BY <3>2 DEF JobTimeout, TypeOK, Job
    <3> QED
      BY <1>13, <3>1, <3>2
  <2> QED
    BY <1>1, <2>1
<1>14. CASE UNCHANGED job
  BY <1>2, <1>14
<1> QED
  BY <1>3, <1>4, <1>8, <1>9, <1>10, <1>11, <1>12, <1>13, <1>14
     DEF Next, JobStep, ReaperStep, CreateStep, EndStep, DestroyStep, SweepStep, Mishap, Thread,
         PublishStarted, PublishEnded, Publish, DestroyRemove, DestroyUnlink, SweepBegin,
         SweepDestroy, SweepKeep, SweepOrphans, Restart, ContainerDies, DiskQuotaKill

\* The inductive invariant holds initially and is kept by every step.
LEMMA InitIInv == Init => IInv
BY InitTyped, NoContainer
   DEF Init, IInv, RecordsNameOwnContainer, CreateOwns, IdleJob, NoDestroy, NoSweep, Thread

LEMMA StepIInv == IInv /\ [Next]_vars => IInv'
<1> SUFFICES ASSUME IInv, [Next]_vars PROVE IInv'
  OBVIOUS
<1>1. CASE UNCHANGED vars
  BY <1>1 DEF vars, IInv, TypeOK, JobOK, RecordsNameOwnContainer, CreateOwns, Owned
<1>2. CASE Next
  <2> USE DEF IInv
  <2>1. BoxesKeepOwner
    BY <1>2, BoxesStep
  <2>2. ASSUME NEW s, NEW r, Owned(s, r)
        PROVE  r \in Container => box'[r].state # "free" /\ box'[r].owner = s
    BY <2>1, <2>2 DEF Owned, BoxesKeepOwner
  <2>3. \A w \in Worker, s \in Session : Owned(s, mem[w][s].runtime)'
    BY <1>2, <2>2, MemoryStep DEF Owned
  <2>4. \A s \in Session : Owned(s, redis[s].runtime)'
    BY <1>2, <2>2, RedisStep DEF Owned
  <2>5. \A w \in Worker, s \in Session : Owned(s, sweep[w].snap[s].runtime)'
    BY <1>2, <2>2, SnapshotStep DEF Owned
  <2>6. \A w \in Worker, t \in Thread :
            destroy'[w][t].step # "none" => Owned(destroy[w][t].session, destroy[w][t].runtime)'
    BY <1>2, <2>2, DestroyingStep DEF Owned
  <2>7. CreateOwns'
    BY <1>2, <2>1, CreateOwnsStep DEF CreateOwns
  <2>8. TypeOK' /\ JobOK'
    BY <1>2, TypeStep, JobOKStep
  <2> QED
    BY <2>3, <2>4, <2>5, <2>6, <2>7, <2>8 DEF RecordsNameOwnContainer
<1> QED
  BY <1>1, <1>2

\* Ending a session never removes the container of another: whatever record of a
\* session is around names a container provisioned for that session.
THEOREM RecordsCorrect == Spec => []RecordsNameOwnContainer
<1>1. IInv => RecordsNameOwnContainer
  BY DEF IInv
<1> QED
  BY <1>1, InitIInv, StepIInv, PTL DEF Spec

-----------------------------------------------------------------------------
(* How a Create fails, and what duplicates of it do                         *)

\* The calls of a Create, between the check of the worker's memory and its outcome.
CreatePc == {"provision", "withdraw", "save", "discard", "register"}

\* The job of worker w is session.started of s; it is in its Create.
On(w, s)       == job[w].pc # "idle" /\ job[w].msg = Started(s)
Creating(w, s) == job[w].pc \in CreatePc /\ job[w].msg = Started(s)

\* Container c was provisioned for s; on the daemon of w.
Of(c, s)       == box[c].state # "free" /\ box[c].owner = s
Hosts(w, c, s) == Of(c, s) /\ box[c].host = w

\* A container that was made is some session's, on some worker's daemon.
Placed ==
    \A c \in Container : box[c].state # "free" => box[c].owner \in Session /\ box[c].host \in Worker

\* The messages that handlers work on and queues hold were published.
MessagesSent ==
    /\ \A m \in Message : queue[m] > 0 => sent[m] > 0
    /\ \A w \in Worker : /\ job[w].pc # "idle" => sent[job[w].msg] > 0
                         /\ job[w].unacked => job[w].pc # "idle"

\* Create belongs to session.started.
HandlersMatch ==
    \A w \in Worker :
        job[w].pc \in CreatePc \cup {"report"} => job[w].msg = Started(job[w].msg.session)

\* Until a worker crashes, a Destroy belongs to the consumer's session.ended or to a sweep.
DestroysMatch ==
    \A w \in Worker :
        /\ destroy[w]["job"].step # "none" =>
              /\ destroy[w]["job"].session \in Session
              /\ job[w].msg = Ended(destroy[w]["job"].session)
        /\ destroy[w]["reaper"].step # "none" =>
              destroy[w]["reaper"].session \in Session /\ sweep[w].on
        /\ \A t \in Thread : destroy[w][t].step = "none" => destroy[w][t].session = None

\* What is rejected was reported.
RejectedReported ==
    \A w \in Worker, s \in Session : job[w].pc = "nack" /\ job[w].msg = Started(s) => s \in reported

\* Until a worker crashes, what it knows was made on its own daemon, and it does not
\* create a session it knows.
OwnDaemon ==
    /\ up = Worker
    /\ \A w \in Worker :
          job[w].pc \in {"save", "discard", "register"} =>
             job[w].data.runtime \in Container /\ Hosts(w, job[w].data.runtime, job[w].msg.session)
    /\ \A w \in Worker, s \in Session :
          Present(mem[w][s]) =>
             mem[w][s].runtime \in Container /\ Hosts(w, mem[w][s].runtime, s) /\ ~Creating(w, s)

-----------------------------------------------------------------------------
(* One delivery of session.started                                         *)

\* session.started of s has left the queue.
Taken(s) == sent[Started(s)] > 0 /\ queue[Started(s)] = 0

\* Worker w has created s, and nobody will again.
Created(w, s) == (\E c \in Container : Hosts(w, c, s)) /\ \A v \in Worker : ~Creating(v, s)

Once(s) ==
    /\ queue[Started(s)] <= sent[Started(s)]
    /\ ~Taken(s) => /\ s \notin reported /\ ~Present(redis[s])
                    /\ \A w \in Worker : ~On(w, s)
                    /\ \A c \in Container : ~Of(c, s)
    /\ \A w, v \in Worker : On(w, s) /\ On(v, s) => w = v
    /\ \A c, d \in Container : Of(c, s) /\ Of(d, s) => c = d
    /\ \A w \in Worker :
          /\ Creating(w, s) => s \notin reported
          /\ job[w].pc = "provision" /\ job[w].msg = Started(s) => \A c \in Container : ~Of(c, s)
          /\ Present(mem[w][s]) => Created(w, s)
          /\ s \in sweep[w].todo => Created(w, s)
          /\ destroy[w]["reaper"].step # "none" /\ destroy[w]["reaper"].session = s => Created(w, s)
          /\ destroy[w]["job"].step # "none" /\ destroy[w]["job"].session = s => Taken(s)

Nothing(s) == \A c \in Container : box[c].owner = s => ~Running(c)

Obeyed(s) ==
    /\ s \in reported => Nothing(s) /\ \A w \in Worker : ~Creating(w, s)
    /\ \A w \in Worker :
          job[w].pc \in {"withdraw", "report", "nack"} /\ job[w].msg = Started(s) => Nothing(s)
    /\ \A c \in Container : Running(c) /\ box[c].owner = s => Tracked(c)
    /\ \A w \in Worker, t \in Thread :
          destroy[w][t].session = s =>
             /\ destroy[w][t].step # "none" =>
                   mem[w][s].runtime \in {None, destroy[w][t].runtime}
             /\ destroy[w][t].step \in {"unlink", "forget"} /\ Present(mem[w][s]) =>
                   ~Running(mem[w][s].runtime)

InTime == \A w \in Worker : ~job[w].timedOut

Routed(w, s) ==
    (Worker = {w} \/ sent[Ended(s)] = 0) =>
       /\ Present(mem[w][s]) /\ mem[w][s].age < RedisTTL
          => redis[s] = mem[w][s] \/ \E t \in Thread : destroy[w][t].session = s
       /\ job[w].pc = "register" /\ job[w].msg = Started(s) /\ job[w].data.age < RedisTTL
          => redis[s] = job[w].data

Single(w, s) ==
    /\ \A c \in Container : Running(c) /\ box[c].owner = s /\ box[c].host = w =>
          \/ mem[w][s].runtime = c
          \/ job[w].pc \in {"save", "discard", "register"} /\ job[w].data.runtime = c
    /\ s \in sweep[w].todo =>
          Present(mem[w][s]) /\ (destroy[w]["reaper"].step # "none" => destroy[w]["reaper"].session # s)
    /\ destroy[w]["reaper"].step # "none" /\ destroy[w]["reaper"].session = s =>
          /\ Present(mem[w][s])
          /\ mem[w][s].runtime = destroy[w]["reaper"].runtime
          /\ destroy[w]["reaper"].step \in {"unlink", "forget"} => ~Running(mem[w][s].runtime)

FInv ==
    /\ Placed /\ MessagesSent /\ HandlersMatch /\ DeadLetterReported
    /\ Without({"kafka"}) => RejectedReported
    /\ Without({"crash"}) => DestroysMatch /\ OwnDaemon
    /\ Without({"timeout"}) => InTime
    /\ \A s \in Session :
          /\ DeliveredOnce(s) => Once(s) /\ \A w \in Worker : Routed(w, s)
          /\ DeliveredOnce(s) /\ Without({"docker", "timeout"}) => Obeyed(s)
          /\ Without({"crash", "docker", "timeout"}) /\ sent[Ended(s)] = 0 => \A w \in Worker : Single(w, s)

-----------------------------------------------------------------------------
(* Who moves what                                                          *)

\* The job of v stands where it stood.
Still(v) ==
    /\ job'[v].pc = job[v].pc /\ job'[v].msg = job[v].msg
    /\ job'[v].data.runtime = job[v].data.runtime
    /\ job'[v].data = job[v].data \/ Tick
    /\ job'[v].unacked => job[v].unacked

\* The consumer of v takes m.
Takes(v, m) ==
    /\ job[v].pc = "idle" /\ queue[m] > 0 /\ queue'[m] = queue[m] - 1
    /\ job'[v].msg = m
    /\ \A u \in Worker : u # v => job'[u] = job[u]
    /\ UNCHANGED <<box, mem, sent, reported, dlq, up>>
    /\ \/ job'[v].pc = "ack"
       \/ job'[v].pc = "provision" /\ m = Started(m.session) /\ ~Present(mem[v][m.session])
       \/ job'[v].pc \in {"destroy", "nack"} /\ m = Ended(m.session)

\* The handler of v goes from one call to another.
Goes(v, from, to) ==
    /\ job[v].pc = from /\ job'[v].pc = to
    /\ job'[v].msg = job[v].msg /\ job'[v].data = job[v].data
    /\ job'[v].unacked = job[v].unacked
    /\ \A u \in Worker : u # v => job'[u] = job[u]

\* Provision returns container c to v.
Provisions(v, c) ==
    /\ job[v].pc = "provision" /\ job'[v].pc = "save"
    /\ job'[v].msg = job[v].msg /\ job'[v].data = [runtime |-> c, age |-> 0]
    /\ job'[v].unacked = job[v].unacked
    /\ box[c].state = "free" /\ box' = [box EXCEPT ![c] = NewBox(v, job[v].msg.session)]
    /\ \A u \in Worker : u # v => job'[u] = job[u]

\* The job of v is over.
Rests(v) ==
    /\ job'[v] = IdleJob
    /\ \/ job[v].pc \in {"ack", "nack"}
       \/ "crash" \in faults'.kinds

\* A call of the job of v failed: its context was over, or this happened.
Failed(v, kind) == job[v].timedOut \/ kind \in faults'.kinds

Advances(v) ==
    \/ Goes(v, "provision", "withdraw")
    \/ Goes(v, "withdraw", "report")
    \/ /\ Goes(v, "save", "register")
       /\ redis' = [redis EXCEPT ![job[v].msg.session] = job[v].data]
    \/ Goes(v, "save", "discard") /\ UNCHANGED box
    \/ /\ Goes(v, "discard", "report")
       /\ box' = Removed(v, job[v].data.runtime) \/ Failed(v, "docker")
    \/ /\ Goes(v, "register", "ack")
       /\ mem' = [mem EXCEPT ![v][job[v].msg.session] = job[v].data]
    \/ /\ Goes(v, "report", "nack")
       /\ reported' = reported \cup {job[v].msg.session} \/ "kafka" \in faults'.kinds
    \/ Goes(v, "destroy", "ack") /\ destroy'[v]["job"] = NoDestroy

\* The messages of sessions are told apart.
LEMMA MessageFacts ==
    /\ \A s, t \in Session : Started(s) = Started(t) => s = t
    /\ \A s, t \in Session : Ended(s) = Ended(t) => s = t
    /\ \A s, t \in Session : Started(s) # Ended(t)
    /\ \A s \in Session : Started(s).session = s /\ Ended(s).session = s
    /\ \A m \in Message : m.session \in Session /\ (m = Started(m.session) \/ m = Ended(m.session))
BY DEF Started, Ended, Message

\* Faults are remembered.
LEMMA FaultsGrow ==
    ASSUME TypeOK, [Next]_vars
    PROVE  faults.kinds \subseteq faults'.kinds
<1>1. \A kind : Fault(kind) => faults.kinds \subseteq faults'.kinds
  BY DEF Fault
<1>2. CASE UNCHANGED faults
  BY <1>2
<1>3. \A kind : \A w \in Worker : JobCallFails(w, kind) => faults.kinds \subseteq faults'.kinds
  BY <1>1, <1>2 DEF JobCallFails
<1>. QED
  BY <1>1, <1>2, <1>3
     DEF Next, JobStep, ReaperStep, CreateStep, EndStep, DestroyStep, SweepStep, Mishap, Thread, vars,
         PublishStarted, PublishEnded, Publish, CreateExisting, CreateBegin, Provision,
         ProvisionFails, ProvisionTimesOut, Withdraw, SaveFinal, SaveFails, Discard, Register,
         ReportFailure, Settle, EndUnknown, EndKnown, EndLookupFails, DestroyRemove,
         DestroyUnlink, DestroyForget, CallWorks, CallFails, JobCallWorks, SweepBegin,
         SweepDestroy, SweepKeep, SweepOrphans, Tick, Crash, Restart, ConnectionLost, JobTimeout,
         ContainerDies, DiskQuotaKill

\* A fault that has happened is among the kinds.
LEMMA FaultKinds ==
    ASSUME TypeOK, NEW kind, Fault(kind)
    PROVE  kind \in faults'.kinds
BY DEF Fault

\* The fields of a job after its pc has moved.
LEMMA MoveFields ==
    ASSUME TypeOK, NEW v \in Worker, NEW to \in JobPc, job' = [job EXCEPT ![v].pc = to]
    PROVE  Goes(v, job[v].pc, to)
BY DEF TypeOK, Job, Goes

\* The fields of a job that takes a message.
LEMMA TakeFields ==
    ASSUME TypeOK, NEW v \in Worker, NEW m \in Message, NEW pc \in JobPc, Take(v, m, pc)
    PROVE  /\ job[v].pc = "idle" /\ job'[v].pc = pc /\ job'[v].msg = m /\ ~job'[v].timedOut
           /\ queue[m] > 0 /\ queue'[m] = queue[m] - 1
           /\ \A x \in Message : x # m => queue'[x] = queue[x]
           /\ \A u \in Worker : u # v => job'[u] = job[u]
<1>1. queue[m] \in Nat
  BY DEF TypeOK
<1>. QED BY <1>1 DEF Take, TypeOK, Job, IdleJob

\* How the job of a worker moves in a step.
LEMMA JobMoves ==
    ASSUME TypeOK, JobOK, Next, NEW v \in Worker
    PROVE  \/ Still(v)
           \/ \E m \in Message : Takes(v, m)
           \/ \E c \in Container : Provisions(v, c)
           \/ Advances(v)
           \/ Rests(v)
<1>. DEFINE Goal == \/ Still(v)
                    \/ \E m \in Message : Takes(v, m)
                    \/ \E c \in Container : Provisions(v, c)
                    \/ Advances(v)
                    \/ Rests(v)
<1>1. ASSUME job'[v] = job[v] PROVE Goal
  BY <1>1 DEF Still
<1>2. ASSUME NEW w \in Worker, NEW s \in Session,
             \/ CreateExisting(w, s) \/ CreateBegin(w, s)
             \/ EndUnknown(w, s) \/ EndKnown(w, s) \/ EndLookupFails(w, s)
      PROVE  Goal
  <2>1. Started(s) \in Message /\ Ended(s) \in Message
        /\ Started(s).session = s /\ Ended(s).session = s
    BY MessageFacts, MessageType
  <2>2. UNCHANGED <<box, mem, sent, reported, dlq, up>>
    BY <1>2 DEF CreateExisting, CreateBegin, EndUnknown, EndKnown, EndLookupFails
  <2>3. CASE CreateExisting(w, s)
    <3>1. Take(w, Started(s), "ack") BY <2>3 DEF CreateExisting
    <3>2. v = w => Takes(v, Started(s))
      BY <2>1, <2>2, <3>1, TakeFields DEF Takes, JobPc
    <3>. QED BY <1>1, <2>1, <3>1, <3>2, TakeFields DEF JobPc
  <2>4. CASE CreateBegin(w, s)
    <3>1. Take(w, Started(s), "provision") /\ ~Present(mem[w][s]) BY <2>4 DEF CreateBegin
    <3>2. v = w => Takes(v, Started(s))
      BY <2>1, <2>2, <3>1, TakeFields DEF Takes, JobPc
    <3>. QED BY <1>1, <2>1, <3>1, <3>2, TakeFields DEF JobPc
  <2>5. CASE EndUnknown(w, s) \/ EndKnown(w, s) \/ EndLookupFails(w, s)
    <3>1. PICK pc \in {"ack", "destroy", "nack"} : Take(w, Ended(s), pc)
      BY <2>5 DEF EndUnknown, EndKnown, EndLookupFails
    <3>2. v = w => Takes(v, Ended(s))
      BY <2>1, <2>2, <3>1, TakeFields DEF Takes, JobPc
    <3>. QED BY <1>1, <2>1, <3>1, <3>2, TakeFields DEF JobPc
  <2>. QED BY <1>2, <2>3, <2>4, <2>5
<1>3. ASSUME NEW w \in Worker, Provision(w)
      PROVE  Goal
  <2>1. PICK c \in Container :
          /\ box[c].state = "free"
          /\ box' = [box EXCEPT ![c] = NewBox(w, job[w].msg.session)]
          /\ job' = [job EXCEPT ![w] = [@ EXCEPT !.pc = "save", !.data = [runtime |-> c, age |-> 0]]]
    BY <1>3 DEF Provision
  <2>2. v = w => Provisions(v, c)
    <3>1. job[w] \in Job /\ job'[w] = [job[w] EXCEPT !.pc = "save", !.data = [runtime |-> c, age |-> 0]]
      BY <2>1 DEF TypeOK
    <3>2. /\ job'[w].pc = "save" /\ job'[w].msg = job[w].msg /\ job'[w].unacked = job[w].unacked
          /\ job'[w].data = [runtime |-> c, age |-> 0]
      BY <3>1 DEF Job
    <3>3. \A u \in Worker : u # w => job'[u] = job[u]
      BY <2>1 DEF TypeOK
    <3>. QED BY <1>3, <2>1, <3>2, <3>3 DEF Provision, Provisions
  <2>3. v # w => job'[v] = job[v]
    BY <2>1 DEF TypeOK
  <2>. QED BY <1>1, <2>2, <2>3
<1>4. ASSUME NEW w \in Worker, NEW to \in JobPc, job' = [job EXCEPT ![w].pc = to]
      PROVE  (v = w => Goes(v, job[v].pc, to)) /\ (v # w => Goal)
  BY <1>1, <1>4, MoveFields DEF TypeOK
<1>5. ASSUME NEW w \in Worker, ProvisionFails(w) \/ ProvisionTimesOut(w)
      PROVE  Goal
  BY <1>4, <1>5 DEF ProvisionFails, ProvisionTimesOut, JobPc, Advances
<1>6. ASSUME NEW w \in Worker, Withdraw(w)
      PROVE  Goal
  BY <1>4, <1>6 DEF Withdraw, JobPc, Advances
<1>7. ASSUME NEW w \in Worker, SaveFinal(w)
      PROVE  Goal
  BY <1>4, <1>7 DEF SaveFinal, JobPc, Advances
<1>8. ASSUME NEW w \in Worker, SaveFails(w)
      PROVE  Goal
  BY <1>4, <1>8 DEF SaveFails, JobPc, Advances
<1>9. ASSUME NEW w \in Worker, Discard(w)
      PROVE  Goal
  <2>1. box' = Removed(w, job[w].data.runtime) \/ Failed(w, "docker")
    BY <1>9, FaultKinds DEF Discard, JobCallFails, Failed
  <2>. QED BY <1>4, <1>9, <2>1 DEF Discard, JobPc, Advances
<1>10. ASSUME NEW w \in Worker, Register(w)
       PROVE  Goal
  BY <1>4, <1>10 DEF Register, JobPc, Advances
<1>11. ASSUME NEW w \in Worker, ReportFailure(w)
       PROVE  Goal
  <2>1. reported' = reported \cup {job[w].msg.session} \/ "kafka" \in faults'.kinds
    BY <1>11, FaultKinds DEF ReportFailure
  <2>. QED BY <1>4, <1>11, <2>1 DEF ReportFailure, JobPc, Advances
<1>12. ASSUME NEW w \in Worker, Settle(w) \/ Crash(w)
       PROVE  Goal
  <2>1. job' = [job EXCEPT ![w] = IdleJob]
    BY <1>12 DEF Settle, Crash
  <2>2. v = w => Rests(v)
    BY <1>12, <2>1, FaultKinds DEF Settle, Crash, Rests, TypeOK
  <2>3. v # w => job'[v] = job[v]
    BY <2>1 DEF TypeOK
  <2>. QED BY <1>1, <2>2, <2>3
<1>13. ASSUME NEW w \in Worker, DestroyForget(w, "job")
       PROVE  Goal
  <2>1. job[w].pc = "destroy"
    BY <1>13 DEF DestroyForget, JobOK
  <2>2. destroy'[w]["job"] = NoDestroy
    BY <1>13 DEF DestroyForget, TypeOK, Thread
  <2>. QED BY <1>4, <1>13, <2>1, <2>2 DEF DestroyForget, JobPc, Advances
<1>14. ASSUME Tick PROVE Goal
  <2>1. job'[v] = [job[v] EXCEPT !.data = AgedData(@), !.old = job[v].pc # "idle"]
    BY <1>14 DEF Tick
  <2>2. job[v] \in Job /\ job[v].data \in SessionData
    BY DEF TypeOK, Job
  <2>. QED BY <1>14, <2>1, <2>2, AgedDataType DEF Job, Still
<1>15. ASSUME NEW w \in Worker, ConnectionLost(w) \/ JobTimeout(w)
       PROVE  Goal
  <2>1. CASE ConnectionLost(w)
    <3>1. job'[v] = [job[v] EXCEPT !.unacked = job'[v].unacked] /\ job'[v].unacked \in {FALSE, job[v].unacked}
      BY <2>1 DEF ConnectionLost, TypeOK, Job
    <3>2. job[v] \in Job BY DEF TypeOK
    <3>. QED BY <3>1, <3>2 DEF Job, Still
  <2>2. CASE JobTimeout(w)
    BY <2>2 DEF JobTimeout, TypeOK, Job, Still
  <2>. QED BY <1>15, <2>1, <2>2
<1>16. ASSUME UNCHANGED job PROVE Goal
  BY <1>1, <1>16
<1>17. ASSUME NEW w \in Worker, DestroyForget(w, "reaper")
       PROVE  UNCHANGED job
  BY <1>17 DEF DestroyForget
<1>. HIDE DEF Goal
<1>18. ASSUME NEW w \in Worker, CreateStep(w)
       PROVE  Goal
  BY <1>2, <1>3, <1>5, <1>6, <1>7, <1>8, <1>9, <1>10, <1>11, <1>12, <1>18 DEF CreateStep
<1>19. ASSUME NEW w \in Worker, EndStep(w) \/ DestroyStep(w, "job") \/ DestroyStep(w, "reaper")
       PROVE  Goal
  BY <1>2, <1>13, <1>16, <1>17, <1>19 DEF EndStep, DestroyStep, DestroyRemove, DestroyUnlink
<1>20. ASSUME NEW w \in Worker, SweepStep(w) \/ Restart(w)
       PROVE  Goal
  BY <1>16, <1>20 DEF SweepStep, SweepBegin, SweepDestroy, SweepKeep, SweepOrphans, Restart
<1>21. ASSUME Mishap PROVE Goal
  BY <1>12, <1>15, <1>16, <1>21 DEF Mishap, ContainerDies, DiskQuotaKill
<1>22. ASSUME \E s \in Session : PublishStarted(s) \/ PublishEnded(s) PROVE Goal
  BY <1>16, <1>22 DEF PublishStarted, PublishEnded, Publish
<1>23. Goal
  BY <1>14, <1>18, <1>19, <1>20, <1>21, <1>22 DEF Next, JobStep, ReaperStep
<1>. QED BY <1>23 DEF Goal

\* Container c stays whose it is; it does not come to run.
Kept(c) ==
    /\ box'[c].state = "free" <=> box[c].state = "free"
    /\ box'[c].owner = box[c].owner /\ box'[c].host = box[c].host
    /\ box'[c].state = "running" => box[c].state = "running"

\* Container c is made by the Create of w.
Made(w, c) ==
    /\ job[w].pc = "provision" /\ box[c].state = "free"
    /\ box'[c].state # "free" /\ box'[c].owner = job[w].msg.session /\ box'[c].host = w
    /\ \A d \in Container : d # c => box'[d] = box[d]
    /\ \/ Provisions(w, c)
       \/ /\ Goes(w, "provision", "withdraw") /\ job[w].timedOut
          /\ box'[c].state # "running"

\* How a container changes in a step.
LEMMA BoxMoves ==
    ASSUME TypeOK, JobOK, Next, NEW c \in Container
    PROVE  Kept(c) \/ \E w \in Worker : Made(w, c)
<1>. DEFINE Goal == Kept(c) \/ \E w \in Worker : Made(w, c)
<1>1. ASSUME UNCHANGED box
      PROVE  Goal
  BY <1>1 DEF Kept
<1>2. ASSUME NEW w \in Worker, NEW r, box' = Removed(w, r)
      PROVE  Goal
  BY <1>2 DEF TypeOK, Box, Removed, Kept
<1>3. ASSUME NEW w \in Worker, Provision(w)
      PROVE  Goal
  <2>1. PICK d \in Container :
          /\ box[d].state = "free"
          /\ box' = [box EXCEPT ![d] = NewBox(w, job[w].msg.session)]
          /\ job' = [job EXCEPT ![w] = [@ EXCEPT !.pc = "save", !.data = [runtime |-> d, age |-> 0]]]
    BY <1>3 DEF Provision
  <2>2. CASE c # d
    BY <2>1, <2>2 DEF Kept, TypeOK
  <2>3. CASE c = d
    <3>1. job[w] \in Job /\ job'[w] = [job[w] EXCEPT !.pc = "save", !.data = [runtime |-> c, age |-> 0]]
      BY <2>1, <2>3 DEF TypeOK
    <3>2. /\ job'[w].pc = "save" /\ job'[w].msg = job[w].msg /\ job'[w].unacked = job[w].unacked
          /\ job'[w].data = [runtime |-> c, age |-> 0]
      BY <3>1 DEF Job
    <3>3. \A u \in Worker : u # w => job'[u] = job[u]
      BY <2>1 DEF TypeOK
    <3>4. Provisions(w, c)
      BY <1>3, <2>1, <2>3, <3>2, <3>3 DEF Provision, Provisions
    <3>5. /\ box'[c] = NewBox(w, job[w].msg.session)
          /\ \A e \in Container : e # c => box'[e] = box[e]
      BY <2>1, <2>3 DEF TypeOK
    <3>6. Made(w, c)
      BY <1>3, <2>1, <2>3, <3>4, <3>5 DEF Provision, Made, NewBox
    <3>. QED BY <3>6
  <2>. QED BY <2>2, <2>3
<1>4. ASSUME NEW w \in Worker, ProvisionTimesOut(w)
      PROVE  Goal
  <2>1. CASE UNCHANGED box
    BY <1>1, <2>1
  <2>2. ASSUME NEW d \in Container, box[d].state = "free",
               box' = [box EXCEPT ![d] = [NewBox(w, job[w].msg.session) EXCEPT !.state = "dead"]]
        PROVE  Goal
    <3>1. CASE c # d
      BY <2>2, <3>1 DEF Kept, TypeOK
    <3>2. CASE c = d
      <4>1. Goes(w, "provision", "withdraw") /\ job[w].timedOut
        BY <1>4, MoveFields DEF ProvisionTimesOut, JobPc
      <4>2. /\ box'[c].state = "dead" /\ box'[c].owner = job[w].msg.session /\ box'[c].host = w
            /\ \A e \in Container : e # c => box'[e] = box[e]
        BY <2>2, <3>2 DEF TypeOK, NewBox
      <4>3. Made(w, c)
        BY <1>4, <2>2, <3>2, <4>1, <4>2 DEF ProvisionTimesOut, Made
      <4>. QED BY <4>3
    <3>. QED BY <3>1, <3>2
  <2>. QED BY <1>4, <2>1, <2>2 DEF ProvisionTimesOut
<1>5. ASSUME NEW w \in Worker, Discard(w)
      PROVE  Goal
  BY <1>1, <1>2, <1>5 DEF Discard
<1>6. ASSUME NEW w \in Worker, NEW t \in Thread, DestroyRemove(w, t)
      PROVE  Goal
  BY <1>1, <1>2, <1>6 DEF DestroyRemove
<1>7. ASSUME NEW w \in Worker, SweepOrphans(w)
      PROVE  Goal
  <2>1. PICK reaped \in SUBSET Orphans(w) :
          box' = [d \in Container |-> IF d \in reaped THEN [box[d] EXCEPT !.state = "gone"] ELSE box[d]]
    BY <1>7 DEF SweepOrphans
  <2>. QED BY <2>1 DEF TypeOK, Box, Kept, Orphans
<1>8. ASSUME Tick
      PROVE  Goal
  BY <1>8 DEF Tick, TypeOK, Box, Kept
<1>9. ASSUME NEW d \in Container, ContainerDies(d)
      PROVE  Goal
  BY <1>9 DEF ContainerDies, TypeOK, Box, Kept
<1>10. ASSUME NEW w \in Worker, NEW d \in Container, DiskQuotaKill(w, d)
       PROVE  Goal
  BY <1>2, <1>10 DEF DiskQuotaKill
<1>. HIDE DEF Goal
<1>11. ASSUME NEW w \in Worker, CreateStep(w) \/ EndStep(w)
       PROVE  Goal
  BY <1>1, <1>3, <1>4, <1>5, <1>11
     DEF CreateStep, EndStep, CreateExisting, CreateBegin, ProvisionFails, Withdraw, SaveFinal,
         SaveFails, Register, ReportFailure, Settle, EndUnknown, EndKnown, EndLookupFails
<1>12. ASSUME NEW w \in Worker, NEW t \in Thread, DestroyStep(w, t)
       PROVE  Goal
  BY <1>1, <1>6, <1>12 DEF DestroyStep, DestroyUnlink, DestroyForget
<1>13. ASSUME NEW w \in Worker, SweepStep(w) \/ Restart(w)
       PROVE  Goal
  BY <1>1, <1>7, <1>13 DEF SweepStep, SweepBegin, SweepDestroy, SweepKeep, Restart
<1>14. ASSUME Mishap
       PROVE  Goal
  BY <1>1, <1>9, <1>10, <1>14 DEF Mishap, Crash, ConnectionLost, JobTimeout
<1>15. ASSUME NEW s \in Session, PublishStarted(s) \/ PublishEnded(s)
       PROVE  Goal
  BY <1>1, <1>15 DEF PublishStarted, PublishEnded, Publish
<1>16. Goal
  BY <1>8, <1>11, <1>12, <1>13, <1>14, <1>15 DEF Next, JobStep, ReaperStep, Thread
<1>. QED BY <1>16 DEF Goal

\* Worker w registers session s.
Registers(w, s) ==
    /\ Goes(w, "register", "ack") /\ job[w].msg.session = s
    /\ mem' = [mem EXCEPT ![w][s] = job[w].data]
    /\ UNCHANGED <<redis, box, destroy, sweep>>

\* A Destroy of w ends and forgets session s.
Forgets(w, s) ==
    \E t \in Thread : /\ destroy[w][t].step = "forget" /\ destroy[w][t].session = s
                      /\ destroy' = [destroy EXCEPT ![w][t] = NoDestroy]
                      /\ mem' = [mem EXCEPT ![w][s] = NoData]
                      /\ UNCHANGED <<redis, box, sweep>>

\* How what a worker knows of a session changes in a step, unless a worker crashes.
LEMMA MemMoves ==
    ASSUME TypeOK, JobOK, Next, NEW w \in Worker, NEW s \in Session,
           up = Worker, "crash" \notin faults'.kinds
    PROVE  \/ mem'[w][s] = mem[w][s]
           \/ Tick
           \/ Registers(w, s)
           \/ Forgets(w, s) /\ mem'[w][s] = NoData
<1>. DEFINE Goal == \/ mem'[w][s] = mem[w][s] \/ Tick \/ Registers(w, s)
                    \/ Forgets(w, s) /\ mem'[w][s] = NoData
<1>1. ASSUME UNCHANGED mem
      PROVE  Goal
  BY <1>1
<1>2. ASSUME NEW v \in Worker, Register(v)
      PROVE  Goal
  <2>1. CASE v = w /\ job[w].msg.session = s
    <3>1. Goes(w, "register", "ack")
      BY <1>2, <2>1, MoveFields DEF Register, JobPc
    <3>2. Registers(w, s)
      BY <1>2, <2>1, <3>1 DEF Register, Registers
    <3>. QED BY <3>2
  <2>2. CASE ~(v = w /\ job[w].msg.session = s)
    <3>1. mem' = [mem EXCEPT ![v][job[v].msg.session] = job[v].data]
      BY <1>2 DEF Register
    <3>2. mem'[w][s] = mem[w][s]
      BY <2>2, <3>1 DEF TypeOK
    <3>. QED BY <3>2
  <2>. QED BY <2>1, <2>2
<1>3. ASSUME NEW v \in Worker, NEW t \in Thread, DestroyForget(v, t)
      PROVE  Goal
  <2>1. CASE v = w /\ destroy[v][t].session = s
    BY <1>3, <2>1 DEF DestroyForget, Forgets, TypeOK
  <2>2. CASE ~(v = w /\ destroy[v][t].session = s)
    BY <1>3, <2>2 DEF DestroyForget, TypeOK
  <2>. QED BY <2>1, <2>2
<1>4. ASSUME NEW v \in Worker, Crash(v) \/ Restart(v)
      PROVE  FALSE
  BY <1>4, FaultKinds DEF Crash, Restart
<1>. HIDE DEF Goal
<1>5. ASSUME NEW v \in Worker, CreateStep(v) \/ EndStep(v)
      PROVE  Goal
  BY <1>1, <1>2, <1>5
     DEF CreateStep, EndStep, CreateExisting, CreateBegin, Provision, ProvisionTimesOut, Discard,
         ProvisionFails, Withdraw, SaveFinal,
         SaveFails, ReportFailure, Settle, EndUnknown, EndKnown, EndLookupFails
<1>6. ASSUME NEW v \in Worker, NEW t \in Thread, DestroyStep(v, t)
      PROVE  Goal
  BY <1>1, <1>3, <1>6 DEF DestroyStep, DestroyRemove, DestroyUnlink
<1>7. ASSUME NEW v \in Worker, SweepStep(v)
      PROVE  Goal
  BY <1>1, <1>7 DEF SweepStep, SweepBegin, SweepDestroy, SweepKeep, SweepOrphans
<1>8. ASSUME Mishap
      PROVE  Goal
  BY <1>1, <1>4, <1>8 DEF Mishap, ConnectionLost, JobTimeout, ContainerDies, DiskQuotaKill
<1>9. ASSUME NEW x \in Session, PublishStarted(x) \/ PublishEnded(x)
      PROVE  Goal
  BY <1>1, <1>9 DEF PublishStarted, PublishEnded, Publish
<1>10. Tick => Goal
  BY DEF Goal
<1>11. Goal
  BY <1>4, <1>5, <1>6, <1>7, <1>8, <1>9, <1>10 DEF Next, JobStep, ReaperStep, Thread
<1>. QED BY <1>11 DEF Goal

\* A handler of w begins to destroy session s, which it knows.
Begins(w, t, s) ==
    /\ destroy[w][t].step = "none" \/ t = "job"
    /\ destroy' = [destroy EXCEPT ![w][t] =
                      [step |-> "remove", session |-> s, runtime |-> Get(w, s).runtime]]
    /\ Present(Get(w, s))
    /\ UNCHANGED <<mem, redis, box, sent>>
    /\ \/ t = "job" /\ job[w].pc = "idle" /\ Takes(w, Ended(s)) /\ job'[w].pc = "destroy"
          /\ UNCHANGED sweep
       \/ /\ t = "reaper" /\ sweep[w].on /\ s \in sweep[w].todo
          /\ sweep' = [sweep EXCEPT ![w].todo = @ \ {s}]
          /\ UNCHANGED job

\* A Destroy of w passes to its next call.
Passes(w, t, from, to) ==
    /\ destroy[w][t].step = from
    /\ destroy' = [destroy EXCEPT ![w][t].step = to]
    /\ UNCHANGED <<mem, job, sweep>>

\* How a Destroy moves in a step, unless a worker crashes.
LEMMA DestroyMoves ==
    ASSUME TypeOK, JobOK, Next, NEW w \in Worker, NEW t \in Thread, "crash" \notin faults'.kinds
    PROVE  \/ destroy'[w][t] = destroy[w][t]
           \/ \E s \in Session : Begins(w, t, s)
           \/ /\ Passes(w, t, "remove", "unlink")
              /\ box' = Removed(w, destroy[w][t].runtime) \/ Failed(w, "docker")
           \/ Passes(w, t, "unlink", "forget") /\ UNCHANGED box
           \/ /\ Forgets(w, destroy[w][t].session)
              /\ destroy'[w][t] = NoDestroy /\ destroy[w][t].step = "forget"
              /\ t = "job" => Goes(w, "destroy", "ack")
<1>. DEFINE Goal == \/ destroy'[w][t] = destroy[w][t]
                    \/ \E s \in Session : Begins(w, t, s)
                    \/ /\ Passes(w, t, "remove", "unlink")
                       /\ box' = Removed(w, destroy[w][t].runtime) \/ Failed(w, "docker")
                    \/ Passes(w, t, "unlink", "forget") /\ UNCHANGED box
                    \/ /\ Forgets(w, destroy[w][t].session)
                       /\ destroy'[w][t] = NoDestroy /\ destroy[w][t].step = "forget"
                       /\ t = "job" => Goes(w, "destroy", "ack")
<1>1. ASSUME UNCHANGED destroy
      PROVE  Goal
  BY <1>1
<1>2. ASSUME NEW v \in Worker, NEW s \in Session, EndKnown(v, s)
      PROVE  Goal
  <2>1. CASE v = w /\ t = "job"
    <3>1. Takes(w, Ended(s)) /\ job'[w].pc = "destroy" /\ job[w].pc = "idle"
      <4>1. Take(w, Ended(s), "destroy") BY <1>2, <2>1 DEF EndKnown
      <4>2. UNCHANGED <<box, mem, sent, reported, dlq, up>> BY <1>2 DEF EndKnown
      <4>. QED BY <4>1, <4>2, MessageFacts, MessageType, TakeFields DEF Takes, JobPc
    <3>2. Begins(w, t, s)
      BY <1>2, <2>1, <3>1 DEF EndKnown, BeginDestroy, Begins
    <3>. QED BY <3>2
  <2>2. CASE ~(v = w /\ t = "job")
    <3>1. destroy'[w][t] = destroy[w][t]
      BY <1>2, <2>2 DEF EndKnown, BeginDestroy, TypeOK, Thread
    <3>. QED BY <3>1
  <2>. QED BY <2>1, <2>2
<1>3. ASSUME NEW v \in Worker, NEW s \in Session, SweepDestroy(v, s)
      PROVE  Goal
  <2>1. CASE UNCHANGED destroy
    BY <1>1, <2>1
  <2>2. CASE Present(Get(v, s)) /\ BeginDestroy(v, "reaper", s)
    <3>1. CASE v = w /\ t = "reaper"
      <4>1. Begins(w, t, s)
        BY <1>3, <2>2, <3>1 DEF SweepDestroy, Sweeps, BeginDestroy, Begins
      <4>. QED BY <4>1
    <3>2. CASE ~(v = w /\ t = "reaper")
      <4>1. destroy'[w][t] = destroy[w][t]
        BY <2>2, <3>2 DEF BeginDestroy, TypeOK, Thread
      <4>. QED BY <4>1
    <3>. QED BY <3>1, <3>2
  <2>. QED BY <1>3, <2>1, <2>2 DEF SweepDestroy
<1>4. ASSUME NEW v \in Worker, NEW u \in Thread, DestroyRemove(v, u)
      PROVE  Goal
  <2>1. CASE v = w /\ u = t
    <3>1. box' = Removed(w, destroy[w][t].runtime) \/ Failed(w, "docker")
      BY <1>4, <2>1, FaultKinds DEF DestroyRemove, CallFails, JobCallFails, Failed
    <3>2. Passes(w, t, "remove", "unlink")
      BY <1>4, <2>1 DEF DestroyRemove, Passes
    <3>. QED BY <3>1, <3>2
  <2>2. CASE ~(v = w /\ u = t)
    <3>1. destroy'[w][t] = destroy[w][t]
      BY <1>4, <2>2 DEF DestroyRemove, TypeOK
    <3>. QED BY <3>1
  <2>. QED BY <2>1, <2>2
<1>5. ASSUME NEW v \in Worker, NEW u \in Thread, DestroyUnlink(v, u)
      PROVE  Goal
  <2>1. CASE v = w /\ u = t
    <3>1. Passes(w, t, "unlink", "forget") /\ UNCHANGED box
      BY <1>5, <2>1 DEF DestroyUnlink, Passes
    <3>. QED BY <3>1
  <2>2. CASE ~(v = w /\ u = t)
    <3>1. destroy'[w][t] = destroy[w][t]
      BY <1>5, <2>2 DEF DestroyUnlink, TypeOK
    <3>. QED BY <3>1
  <2>. QED BY <2>1, <2>2
<1>6. ASSUME NEW v \in Worker, NEW u \in Thread, DestroyForget(v, u)
      PROVE  Goal
  <2>1. CASE v = w /\ u = t
    <3>1. Forgets(w, destroy[w][t].session)
      BY <1>6, <2>1 DEF DestroyForget, Forgets
    <3>2. destroy'[w][t] = NoDestroy /\ destroy[w][t].step = "forget"
      BY <1>6, <2>1 DEF DestroyForget, TypeOK
    <3>3. ASSUME t = "job" PROVE Goes(w, "destroy", "ack")
      <4>1. job[w].pc = "destroy" /\ job' = [job EXCEPT ![w].pc = "ack"]
        BY <1>6, <2>1, <3>3 DEF DestroyForget, JobOK
      <4>. QED BY <4>1, MoveFields DEF JobPc
    <3>. QED BY <3>1, <3>2, <3>3
  <2>2. CASE ~(v = w /\ u = t)
    <3>1. destroy'[w][t] = destroy[w][t]
      BY <1>6, <2>2 DEF DestroyForget, TypeOK
    <3>. QED BY <3>1
  <2>. QED BY <2>1, <2>2
<1>7. ASSUME NEW v \in Worker, Crash(v)
      PROVE  FALSE
  BY <1>7, FaultKinds DEF Crash
<1>. HIDE DEF Goal
<1>8. ASSUME NEW v \in Worker, CreateStep(v) \/ EndStep(v) \/ SweepStep(v) \/ Restart(v)
      PROVE  Goal
  BY <1>1, <1>2, <1>3, <1>8
     DEF CreateStep, EndStep, CreateExisting, CreateBegin, Provision, ProvisionTimesOut, Discard,
         ProvisionFails, Withdraw, SaveFinal, Register,
         SaveFails, ReportFailure, Settle, EndUnknown, EndLookupFails,
         SweepStep, SweepBegin, SweepKeep, SweepOrphans, Restart
<1>9. ASSUME NEW v \in Worker, NEW u \in Thread, DestroyStep(v, u)
      PROVE  Goal
  BY <1>4, <1>5, <1>6, <1>9 DEF DestroyStep
<1>10. ASSUME Mishap \/ Tick
       PROVE  Goal
  BY <1>1, <1>7, <1>10 DEF Mishap, Tick, ConnectionLost, JobTimeout, ContainerDies, DiskQuotaKill
<1>11. ASSUME NEW x \in Session, PublishStarted(x) \/ PublishEnded(x)
       PROVE  Goal
  BY <1>1, <1>11 DEF PublishStarted, PublishEnded, Publish
<1>12. Goal
  BY <1>8, <1>9, <1>10, <1>11 DEF Next, JobStep, ReaperStep, Thread
<1>. QED BY <1>12 DEF Goal

\* How the record of a session in Redis changes in a step.
LEMMA RedisMoves ==
    ASSUME TypeOK, JobOK, Next, NEW s \in Session
    PROVE  \/ redis'[s] = redis[s]
           \/ Tick
           \/ \E w \in Worker : Takes(w, Started(s))
           \/ /\ redis'[s] = NoData
              /\ \E w \in Worker : Goes(w, "withdraw", "report") /\ job[w].msg.session = s
           \/ \E w \in Worker : /\ Goes(w, "save", "register") /\ job[w].msg.session = s
                                /\ redis'[s] = job[w].data /\ UNCHANGED <<mem, sent>>
           \/ /\ redis'[s] = NoData
              /\ \E w \in Worker, t \in Thread :
                    Passes(w, t, "unlink", "forget") /\ destroy[w][t].session = s
<1>. DEFINE Goal == \/ redis'[s] = redis[s]
                    \/ Tick
                    \/ \E w \in Worker : Takes(w, Started(s))
                    \/ /\ redis'[s] = NoData
                       /\ \E w \in Worker : Goes(w, "withdraw", "report") /\ job[w].msg.session = s
                    \/ \E w \in Worker : /\ Goes(w, "save", "register") /\ job[w].msg.session = s
                                         /\ redis'[s] = job[w].data /\ UNCHANGED <<mem, sent>>
                    \/ /\ redis'[s] = NoData
                       /\ \E w \in Worker, t \in Thread :
                             Passes(w, t, "unlink", "forget") /\ destroy[w][t].session = s
<1>1. ASSUME UNCHANGED redis
      PROVE  Goal
  BY <1>1
<1>2. ASSUME NEW v \in Worker, NEW x \in Session, CreateBegin(v, x)
      PROVE  Goal
  <2>1. CASE x = s
    <3>1. Take(v, Started(s), "provision") /\ ~Present(mem[v][s])
          /\ UNCHANGED <<box, mem, sent, reported, dlq, up>>
      BY <1>2, <2>1 DEF CreateBegin
    <3>2. Takes(v, Started(s))
      BY <3>1, MessageFacts, MessageType, TakeFields DEF Takes, JobPc
    <3>. QED BY <3>2
  <2>2. CASE x # s
    <3>1. redis'[s] = redis[s]
      BY <1>2, <2>2 DEF CreateBegin, TypeOK
    <3>. QED BY <3>1
  <2>. QED BY <2>1, <2>2
<1>3. ASSUME NEW v \in Worker, Withdraw(v)
      PROVE  Goal
  <2>1. CASE job[v].msg.session = s
    <3>1. Goes(v, "withdraw", "report") /\ (redis'[s] = redis[s] \/ redis'[s] = NoData)
      BY <1>3, <2>1, MoveFields DEF Withdraw, TypeOK, JobPc
    <3>. QED BY <2>1, <3>1
  <2>2. CASE job[v].msg.session # s
    <3>1. redis'[s] = redis[s]
      BY <1>3, <2>2 DEF Withdraw, TypeOK
    <3>. QED BY <3>1
  <2>. QED BY <2>1, <2>2
<1>4. ASSUME NEW v \in Worker, SaveFinal(v)
      PROVE  Goal
  <2>1. CASE job[v].msg.session = s
    <3>1. Goes(v, "save", "register") /\ redis'[s] = job[v].data /\ UNCHANGED <<mem, sent>>
      BY <1>4, <2>1, MoveFields DEF SaveFinal, TypeOK, JobPc
    <3>. QED BY <2>1, <3>1
  <2>2. CASE job[v].msg.session # s
    <3>1. redis'[s] = redis[s]
      BY <1>4, <2>2 DEF SaveFinal, TypeOK
    <3>. QED BY <3>1
  <2>. QED BY <2>1, <2>2
<1>5. ASSUME NEW v \in Worker, NEW t \in Thread, DestroyUnlink(v, t)
      PROVE  Goal
  <2>1. CASE destroy[v][t].session = s
    <3>1. Passes(v, t, "unlink", "forget") /\ (redis'[s] = redis[s] \/ redis'[s] = NoData)
      BY <1>5, <2>1 DEF DestroyUnlink, TypeOK, Passes
    <3>. QED BY <2>1, <3>1
  <2>2. CASE destroy[v][t].session # s
    <3>1. redis'[s] = redis[s]
      BY <1>5, <2>2 DEF DestroyUnlink, TypeOK
    <3>. QED BY <3>1
  <2>. QED BY <2>1, <2>2
<1>6. Tick => Goal
  OBVIOUS
<1>. HIDE DEF Goal
<1>7. ASSUME NEW v \in Worker, CreateStep(v) \/ EndStep(v) \/ SweepStep(v) \/ Restart(v)
      PROVE  Goal
  BY <1>1, <1>2, <1>3, <1>4, <1>7
     DEF CreateStep, EndStep, CreateExisting, Provision, ProvisionTimesOut, Discard,
         ProvisionFails, Register, EndKnown, SweepDestroy,
         SaveFails, ReportFailure, Settle, EndUnknown, EndLookupFails,
         SweepStep, SweepBegin, SweepKeep, SweepOrphans, Restart
<1>8. ASSUME NEW v \in Worker, NEW t \in Thread, DestroyStep(v, t)
      PROVE  Goal
  BY <1>1, <1>5, <1>8 DEF DestroyStep, DestroyRemove, DestroyForget
<1>9. ASSUME Mishap
      PROVE  Goal
  BY <1>1, <1>9 DEF Mishap, Crash, ConnectionLost, JobTimeout, ContainerDies, DiskQuotaKill
<1>10. ASSUME NEW x \in Session, PublishStarted(x) \/ PublishEnded(x)
       PROVE  Goal
  BY <1>1, <1>10 DEF PublishStarted, PublishEnded, Publish
<1>11. Goal
  BY <1>6, <1>7, <1>8, <1>9, <1>10 DEF Next, JobStep, ReaperStep, Thread
<1>. QED BY <1>11 DEF Goal

\* How the copies of a message change in a step.
LEMMA QueueMoves ==
    ASSUME TypeOK, JobOK, Next, NEW m \in Message
    PROVE  \/ queue'[m] = queue[m] /\ sent'[m] = sent[m]
           \/ queue'[m] = queue[m] + 1 /\ sent'[m] = sent[m] + 1 /\ UNCHANGED <<job, redis, box, reported>>
           \/ sent'[m] = sent[m] /\ \E w \in Worker : Takes(w, m)
           \/ /\ queue'[m] = queue[m] + 1 /\ sent'[m] = sent[m]
              /\ \E w \in Worker : job[w].pc # "idle" \/ job[w].unacked
              /\ \E w \in Worker : job[w].unacked /\ job[w].msg = m
              /\ faults'.kinds \cap {"crash", "conn"} # {}
<1>. DEFINE Goal ==
           \/ queue'[m] = queue[m] /\ sent'[m] = sent[m]
           \/ queue'[m] = queue[m] + 1 /\ sent'[m] = sent[m] + 1 /\ UNCHANGED <<job, redis, box, reported>>
           \/ sent'[m] = sent[m] /\ \E w \in Worker : Takes(w, m)
           \/ /\ queue'[m] = queue[m] + 1 /\ sent'[m] = sent[m]
              /\ \E w \in Worker : job[w].pc # "idle" \/ job[w].unacked
              /\ \E w \in Worker : job[w].unacked /\ job[w].msg = m
              /\ faults'.kinds \cap {"crash", "conn"} # {}
<1>1. ASSUME UNCHANGED <<queue, sent>>
      PROVE  Goal
  BY <1>1
<1>2. ASSUME NEW s \in Session, PublishStarted(s) \/ PublishEnded(s)
      PROVE  Goal
  <2>1. PICK x \in Message : /\ sent' = [sent EXCEPT ![x] = @ + 1]
                             /\ queue' = [queue EXCEPT ![x] = @ + 1]
                             /\ UNCHANGED <<job, redis, box, reported>>
    BY <1>2, MessageType DEF PublishStarted, PublishEnded, Publish
  <2>. QED BY <2>1 DEF TypeOK
<1>3. ASSUME NEW v \in Worker, NEW s \in Session,
             \/ CreateExisting(v, s) \/ CreateBegin(v, s)
             \/ EndUnknown(v, s) \/ EndKnown(v, s) \/ EndLookupFails(v, s)
      PROVE  Goal
  <2>1. UNCHANGED <<box, mem, sent, reported, dlq, up>>
    BY <1>3 DEF CreateExisting, CreateBegin, EndUnknown, EndKnown, EndLookupFails
  <2>2. PICK x \in Message, pc \in {"ack", "provision", "destroy", "nack"} :
          /\ Take(v, x, pc)
          /\ \/ pc = "ack"
             \/ pc = "provision" /\ x = Started(x.session) /\ ~Present(mem[v][x.session])
             \/ pc \in {"destroy", "nack"} /\ x = Ended(x.session)
    <3>1. CASE CreateExisting(v, s)
      BY <3>1, MessageType DEF CreateExisting
    <3>2. CASE CreateBegin(v, s)
      BY <3>2, MessageType, MessageFacts DEF CreateBegin
    <3>3. CASE EndUnknown(v, s) \/ EndKnown(v, s) \/ EndLookupFails(v, s)
      BY <3>3, MessageType, MessageFacts DEF EndUnknown, EndKnown, EndLookupFails
    <3>. QED BY <1>3, <3>1, <3>2, <3>3
  <2>3. Takes(v, x)
    BY <2>1, <2>2, TakeFields DEF Takes, JobPc
  <2>4. x # m => queue'[m] = queue[m]
    BY <2>2, TakeFields DEF JobPc
  <2>. QED BY <2>1, <2>3, <2>4
<1>4. ASSUME NEW v \in Worker, Crash(v) \/ ConnectionLost(v)
      PROVE  Goal
  <2>1. /\ faults'.kinds \cap {"crash", "conn"} # {} /\ UNCHANGED sent
        /\ \/ UNCHANGED queue
           \/ job[v].unacked /\ queue' = [queue EXCEPT ![job[v].msg] = @ + 1]
    BY <1>4, FaultKinds DEF Crash, ConnectionLost
  <2>. QED BY <2>1 DEF TypeOK
<1>. HIDE DEF Goal
<1>5. ASSUME NEW v \in Worker, CreateStep(v) \/ EndStep(v)
      PROVE  Goal
  BY <1>1, <1>3, <1>5
     DEF CreateStep, EndStep, Provision, ProvisionTimesOut, Discard, Withdraw, SaveFinal,
         ProvisionFails, Register, SaveFails, ReportFailure, Settle
<1>6. ASSUME NEW v \in Worker, NEW t \in Thread, DestroyStep(v, t) \/ SweepStep(v) \/ Restart(v)
      PROVE  Goal
  BY <1>1, <1>6
     DEF DestroyStep, DestroyRemove, DestroyUnlink, DestroyForget,
         SweepStep, SweepBegin, SweepDestroy, SweepKeep, SweepOrphans, Restart
<1>7. ASSUME Mishap \/ Tick
      PROVE  Goal
  BY <1>1, <1>4, <1>7 DEF Mishap, Tick, JobTimeout, ContainerDies, DiskQuotaKill
<1>8. Goal
  BY <1>2, <1>5, <1>6, <1>7 DEF Next, JobStep, ReaperStep, Thread
<1>. QED BY <1>8 DEF Goal

\* Sessions are published more, never less.
LEMMA SentGrows ==
    ASSUME TypeOK, JobOK, Next, NEW m \in Message
    PROVE  sent[m] \in Nat /\ sent'[m] \in Nat /\ queue[m] \in Nat /\ sent'[m] >= sent[m]
<1>1. sent[m] \in Nat /\ queue[m] \in Nat
  BY DEF TypeOK
<1>. QED BY <1>1, QueueMoves

\* How a sweep moves in a step, unless a worker crashes.
LEMMA SweepMoves ==
    ASSUME TypeOK, JobOK, Next, NEW w \in Worker, "crash" \notin faults'.kinds
    PROVE  \/ sweep'[w] = sweep[w]
           \/ /\ ~sweep[w].on /\ sweep'[w].on /\ sweep'[w].todo = Active(w)
              /\ UNCHANGED <<mem, destroy>>
           \/ /\ sweep[w].on /\ sweep'[w].on
              /\ \E s \in Session : /\ sweep'[w].todo = sweep[w].todo \ {s}
                                    /\ \/ UNCHANGED destroy
                                       \/ Begins(w, "reaper", s)
              /\ UNCHANGED mem
           \/ /\ ~sweep'[w].on /\ sweep'[w].todo = {} /\ destroy[w]["reaper"].step = "none"
              /\ UNCHANGED <<mem, destroy>>
<1>. DEFINE Goal ==
           \/ sweep'[w] = sweep[w]
           \/ /\ ~sweep[w].on /\ sweep'[w].on /\ sweep'[w].todo = Active(w)
              /\ UNCHANGED <<mem, destroy>>
           \/ /\ sweep[w].on /\ sweep'[w].on
              /\ \E s \in Session : /\ sweep'[w].todo = sweep[w].todo \ {s}
                                    /\ \/ UNCHANGED destroy
                                       \/ Begins(w, "reaper", s)
              /\ UNCHANGED mem
           \/ /\ ~sweep'[w].on /\ sweep'[w].todo = {} /\ destroy[w]["reaper"].step = "none"
              /\ UNCHANGED <<mem, destroy>>
<1>1. ASSUME UNCHANGED sweep
      PROVE  Goal
  BY <1>1
<1>2. ASSUME NEW v \in Worker, SweepBegin(v)
      PROVE  Goal
  BY <1>2 DEF SweepBegin, TypeOK
<1>3. ASSUME NEW v \in Worker, NEW s \in Session, SweepDestroy(v, s) \/ SweepKeep(v, s)
      PROVE  Goal
  <2>1. Sweeps(v, s) /\ UNCHANGED <<mem, job>>
    BY <1>3 DEF SweepDestroy, SweepKeep
  <2>2. CASE v # w
    <3>1. sweep'[w] = sweep[w]
      BY <2>1, <2>2 DEF Sweeps, TypeOK
    <3>. QED BY <3>1
  <2>3. CASE v = w
    <3>1. sweep'[w] = [sweep[w] EXCEPT !.todo = @ \ {s}]
      BY <2>1, <2>3 DEF Sweeps, TypeOK
    <3>2. sweep[w].on /\ sweep'[w].on /\ sweep'[w].todo = sweep[w].todo \ {s}
      BY <2>1, <2>3, <3>1 DEF Sweeps, TypeOK, Sweeping
    <3>3. UNCHANGED destroy \/ Begins(w, "reaper", s)
      BY <1>3, <2>3 DEF SweepDestroy, SweepKeep, Sweeps, BeginDestroy, Begins
    <3>. QED BY <2>1, <3>2, <3>3
  <2>. QED BY <2>2, <2>3
<1>4. ASSUME NEW v \in Worker, SweepOrphans(v)
      PROVE  Goal
  BY <1>4 DEF SweepOrphans, TypeOK, NoSweep
<1>5. ASSUME NEW v \in Worker, Crash(v)
      PROVE  FALSE
  BY <1>5, FaultKinds DEF Crash
<1>. HIDE DEF Goal
<1>6. ASSUME NEW v \in Worker, CreateStep(v) \/ EndStep(v)
      PROVE  Goal
  BY <1>1, <1>6
     DEF CreateStep, EndStep, CreateExisting, CreateBegin, Provision, ProvisionTimesOut, Discard,
         ProvisionFails, Withdraw, SaveFinal, Register,
         SaveFails, ReportFailure, Settle, EndUnknown, EndKnown, EndLookupFails
<1>7. ASSUME NEW v \in Worker, NEW t \in Thread, DestroyStep(v, t) \/ Restart(v)
      PROVE  Goal
  BY <1>1, <1>7 DEF DestroyStep, DestroyRemove, DestroyUnlink, DestroyForget, Restart
<1>8. ASSUME NEW v \in Worker, SweepStep(v)
      PROVE  Goal
  BY <1>2, <1>3, <1>4, <1>8 DEF SweepStep
<1>9. ASSUME Mishap \/ Tick
      PROVE  Goal
  BY <1>1, <1>5, <1>9 DEF Mishap, Tick, ConnectionLost, JobTimeout, ContainerDies, DiskQuotaKill
<1>10. ASSUME NEW x \in Session, PublishStarted(x) \/ PublishEnded(x)
       PROVE  Goal
  BY <1>1, <1>10 DEF PublishStarted, PublishEnded, Publish
<1>11. Goal
  BY <1>6, <1>7, <1>8, <1>9, <1>10 DEF Next, JobStep, ReaperStep, Thread
<1>. QED BY <1>11 DEF Goal

\* What is reported, dead-lettered, and out of time in a step, and who runs.
LEMMA RestMoves ==
    ASSUME TypeOK, JobOK, Next
    PROVE  /\ \A s \in Session : s \in reported' =>
                 \/ s \in reported
                 \/ \E w \in Worker : /\ Goes(w, "report", "nack") /\ job[w].msg.session = s
                                      /\ UNCHANGED <<box, mem, sent, queue>>
           /\ reported \subseteq reported'
           /\ \A m \in Message : m \in dlq' =>
                 m \in dlq \/ \E w \in Worker : job[w].pc = "nack" /\ job[w].msg = m
           /\ \A w \in Worker : job'[w].timedOut => job[w].timedOut \/ "timeout" \in faults'.kinds
           /\ up = Worker /\ "crash" \notin faults'.kinds => up' = Worker
<1>1. ASSUME NEW w \in Worker, ReportFailure(w)
      PROVE  /\ reported \subseteq reported'
             /\ \A s \in Session : s \in reported' =>
                   \/ s \in reported
                   \/ /\ Goes(w, "report", "nack") /\ job[w].msg.session = s
                      /\ UNCHANGED <<box, mem, sent, queue>>
  BY <1>1, MoveFields DEF ReportFailure, JobPc
<1>2. ASSUME NEW w \in Worker, Settle(w)
      PROVE  \A m \in Message : m \in dlq' =>
                 m \in dlq \/ \E v \in Worker : job[v].pc = "nack" /\ job[v].msg = m
  BY <1>2 DEF Settle
<1>3. ASSUME NEW w \in Worker, Crash(w)
      PROVE  "crash" \in faults'.kinds /\ UNCHANGED <<reported, dlq>>
  BY <1>3, FaultKinds DEF Crash
<1>4. ASSUME NEW w \in Worker, Restart(w)
      PROVE  (up = Worker => up' = Worker) /\ UNCHANGED <<reported, dlq>>
  BY <1>4 DEF Restart
<1>5. ASSUME NEW w \in Worker, NEW j \in Job, ~j.timedOut, job' = [job EXCEPT ![w] = j]
      PROVE  \A v \in Worker : job'[v].timedOut => job[v].timedOut
  BY <1>5 DEF TypeOK
<1>6. ASSUME NEW w \in Worker, NEW pc \in JobPc, job' = [job EXCEPT ![w].pc = pc]
      PROVE  \A v \in Worker : job'[v].timedOut => job[v].timedOut
  BY <1>6 DEF TypeOK, Job
<1>7. ASSUME NEW w \in Worker, NEW m \in Message, NEW pc \in JobPc, Take(w, m, pc)
      PROVE  \A v \in Worker : job'[v].timedOut => job[v].timedOut
  BY <1>7, TakeFields DEF TypeOK
<1>8. ASSUME NEW w \in Worker, CreateStep(w)
      PROVE  \A v \in Worker : job'[v].timedOut => job[v].timedOut
  <2>1. CASE Provision(w)
    <3>1. PICK c \in Container : job' = [job EXCEPT ![w] = [@ EXCEPT !.pc = "save", !.data = [runtime |-> c, age |-> 0]]]
      BY <2>1 DEF Provision
    <3>2. job[w] \in Job /\ job'[w] = [job[w] EXCEPT !.pc = "save", !.data = [runtime |-> c, age |-> 0]]
      BY <3>1 DEF TypeOK
    <3>3. job'[w].timedOut = job[w].timedOut /\ \A v \in Worker : v # w => job'[v] = job[v]
      BY <3>1, <3>2 DEF TypeOK, Job
    <3>. QED BY <3>3
  <2>2. CASE Settle(w)
    BY <1>5, <2>2, EmptyRecords DEF Settle, IdleJob
  <2>3. CASE \E s \in Session : CreateExisting(w, s) \/ CreateBegin(w, s)
    BY <1>7, <2>3, MessageType DEF CreateExisting, CreateBegin, JobPc
  <2>. QED BY <1>6, <1>8, <2>1, <2>2, <2>3
           DEF CreateStep, ProvisionTimesOut, Discard, Withdraw, SaveFinal,
               ProvisionFails, Register, SaveFails, ReportFailure, JobPc
<1>9. ASSUME NEW w \in Worker, EndStep(w) \/ DestroyStep(w, "job") \/ DestroyStep(w, "reaper")
                                  \/ SweepStep(w) \/ Restart(w)
      PROVE  \A v \in Worker : job'[v].timedOut => job[v].timedOut
  <2>1. CASE EndStep(w)
    BY <1>7, <2>1, MessageType DEF EndStep, EndUnknown, EndKnown, EndLookupFails, JobPc
  <2>. QED BY <1>6, <1>9, <2>1
           DEF DestroyStep, DestroyRemove, DestroyUnlink, DestroyForget, JobPc,
               SweepStep, SweepBegin, SweepDestroy, SweepKeep, SweepOrphans, Restart
<1>10. ASSUME Mishap \/ Tick
       PROVE  \A v \in Worker : job'[v].timedOut => job[v].timedOut \/ "timeout" \in faults'.kinds
  <2>1. CASE Tick
    BY <2>1 DEF Tick, TypeOK, Job
  <2>2. ASSUME NEW w \in Worker, Crash(w)
        PROVE  \A v \in Worker : job'[v].timedOut => job[v].timedOut
    BY <1>5, <2>2, EmptyRecords DEF Crash, IdleJob
  <2>3. ASSUME NEW w \in Worker, ConnectionLost(w)
        PROVE  \A v \in Worker : job'[v].timedOut => job[v].timedOut
    BY <2>3 DEF ConnectionLost, TypeOK, Job
  <2>4. ASSUME NEW w \in Worker, JobTimeout(w)
        PROVE  "timeout" \in faults'.kinds
    BY <2>4, FaultKinds DEF JobTimeout
  <2>. QED BY <1>10, <2>1, <2>2, <2>3, <2>4 DEF Mishap, ContainerDies, DiskQuotaKill
<1>11. ASSUME NEW s \in Session, PublishStarted(s) \/ PublishEnded(s)
       PROVE  UNCHANGED <<reported, dlq, up, job>>
  BY <1>11 DEF PublishStarted, PublishEnded, Publish
<1>12. \A w \in Worker : job'[w].timedOut => job[w].timedOut \/ "timeout" \in faults'.kinds
  BY <1>8, <1>9, <1>10, <1>11 DEF Next, JobStep, ReaperStep
<1>13. ASSUME NEW w \in Worker, CreateStep(w), ~ReportFailure(w), ~Settle(w)
       PROVE  UNCHANGED <<reported, dlq, up>>
  BY <1>13 DEF CreateStep, CreateExisting, CreateBegin, Provision, ProvisionTimesOut, Discard,
               ProvisionFails, Withdraw, SaveFinal, Register, SaveFails
<1>14. ASSUME NEW w \in Worker
       PROVE  /\ ReportFailure(w) => UNCHANGED <<dlq, up>>
              /\ Settle(w) => UNCHANGED <<reported, up>>
  BY DEF ReportFailure, Settle
<1>15. ASSUME NEW w \in Worker, EndStep(w) \/ DestroyStep(w, "job") \/ DestroyStep(w, "reaper")
                                   \/ SweepStep(w)
       PROVE  UNCHANGED <<reported, dlq, up>>
  BY <1>15 DEF EndStep, EndUnknown, EndKnown, EndLookupFails,
               DestroyStep, DestroyRemove, DestroyUnlink, DestroyForget,
               SweepStep, SweepBegin, SweepDestroy, SweepKeep, SweepOrphans
<1>16. ASSUME Mishap \/ Tick
       PROVE  UNCHANGED <<reported, dlq>> /\ (UNCHANGED up \/ "crash" \in faults'.kinds)
  BY <1>3, <1>16 DEF Mishap, Tick, ConnectionLost, JobTimeout, ContainerDies, DiskQuotaKill
<1>17. \/ \E w \in Worker : ReportFailure(w) /\ UNCHANGED <<dlq, up>>
       \/ \E w \in Worker : Settle(w) /\ UNCHANGED <<reported, up>>
       \/ UNCHANGED <<reported, dlq>> /\ (UNCHANGED up \/ "crash" \in faults'.kinds)
       \/ UNCHANGED <<reported, dlq>> /\ (up = Worker => up' = Worker)
  BY <1>4, <1>11, <1>13, <1>14, <1>15, <1>16 DEF Next, JobStep, ReaperStep
<1>. QED BY <1>1, <1>2, <1>12, <1>17

-----------------------------------------------------------------------------
(* What every step keeps                                                   *)

\* A container that is gone does not run.
LEMMA RemovedStops ==
    ASSUME TypeOK, NEW w \in Worker, NEW c \in Container, NEW s, Hosts(w, c, s)
    PROVE  Removed(w, c)[c].state # "running"
BY DEF TypeOK, Box, Hosts, Of, Removed

\* The fields of a Destroy that passes to its next call.
LEMMA PassFields ==
    ASSUME TypeOK, NEW w \in Worker, NEW t \in Thread, NEW from, NEW to, Passes(w, t, from, to)
    PROVE  /\ destroy[w][t].step = from /\ destroy'[w][t].step = to
           /\ destroy'[w][t].session = destroy[w][t].session
           /\ destroy'[w][t].runtime = destroy[w][t].runtime
<1>1. destroy[w][t] \in Destroying
  BY DEF TypeOK
<1>2. destroy'[w][t] = [destroy[w][t] EXCEPT !.step = to]
  BY DEF Passes, TypeOK
<1>. QED BY <1>1, <1>2 DEF Passes, Destroying

\* Whose a container is, and where, does not change.
LEMMA HostsKept ==
    ASSUME TypeOK, JobOK, Next, NEW w \in Worker, NEW c \in Container, NEW s
    PROVE  /\ Hosts(w, c, s) => Hosts(w, c, s)'
           /\ Of(c, s) => Of(c, s)'
BY BoxMoves DEF Hosts, Of, Kept, Made

\* Until a worker crashes, and later, it had not crashed.
LEMMA WithoutBack ==
    ASSUME TypeOK, Next, NEW kinds, Without(kinds)'
    PROVE  Without(kinds) /\ \A kind \in kinds : kind \notin faults'.kinds
BY FaultsGrow DEF Without

\* Only what was published is queued and worked on.
LEMMA SentStep ==
    ASSUME TypeOK, JobOK, MessagesSent, Next
    PROVE  MessagesSent'
<1>1. ASSUME NEW m \in Message, queue'[m] > 0
      PROVE  sent'[m] > 0
  <2>1. sent[m] \in Nat /\ queue[m] \in Nat
    BY SentGrows
  <2>. QED BY <1>1, <2>1, QueueMoves DEF MessagesSent, Takes
<1>2. ASSUME NEW w \in Worker
      PROVE  /\ job'[w].pc # "idle" => sent'[job'[w].msg] > 0
             /\ job'[w].unacked => job'[w].pc # "idle"
  <2>1. CASE Still(w)
    <3>1. job[w].pc # "idle" => job[w].msg \in Message
      BY DEF JobOK
    <3>. QED BY <2>1, <3>1, SentGrows DEF Still, MessagesSent
  <2>2. ASSUME NEW m \in Message, Takes(w, m)
        PROVE  job'[w].pc # "idle" /\ sent'[job'[w].msg] > 0
    BY <2>2 DEF Takes, MessagesSent
  <2>3. CASE (\E c \in Container : Provisions(w, c)) \/ Advances(w)
    <3>1. job[w].pc # "idle" /\ job'[w].pc # "idle" /\ job'[w].msg = job[w].msg
      BY <2>3 DEF Provisions, Advances, Goes
    <3>. QED BY <3>1, SentGrows DEF JobOK, MessagesSent
  <2>4. CASE Rests(w)
    BY <2>4 DEF Rests, IdleJob
  <2>. QED BY <2>1, <2>2, <2>3, <2>4, JobMoves
<1>. QED BY <1>1, <1>2 DEF MessagesSent

\* A Create goes on with the message it began with.
LEMMA HandlersStep ==
    ASSUME TypeOK, JobOK, HandlersMatch, Next
    PROVE  HandlersMatch'
<1>. SUFFICES ASSUME NEW w \in Worker, job'[w].pc \in CreatePc \cup {"report"}
              PROVE  job'[w].msg = Started(job'[w].msg.session)
  BY DEF HandlersMatch, CreatePc
<1>. USE DEF HandlersMatch, CreatePc
<1>1. CASE Still(w)
  BY <1>1 DEF Still
<1>2. ASSUME NEW m \in Message, Takes(w, m)
      PROVE  job'[w].msg = Started(job'[w].msg.session)
  BY <1>2 DEF Takes
<1>3. CASE (\E c \in Container : Provisions(w, c)) \/ Advances(w)
  BY <1>3 DEF Provisions, Advances, Goes
<1>4. CASE Rests(w)
  BY <1>4 DEF Rests, IdleJob
<1>. QED BY <1>1, <1>2, <1>3, <1>4, JobMoves

\* What is rejected was reported, and so what is dead-lettered.
LEMMA RejectedStep ==
    ASSUME TypeOK, JobOK, HandlersMatch, Without({"kafka"}) => RejectedReported,
           DeadLetterReported, Next
    PROVE  (Without({"kafka"}) => RejectedReported)' /\ DeadLetterReported'
<1>. SUFFICES ASSUME Without({"kafka"})'
              PROVE  RejectedReported' /\ \A s \in Session : Started(s) \in dlq' => s \in reported'
  BY DEF DeadLetterReported
<1>1. RejectedReported /\ "kafka" \notin faults'.kinds
      /\ \A s \in Session : Started(s) \in dlq => s \in reported
  BY WithoutBack DEF DeadLetterReported
<1>2. reported \subseteq reported'
  BY RestMoves
<1>3. ASSUME NEW w \in Worker, NEW s \in Session, job'[w].pc = "nack", job'[w].msg = Started(s)
      PROVE  s \in reported'
  <2>1. CASE Still(w)
    BY <1>1, <1>2, <1>3, <2>1 DEF Still, RejectedReported
  <2>2. ASSUME NEW m \in Message, Takes(w, m)
        PROVE  FALSE
    BY <1>3, <2>2, MessageFacts DEF Takes
  <2>3. CASE (\E c \in Container : Provisions(w, c)) \/ Advances(w)
    BY <1>1, <1>3, <2>3, MessageFacts DEF Provisions, Advances, Goes
  <2>4. CASE Rests(w)
    BY <1>3, <2>4 DEF Rests, IdleJob
  <2>. QED BY <2>1, <2>2, <2>3, <2>4, JobMoves
<1>4. ASSUME NEW s \in Session, Started(s) \in dlq'
      PROVE  s \in reported'
  <2>1. Started(s) \in Message
    BY MessageType
  <2>. QED BY <1>1, <1>2, <1>4, <2>1, RestMoves DEF RejectedReported
<1>. QED BY <1>3, <1>4 DEF RejectedReported

\* A Destroy keeps to the message or the sweep it began with.
LEMMA DestroysStep ==
    ASSUME TypeOK, JobOK, DestroysMatch, Next, "crash" \notin faults'.kinds
    PROVE  DestroysMatch'
<1>1. ASSUME NEW w \in Worker, destroy'[w]["job"].step # "none"
      PROVE  /\ destroy'[w]["job"].session \in Session
             /\ job'[w].msg = Ended(destroy'[w]["job"].session)
  <2>. DEFINE t == "job"
  <2>0. t \in Thread
    BY DEF Thread
  <2>1. CASE destroy'[w][t] = destroy[w][t] \/ Passes(w, t, "remove", "unlink")
             \/ Passes(w, t, "unlink", "forget")
    <3>1. destroy[w][t].step # "none" /\ destroy'[w][t].session = destroy[w][t].session
      BY <1>1, <2>0, <2>1, PassFields
    <3>2. job[w].pc = "destroy"
      BY <3>1 DEF JobOK
    <3>3. job'[w].msg = job[w].msg
      BY <1>1, <2>0, <3>2, JobMoves DEF Still, Takes, Provisions, Advances, Goes, Rests, NoDestroy
    <3>. QED BY <3>1, <3>3 DEF DestroysMatch
  <2>2. ASSUME NEW s \in Session, Begins(w, t, s)
        PROVE  destroy'[w][t].session = s /\ job'[w].msg = Ended(s)
    BY <2>0, <2>2 DEF Begins, Takes, TypeOK
  <2>3. CASE destroy'[w][t] = NoDestroy
    BY <1>1, <2>3 DEF NoDestroy
  <2>4. \/ destroy'[w][t] = destroy[w][t] \/ Passes(w, t, "remove", "unlink")
        \/ Passes(w, t, "unlink", "forget") \/ destroy'[w][t] = NoDestroy
        \/ \E s \in Session : Begins(w, t, s)
    BY <2>0, DestroyMoves
  <2>. QED BY <2>1, <2>2, <2>3, <2>4
<1>2. ASSUME NEW w \in Worker, destroy'[w]["reaper"].step # "none"
      PROVE  destroy'[w]["reaper"].session \in Session /\ sweep'[w].on
  <2>. DEFINE t == "reaper"
  <2>0. t \in Thread
    BY DEF Thread
  <2>1. CASE destroy'[w][t] = destroy[w][t]
    BY <1>2, <2>1, SweepMoves DEF DestroysMatch
  <2>2. CASE Passes(w, t, "remove", "unlink") \/ Passes(w, t, "unlink", "forget")
    <3>1. destroy[w][t].step # "none" /\ destroy'[w][t].session = destroy[w][t].session
          /\ UNCHANGED sweep
      BY <1>2, <2>0, <2>2, PassFields DEF Passes
    <3>. QED BY <3>1 DEF DestroysMatch
  <2>3. ASSUME NEW s \in Session, Begins(w, t, s)
        PROVE  destroy'[w][t].session = s /\ sweep'[w].on
    BY <2>0, <2>3 DEF Begins, TypeOK, Sweeping
  <2>4. CASE destroy'[w][t] = NoDestroy
    BY <1>2, <2>4 DEF NoDestroy
  <2>5. \/ destroy'[w][t] = destroy[w][t] \/ Passes(w, t, "remove", "unlink")
        \/ Passes(w, t, "unlink", "forget") \/ destroy'[w][t] = NoDestroy
        \/ \E s \in Session : Begins(w, t, s)
    BY <2>0, DestroyMoves
  <2>. QED BY <2>1, <2>2, <2>3, <2>4, <2>5
<1>3. ASSUME NEW w \in Worker, NEW t \in Thread, destroy'[w][t].step = "none"
      PROVE  destroy'[w][t].session = None
  <2>1. CASE destroy'[w][t] = destroy[w][t]
    BY <1>3, <2>1 DEF DestroysMatch
  <2>2. CASE Passes(w, t, "remove", "unlink") \/ Passes(w, t, "unlink", "forget")
    BY <1>3, <2>2, PassFields
  <2>3. ASSUME NEW s \in Session, Begins(w, t, s)
        PROVE  FALSE
    BY <1>3, <2>3 DEF Begins, TypeOK
  <2>4. CASE destroy'[w][t] = NoDestroy
    BY <2>4 DEF NoDestroy
  <2>. QED BY <2>1, <2>2, <2>3, <2>4, DestroyMoves
<1>. QED BY <1>1, <1>2, <1>3 DEF DestroysMatch

\* What a worker knows stays on its own daemon.
LEMMA OwnDaemonStep ==
    ASSUME TypeOK, JobOK, HandlersMatch, OwnDaemon, Next, "crash" \notin faults'.kinds
    PROVE  OwnDaemon'
<1>0. up = Worker /\ up' = Worker
  BY RestMoves DEF OwnDaemon
<1>1. ASSUME NEW w \in Worker, job'[w].pc \in {"save", "discard", "register"}
      PROVE  /\ job'[w].data.runtime \in Container
             /\ Hosts(w, job[w].data.runtime, job[w].msg.session)'
  <2>1. CASE /\ job[w].pc \in {"save", "discard", "register"}
             /\ job'[w].msg = job[w].msg /\ job'[w].data.runtime = job[w].data.runtime
    <3>1. PICK c \in Container : c = job[w].data.runtime
      BY <2>1 DEF OwnDaemon
    <3>2. PICK x : x = job[w].msg.session
      OBVIOUS
    <3>3. Hosts(w, c, x)
      BY <2>1, <3>1, <3>2 DEF OwnDaemon
    <3>4. Hosts(w, c, x)'
      BY <3>3, HostsKept
    <3>. QED BY <2>1, <3>1, <3>2, <3>4 DEF Hosts, Of
  <2>2. ASSUME NEW c \in Container, Provisions(w, c)
        PROVE  /\ job'[w].data.runtime \in Container
               /\ Hosts(w, job[w].data.runtime, job[w].msg.session)'
    BY <2>2 DEF Provisions, Hosts, Of, NewBox, TypeOK
  <2>3. CASE Still(w)
    BY <1>1, <2>1, <2>3 DEF Still
  <2>4. ASSUME NEW m \in Message, Takes(w, m)
        PROVE  FALSE
    BY <1>1, <2>4 DEF Takes
  <2>5. CASE Advances(w)
    BY <1>1, <2>1, <2>5 DEF Advances, Goes
  <2>6. CASE Rests(w)
    BY <1>1, <2>6 DEF Rests, IdleJob
  <2>. QED BY <2>2, <2>3, <2>4, <2>5, <2>6, JobMoves
<1>2. ASSUME NEW w \in Worker, NEW s \in Session, Present(mem'[w][s])
      PROVE  /\ mem'[w][s].runtime \in Container /\ Hosts(w, mem[w][s].runtime, s)'
             /\ ~Creating(w, s)'
  <2>1. CASE mem'[w][s].runtime = mem[w][s].runtime
    <3>1. PICK c \in Container : c = mem[w][s].runtime /\ Hosts(w, c, s) /\ ~Creating(w, s)
      BY <1>2, <2>1 DEF OwnDaemon, Present
    <3>2. Hosts(w, c, s)'
      BY <3>1, HostsKept
    <3>3. ~Creating(w, s)'
      <4>1. CASE Still(w)
        BY <3>1, <4>1 DEF Still, Creating
      <4>2. ASSUME NEW m \in Message, Takes(w, m)
            PROVE  ~Creating(w, s)'
        BY <1>2, <2>1, <4>2, MessageFacts DEF Takes, Creating, CreatePc, Present
      <4>3. CASE (\E d \in Container : Provisions(w, d)) \/ Advances(w)
        BY <3>1, <4>3 DEF Provisions, Advances, Goes, Creating, CreatePc
      <4>4. CASE Rests(w)
        BY <4>4 DEF Rests, IdleJob, Creating, CreatePc
      <4>. QED BY <4>1, <4>2, <4>3, <4>4, JobMoves
    <3>. QED BY <2>1, <3>1, <3>2, <3>3 DEF Hosts, Of
  <2>2. CASE Tick
    BY <2>1, <2>2, AgedDataType DEF Tick, TypeOK
  <2>3. CASE Registers(w, s)
    <3>1. PICK c \in Container : c = job[w].data.runtime
      BY <2>3 DEF OwnDaemon, Registers, Goes
    <3>2. mem'[w][s].runtime = c /\ Hosts(w, c, s)
      BY <2>3, <3>1 DEF OwnDaemon, Registers, Goes, TypeOK
    <3>3. ~Creating(w, s)'
      BY <2>3 DEF Registers, Goes, Creating, CreatePc
    <3>4. Hosts(w, c, s)'
      BY <3>2, HostsKept
    <3>. QED BY <3>2, <3>3, <3>4 DEF Hosts, Of
  <2>4. CASE mem'[w][s] = NoData
    BY <1>2, <2>4 DEF Present, NoData
  <2>. QED BY <1>0, <2>1, <2>2, <2>3, <2>4, MemMoves
<1>. QED BY <1>0, <1>1, <1>2 DEF OwnDaemon

\* Where a worker comes to handle session.started of s.
LEMMA OnStep ==
    ASSUME TypeOK, JobOK, Next, NEW v \in Worker, NEW s \in Session
    PROVE  /\ On(v, s)' => On(v, s) \/ Takes(v, Started(s))
           /\ Creating(v, s)' => Creating(v, s) \/ Takes(v, Started(s))
<1>1. CASE Still(v)
  BY <1>1 DEF Still, On, Creating
<1>2. ASSUME NEW m \in Message, Takes(v, m)
      PROVE  On(v, s)' \/ Creating(v, s)' => m = Started(s)
  BY <1>2 DEF Takes, On, Creating
<1>3. CASE (\E c \in Container : Provisions(v, c)) \/ Advances(v)
  <2>1. job[v].pc # "idle" /\ job'[v].msg = job[v].msg
        /\ (job'[v].pc \in CreatePc => job[v].pc \in CreatePc)
    BY <1>3 DEF Provisions, Advances, Goes, CreatePc
  <2>. QED BY <2>1 DEF On, Creating
<1>4. CASE Rests(v)
  BY <1>4 DEF Rests, IdleJob, On, Creating, CreatePc
<1>. QED BY <1>1, <1>2, <1>3, <1>4, JobMoves

\* A Create handles session.started, and so does a report.
LEMMA CreatingOn ==
    ASSUME NEW v \in Worker, NEW s \in Session
    PROVE  Creating(v, s) => On(v, s)
BY DEF Creating, On, CreatePc

\* Where a container of s comes from.
LEMMA OfStep ==
    ASSUME TypeOK, JobOK, HandlersMatch, Next, NEW c \in Container, NEW s \in Session
    PROVE  Of(c, s)' => \/ Of(c, s)
                        \/ \E w \in Worker : /\ Made(w, c) /\ job[w].msg = Started(s)
                                             /\ Creating(w, s) /\ On(w, s)
<1>1. CASE Kept(c)
  BY <1>1 DEF Kept, Of
<1>2. ASSUME NEW w \in Worker, Made(w, c), Of(c, s)'
      PROVE  job[w].msg = Started(s) /\ Creating(w, s) /\ On(w, s)
  BY <1>2, MessageFacts DEF Made, Of, HandlersMatch, CreatePc, Creating, On
<1>. QED BY <1>1, <1>2, BoxMoves

\* What one delivery means.
LEMMA DeliveredBack ==
    ASSUME TypeOK, JobOK, Next, NEW s \in Session, DeliveredOnce(s)'
    PROVE  /\ DeliveredOnce(s) /\ Started(s) \in Message
           /\ sent[Started(s)] \in Nat /\ sent'[Started(s)] \in Nat /\ queue[Started(s)] \in Nat
           /\ sent'[Started(s)] <= 1 /\ sent[Started(s)] <= sent'[Started(s)]
           /\ "crash" \notin faults'.kinds /\ "conn" \notin faults'.kinds
           /\ Without({"crash"}) /\ Without({"crash"})'
<1>1. Started(s) \in Message
  BY MessageType
<1>2. /\ sent[Started(s)] \in Nat /\ sent'[Started(s)] \in Nat /\ queue[Started(s)] \in Nat
      /\ sent'[Started(s)] >= sent[Started(s)]
  BY <1>1, SentGrows
<1>3. sent'[Started(s)] <= 1 /\ Without({"conn", "crash"})'
  BY DEF DeliveredOnce
<1>4. Without({"conn", "crash"}) /\ "crash" \notin faults'.kinds /\ "conn" \notin faults'.kinds
  BY <1>3, WithoutBack
<1>. QED BY <1>1, <1>2, <1>3, <1>4 DEF DeliveredOnce, Without

\* Once it is taken, session.started is not in the queue again.
LEMMA TakenStep ==
    ASSUME TypeOK, JobOK, Next, NEW s \in Session, Once(s), DeliveredOnce(s)'
    PROVE  /\ Taken(s) => Taken(s)'
           /\ queue'[Started(s)] <= sent'[Started(s)]
           /\ \A w \in Worker : Takes(w, Started(s)) => ~Taken(s) /\ Taken(s)'
           /\ \/ UNCHANGED <<job, redis, box, reported>>
              \/ Taken(s)' = Taken(s)
              \/ \E w \in Worker : Takes(w, Started(s))
<1>. DEFINE q == queue[Started(s)]
            n == sent[Started(s)]
<1>1. /\ n \in Nat /\ n' \in Nat /\ q \in Nat /\ n' <= 1 /\ n <= n' /\ Started(s) \in Message
      /\ "crash" \notin faults'.kinds /\ "conn" \notin faults'.kinds
  BY DeliveredBack
<1>2. q <= n
  BY DEF Once
<1>3. \/ q' = q /\ n' = n
      \/ q' = q + 1 /\ n' = n + 1 /\ UNCHANGED <<job, redis, box, reported>>
      \/ n' = n /\ \E w \in Worker : Takes(w, Started(s))
  BY <1>1, QueueMoves
<1>4. ASSUME NEW w \in Worker, Takes(w, Started(s))
      PROVE  q > 0 /\ q' = q - 1 /\ n' = n
  BY <1>4 DEF Takes
<1>. HIDE DEF q, n
<1>5. ~(n > 0 /\ q = 0) \/ (n' > 0 /\ q' = 0)
  BY <1>1, <1>2, <1>3, <1>4
<1>6. q' <= n'
  BY <1>1, <1>2, <1>3, <1>4
<1>7. ASSUME NEW w \in Worker, Takes(w, Started(s))
      PROVE  q # 0 /\ n' > 0 /\ q' = 0
  BY <1>1, <1>2, <1>4, <1>7
<1>8. \/ UNCHANGED <<job, redis, box, reported>>
      \/ q' = q /\ n' = n
      \/ \E w \in Worker : Takes(w, Started(s))
  BY <1>3
<1>. QED BY <1>5, <1>6, <1>7, <1>8 DEF Taken, q, n

\* One delivery of session.started is worked on once, by one worker.
LEMMA OnceStep ==
    ASSUME TypeOK, JobOK, HandlersMatch, DestroysMatch, OwnDaemon, Next,
           NEW s \in Session, Once(s), DeliveredOnce(s)'
    PROVE  Once(s)'
<1>0. /\ "crash" \notin faults'.kinds /\ Started(s) \in Message /\ up = Worker
      /\ queue'[Started(s)] <= sent'[Started(s)]
  BY DeliveredBack, TakenStep DEF OwnDaemon
<1>1. ASSUME NEW w \in Worker, Takes(w, Started(s))
      PROVE  /\ s \notin reported /\ ~Present(redis[s])
             /\ \A v \in Worker : ~On(v, s)
             /\ \A c \in Container : ~Of(c, s)
  BY <1>1, TakenStep DEF Once
<1>2. ASSUME ~Taken(s)'
      PROVE  /\ s \notin reported' /\ ~Present(redis'[s])
             /\ \A w \in Worker : ~On(w, s)'
             /\ \A c \in Container : ~Of(c, s)'
  <2>1. ~Taken(s) /\ \A w \in Worker : ~Takes(w, Started(s))
    BY <1>2, TakenStep
  <2>2. /\ s \notin reported /\ ~Present(redis[s])
        /\ \A w \in Worker : ~On(w, s)
        /\ \A c \in Container : ~Of(c, s)
    BY <2>1 DEF Once
  <2>3. \A w \in Worker : ~On(w, s)'
    BY <2>1, <2>2, OnStep
  <2>4. \A c \in Container : ~Of(c, s)'
    BY <2>2, OfStep
  <2>5. ASSUME NEW w \in Worker, job[w].pc \in CreatePc \cup {"report"}, job[w].msg.session = s
        PROVE  FALSE
    <3>1. On(w, s)
      BY <2>5 DEF HandlersMatch, On, CreatePc
    <3>. QED BY <2>2, <3>1
  <2>6. s \notin reported'
    BY <2>2, <2>5, RestMoves DEF Goes
  <2>7. ~Present(redis'[s])
    <3>1. CASE Tick
      BY <2>2, <3>1 DEF Tick, Present, NoData, AgedData
    <3>2. ASSUME NEW w \in Worker, Goes(w, "save", "register"), job[w].msg.session = s
          PROVE  FALSE
      BY <2>5, <3>2 DEF Goes, CreatePc
    <3>. QED BY <2>1, <2>2, <3>1, <3>2, RedisMoves DEF Present, NoData
  <2>. QED BY <2>3, <2>4, <2>6, <2>7
<1>3. ASSUME NEW w \in Worker, NEW v \in Worker, On(w, s)', On(v, s)'
      PROVE  w = v
  <2>1. CASE On(w, s) /\ On(v, s)
    BY <2>1 DEF Once
  <2>2. ASSUME NEW x \in Worker, Takes(x, Started(s))
        PROVE  w = v
    <3>1. \A u \in Worker : ~On(u, s) /\ (u # x => job'[u] = job[u])
      BY <1>1, <2>2 DEF Takes
    <3>2. \A u \in Worker : u # x => ~On(u, s)'
      BY <3>1 DEF On
    <3>. QED BY <1>3, <3>2
  <2>. QED BY <1>3, <2>1, <2>2, OnStep
<1>4. ASSUME NEW c \in Container, NEW d \in Container, Of(c, s)', Of(d, s)'
      PROVE  c = d
  <2>1. CASE Of(c, s) /\ Of(d, s)
    BY <2>1 DEF Once
  <2>2. ASSUME NEW w \in Worker, NEW x \in Container, Made(w, x), job[w].msg = Started(s)
        PROVE  c = d
    <3>1. \A e \in Container : ~Of(e, s) /\ (e # x => box'[e] = box[e])
      BY <2>2 DEF Made, Once
    <3>2. \A e \in Container : e # x => ~Of(e, s)'
      BY <3>1 DEF Of
    <3>. QED BY <1>4, <3>2
  <2>. QED BY <1>4, <2>1, <2>2, OfStep
<1>5. ASSUME NEW w \in Worker, Creating(w, s)'
      PROVE  s \notin reported'
  <2>1. CASE Takes(w, Started(s))
    BY <1>1, <2>1 DEF Takes
  <2>2. CASE Creating(w, s) /\ On(w, s)
    <3>1. s \notin reported
      BY <2>2 DEF Once
    <3>2. ASSUME NEW v \in Worker, Goes(v, "report", "nack"), job[v].msg.session = s
          PROVE  FALSE
      <4>1. On(v, s)
        BY <3>2 DEF Goes, On, HandlersMatch
      <4>2. v = w
        BY <2>2, <4>1 DEF Once
      <4>. QED BY <2>2, <3>2, <4>2 DEF Goes, Creating, CreatePc
    <3>. QED BY <3>1, <3>2, RestMoves
  <2>. QED BY <1>5, <2>1, <2>2, OnStep, CreatingOn
<1>6. ASSUME NEW w \in Worker, job'[w].pc = "provision", job'[w].msg = Started(s)
      PROVE  \A c \in Container : ~Of(c, s)'
  <2>0. Creating(w, s)' /\ On(w, s)'
    BY <1>6 DEF Creating, On, CreatePc
  <2>1. CASE Takes(w, Started(s))
    BY <1>1, <2>1 DEF Takes, Of
  <2>2. CASE On(w, s) /\ ~Takes(w, Started(s))
    <3>1. Still(w) \/ \E m \in Message : Takes(w, m)
      <4>1. ~Advances(w) /\ ~Rests(w) /\ \A c \in Container : ~Provisions(w, c)
        BY <1>6 DEF Provisions, Advances, Goes, Rests, IdleJob
      <4>. QED BY <4>1, JobMoves
    <3>2. job[w].pc = "provision" /\ job[w].msg = Started(s) /\ Still(w)
      BY <1>6, <2>2, <3>1 DEF Still, Takes
    <3>3. ASSUME NEW c \in Container, NEW v \in Worker, Made(v, c), On(v, s)
          PROVE  FALSE
      <4>1. v = w
        BY <2>2, <3>3 DEF Once
      <4>. QED BY <1>6, <3>3, <4>1 DEF Made, Provisions, Goes
    <3>. QED BY <3>2, <3>3, OfStep DEF Once
  <2>. QED BY <2>0, <2>1, <2>2, OnStep
<1>7. ASSUME NEW w \in Worker, Created(w, s)
      PROVE  Created(w, s)'
  <2>1. PICK c \in Container : Hosts(w, c, s)
    BY <1>7 DEF Created
  <2>2. Hosts(w, c, s)'
    BY <2>1, HostsKept
  <2>3. Of(c, s)
    BY <2>1 DEF Hosts
  <2>4. \A v \in Worker : ~Creating(v, s)'
    BY <1>1, <1>7, <2>3, OnStep DEF Created
  <2>. QED BY <2>2, <2>4 DEF Created
<1>8. ASSUME NEW w \in Worker, Present(mem'[w][s])
      PROVE  Created(w, s)'
  <2>1. CASE Present(mem[w][s])
    BY <1>7, <2>1 DEF Once
  <2>2. CASE Registers(w, s)
    <3>1. OwnDaemon'
      BY <1>0, OwnDaemonStep
    <3>2. /\ mem'[w][s].runtime \in Container /\ Hosts(w, mem[w][s].runtime, s)' /\ ~Creating(w, s)'
      BY <1>8, <3>1 DEF OwnDaemon
    <3>3. On(w, s) /\ \A v \in Worker : ~Takes(v, Started(s))
      <4>1. On(w, s)
        BY <2>2 DEF Registers, Goes, On, HandlersMatch, CreatePc
      <4>. QED BY <1>1, <4>1
    <3>4. ASSUME NEW v \in Worker, v # w
          PROVE  ~Creating(v, s)'
      BY <3>3, <3>4, OnStep, CreatingOn DEF Once
    <3>. QED BY <3>2, <3>4 DEF Created, Hosts, Of
  <2>3. CASE Tick
    <3>1. mem'[w][s].runtime = mem[w][s].runtime
      BY <2>3, AgedDataType DEF Tick, TypeOK
    <3>. QED BY <1>8, <2>1, <3>1 DEF Present
  <2>4. CASE mem'[w][s] = NoData
    BY <1>8, <2>4 DEF Present, NoData
  <2>5. CASE mem'[w][s] = mem[w][s]
    BY <1>8, <2>1, <2>5
  <2>. QED BY <1>0, <2>2, <2>3, <2>4, <2>5, MemMoves
<1>9. ASSUME NEW w \in Worker, s \in sweep'[w].todo
      PROVE  Created(w, s)'
  <2>1. s \in sweep[w].todo \/ Present(mem[w][s])
    BY <1>0, <1>9, SweepMoves DEF Active
  <2>. QED BY <1>7, <2>1 DEF Once
<1>10. ASSUME NEW w \in Worker, destroy'[w]["reaper"].step # "none", destroy'[w]["reaper"].session = s
       PROVE  Created(w, s)'
  <2>. DEFINE t == "reaper"
  <2>0. t \in Thread
    BY DEF Thread
  <2>1. CASE destroy'[w][t] = destroy[w][t] \/ Passes(w, t, "remove", "unlink")
             \/ Passes(w, t, "unlink", "forget")
    <3>1. destroy[w][t].step # "none" /\ destroy[w][t].session = s
      BY <1>10, <2>0, <2>1, PassFields
    <3>. QED BY <1>7, <3>1 DEF Once
  <2>2. ASSUME NEW x \in Session, Begins(w, t, x)
        PROVE  Created(w, s)'
    <3>1. x = s /\ s \in sweep[w].todo
      BY <1>10, <2>0, <2>2 DEF Begins, TypeOK
    <3>. QED BY <1>7, <3>1 DEF Once
  <2>3. CASE destroy'[w][t] = NoDestroy
    BY <1>10, <2>3 DEF NoDestroy
  <2>. QED BY <1>0, <2>0, <2>1, <2>2, <2>3, DestroyMoves
<1>11. ASSUME NEW w \in Worker, destroy'[w]["job"].step # "none", destroy'[w]["job"].session = s
       PROVE  Taken(s)'
  <2>. DEFINE t == "job"
  <2>0. t \in Thread
    BY DEF Thread
  <2>1. CASE destroy'[w][t] = destroy[w][t] \/ Passes(w, t, "remove", "unlink")
             \/ Passes(w, t, "unlink", "forget")
    <3>1. destroy[w][t].step # "none" /\ destroy[w][t].session = s
      BY <1>11, <2>0, <2>1, PassFields
    <3>. QED BY <3>1, TakenStep DEF Once
  <2>2. ASSUME NEW x \in Session, Begins(w, t, x)
        PROVE  Taken(s)'
    <3>1. x = s /\ Present(Get(w, s))
      BY <1>11, <2>0, <2>2 DEF Begins, TypeOK
    <3>2. Taken(s)
      BY <3>1 DEF Get, Once, Created, Hosts
    <3>. QED BY <3>2, TakenStep
  <2>3. CASE destroy'[w][t] = NoDestroy
    BY <1>11, <2>3 DEF NoDestroy
  <2>. QED BY <1>0, <2>0, <2>1, <2>2, <2>3, DestroyMoves
<1>. QED BY <1>0, <1>2, <1>3, <1>4, <1>5, <1>6, <1>8, <1>9, <1>10, <1>11 DEF Once

\* Time ages what a worker knows.
LEMMA TickKeeps ==
    ASSUME TypeOK, Tick, NEW w \in Worker, NEW s \in Session
    PROVE  mem'[w][s] = AgedData(mem[w][s]) /\ mem'[w][s].runtime = mem[w][s].runtime
<1>1. mem'[w][s] = AgedData(mem[w][s]) /\ mem[w][s] \in SessionData
  BY DEF Tick, TypeOK
<1>. QED BY <1>1, AgedDataType

\* A container that is somebody's does not come to run.
LEMMA RunningBack ==
    ASSUME TypeOK, JobOK, Next, NEW c \in Container, NEW s, Of(c, s)
    PROVE  Running(c)' => Running(c)
BY BoxMoves DEF Of, Kept, Made, Running

\* Where a running container of s comes from.
LEMMA RunningStep ==
    ASSUME TypeOK, JobOK, HandlersMatch, InTime, Next, NEW c \in Container, NEW s \in Session,
           Running(c)', box'[c].owner = s
    PROVE  \/ Running(c) /\ Of(c, s) /\ box'[c].host = box[c].host
           \/ \E w \in Worker : /\ Provisions(w, c) /\ box'[c].host = w
                                /\ job[w].msg = Started(s) /\ On(w, s)
<1>1. CASE Kept(c)
  BY <1>1 DEF Kept, Running, Of
<1>2. ASSUME NEW w \in Worker, Made(w, c)
      PROVE  /\ Provisions(w, c) /\ box'[c].host = w /\ job[w].msg = Started(s) /\ On(w, s)
  <2>1. Of(c, s)' /\ ~Of(c, s)
    BY <1>2 DEF Made, Of
  <2>2. Provisions(w, c) /\ box'[c].host = w
    BY <1>2 DEF Made, InTime, Running
  <2>3. job[w].msg = Started(s) /\ On(w, s)
    BY <1>2, MessageFacts DEF Made, HandlersMatch, CreatePc, On
  <2>. QED BY <2>2, <2>3
<1>. QED BY <1>1, <1>2, BoxMoves

\* Nothing of s comes to run unless a Provision for s returns.
LEMMA NothingStep ==
    ASSUME TypeOK, JobOK, HandlersMatch, InTime, Next, NEW s \in Session, Nothing(s),
           \A w \in Worker, c \in Container : On(w, s) => ~Provisions(w, c)
    PROVE  Nothing(s)'
BY RunningStep DEF Nothing, Of

\* A container that a Create holds is held on, registered, or removed.
LEMMA HeldStep ==
    ASSUME TypeOK, JobOK, OwnDaemon, InTime, Next,
           "crash" \notin faults'.kinds, "docker" \notin faults'.kinds,
           NEW w \in Worker, NEW c \in Container, NEW s \in Session, Hosts(w, c, s),
           job[w].pc \in {"save", "discard", "register"}, job[w].data.runtime = c,
           Running(c)'
    PROVE  \/ job'[w].pc \in {"save", "discard", "register"} /\ job'[w].data.runtime = c
           \/ mem'[w][s].runtime = c
<1>1. job[w].msg.session = s
  BY DEF OwnDaemon, Hosts, Of
<1>2. CASE Still(w)
  BY <1>2 DEF Still
<1>3. CASE Goes(w, "discard", "report") /\ (box' = Removed(w, job[w].data.runtime) \/ Failed(w, "docker"))
  <2>1. box' = Removed(w, c)
    BY <1>3 DEF Failed, InTime
  <2>. QED BY <2>1, RemovedStops DEF Running
<1>4. CASE Goes(w, "register", "ack") /\ mem' = [mem EXCEPT ![w][job[w].msg.session] = job[w].data]
  BY <1>1, <1>4 DEF TypeOK
<1>5. CASE Advances(w)
  BY <1>3, <1>4, <1>5 DEF Advances, Goes
<1>6. CASE (\E m \in Message : Takes(w, m)) \/ (\E d \in Container : Provisions(w, d)) \/ Rests(w)
  BY <1>6 DEF Takes, Provisions, Rests
<1>. QED BY <1>2, <1>5, <1>6, JobMoves

\* As long as the daemons obey: what runs is known, and what is reported does not run.
LEMMA ObeyedStep ==
    ASSUME TypeOK, JobOK, HandlersMatch, DestroysMatch, OwnDaemon, InTime, Next,
           NEW s \in Session, Once(s), Obeyed(s), DeliveredOnce(s)',
           "docker" \notin faults'.kinds, "timeout" \notin faults'.kinds
    PROVE  Obeyed(s)'
<1>0. /\ "crash" \notin faults'.kinds /\ up = Worker /\ Once(s)'
  BY DeliveredBack, OnceStep DEF OwnDaemon
<1>1. ASSUME NEW w \in Worker, On(w, s), job[w].pc # "provision"
      PROVE  \A v \in Worker, c \in Container : On(v, s) => ~Provisions(v, c)
  BY <1>1 DEF Once, Provisions
<1>2. ASSUME s \in reported'
      PROVE  Nothing(s)' /\ \A w \in Worker : ~Creating(w, s)'
  <2>1. \A w \in Worker : ~Creating(w, s)'
    BY <1>0, <1>2 DEF Once
  <2>2. CASE s \in reported
    <3>1. Nothing(s) /\ \A w \in Worker : ~Creating(w, s)
      BY <2>2 DEF Obeyed
    <3>2. \A v \in Worker, c \in Container : On(v, s) => ~Provisions(v, c)
      BY <3>1 DEF On, Provisions, Creating, CreatePc
    <3>. QED BY <2>1, <3>1, <3>2, NothingStep
  <2>3. ASSUME NEW w \in Worker, Goes(w, "report", "nack"), job[w].msg.session = s
        PROVE  Nothing(s)'
    <3>1. job[w].pc = "report" /\ job[w].msg = Started(s) /\ On(w, s)
      BY <2>3 DEF Goes, HandlersMatch, On
    <3>2. Nothing(s)
      BY <3>1 DEF Obeyed
    <3>. QED BY <1>1, <3>1, <3>2, NothingStep
  <2>. QED BY <1>2, <2>1, <2>2, <2>3, RestMoves
<1>3. ASSUME NEW w \in Worker, job'[w].pc \in {"withdraw", "report", "nack"}, job'[w].msg = Started(s)
      PROVE  Nothing(s)'
  <2>1. CASE Still(w) \/ Goes(w, "withdraw", "report") \/ Goes(w, "report", "nack")
    <3>1. job[w].pc \in {"withdraw", "report", "nack"} /\ job[w].msg = Started(s)
      BY <1>3, <2>1 DEF Still, Goes
    <3>2. Nothing(s) /\ On(w, s)
      BY <3>1 DEF Obeyed, On
    <3>. QED BY <1>1, <3>1, <3>2, NothingStep
  <2>2. CASE Goes(w, "provision", "withdraw")
    <3>1. job[w].pc = "provision" /\ job[w].msg = Started(s) /\ On(w, s)
      BY <1>3, <2>2 DEF Goes, On
    <3>2. \A c \in Container : ~Of(c, s)
      BY <3>1 DEF Once
    <3>3. Nothing(s)
      BY <3>2 DEF Nothing, Of, Running
    <3>4. \A v \in Worker, c \in Container : On(v, s) => ~Provisions(v, c)
      BY <2>2, <3>1 DEF Once, Provisions, Goes
    <3>. QED BY <3>3, <3>4, NothingStep
  <2>3. CASE Goes(w, "discard", "report") /\ (box' = Removed(w, job[w].data.runtime) \/ Failed(w, "docker"))
    <3>1. PICK c \in Container : c = job[w].data.runtime
      BY <2>3 DEF Goes, OwnDaemon
    <3>2. job[w].msg = Started(s) /\ job[w].pc = "discard"
      BY <1>3, <2>3 DEF Goes
    <3>3. Hosts(w, c, s)
      BY <3>1, <3>2, MessageFacts DEF OwnDaemon
    <3>4. ~Running(c)'
      BY <2>3, <3>1, <3>3, RemovedStops DEF Failed, InTime, Running
    <3>5. ASSUME NEW d \in Container, Running(d)', box'[d].owner = s
          PROVE  FALSE
      <4>1. ~\E v \in Worker : Provisions(v, d) /\ On(v, s)
        BY <3>2, <1>1 DEF On
      <4>2. Of(d, s)
        BY <3>5, <4>1, RunningStep
      <4>3. d = c
        BY <3>3, <4>2 DEF Once, Hosts
      <4>. QED BY <3>4, <3>5, <4>3
    <3>. QED BY <3>5 DEF Nothing
  <2>4. ASSUME NEW m \in Message, Takes(w, m)
        PROVE  FALSE
    BY <1>3, <2>4, MessageFacts DEF Takes
  <2>5. CASE Advances(w)
    BY <1>3, <2>1, <2>2, <2>3, <2>5 DEF Advances, Goes
  <2>6. ~Rests(w) /\ \A d \in Container : ~Provisions(w, d)
    BY <1>3 DEF Provisions, Rests, IdleJob
  <2>. QED BY <2>1, <2>4, <2>5, <2>6, JobMoves
<1>4. ASSUME NEW c \in Container, Running(c)', box'[c].owner = s
      PROVE  Tracked(c)'
  <2>1. ASSUME NEW w \in Worker, Provisions(w, c)
        PROVE  Tracked(c)'
    BY <2>1 DEF Provisions, Tracked
  <2>2. CASE Running(c) /\ Of(c, s)
    <3>1. ASSUME NEW w \in Worker, mem[w][s].runtime = c
          PROVE  mem'[w][s].runtime = c
      <4>1. Present(mem[w][s]) /\ Created(w, s)
        BY <3>1, RuntimeAssumption DEF Present, Once
      <4>2. ~Registers(w, s)
        BY <4>1 DEF Registers, Goes, Created, Creating, CreatePc, HandlersMatch
      <4>3. ~Forgets(w, s)
        BY <2>2, <3>1, <4>1 DEF Forgets, Obeyed
      <4>4. Tick => mem'[w][s].runtime = mem[w][s].runtime
        BY TickKeeps
      <4>. QED BY <1>0, <3>1, <4>2, <4>3, <4>4, MemMoves
    <3>2. ASSUME NEW w \in Worker, job[w].pc \in {"save", "discard", "register"},
                 job[w].data.runtime = c
          PROVE  Tracked(c)'
      <4>1. Hosts(w, c, s)
        BY <2>2, <3>2 DEF OwnDaemon, Hosts, Of
      <4>. QED BY <1>0, <1>4, <3>2, <4>1, HeldStep DEF Tracked
    <3>3. box[c].owner = s
      BY <2>2 DEF Of
    <3>4. \E w \in Worker :
            \/ mem[w][s].runtime = c
            \/ job[w].pc \in {"save", "discard", "register"} /\ job[w].data.runtime = c
      BY <2>2, <3>3 DEF Obeyed, Tracked
    <3>. QED BY <1>4, <3>1, <3>2, <3>4 DEF Tracked
  <2>. QED BY <1>4, <2>1, <2>2, RunningStep
<1>5. ASSUME NEW w \in Worker, NEW t \in Thread, destroy'[w][t].session = s
      PROVE  /\ destroy'[w][t].step # "none" =>
                   mem'[w][s].runtime \in {None, destroy'[w][t].runtime}
             /\ destroy'[w][t].step \in {"unlink", "forget"} /\ Present(mem'[w][s]) =>
                   ~Running(mem[w][s].runtime)'
  <2>1. CASE destroy'[w][t] = destroy[w][t]
    <3>. SUFFICES ASSUME destroy[w][t].step # "none"
                  PROVE  /\ mem'[w][s].runtime \in {None, destroy[w][t].runtime}
                         /\ destroy[w][t].step \in {"unlink", "forget"} /\ Present(mem'[w][s]) =>
                               ~Running(mem[w][s].runtime)'
      BY <2>1
    <3>1. ~Registers(w, s)
      <4>1. CASE t = "job"
        BY <4>1 DEF JobOK, Registers, Goes
      <4>2. CASE t = "reaper"
        BY <1>5, <2>1, <4>2 DEF Once, Created, Creating, CreatePc, Registers, Goes, HandlersMatch
      <4>. QED BY <4>1, <4>2 DEF Thread
    <3>2. mem'[w][s].runtime \in {None, mem[w][s].runtime}
      <4>1. Tick => mem'[w][s].runtime = mem[w][s].runtime
        BY TickKeeps
      <4>. QED BY <1>0, <3>1, <4>1, MemMoves DEF NoData
    <3>3. mem[w][s].runtime \in {None, destroy[w][t].runtime}
      BY <1>5, <2>1 DEF Obeyed
    <3>4. ASSUME destroy[w][t].step \in {"unlink", "forget"}, Present(mem'[w][s])
          PROVE  ~Running(mem[w][s].runtime)'
      <4>1. Present(mem[w][s]) /\ mem'[w][s].runtime = mem[w][s].runtime
        BY <3>2, <3>4 DEF Present
      <4>2. PICK c \in Container : c = mem[w][s].runtime /\ Hosts(w, c, s)
        BY <4>1 DEF OwnDaemon
      <4>3. ~Running(c)
        BY <1>5, <2>1, <3>4, <4>1, <4>2 DEF Obeyed
      <4>4. ~Running(c)'
        BY <4>2, <4>3, RunningBack DEF Hosts
      <4>. QED BY <4>1, <4>2, <4>4 DEF Running
    <3>. QED BY <3>2, <3>3, <3>4
  <2>2. ASSUME NEW x \in Session, Begins(w, t, x)
        PROVE  /\ destroy'[w][t].step = "remove"
               /\ mem'[w][s].runtime \in {None, destroy'[w][t].runtime}
    BY <1>5, <2>2 DEF Begins, TypeOK, Get, Present
  <2>3. CASE /\ Passes(w, t, "remove", "unlink")
             /\ box' = Removed(w, destroy[w][t].runtime) \/ Failed(w, "docker")
    <3>1. box' = Removed(w, destroy[w][t].runtime) /\ mem' = mem
      BY <2>3 DEF Failed, InTime, Passes
    <3>2. mem[w][s].runtime \in {None, destroy[w][t].runtime}
          /\ destroy'[w][t].runtime = destroy[w][t].runtime
      BY <1>5, <2>3, PassFields DEF Obeyed
    <3>3. ASSUME Present(mem[w][s])
          PROVE  ~Running(mem[w][s].runtime)'
      <4>1. PICK c \in Container : c = mem[w][s].runtime /\ Hosts(w, c, s)
        BY <3>3 DEF OwnDaemon
      <4>2. ~Running(c)'
        BY <3>1, <3>2, <3>3, <4>1, RemovedStops DEF Present, Running
      <4>. QED BY <3>1, <4>1, <4>2 DEF Running
    <3>. QED BY <3>1, <3>2, <3>3
  <2>4. CASE Passes(w, t, "unlink", "forget") /\ UNCHANGED box
    BY <1>5, <2>4, PassFields DEF Passes, Obeyed, Running
  <2>5. CASE destroy'[w][t] = NoDestroy
    BY <2>5 DEF NoDestroy
  <2>. QED BY <1>0, <2>1, <2>2, <2>3, <2>4, <2>5, DestroyMoves
<1>. QED BY <1>2, <1>3, <1>4, <1>5 DEF Obeyed

\* The record in memory, or in the hands of a Create, is the record in Redis.
LEMMA RoutedStep ==
    ASSUME TypeOK, JobOK, MessagesSent, HandlersMatch, DestroysMatch, OwnDaemon, Next,
           NEW s \in Session, Once(s), DeliveredOnce(s)', NEW w \in Worker, Routed(w, s)
    PROVE  Routed(w, s)'
<1>. SUFFICES ASSUME Worker = {w} \/ sent'[Ended(s)] = 0
              PROVE  /\ Present(mem'[w][s]) /\ mem'[w][s].age < RedisTTL
                        => redis'[s] = mem'[w][s] \/ \E t \in Thread : destroy'[w][t].session = s
                     /\ job'[w].pc = "register" /\ job'[w].msg = Started(s) /\ job'[w].data.age < RedisTTL
                        => redis'[s] = job'[w].data
  BY DEF Routed
<1>0. /\ "crash" \notin faults'.kinds /\ up = Worker
      /\ \A v \in Worker : Takes(v, Started(s)) => ~Taken(s)
  BY DeliveredBack, TakenStep DEF OwnDaemon
<1>1. Worker = {w} \/ sent[Ended(s)] = 0
  BY SentGrows, MessageType
<1>2. ASSUME NEW v \in Worker, v # w, destroy[v]["job"].step # "none"
      PROVE  destroy[v]["job"].session # s
  <2>1. job[v].pc # "idle" /\ job[v].msg = Ended(destroy[v]["job"].session)
    BY <1>2 DEF JobOK, DestroysMatch
  <2>. QED BY <1>1, <1>2, <2>1 DEF MessagesSent
<1>3. ASSUME NEW v \in Worker, v # w, destroy[v]["reaper"].step # "none",
             destroy[v]["reaper"].session = s, Created(w, s)
      PROVE  FALSE
  <2>1. Created(v, s)
    BY <1>3 DEF Once
  <2>. QED BY <1>3, <2>1 DEF Created, Hosts, Once
<1>4. \A d \in SessionData : d.age \in Nat /\ AgedData(d).age >= d.age
  BY AgeAssumption DEF SessionData, AgedData, Older, Age
<1>5. ASSUME Present(mem'[w][s]), mem'[w][s].age < RedisTTL
      PROVE  redis'[s] = mem'[w][s] \/ \E t \in Thread : destroy'[w][t].session = s
  <2>1. CASE Tick
    <3>1. mem'[w][s] = AgedData(mem[w][s]) /\ mem[w][s] \in SessionData /\ redis[s] \in SessionData
      BY <2>1, TickKeeps DEF TypeOK
    <3>2. Present(mem[w][s]) /\ mem[w][s].age < RedisTTL
      BY <1>4, <1>5, <3>1, AgeAssumption, AgedDataType DEF Present
    <3>3. redis[s] = mem[w][s] \/ \E t \in Thread : destroy[w][t].session = s
      BY <1>1, <3>2 DEF Routed
    <3>4. /\ redis'[s] = IF AgedData(redis[s]).age >= RedisTTL THEN NoData ELSE AgedData(redis[s])
          /\ destroy' = destroy
      BY <2>1 DEF Tick
    <3>5. ~(AgedData(mem[w][s]).age >= RedisTTL)
      BY <1>4, <1>5, <3>1, AgeAssumption, AgedDataType
    <3>. QED BY <3>1, <3>3, <3>4, <3>5
  <2>2. CASE mem'[w][s] = mem[w][s] /\ ~Tick
    <3>1. Created(w, s) /\ Taken(s)
      BY <1>5, <2>2 DEF Once, Created, Hosts
    <3>2. ASSUME NEW t \in Thread, destroy[w][t].session = s
          PROVE  destroy'[w][t].session = s
      <4>1. destroy[w][t].step # "none"
        BY <3>2, RuntimeAssumption DEF DestroysMatch
      <4>2. ASSUME NEW x \in Session, Begins(w, t, x)
            PROVE  FALSE
        BY <4>1, <4>2 DEF Begins, JobOK
      <4>3. ~(Forgets(w, s) /\ destroy'[w][t] = NoDestroy)
        BY <1>5 DEF Forgets, TypeOK, Present, NoData
      <4>. QED BY <1>0, <3>2, <4>2, <4>3, DestroyMoves, PassFields
    <3>3. CASE redis[s] = mem[w][s]
      <4>1. ASSUME NEW v \in Worker, Goes(v, "withdraw", "report") \/ Goes(v, "save", "register"),
                   job[v].msg.session = s
            PROVE  FALSE
        BY <3>1, <4>1 DEF Goes, Created, Creating, CreatePc, HandlersMatch
      <4>2. ASSUME NEW v \in Worker, NEW t \in Thread, Passes(v, t, "unlink", "forget"),
                   destroy[v][t].session = s
            PROVE  v = w /\ destroy'[w][t].session = s
        BY <1>2, <1>3, <3>1, <4>2, PassFields DEF Thread
      <4>. QED BY <1>0, <2>2, <3>1, <3>3, <4>1, <4>2, RedisMoves
    <3>. QED BY <1>1, <1>5, <2>2, <3>2, <3>3 DEF Routed
  <2>3. CASE Registers(w, s)
    <3>1. job[w].pc = "register" /\ job[w].msg = Started(s) /\ mem'[w][s] = job[w].data
          /\ redis' = redis
      BY <2>3 DEF Registers, Goes, HandlersMatch, CreatePc, TypeOK
    <3>. QED BY <1>1, <1>5, <3>1 DEF Routed
  <2>4. CASE mem'[w][s] = NoData
    BY <1>5, <2>4 DEF Present, NoData
  <2>. QED BY <1>0, <2>1, <2>2, <2>3, <2>4, MemMoves
<1>6. ASSUME job'[w].pc = "register", job'[w].msg = Started(s), job'[w].data.age < RedisTTL
      PROVE  redis'[s] = job'[w].data
  <2>1. CASE Still(w) /\ Tick
    <3>1. /\ job'[w].data = AgedData(job[w].data) /\ job[w].data \in SessionData
          /\ job[w].pc = "register" /\ job[w].msg = Started(s)
      <4>1. job[w] \in Job /\ job'[w] = [job[w] EXCEPT !.data = AgedData(@), !.old = job[w].pc # "idle"]
        BY <2>1 DEF Tick, TypeOK
      <4>. QED BY <1>6, <2>1, <4>1 DEF Job, Still
    <3>2. job[w].data.age < RedisTTL
      BY <1>4, <1>6, <3>1, AgeAssumption, AgedDataType
    <3>3. redis[s] = job[w].data
      BY <1>1, <3>1, <3>2 DEF Routed
    <3>4. redis'[s] = IF AgedData(redis[s]).age >= RedisTTL THEN NoData ELSE AgedData(redis[s])
      BY <2>1 DEF Tick
    <3>5. ~(AgedData(job[w].data).age >= RedisTTL)
      BY <1>4, <1>6, <3>1, AgeAssumption, AgedDataType
    <3>. QED BY <3>1, <3>3, <3>4, <3>5
  <2>2. CASE Still(w) /\ ~Tick
    <3>1. job[w].pc = "register" /\ job[w].msg = Started(s) /\ job'[w].data = job[w].data
      BY <1>6, <2>2 DEF Still
    <3>2. redis[s] = job[w].data
      BY <1>1, <1>6, <3>1 DEF Routed
    <3>3. On(w, s) /\ Creating(w, s) /\ Taken(s)
      BY <3>1 DEF On, Creating, CreatePc, Once
    <3>4. ASSUME NEW v \in Worker, Goes(v, "withdraw", "report") \/ Goes(v, "save", "register"),
                 job[v].msg.session = s
          PROVE  FALSE
      <4>1. On(v, s) /\ job[v].pc # "register"
        BY <3>4 DEF Goes, On, HandlersMatch, CreatePc
      <4>. QED BY <3>1, <3>3, <4>1 DEF Once
    <3>5. ASSUME NEW v \in Worker, NEW t \in Thread, Passes(v, t, "unlink", "forget"),
                 destroy[v][t].session = s
          PROVE  FALSE
      <4>1. destroy[v][t].step # "none"
        BY <3>5 DEF Passes
      <4>2. CASE t = "reaper"
        BY <3>3, <3>5, <4>1, <4>2 DEF Once, Created
      <4>3. CASE t = "job"
        <5>1. v # w
          BY <3>1, <4>1, <4>3 DEF JobOK
        <5>. QED BY <1>2, <3>5, <4>1, <4>3, <5>1
      <4>. QED BY <4>2, <4>3 DEF Thread
    <3>. QED BY <1>0, <2>2, <3>1, <3>2, <3>3, <3>4, <3>5, RedisMoves
  <2>3. CASE /\ Goes(w, "save", "register")
             /\ redis' = [redis EXCEPT ![job[w].msg.session] = job[w].data]
    <3>1. /\ job'[w].msg = job[w].msg /\ job'[w].data = job[w].data
          /\ redis' = [redis EXCEPT ![job[w].msg.session] = job[w].data]
      BY <2>3, MoveFields DEF Goes, TypeOK
    <3>2. job[w].msg.session = s
      BY <1>6, <3>1, MessageFacts
    <3>3. redis \in [Session -> SessionData]
      BY DEF TypeOK
    <3>. QED BY <3>1, <3>2, <3>3
  <2>4. CASE Advances(w)
    BY <1>6, <2>3, <2>4 DEF Advances, Goes
  <2>5. ~Rests(w) /\ (\A d \in Container : ~Provisions(w, d)) /\ \A m \in Message : ~Takes(w, m)
    BY <1>6 DEF Provisions, Rests, IdleJob, Takes
  <2>. QED BY <2>1, <2>2, <2>4, <2>5, JobMoves
<1>. QED BY <1>5, <1>6

\* What runs for a session on a daemon is what its worker knows of the session.
LEMMA SingleStep ==
    ASSUME TypeOK, JobOK, MessagesSent, HandlersMatch, DestroysMatch, OwnDaemon, InTime, Next,
           "crash" \notin faults'.kinds, "docker" \notin faults'.kinds,
           NEW s \in Session, sent'[Ended(s)] = 0, NEW w \in Worker, Single(w, s)
    PROVE  Single(w, s)'
<1>0. up = Worker
  BY DEF OwnDaemon
<1>1. ASSUME destroy[w]["job"].step # "none"
      PROVE  destroy[w]["job"].session # s
  <2>1. job[w].pc # "idle" /\ job[w].msg = Ended(destroy[w]["job"].session)
    BY <1>1 DEF JobOK, DestroysMatch
  <2>2. sent[Ended(s)] = 0
    BY SentGrows, MessageType
  <2>. QED BY <2>1, <2>2 DEF MessagesSent
<1>2. Tick => mem'[w][s].runtime = mem[w][s].runtime
  BY TickKeeps
<1>3. Present(mem[w][s]) => ~Registers(w, s)
  BY DEF OwnDaemon, Registers, Goes, Creating, CreatePc, HandlersMatch
<1>4. Forgets(w, s) => /\ destroy[w]["reaper"].step = "forget" /\ destroy[w]["reaper"].session = s
                       /\ destroy'[w]["reaper"].step = "none"
  BY <1>1 DEF Forgets, Thread, TypeOK, NoDestroy
<1>5. ASSUME NEW c \in Container, Running(c)', box'[c].owner = s, box'[c].host = w
      PROVE  \/ mem'[w][s].runtime = c
             \/ job'[w].pc \in {"save", "discard", "register"} /\ job'[w].data.runtime = c
  <2>1. ASSUME NEW v \in Worker, Provisions(v, c), box'[c].host = v
        PROVE  job'[w].pc = "save" /\ job'[w].data.runtime = c
    BY <1>5, <2>1 DEF Provisions
  <2>2. CASE Running(c) /\ Hosts(w, c, s)
    <3>1. CASE mem[w][s].runtime = c
      <4>1. Present(mem[w][s])
        BY <3>1, RuntimeAssumption DEF Present
      <4>2. ~Forgets(w, s)
        BY <1>4, <2>2, <3>1 DEF Single
      <4>. QED BY <1>0, <1>2, <1>3, <3>1, <4>1, <4>2, MemMoves
    <3>2. CASE job[w].pc \in {"save", "discard", "register"} /\ job[w].data.runtime = c
      BY <1>5, <2>2, <3>2, HeldStep
    <3>. QED BY <2>2, <3>1, <3>2 DEF Single, Hosts, Of
  <2>. QED BY <1>5, <2>1, <2>2, RunningStep DEF Hosts
<1>6. ASSUME s \in sweep'[w].todo
      PROVE  /\ Present(mem'[w][s])
             /\ destroy'[w]["reaper"].step # "none" => destroy'[w]["reaper"].session # s
  <2>. DEFINE t == "reaper"
  <2>0. t \in Thread
    BY DEF Thread
  <2>1. CASE sweep'[w] = sweep[w]
    <3>1. Present(mem[w][s]) /\ (destroy[w][t].step # "none" => destroy[w][t].session # s)
      BY <1>6, <2>1 DEF Single
    <3>2. Present(mem'[w][s])
      BY <1>0, <1>2, <1>3, <1>4, <3>1, MemMoves DEF Present
    <3>3. ASSUME NEW x \in Session, Begins(w, t, x)
          PROVE  destroy'[w][t].session # s
      BY <1>6, <2>0, <3>3 DEF Begins, TypeOK, Sweeping
    <3>4. \/ destroy'[w][t] = destroy[w][t] \/ Passes(w, t, "remove", "unlink")
          \/ Passes(w, t, "unlink", "forget") \/ destroy'[w][t] = NoDestroy
          \/ \E x \in Session : Begins(w, t, x)
      BY <2>0, DestroyMoves
    <3>5. Passes(w, t, "remove", "unlink") \/ Passes(w, t, "unlink", "forget")
          => destroy'[w][t].session # s
      BY <2>0, <3>1, PassFields
    <3>. QED BY <3>1, <3>2, <3>3, <3>4, <3>5 DEF NoDestroy
  <2>2. CASE /\ ~sweep[w].on /\ sweep'[w].on /\ sweep'[w].todo = Active(w)
             /\ UNCHANGED <<mem, destroy>>
    BY <1>6, <2>2 DEF Active, DestroysMatch
  <2>3. ASSUME NEW x \in Session, sweep'[w].todo = sweep[w].todo \ {x},
               UNCHANGED destroy \/ Begins(w, t, x), UNCHANGED mem
        PROVE  Present(mem'[w][s]) /\ (destroy'[w][t].step # "none" => destroy'[w][t].session # s)
    <3>1. x # s /\ s \in sweep[w].todo
      BY <1>6, <2>3
    <3>2. Begins(w, t, x) => destroy'[w][t].session = x
      BY <2>0 DEF Begins, TypeOK
    <3>. QED BY <2>3, <3>1, <3>2 DEF Single
  <2>. QED BY <1>6, <2>1, <2>2, <2>3, SweepMoves
<1>7. ASSUME destroy'[w]["reaper"].step # "none", destroy'[w]["reaper"].session = s
      PROVE  /\ Present(mem'[w][s])
             /\ mem'[w][s].runtime = destroy'[w]["reaper"].runtime
             /\ destroy'[w]["reaper"].step \in {"unlink", "forget"} => ~Running(mem[w][s].runtime)'
  <2>. DEFINE t == "reaper"
  <2>0. t \in Thread
    BY DEF Thread
  <2>1. CASE destroy'[w][t] = destroy[w][t]
    <3>1. /\ Present(mem[w][s]) /\ mem[w][s].runtime = destroy[w][t].runtime
          /\ destroy[w][t].step \in {"unlink", "forget"} => ~Running(mem[w][s].runtime)
      BY <1>7, <2>1 DEF Single
    <3>2. mem'[w][s].runtime = mem[w][s].runtime
      BY <1>0, <1>2, <1>3, <1>4, <1>7, <3>1, MemMoves
    <3>3. PICK c \in Container : c = mem[w][s].runtime /\ Hosts(w, c, s)
      BY <3>1 DEF OwnDaemon
    <3>4. Running(c)' => Running(c)
      BY <3>3, RunningBack DEF Hosts
    <3>. QED BY <2>1, <3>1, <3>2, <3>3, <3>4 DEF Present, Running
  <2>2. ASSUME NEW x \in Session, Begins(w, t, x)
        PROVE  /\ Present(mem'[w][s]) /\ mem'[w][s].runtime = destroy'[w][t].runtime
               /\ destroy'[w][t].step = "remove"
    <3>1. x = s /\ s \in sweep[w].todo /\ mem' = mem /\ destroy'[w][t].step = "remove"
          /\ destroy'[w][t].runtime = Get(w, s).runtime
      BY <1>7, <2>0, <2>2 DEF Begins, TypeOK
    <3>. QED BY <3>1 DEF Single, Get
  <2>3. CASE /\ Passes(w, t, "remove", "unlink")
             /\ box' = Removed(w, destroy[w][t].runtime) \/ Failed(w, "docker")
    <3>1. /\ box' = Removed(w, destroy[w][t].runtime) /\ mem' = mem
          /\ destroy[w][t].step # "none" /\ destroy[w][t].session = s
          /\ destroy'[w][t].runtime = destroy[w][t].runtime
      BY <1>7, <2>0, <2>3, PassFields DEF Failed, InTime, Passes
    <3>2. Present(mem[w][s]) /\ mem[w][s].runtime = destroy[w][t].runtime
      BY <3>1 DEF Single
    <3>3. PICK c \in Container : c = mem[w][s].runtime /\ Hosts(w, c, s)
      BY <3>2 DEF OwnDaemon
    <3>4. ~Running(c)'
      BY <3>1, <3>2, <3>3, RemovedStops DEF Running
    <3>. QED BY <3>1, <3>2, <3>3, <3>4 DEF Running
  <2>4. CASE Passes(w, t, "unlink", "forget") /\ UNCHANGED box
    <3>1. /\ destroy[w][t].step = "unlink" /\ destroy[w][t].session = s
          /\ destroy'[w][t].runtime = destroy[w][t].runtime /\ mem' = mem
      BY <1>7, <2>0, <2>4, PassFields DEF Passes
    <3>. QED BY <2>4, <3>1 DEF Single, Running
  <2>5. CASE destroy'[w][t] = NoDestroy
    BY <1>7, <2>5 DEF NoDestroy
  <2>. QED BY <2>0, <2>1, <2>2, <2>3, <2>4, <2>5, DestroyMoves
<1>. QED BY <1>5, <1>6, <1>7 DEF Single

-----------------------------------------------------------------------------
(* The invariant of the Creates, and what follows from it                  *)

\* Containers are placed, and no job has run out of time before a timeout.
LEMMA PlacedStep ==
    ASSUME TypeOK, JobOK, HandlersMatch, Placed, Next
    PROVE  Placed'
<1>. SUFFICES ASSUME NEW c \in Container, box'[c].state # "free"
              PROVE  box'[c].owner \in Session /\ box'[c].host \in Worker
  BY DEF Placed
<1>1. CASE Kept(c)
  BY <1>1 DEF Kept, Placed
<1>2. ASSUME NEW w \in Worker, Made(w, c)
      PROVE  box'[c].owner \in Session /\ box'[c].host \in Worker
  BY <1>2, MessageFacts DEF Made, JobOK
<1>. QED BY <1>1, <1>2, BoxMoves

\* No job runs out of time before a timeout.
LEMMA InTimeStep ==
    ASSUME TypeOK, JobOK, InTime, Next, "timeout" \notin faults'.kinds
    PROVE  InTime'
BY RestMoves DEF InTime

\* The invariant of the Creates holds initially, with its types.
LEMMA FInvInit == Init => TypeOK /\ JobOK /\ FInv
<1>. SUFFICES ASSUME Init PROVE FInv
  BY InitTyped
<1>1. \A w \in Worker : /\ job[w].pc = "idle" /\ ~job[w].unacked /\ ~job[w].timedOut
                        /\ \A t \in Thread : destroy[w][t].step = "none" /\ destroy[w][t].session = None
                        /\ \A s \in Session : ~Present(mem[w][s]) /\ s \notin sweep[w].todo
  BY DEF Init, IdleJob, NoDestroy, NoSweep, NoData, Present
<1>2. \A c \in Container : box[c].state = "free" /\ box[c].owner = None
  BY DEF Init, FreeBox
<1>3. \A m \in Message : queue[m] = 0 /\ sent[m] = 0
  BY DEF Init
<1>4. up = Worker /\ dlq = {} /\ reported = {} /\ \A s \in Session : ~Present(redis[s])
  BY DEF Init, NoData, Present
<1>5. Thread = {"job", "reaper"} /\ \A s \in Session : Started(s) \in Message
  BY MessageType DEF Thread
<1>6. /\ Placed /\ MessagesSent /\ HandlersMatch /\ DeadLetterReported /\ RejectedReported
      /\ DestroysMatch /\ OwnDaemon /\ InTime
  BY <1>1, <1>2, <1>3, <1>4, <1>5
     DEF Placed, MessagesSent, HandlersMatch, DeadLetterReported, RejectedReported,
         DestroysMatch, OwnDaemon, InTime, CreatePc
<1>7. ASSUME NEW s \in Session
      PROVE  Once(s)
  BY <1>1, <1>2, <1>3, <1>4, <1>5 DEF Once, On, Of, Creating, CreatePc
<1>8. ASSUME NEW s \in Session
      PROVE  Obeyed(s)
  BY <1>1, <1>2, <1>4, RuntimeAssumption DEF Obeyed, Running
<1>9. ASSUME NEW s \in Session, NEW w \in Worker
      PROVE  Routed(w, s) /\ Single(w, s)
  BY <1>1, <1>2, <1>5 DEF Routed, Single, Running
<1>. QED BY <1>6, <1>7, <1>8, <1>9 DEF FInv

\* Nothing of it changes when nothing changes.
LEMMA FInvStutter ==
    ASSUME FInv, UNCHANGED vars
    PROVE  FInv'
BY DEF vars, FInv, Without, DeliveredOnce, Placed, MessagesSent, HandlersMatch, DeadLetterReported,
       RejectedReported, DestroysMatch, OwnDaemon, InTime, Once, Taken, On, Creating, Created,
       Hosts, Of, Obeyed, Nothing, Running, Tracked, Routed, Single

\* Every step keeps the invariant of the Creates.
LEMMA FInvStep ==
    ASSUME TypeOK, JobOK, FInv, [Next]_vars
    PROVE  TypeOK' /\ JobOK' /\ FInv'
<1>1. TypeOK' /\ JobOK'
  BY TypeStep, JobOKStep DEF vars, TypeOK, JobOK
<1>2. CASE UNCHANGED vars
  BY <1>1, <1>2, FInvStutter
<1>3. CASE Next
  <2>. USE <1>3
  <2>1. Placed' /\ MessagesSent' /\ HandlersMatch'
    BY PlacedStep, SentStep, HandlersStep DEF FInv
  <2>2. DeadLetterReported' /\ (Without({"kafka"}) => RejectedReported)'
    BY RejectedStep DEF FInv
  <2>3. ASSUME Without({"crash"})'
        PROVE  /\ DestroysMatch /\ OwnDaemon /\ "crash" \notin faults'.kinds
               /\ DestroysMatch' /\ OwnDaemon'
    <3>1. Without({"crash"}) /\ "crash" \notin faults'.kinds
      BY <2>3, WithoutBack
    <3>2. DestroysMatch /\ OwnDaemon /\ HandlersMatch
      BY <3>1 DEF FInv
    <3>. QED BY <3>1, <3>2, DestroysStep, OwnDaemonStep
  <2>4. ASSUME Without({"timeout"})'
        PROVE  InTime /\ InTime'
    <3>1. Without({"timeout"}) /\ "timeout" \notin faults'.kinds
      BY <2>4, WithoutBack
    <3>. QED BY <3>1, InTimeStep DEF FInv
  <2>5. ASSUME NEW s \in Session, DeliveredOnce(s)'
        PROVE  Once(s) /\ Once(s)' /\ \A w \in Worker : Routed(w, s)'
    <3>1. DeliveredOnce(s) /\ Without({"crash"})'
      BY <2>5, DeliveredBack
    <3>2. Once(s) /\ DestroysMatch /\ OwnDaemon /\ MessagesSent /\ HandlersMatch
          /\ \A w \in Worker : Routed(w, s)
      BY <2>3, <3>1 DEF FInv
    <3>. QED BY <2>5, <3>2, OnceStep, RoutedStep
  <2>6. ASSUME NEW s \in Session, DeliveredOnce(s)', Without({"docker", "timeout"})'
        PROVE  Obeyed(s)'
    <3>1. DeliveredOnce(s) /\ Without({"crash"})'
      BY <2>6, DeliveredBack
    <3>2. /\ Without({"docker", "timeout"})
          /\ "docker" \notin faults'.kinds /\ "timeout" \notin faults'.kinds
      BY <2>6, WithoutBack
    <3>3. Without({"timeout"})'
      BY <3>2 DEF Without
    <3>4. Obeyed(s) /\ Once(s) /\ HandlersMatch /\ DestroysMatch /\ OwnDaemon /\ InTime
      BY <2>3, <2>4, <2>5, <2>6, <3>1, <3>2, <3>3 DEF FInv
    <3>. QED BY <2>6, <3>2, <3>4, ObeyedStep
  <2>7. ASSUME NEW s \in Session, Without({"crash", "docker", "timeout"})', sent'[Ended(s)] = 0,
               NEW w \in Worker
        PROVE  Single(w, s)'
    <3>1. /\ Without({"crash", "docker", "timeout"})
          /\ "crash" \notin faults'.kinds /\ "docker" \notin faults'.kinds
          /\ "timeout" \notin faults'.kinds
      BY <2>7, WithoutBack
    <3>2. Without({"timeout"})' /\ Without({"crash"})'
      BY <3>1 DEF Without
    <3>3. sent[Ended(s)] = 0
      BY <2>7, SentGrows, MessageType
    <3>4. Single(w, s) /\ MessagesSent /\ HandlersMatch /\ DestroysMatch /\ OwnDaemon /\ InTime
      BY <2>3, <2>4, <3>1, <3>2, <3>3 DEF FInv
    <3>. QED BY <2>7, <3>1, <3>4, SingleStep
  <2>. QED BY <1>1, <2>1, <2>2, <2>3, <2>4, <2>5, <2>6, <2>7 DEF FInv
<1>. QED BY <1>2, <1>3

\* The invariant of the Creates implies the three properties.
LEMMA FInvSettles ==
    ASSUME TypeOK, FInv
    PROVE  FailureSettled
<1>1. ASSUME Without({"docker", "timeout"}), NEW c \in Container, Running(c),
             DeliveredOnce(box[c].owner)
      PROVE  Tracked(c) /\ box[c].owner \notin reported
  <2>1. box[c].owner \in Session
    BY <1>1 DEF FInv, Placed, Running
  <2>2. Obeyed(box[c].owner)
    BY <1>1, <2>1 DEF FInv
  <2>. QED BY <1>1, <2>2 DEF Obeyed, Nothing
<1>2. NoRunningOrphan
  BY <1>1 DEF NoRunningOrphan
<1>3. ReportedIsNotRunning
  BY <1>1 DEF ReportedIsNotRunning
<1>. QED BY <1>2, <1>3 DEF FailureSettled, FInv

\* Routed is the property, worker by worker.
LEMMA FInvRoutes ==
    ASSUME FInv
    PROVE  ServedSessionIsRouted
BY DEF FInv, Routed, ServedSessionIsRouted

\* Two containers of a session on one daemon are both the one its worker knows.
LEMMA FInvSingle ==
    ASSUME TypeOK, FInv
    PROVE  DuplicateStartsHarmless
<1>. SUFFICES ASSUME Without({"crash", "docker", "timeout"}),
                     NEW c \in Container, NEW d \in Container, Running(c), Running(d),
                     box[c].owner = box[d].owner, box[c].host = box[d].host,
                     sent[Ended(box[c].owner)] = 0
              PROVE  c = d
  BY DEF DuplicateStartsHarmless
<1>1. PICK s \in Session, w \in Worker : box[c].owner = s /\ box[c].host = w
  BY DEF FInv, Placed, Running
<1>2. Single(w, s) /\ HandlersMatch
  BY <1>1 DEF FInv
<1>3. Without({"crash"})
  BY DEF Without
<1>4. OwnDaemon
  BY <1>3 DEF FInv
<1>5. ASSUME NEW x \in Container, NEW y \in Container, box[x].owner = s, box[y].owner = s,
             Running(x), mem[w][s].runtime = x,
             job[w].pc \in {"save", "discard", "register"}, job[w].data.runtime = y
      PROVE  FALSE
  <2>1. Present(mem[w][s])
    BY <1>5, RuntimeAssumption DEF Present
  <2>2. job[w].msg.session = s
    BY <1>4, <1>5 DEF OwnDaemon, Hosts, Of
  <2>3. Creating(w, s)
    BY <1>2, <1>5, <2>2 DEF Creating, CreatePc, HandlersMatch
  <2>. QED BY <1>4, <2>1, <2>3 DEF OwnDaemon
<1>. QED BY <1>1, <1>2, <1>5 DEF Single

\* A Create that fails half-way is settled: nothing it started runs on unknown, its job
\* is dead-lettered with a report, and what is reported does not run.
THEOREM FailureCorrect == Spec => []FailureSettled
<1>1. TypeOK /\ JobOK /\ FInv /\ [Next]_vars => (TypeOK /\ JobOK /\ FInv)'
  BY FInvStep
<1>2. TypeOK /\ FInv => FailureSettled
  BY FInvSettles
<1>. QED BY <1>1, <1>2, FInvInit, PTL DEF Spec

\* A served session is in Redis with the same record, so that the router finds it.
THEOREM RoutedCorrect == Spec => []ServedSessionIsRouted
<1>1. TypeOK /\ JobOK /\ FInv /\ [Next]_vars => (TypeOK /\ JobOK /\ FInv)'
  BY FInvStep
<1>2. FInv => ServedSessionIsRouted
  BY FInvRoutes
<1>. QED BY <1>1, <1>2, FInvInit, PTL DEF Spec

\* However often session.started is delivered, a worker runs one container of the
\* session at most until the session is ended.
THEOREM DuplicatesCorrect == Spec => []DuplicateStartsHarmless
<1>1. TypeOK /\ JobOK /\ FInv /\ [Next]_vars => (TypeOK /\ JobOK /\ FInv)'
  BY FInvStep
<1>2. TypeOK /\ FInv => DuplicateStartsHarmless
  BY FInvSingle
<1>. QED BY <1>1, <1>2, FInvInit, PTL DEF Spec

=============================================================================
