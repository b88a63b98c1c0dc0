--------------------------- MODULE EventDelivery ---------------------------
(***************************************************************************)
(* What a transactional outbox promises: an event goes to the brokers only *)
(* after its row is committed, as often as need be, and is marked as       *)
(* processed only once each broker has had a copy of its message.          *)
(***************************************************************************)
CONSTANTS
    Event,      \* outbox rows
    MessageOf,  \* event -> what the brokers see of it; equal payloads give equal messages
    Broker      \* the brokers every message goes to

VARIABLES
    written,    \* rows committed
    sent,       \* <<broker, message>> handed to the broker at least once
    settled     \* rows marked as processed

Init == written = {} /\ sent = {} /\ settled = {}

Write(e) ==
    /\ e \notin written
    /\ written' = written \cup {e}
    /\ UNCHANGED <<sent, settled>>

\* At least once: nothing forbids a second copy.
Send(b, e) ==
    /\ e \in written
    /\ sent' = sent \cup {<<b, MessageOf[e]>>}
    /\ UNCHANGED <<written, settled>>

\* Rows with the same payload may be settled together.
Settle(rows) ==
    /\ rows \subseteq written
    /\ \A e \in rows, b \in Broker : <<b, MessageOf[e]>> \in sent
    /\ settled' = settled \cup rows
    /\ UNCHANGED <<written, sent>>

Next ==
    \/ \E e \in Event : Write(e)
    \/ \E b \in Broker, e \in Event : Send(b, e)
    \/ \E rows \in SUBSET Event : Settle(rows)

Spec == Init /\ [][Next]_<<written, sent, settled>>
=============================================================================
