--------------------------- MODULE IngestContract ---------------------------
(***************************************************************************)
(* What the clients of POST /events may rely on however many requests run  *)
(* at once and whenever the process dies: the log only grows, no event_id  *)
(* enters it twice, "accepted" is answered at most once for an event_id    *)
(* and only when that event is in the log, and "duplicate" is answered     *)
(* only to an event that shares its id, its transaction or its merchant    *)
(* with a logged one.  An error answer promises nothing.                   *)
(***************************************************************************)
EXTENDS PaymentLifecycle

VARIABLES payment_events,  \* the log
          acknowledged,    \* EventId -> how many "accepted" answers it got
          refused          \* the events answered "duplicate"

contract_vars == <<payment_events, acknowledged, refused>>

InLog(e) == \E i \in DOMAIN payment_events : payment_events[i].event_id = e

Related(p) == \E i \in DOMAIN payment_events :
                 \/ payment_events[i].event_id = p.event_id
                 \/ payment_events[i].transaction_id = p.transaction_id
                 \/ payment_events[i].merchant_id = p.merchant_id

ContractInit ==
    /\ payment_events = <<>>
    /\ acknowledged = [e \in EventId |-> 0]
    /\ refused = {}

Log(p) ==
    /\ ~InLog(p.event_id)
    /\ payment_events' = Append(payment_events, p)
    /\ UNCHANGED <<acknowledged, refused>>

Acknowledge(p) ==
    /\ \E i \in DOMAIN payment_events : payment_events[i] = p
    /\ acknowledged[p.event_id] = 0
    /\ acknowledged' = [acknowledged EXCEPT ![p.event_id] = 1]
    /\ UNCHANGED <<payment_events, refused>>

Refuse(p) ==
    /\ Related(p)
    /\ refused' = refused \cup {p}
    /\ UNCHANGED <<payment_events, acknowledged>>

ContractNext == \E p \in PaymentEvent : Log(p) \/ Acknowledge(p) \/ Refuse(p)

ContractSpec == ContractInit /\ [][ContractNext]_contract_vars
=============================================================================
