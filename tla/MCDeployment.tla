---------------------------- MODULE MCDeployment ----------------------------
(* Deployment with one request at a time and three files: two events, an    *)
(* event and its copy, a failure.                                           *)
EXTENDS Deployment, TLC

CONSTANTS s1, e1, e2, e3, t1, m1, n1

Event(e, type) ==
    [event_id |-> e, event_type |-> type, transaction_id |-> t1,
     merchant_id |-> m1, merchant_name |-> n1]

Entry(e, type, time) ==
    [event_id |-> e, event_type |-> type, transaction_id |-> t1,
     merchant_id |-> m1, merchant_name |-> n1, timestamp |-> time]

MCFiles == {<<Entry(e1, "payment_initiated", 1), Entry(e2, "payment_processed", 2)>>,
            <<Entry(e1, "payment_initiated", 1), Entry(e1, "payment_initiated", 1)>>,
            <<Entry(e1, "payment_failed", 1)>>}

\* The live events: one that a file also has, and a settlement.
MCInbox == s1 :> {Event(e2, "payment_processed"), Event(e3, "settled")}

ASSUME NamingAssumption == FilesNameTheirEvents /\ InboxesAreDisjoint
=============================================================================
