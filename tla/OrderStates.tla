---------------------------- MODULE OrderStates ----------------------------
(***************************************************************************)
(* The order state machine of account/orders.py: what a status the broker  *)
(* reports means, which states are final, and which state may follow       *)
(* which.                                                                  *)
(***************************************************************************)

(* TERMINAL_ORDER_STATES. *)
Terminal == {"FILLED", "CANCELED", "REPLACED", "REJECTED"}

(* The states observe() takes only with an execution and its context. *)
FillBearing == {"PARTIALLY_FILLED", "FILLED"}

(* _BROKER_STATE_MAP. *)
BrokerStateMap ==
    [ PENDING |-> "ACKNOWLEDGED",            ACKNOWLEDGED |-> "ACKNOWLEDGED",
      OPEN |-> "OPEN",                       PARTIAL_FILLED |-> "PARTIALLY_FILLED",
      PARTIALLY_FILLED |-> "PARTIALLY_FILLED", FILLED |-> "FILLED",
      PENDING_CANCEL |-> "CANCEL_PENDING",   CANCEL_PENDING |-> "CANCEL_PENDING",
      CANCELED |-> "CANCELED",               CANCELLED |-> "CANCELED",
      PENDING_REPLACE |-> "REPLACE_PENDING", REPLACE_PENDING |-> "REPLACE_PENDING",
      REPLACED |-> "REPLACED",               REJECTED |-> "REJECTED",
      CANCEL_REJECTED |-> "REVIEW_REQUIRED", REPLACE_REJECTED |-> "REVIEW_REQUIRED" ]

(* normalize_broker_order_state: a status the map does not name is UNKNOWN. *)
Normalize(raw) ==
    IF raw \in DOMAIN BrokerStateMap THEN BrokerStateMap[raw] ELSE "UNKNOWN"

Doubtful == {"REVIEW_REQUIRED", "UNKNOWN"}

(* _ALLOWED_TRANSITIONS. *)
AllowedTransitions ==
    LET fills == FillBearing IN
    [ PLANNED |-> {"SUBMITTING"},
      SUBMITTING |-> {"SUBMITTED", "ACKNOWLEDGED", "OPEN", "REJECTED"}
                     \cup fills \cup Doubtful,
      SUBMITTED |-> {"ACKNOWLEDGED", "OPEN", "CANCEL_PENDING", "REJECTED"}
                    \cup fills \cup Doubtful,
      ACKNOWLEDGED |-> {"OPEN", "CANCEL_PENDING", "CANCELED", "REJECTED"}
                       \cup fills \cup Doubtful,
      OPEN |-> {"CANCEL_PENDING", "CANCELED", "REPLACE_PENDING", "REJECTED"}
               \cup fills \cup Doubtful,
      PARTIALLY_FILLED |-> {"FILLED", "CANCEL_PENDING", "CANCELED", "REPLACE_PENDING"}
                           \cup Doubtful,
      CANCEL_PENDING |-> {"CANCELED"} \cup fills \cup Doubtful,
      REPLACE_PENDING |-> {"REPLACED"} \cup fills \cup Doubtful,
      REVIEW_REQUIRED |-> {"ACKNOWLEDGED", "OPEN", "CANCEL_PENDING", "CANCELED",
                           "REPLACE_PENDING", "REPLACED", "REJECTED", "UNKNOWN"}
                          \cup fills,
      UNKNOWN |-> {"REVIEW_REQUIRED"} ]

OrderState == DOMAIN AllowedTransitions \cup Terminal

(* assert_order_transition with a previous state. *)
MayFollow(previous, current) ==
    \/ previous = current
    \/ /\ previous \notin Terminal
       /\ current \in AllowedTransitions[previous]
=============================================================================
