------------------------------- MODULE Outbox -------------------------------
(***************************************************************************)
(* What an output promises to the watchers that write to it: a message it  *)
(* has accepted is pending until it is stored in the database or lost, and *)
(* then stays what it has become.  A message is lost when the database     *)
(* refuses it or when the output is shut down before it was stored.        *)
(***************************************************************************)
CONSTANT Message

VARIABLES
    pending,   \* accepted, neither stored nor lost
    stored,    \* in the database
    lost       \* will never be sent again

outbox == <<pending, stored, lost>>

OutboxInit == pending = {} /\ stored = {} /\ lost = {}

Accept(m) ==
    /\ m \notin pending \cup stored \cup lost
    /\ pending' = pending \cup {m}
    /\ UNCHANGED <<stored, lost>>

\* Some pending messages are stored and others, at the end of a batch, lost.
Settle(kept, dropped) ==
    /\ kept \cup dropped \subseteq pending /\ kept \cap dropped = {}
    /\ pending' = pending \ (kept \cup dropped)
    /\ stored' = stored \cup kept
    /\ lost' = lost \cup dropped

OutboxNext ==
    \/ \E m \in Message : Accept(m)
    \/ \E kept, dropped \in SUBSET pending : Settle(kept, dropped)

OutboxSpec == OutboxInit /\ [][OutboxNext]_outbox
=============================================================================
