--------------------------- MODULE FilingDelivery ---------------------------
(***************************************************************************)
(* What the ingestion pipeline promises of a filing, whatever the workers  *)
(* and the streams do to keep the promise (src/streaming/worker.py, the    *)
(* delivery semantics of its header): a filing that was published stays    *)
(* outstanding until its facts were broadcast, it was dead-lettered, or    *)
(* the cap of the stream dropped it; facts may be broadcast more than once.*)
(***************************************************************************)
CONSTANT Filings

VARIABLES
  known,        \* the filings published so far
  outstanding,  \* the published filings the pipeline still owes an outcome
  out,          \* the filings whose facts were broadcast
  dead,         \* the filings copied to the dead-letter stream
  expired       \* the filings the stream's cap dropped

vars == <<known, outstanding, out, dead, expired>>

Init ==
  /\ known = {}
  /\ outstanding = {}
  /\ out = {}
  /\ dead = {}
  /\ expired = {}

\* A filing is published at most once; the cap may drop older filings with it.
Publish(f) ==
  /\ f \notin known
  /\ known' = known \union {f}
  /\ outstanding' = outstanding \union {f}
  /\ expired \subseteq expired' /\ expired' \subseteq known'
  /\ UNCHANGED <<out, dead>>

\* At least once: nothing forbids to broadcast the facts of a filing again.
Emit(f) ==
  /\ f \in known
  /\ out' = out \union {f}
  /\ UNCHANGED <<known, outstanding, dead, expired>>

Bury(f) ==
  /\ f \in known
  /\ dead' = dead \union {f}
  /\ UNCHANGED <<known, outstanding, out, expired>>

\* Filings stop being owed only when they have an outcome.
Settle ==
  /\ outstanding' \subseteq outstanding
  /\ outstanding \ outstanding' \subseteq out \union dead \union expired
  /\ UNCHANGED <<known, out, dead, expired>>

Next ==
  \/ \E f \in Filings : Publish(f) \/ Emit(f) \/ Bury(f)
  \/ Settle

Spec == Init /\ [][Next]_vars
=============================================================================
