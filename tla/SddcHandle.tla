------------------------------ MODULE SddcHandle ------------------------------
(***************************************************************************)
(* What the device handle promises (spec sections 3 and 4.1), without the  *)
(* commands that implement it: the handle is closed, READY or STREAMING;   *)
(* its capability flags come from the receiver's model at open and do not  *)
(* change while it is open; VHF mode needs a VHF tuner; a streaming engine *)
(* is configured at most once per handle; samples start to flow only with  *)
(* a successful start, which is the one step into STREAMING; a stop that   *)
(* gets past its first command leaves the producer stopped, and only a     *)
(* complete stop returns to READY.  Failed calls change nothing here: the  *)
(* hardware they leave partly reconfigured is below this level.            *)
(***************************************************************************)
CONSTANTS
  Models,       \* model ids a receiver may report
  CapTable(_)   \* the capability table: model -> [clock, vhf, levels]

VARIABLES
  hw,        \* the receiver's model
  handle,    \* "closed", "ready" or "streaming"
  caps,      \* the handle's capability flags
  rf_mode,   \* "HF" or "VHF"
  engine,    \* "none" or "configured"
  flowing    \* the receiver's producer emits samples

vars == <<hw, handle, caps, rf_mode, engine, flowing>>

Init ==
  /\ hw \in Models
  /\ handle = "closed"
  /\ caps = CapTable(hw)
  /\ rf_mode = "HF"
  /\ engine = "none"
  /\ flowing = FALSE

Open ==
  /\ handle = "closed"
  /\ handle' = "ready"
  /\ caps' = CapTable(hw)
  /\ rf_mode' = "HF"
  /\ UNCHANGED <<hw, engine, flowing>>

\* The reset is best effort: the producer may survive the handle.
Close ==
  /\ handle # "closed"
  /\ handle' = "closed"
  /\ caps' = CapTable(hw)
  /\ rf_mode' = "HF"
  /\ engine' = "none"
  /\ flowing' \in {flowing, FALSE}
  /\ UNCHANGED hw

SetRfMode(m) ==
  /\ handle # "closed"
  /\ m = "VHF" => caps.vhf
  /\ rf_mode' = m
  /\ UNCHANGED <<hw, handle, caps, engine, flowing>>

Configure ==
  /\ handle # "closed"
  /\ engine = "none"
  /\ engine' = "configured"
  /\ UNCHANGED <<hw, handle, caps, rf_mode, flowing>>

Start ==
  /\ handle = "ready"
  /\ handle' = "streaming"
  /\ flowing' = TRUE
  /\ UNCHANGED <<hw, caps, rf_mode, engine>>

Stop ==
  /\ handle = "streaming"
  /\ flowing' = FALSE
  /\ handle' \in {"streaming", "ready"}
  /\ UNCHANGED <<hw, caps, rf_mode, engine>>

Next ==
  \/ Open \/ Close \/ Configure \/ Start \/ Stop
  \/ \E m \in {"HF", "VHF"} : SetRfMode(m)

Spec == Init /\ [][Next]_vars
=============================================================================
