---------------------------- MODULE MCAttenuation ----------------------------
(***************************************************************************)
(* Checks the attenuation calibrators of Attenuation for every requested   *)
(* value, in hundredths of a dB, from RequestLow to RequestHigh: the state *)
(* is the request, every request is an initial state, and each step moves  *)
(* to the next one, wrapping around.                                       *)
(***************************************************************************)
EXTENDS Attenuation

CONSTANTS RequestLow, RequestHigh

ASSUME RequestRange == RequestLow \in Int /\ RequestHigh \in Int /\ RequestLow <= RequestHigh

\* A sweep from 3 dB below the table to 3 dB above it.
MCRequestLow  == -300
MCRequestHigh == 5300

VARIABLE req

Init == req \in RequestLow .. RequestHigh
Next == req' = IF req < RequestHigh THEN req + 1 ELSE RequestLow
Spec == Init /\ [][Next]_req

(***************************************************************************)
(* The index sddc_set_tuner_attenuation writes is a nearest table entry to *)
(* the request and, of equally near entries, the lowest index: the spec's *)
(* tie-break, which the strict < of the scan implements.                  *)
(***************************************************************************)
NearestIsLowestArgmin ==
  LET i == NearestIndex(req)
  IN  /\ i \in TableIndices
      /\ \A j \in TableIndices : Dist(req, i) <= Dist(req, j)
      /\ \A j \in 0 .. i - 1 : Dist(req, j) > Dist(req, i)

(***************************************************************************)
(* The Coarse3 attenuator (BBRF103, RX888) accepts exactly 0, 10 and 20 dB *)
(* and rejects every other request without writing, as the spec says.     *)
(***************************************************************************)
CoarseAcceptsExactly ==
  (HfAttCommand(3, req).op # "reject") = (req \in {0, 1000, 2000})
=============================================================================
