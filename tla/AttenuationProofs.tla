-------------------------- MODULE AttenuationProofs --------------------------
(***************************************************************************)
(* The property the attenuation sweep checks, for every request and not   *)
(* only the swept range, from the lemmas of AttenuationLemmas.             *)
(***************************************************************************)
EXTENDS MCAttenuation, AttenuationLemmas

\* The sweep only visits integer requests.
LEMMA ReqInt == Spec => [](req \in Int)
<1>1. Init => req \in Int
  BY RequestRange DEF Init
<1>2. req \in Int /\ [Next]_req => (req \in Int)'
  BY RequestRange DEF Next
<1>3. QED
  BY <1>1, <1>2, PTL DEF Spec

(***************************************************************************)
(* NearestIsLowestArgmin for every request, not only the swept range: the  *)
(* index sddc_set_tuner_attenuation writes is a nearest table entry and    *)
(* the lowest of equally near ones.                                        *)
(***************************************************************************)
THEOREM NearestTheorem == Spec => []NearestIsLowestArgmin
<1>1. req \in Int => NearestIsLowestArgmin
  BY NearestIndexLowestArgmin DEF NearestIsLowestArgmin
<1>2. QED
  BY <1>1, ReqInt, PTL
=============================================================================
