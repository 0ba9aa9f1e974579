--------------------------- MODULE GatewayProofs ---------------------------
(* Proofs about the gateway of src/ragas/llms/base.py: the type invariant *)
(* and the result shape of both completion paths, for every MaxAttempts,  *)
(* MaxN and set of Outputs.                                                *)
EXTENDS Gateway, SequenceTheorems, TLAPS

(* A function on 1..n is a sequence of length n.                           *)
LEMMA FunIsSeq ==
    ASSUME NEW S, NEW n \in Nat, NEW f \in [1..n -> S]
    PROVE  f \in Seq(S) /\ Len(f) = n
<1>1. f \in Seq(S)
    BY SeqDef
<1>2. DOMAIN f = 1..Len(f) /\ Len(f) \in Nat
    BY <1>1, LenProperties
<1>3. QED
    BY <1>1, <1>2

(* The inductive invariant: the type, the request of an open call is the   *)
(* one built from its n, an open call has made at least one attempt, and   *)
(* the result shape.                                                      *)
GwInv ==
    /\ GwTypeOK
    /\ gwPhase # "idle" => /\ req = ProviderRequest(llmMulti, nReq)
                           /\ attempt \in 1..MaxAttempts
    /\ ResultShape

LEMMA RequestType ==
    ASSUME NEW multi \in BOOLEAN, NEW n \in 0..MaxN
    PROVE  ProviderRequest(multi, n) \in Requests
BY GatewayAssumption DEF ProviderRequest, Requests, GetTemperature, Temperatures

(* Every result Return can produce has the shape the caller expects.       *)
LEMMA ReturnShape ==
    ASSUME NEW multi \in BOOLEAN, NEW n \in 0..MaxN,
           NEW res \in ProviderResults(ProviderRequest(multi, n))
    PROVE  LET g == IF multi THEN res ELSE Repack(res)
           IN  /\ g \in Seq(Seq(Outputs))
               /\ Len(g) = 1
               /\ Len(g[1]) = n
<1> USE GatewayAssumption
<1>1. CASE multi
    <2>1. res \in [1..1 -> [1..n -> Outputs]]
        BY <1>1 DEF ProviderResults, ProviderRequest
    <2>2. \A i \in 1..1 : res[i] \in Seq(Outputs) /\ Len(res[i]) = n
        BY <2>1, FunIsSeq
    <2>3. res \in Seq(Seq(Outputs)) /\ Len(res) = 1
        BY <2>1, <2>2, FunIsSeq
    <2>. QED  BY <1>1, <2>2, <2>3
<1>2. CASE ~multi
    <2>1. res \in [1..n -> [1..1 -> Outputs]]
        BY <1>2 DEF ProviderResults, ProviderRequest
    <2>2. res \in Seq([1..1 -> Outputs]) /\ Len(res) = n
        BY <2>1, FunIsSeq
    <2>3. [i \in 1..Len(res) |-> res[i][1]] \in [1..n -> Outputs]
        BY <2>1, <2>2
    <2>4. [i \in 1..Len(res) |-> res[i][1]] \in Seq(Outputs)
          /\ Len([i \in 1..Len(res) |-> res[i][1]]) = n
        BY <2>3, FunIsSeq
    <2>5. Repack(res) \in Seq(Seq(Outputs)) /\ Len(Repack(res)) = 1
        <3>1. Repack(res) \in [1..1 -> Seq(Outputs)]
            BY <2>4 DEF Repack
        <3>. QED  BY <3>1, FunIsSeq
    <2>. QED  BY <1>2, <2>4, <2>5 DEF Repack
<1>. QED  BY <1>1, <1>2

THEOREM GwInvInit == Init => GwInv
BY GatewayAssumption, EmptySeq
   DEF Init, GwInv, GwTypeOK, NoRequest, Requests, Temperatures, GwPhases,
       ResultShape

THEOREM GwInvStep == GwInv /\ [Next]_gwVars => GwInv'
<1> SUFFICES ASSUME GwInv, [Next]_gwVars PROVE GwInv'
    OBVIOUS
<1> USE GatewayAssumption DEF GwInv, GwTypeOK, GwPhases, ResultShape
<1>1. CASE Retry
    BY <1>1 DEF Retry
<1>2. CASE GiveUp
    BY <1>2 DEF GiveUp
<1>3. CASE Return
    <2>1. PICK res \in ProviderResults(req) :
              gens' = IF llmMulti THEN res ELSE Repack(res)
        BY <1>3 DEF Return
    <2>2. /\ gens' \in Seq(Seq(Outputs))
          /\ Len(gens') = 1
          /\ Len(gens'[1]) = nReq
        BY <1>3, <2>1, ReturnShape DEF Return
    <2>. QED  BY <1>3, <2>2 DEF Return
<1>4. ASSUME NEW n \in 0..MaxN, Request(n)
      PROVE  GwInv'
    BY <1>4, RequestType, EmptySeq DEF Request
<1>5. CASE Consume
    BY <1>5 DEF Consume
<1>6. CASE UNCHANGED gwVars
    BY <1>6 DEF gwVars
<1>. QED  BY <1>1, <1>2, <1>3, <1>4, <1>5, <1>6 DEF Next, GwStep

(* Type correctness of the gateway: generate_text always holds a request *)
(* built from BOOLEAN capability and n in 0..MaxN, an attempt number in   *)
(* 0..MaxAttempts, and a list of lists of completion texts.               *)
THEOREM GatewayTyping == Spec => []GwTypeOK
<1>1. GwInv => GwTypeOK
    BY DEF GwInv
<1>. QED  BY <1>1, GwInvInit, GwInvStep, PTL DEF Spec

(* Whatever the provider's capability, a successful call of generate_text *)
(* holds one outer list of exactly n completions (lines 122-141), for     *)
(* every n and attempt cap.                                               *)
THEOREM GatewayResultShape == Spec => []ResultShape
<1>1. GwInv => ResultShape
    BY DEF GwInv
<1>. QED  BY <1>1, GwInvInit, GwInvStep, PTL DEF Spec

=============================================================================
