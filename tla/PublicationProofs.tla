--------------------------- MODULE PublicationProofs ---------------------------
(***************************************************************************)
(* What the publication contract guarantees, for any publishers, runs and  *)
(* objects: any stage that implements it inherits these facts.             *)
(***************************************************************************)
EXTENDS Publication, TLAPS

(* The publisher of an accepted manifest keeps the claim of its run for    *)
(* good, which is why nobody can touch the objects again.                  *)
ClaimedForGood == \A r \in Runs : accepted[r] # Nobody => claim[r] = accepted[r]

IInv == TypeOK /\ ClaimedForGood /\ AcceptedIsComplete

(* A step of any publisher keeps the invariant and whatever is accepted.   *)
LEMMA StepKeeps ==
    ASSUME IInv, NEW p \in Publishers, NEW r \in Runs,
           \/ Claim(p, r) \/ Accept(p, r) \/ Release(p, r)
           \/ \E o \in Objects : Store(p, r, o) \/ Discard(p, r, o)
    PROVE  /\ IInv'
           /\ \A s \in Runs : accepted[s] # Nobody =>
                 accepted'[s] = accepted[s] /\ stored'[s] = stored[s]
  <1> USE DEF IInv, TypeOK, ClaimedForGood, AcceptedIsComplete, Working
  <1>1. CASE Claim(p, r)
    BY <1>1 DEF Claim
  <1>2. CASE Accept(p, r)
    BY <1>2 DEF Accept
  <1>3. CASE Release(p, r)
    BY <1>3 DEF Release
  <1>4. ASSUME NEW o \in Objects, Store(p, r, o) \/ Discard(p, r, o)
        PROVE  /\ IInv'
               /\ \A s \in Runs : accepted[s] # Nobody =>
                     accepted'[s] = accepted[s] /\ stored'[s] = stored[s]
    BY <1>4 DEF Store, Discard
  <1>. QED
    BY <1>1, <1>2, <1>3, <1>4

(* The invariant that makes the contract work.                             *)
THEOREM Invariance == Spec => []IInv
  <1>1. Init => IInv
    BY DEF Init, Nothing, IInv, TypeOK, ClaimedForGood, AcceptedIsComplete
  <1>2. IInv /\ [Next]_vars => IInv'
    <2>1. IInv /\ UNCHANGED vars => IInv'
      BY DEF vars, IInv, TypeOK, ClaimedForGood, AcceptedIsComplete
    <2>. QED
      BY StepKeeps, <2>1 DEF Next
  <1>. QED
    BY <1>1, <1>2, PTL DEF Spec

(* An accepted manifest names only objects holding the bytes its own       *)
(* publisher stored.                                                       *)
THEOREM AcceptedManifestIsComplete == Spec => []AcceptedIsComplete
  BY Invariance, PTL DEF IInv

(* What has been accepted is never withdrawn or replaced.                  *)
THEOREM AcceptanceIsFinal == Spec => AcceptedIsFinal
  <1>1. IInv /\ [Next]_vars =>
          [\A r \in Runs : accepted[r] # Nobody =>
             accepted'[r] = accepted[r] /\ stored'[r] = stored[r]]_vars
    BY StepKeeps DEF Next
  <1>. QED
    BY <1>1, Invariance, PTL DEF Spec, AcceptedIsFinal
=============================================================================
