------------------------------ MODULE Publication ------------------------------
(***************************************************************************)
(* What every stage of the batch pipeline promises about one immutable run *)
(* identity: the publication contract of the lake, without paths, system   *)
(* calls or error codes.  Several publishers may try the same identity.    *)
(* One of them at a time holds its claim; only the holder stores or        *)
(* discards objects, and its manifest is accepted once every object the    *)
(* manifest names holds the very bytes that publisher stored.  What has    *)
(* been accepted is never touched again.                                   *)
(*                                                                         *)
(* BronzePublish, SilverPublish and GoldPublish implement this module.     *)
(***************************************************************************)
CONSTANTS Publishers,  \* invocations of a stage publisher
          Runs,        \* immutable run identities
          Objects,     \* the objects one manifest names
          Nobody       \* "no publisher"

VARIABLES claim,     \* claim[r]: the publisher that holds r's claim
          stored,    \* stored[r][o]: the publisher whose bytes object o holds
          accepted   \* accepted[r]: the publisher whose manifest is visible

vars == <<claim, stored, accepted>>

Nothing == [o \in Objects |-> Nobody]

Init == /\ claim = [r \in Runs |-> Nobody]
        /\ stored = [r \in Runs |-> Nothing]
        /\ accepted = [r \in Runs |-> Nobody]

-----------------------------------------------------------------------------
(* A holder still working on its run: it has the claim and has not yet had *)
(* its manifest accepted.                                                  *)
Working(p, r) == claim[r] = p /\ accepted[r] # p

Claim(p, r) ==
    /\ claim[r] = Nobody
    /\ claim' = [claim EXCEPT ![r] = p]
    /\ UNCHANGED <<stored, accepted>>

Store(p, r, o) ==
    /\ Working(p, r)
    /\ stored' = [stored EXCEPT ![r][o] = p]
    /\ UNCHANGED <<claim, accepted>>

Discard(p, r, o) ==
    /\ Working(p, r)
    /\ stored' = [stored EXCEPT ![r][o] = Nobody]
    /\ UNCHANGED <<claim, accepted>>

Accept(p, r) ==
    /\ Working(p, r)
    /\ accepted[r] = Nobody
    /\ \A o \in Objects : stored[r][o] = p
    /\ accepted' = [accepted EXCEPT ![r] = p]
    /\ UNCHANGED <<claim, stored>>

(* A publisher gives a run up only after discarding all it stored there;   *)
(* one that stops without doing so keeps the claim for ever.               *)
Release(p, r) ==
    /\ Working(p, r)
    /\ \A o \in Objects : stored[r][o] # p
    /\ claim' = [claim EXCEPT ![r] = Nobody]
    /\ UNCHANGED <<stored, accepted>>

Next == \E p \in Publishers, r \in Runs :
            \/ Claim(p, r)
            \/ Accept(p, r)
            \/ Release(p, r)
            \/ \E o \in Objects : Store(p, r, o) \/ Discard(p, r, o)

Spec == Init /\ [][Next]_vars

-----------------------------------------------------------------------------
TypeOK == /\ claim \in [Runs -> Publishers \cup {Nobody}]
          /\ stored \in [Runs -> [Objects -> Publishers \cup {Nobody}]]
          /\ accepted \in [Runs -> Publishers \cup {Nobody}]

(* An accepted manifest names only objects its own publisher stored, so    *)
(* the checksums it records are those of the bytes on disk.                *)
AcceptedIsComplete ==
    \A r \in Runs : accepted[r] # Nobody =>
        \A o \in Objects : stored[r][o] = accepted[r]

(* Acceptance is final: neither the manifest nor an object it names is     *)
(* withdrawn or replaced by any later step.                                *)
AcceptedIsFinal ==
    [][\A r \in Runs : accepted[r] # Nobody =>
          accepted'[r] = accepted[r] /\ stored'[r] = stored[r]]_vars
=============================================================================
