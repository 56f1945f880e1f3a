------------------------------ MODULE MCGoldQuery ------------------------------
(* Two publishers of one run, a traffic or a freshness run, and a reader   *)
(* that is a call of the adapter or a session.                             *)
EXTENDS GoldQuery

CONSTANTS a, b, adapter, session, traffic, freshness

MCPublishers == {a, b}

MCAdapters == {adapter}

MCSessions == {session}

MCRuns == {traffic, freshness}

MCFreshness == {freshness}

(* Publishers of different runs share no file.                             *)
MCInit == QueryInit /\ \E r \in Runs : /\ run = [p \in Publishers |-> r]
                                     /\ asked = [q \in Readers |-> r]

MCSpec == MCInit /\ [][QueryNext]_queryVars /\ Fairness
=============================================================================
