---------------------------- MODULE MCProviderHealth ----------------------------
(* Small instances of ProviderHealth for TLC. *)
EXTENDS ProviderHealth, TLC

CONSTANTS p1, p2, vrs, hltv, f1, f2

MCOneProvider == <<p1>>
MCTwoProviders == <<p1, p2>>
MCOneFeed == f1 :> hltv
\* The Valve ranking is fetched by a free job and a paid one.
MCSharedFeed == (f1 :> vrs) @@ (f2 :> vrs)
=============================================================================
