------------------------------- MODULE MCSync -------------------------------
(* Two machines that send to each other; h1 is in a multicast group, too, *)
(* and hears its own datagrams.                                           *)
EXTENDS Sync, TLC

CONSTANTS h1, h2, a, ones, r1, r2

MCSyncHosts == (h1 :> {h2}) @@ (h2 :> {h1})
MCSpamTraps == (h1 :> {}) @@ (h2 :> {r2})
MCForeign   == {<<h1, a, r1>>}
MCBindTo    == (h1 :> "iface") @@ (h2 :> "addr")
=============================================================================
