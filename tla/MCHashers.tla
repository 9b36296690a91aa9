----------------------------- MODULE MCHashers -----------------------------
(* A flooded realm, and another, share a few hashers.                      *)
EXTENDS Hashers

\* HashingShares::new: half the hashers for a realm, a quarter for a network.
\* Sign-ins from an IPv6 network and from an IPv4 address, which no network
\* is counted for, of two realms; and an administrator who creates a person of
\* the first (directory/create.rs), who does not ask before taking a share.
MCKeys == {"realm1", "realm2", "net1"}
MCKeysOf ==
  [c \in Calls |-> CASE c = 1 -> {"realm1", "net1"}
                     [] c = 2 -> {"realm1"}
                     [] c = 3 -> {"realm2", "net1"}
                     [] OTHER -> {"realm1"}]
MCLimit == [k \in MCKeys |-> IF k = "net1" THEN Part(Workers, 4) ELSE Part(Workers, 2)]
=============================================================================
