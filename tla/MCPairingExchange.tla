-------------------------- MODULE MCPairingExchange --------------------------
\* Instances of PairingExchange for TLC: the handles of connections are alike.
EXTENDS PairingExchange, TLC

Alike == Permutations(Exchanges)
=============================================================================
