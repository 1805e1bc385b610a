------------------------------- MODULE MCScan -------------------------------
(* A small instance of SourceScan: a payment of one deal, and a transaction  *)
(* that pays for two.                                                        *)
EXTENDS SourceScan

CONSTANTS one, both, first, second

MCLogs == [t \in Txs |-> IF t = one THEN <<first>> ELSE <<first, second>>]
=============================================================================
