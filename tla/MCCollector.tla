---------------------------- MODULE MCCollector ----------------------------
(* A small instance of Collector.  One unit of time is 30 seconds.         *)
EXTENDS Collector

\* The second item's point of the middle instant is no number.
Unparsable == {<<2, 1>>}
=============================================================================
