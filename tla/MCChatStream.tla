---------------------------- MODULE MCChatStream ----------------------------
(***************************************************************************)
(* Model checking of ChatStream.  Three requests are enough for a holder,  *)
(* a waiter and one more in another process; a lock that is evicted needs  *)
(* a fourth, on another thread.                                            *)
(* Requests, threads and workers are interchangeable.                      *)
(***************************************************************************)
EXTENDS ChatStream, TLC

Symmetry == Permutations(Requests) \cup Permutations(Threads) \cup Permutations(Workers)
=============================================================================
