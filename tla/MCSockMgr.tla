------------------------------ MODULE MCSockMgr ------------------------------
(* SockMgr for TLC.  Objects and buffers are interchangeable.                *)
EXTENDS SockMgr, TLC

Symmetry == Permutations(Handle) \cup Permutations(Overlapped)
=============================================================================
