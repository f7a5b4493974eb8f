------------------------- MODULE MCEncryptedIoQueue -------------------------
(* EncryptedIoQueue for TLC: symmetric requests and the sets of operations. *)
EXTENDS EncryptedIoQueue, TLC

Op(write, first, last) == [write |-> write, first |-> first, last |-> last,
                           misaligned |-> FALSE]
Misaligned(first) == [write |-> FALSE, first |-> first, last |-> first,
                      misaligned |-> TRUE]

\* Under a hold: a write of a sector that is being transformed, a read of it by
\* the main thread, and reads that make the I/O thread read it ahead.
FilterOps == {Op(TRUE, 1, 1), Misaligned(1), Op(FALSE, 0, 0), Op(FALSE, 1, 1)}
\* Requests of one and two fragments; sector 0 may be protected.
AllOps == {Op(TRUE, 0, 1), Op(TRUE, 1, 1), Op(FALSE, 0, 1)}
\* One of two fragments, to exhaust the pools.
FewOps == {Op(TRUE, 0, 1), Op(FALSE, 0, 0)}

Symmetry == Permutations(Irps)
=============================================================================
