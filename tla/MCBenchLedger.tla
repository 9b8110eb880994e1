---------------------------- MODULE MCBenchLedger ----------------------------
(* Runs of the commands over two paths and one key with two nonces.  Of    *)
(* the four keystream blocks a counter has, a request asks for one or two; *)
(* one request would wrap.  No two runs of a command differ but in name.   *)
EXTENDS BenchLedger, TLC

CONSTANTS f1, f2, k1, n1, n2

New(mode, length, counter, out, key, nonce) ==
  [mode |-> mode, length |-> length, counter |-> counter, output |-> out,
   key |-> key, random_key |-> mode = "aes-128-ctr" /\ key = None,
   nonce |-> nonce, registry |-> TRUE]

Sym == Permutations(Proc)
MCPath == {f1, f2}
MCKey == {k1}
MCNonce == {n1, n2}
MCRequests ==
  {New("aes-128-ctr", 2, 0, f1, k1, n1), New("aes-128-ctr", 3, 2, f2, None, None),
   New("aes-128-ctr", 3, 3, f1, k1, n2), New("baseline", 2, 0, f2, None, None)}
=============================================================================
